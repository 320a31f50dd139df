---------------------------- MODULE MCTypeModel ----------------------------
(***************************************************************************)
(* Small instances of TypeModel: every pair of tags over texts that are    *)
(* read in each of the possible ways, and pairs of types that agree in     *)
(* all, in some or in none of what is compared.                            *)
(***************************************************************************)
EXTENDS TypeModel

Text(word, integer, float) ==
    [word |-> word, integer |-> integer, float |-> float, empty |-> FALSE, at |-> FALSE]

Blank == [word |-> "", integer |-> "none", float |-> "none", empty |-> TRUE, at |-> FALSE]
Reference == [word |-> "@ref", integer |-> "none", float |-> "none", empty |-> FALSE, at |-> TRUE]
FewTexts == {
    Text("7", "all", "all"), Text("0x10", "part", "all"), Text("word", "none", "none"), Blank,
    Text("99999999999999999999", "range", "all")}
ManyTexts == FewTexts \cup {
    Reference, Text("true", "none", "none"), Text("7 ", "part", "part"), Text("1.5", "part", "all"),
    Text("nan", "none", "all"), Text("1e99", "part", "range")}

\* One tag with up to two texts; two tags, which may have the same name.
TagNames == {"one", "runtime"}
Single(texts) == {<<[name |-> n, texts |-> t]>> : n \in TagNames, t \in SeqOf(texts, 2)}
Pairs == {<<[name |-> n, texts |-> <<t>>], [name |-> o, texts |-> <<u>>]>> :
             n, o \in TagNames, t, u \in FewTexts}
Comments == {<<>>} \cup Single(ManyTexts) \cup Pairs

Additional == {NoTags, "one" :> <<Argument("AT_BOOL", Text("false", "none", "none"))>>}
NoTypes == <<>>
TagCases == [comment : Comments, route : {"declared", "field"}, additional : {NoTags}, types : {NoTypes}]
            \cup [comment : Comments, route : {"registered"}, additional : Additional, types : {NoTypes}]

Type(kind, name, flag, members, path, angled) ==
    [kind |-> kind, name |-> name, flag |-> flag, members |-> members, path |-> path, angled |-> angled]

\* Two types of a name and every kind: a header that is analysed twice, one that was
\* edited in between, and a registration that overrides the location.
Trivials == {Type("TK_TRIVIAL", n, FALSE, <<>>, p, a) :
                n \in {"int", "S"}, p \in {"a.h", "b.h"}, a \in BOOLEAN}
Classes == {Type("TK_STRUCT_OR_CLASS", "S", f, m, p, FALSE) :
                f \in BOOLEAN, m \in {<<>>, <<"x">>}, p \in {"a.h", "b.h"}}
Enums == {Type("TK_ENUM", "S", f, m, "a.h", FALSE) : f \in BOOLEAN, m \in {<<"x">>, <<"y", "x">>}}
TypeCases(types) ==
    [comment : {<<>>}, route : {"declared"}, additional : {NoTags}, types : {<<t, u>> : t, u \in types}]

AllCases == TagCases \cup TypeCases(Trivials \cup Classes \cup Enums)
EqualClasses == TypeCases(Classes)
=============================================================================
