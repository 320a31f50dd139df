------------------------------ MODULE TypeModel ------------------------------
(***************************************************************************)
(* A type as a script sees it (Cpp/source/TypeBase.cpp, TypeClass.cpp,     *)
(* TypeEnum.cpp, PyTypeBase.cpp): the tags it has once its comment is read *)
(* and its registration has added others, its hash and its comparison with *)
(* other types.  Comparing is a chain of calls, one of them virtual.       *)
(***************************************************************************)
EXTENDS Tags, Filtering, FiniteSets

CONSTANTS
    Cases,   \* what the tags come from and the types that are compared
    MaxDepth \* calls that are followed

\* Where tags come from: a declaration with a comment, one that is registered by
\* an annotation as well, a field of a template that is registered.
Routes == {"declared", "registered", "field"}
\* The flag says if a class is a struct, if an enum is scoped; members are its
\* entries or its properties and functions; angled belongs to the location.
Types == [kind : {"TK_TRIVIAL", "TK_ENUM", "TK_STRUCT_OR_CLASS"}, name : STRING, flag : BOOLEAN,
          members : Seq(STRING), path : STRING, angled : BOOLEAN]

ASSUME ModelAssumption ==
    /\ MaxDepth \in Nat
    /\ \A c \in Cases :
          /\ c.comment \in Seq(Written) /\ c.route \in Routes
          /\ DOMAIN c.additional \subseteq STRING
          /\ \A n \in DOMAIN c.additional : c.additional[n] \in Seq(Arguments)
          /\ c.types \in Seq(Types)

VARIABLES
    given,    \* the case
    tag,      \* the tag of the comment that is read, and the text in it
    text,
    values,   \* tagArguments: what was read of this tag
    read,     \* what was read of those before it, as Tags(tags) will keep it
    raised,   \* out_of_range has left parseFromCommentString
    tags,     \* m_tags of the type; NoTags before the comment was read
    stack,    \* the calls of a comparison, the innermost last
    answers   \* what scripts were told: <<one, other, answer>>

reading == <<tag, text, values, read, raised, tags>>
vars == <<given, reading, stack, answers>>

Comment == given.comment

-----------------------------------------------------------------------------
(* Reading a comment *)

\* The loop over the arguments of one tag.
ReadText ==
    /\ ~raised /\ tag <= Len(Comment) /\ text <= Len(Comment[tag].texts)
    /\ LET t == Comment[tag].texts[text]
       IN  /\ raised' = OutOfRange(t)
           /\ values' = IF t.empty \/ OutOfRange(t) THEN values ELSE values \o Added(t)
    /\ text' = text + 1
    /\ UNCHANGED <<given, tag, read, tags, stack, answers>>

FinishTag ==
    /\ ~raised /\ tag <= Len(Comment) /\ text > Len(Comment[tag].texts)
    /\ read' = Overridden(read, OneTag(Comment[tag].name, values))
    /\ tag' = tag + 1 /\ text' = 1 /\ values' = <<>>
    /\ UNCHANGED <<given, raised, tags, stack, answers>>

\* What the visitor of the declaration adds.
Runtime == Tag("runtime")
Extra ==
    CASE given.route = "declared" -> NoTags
      [] given.route = "registered" -> AddedTo(given.additional, Runtime)
      [] given.route = "field" -> Tag("property")
FinishComment ==
    /\ ~raised /\ tag = Len(Comment) + 1
    /\ tags' = AddedTo(read, Extra)
    /\ tag' = tag + 1
    /\ UNCHANGED <<given, text, values, read, raised, stack, answers>>

Collected == tag = Len(Comment) + 2

-----------------------------------------------------------------------------
(* Comparing types *)

Call(function, one, other) == [function |-> function, one |-> one, other |-> other]
Top == stack[Len(stack)]
One == given.types[Top.one]
Other == given.types[Top.other]
Enter(call) == Len(stack) < MaxDepth /\ stack' = Append(stack, call) /\ UNCHANGED answers
\* Every caller returns what it is returned.
Return(answer) ==
    stack' = <<>> /\ answers' = answers \cup {<<stack[1].one, stack[1].other, answer>>}

\* PyTypeBase::__eq__
Compare(i, j) ==
    /\ Collected /\ stack = <<>>
    /\ Enter(Call("areSame", i, j))
    /\ UNCHANGED <<given, reading>>

AreSame ==
    /\ stack # <<>> /\ Top.function = "areSame"
    /\ Enter(Call("doAreSame", Top.one, Top.other))
    /\ UNCHANGED <<given, reading>>

\* TypeBase::doAreSame; the name has the namespace in it. getID takes the same, but
\* not whether the location is an angled one.
SameNames == One.kind = Other.kind /\ One.name = Other.name
SameData == SameNames /\ One.path = Other.path /\ One.angled = Other.angled
Id(t) == <<t.kind, t.name, t.path>>

\* TypeClass::doAreSame and TypeEnum::doAreSame
SameMembers == One.kind = Other.kind /\ One.flag = Other.flag /\ One.members = Other.members
DoAreSame ==
    /\ stack # <<>> /\ Top.function = "doAreSame"
    /\ IF One.kind = "TK_TRIVIAL" THEN Return(SameData)
       ELSE IF ~SameMembers THEN Return(FALSE)
       ELSE Enter(Call("areSame", Top.one, Top.other))
    /\ UNCHANGED <<given, reading>>

-----------------------------------------------------------------------------
Init ==
    /\ given \in Cases
    /\ tag = 1 /\ text = 1 /\ values = <<>> /\ read = NoTags
    /\ raised = FALSE /\ tags = NoTags
    /\ stack = <<>> /\ answers = {}

Next ==
    \/ ReadText \/ FinishTag \/ FinishComment
    \/ \E i, j \in DOMAIN given.types : Compare(i, j)
    \/ AreSame \/ DoAreSame

Spec == Init /\ [][Next]_vars
-----------------------------------------------------------------------------
(* Properties *)

\* The shape of the state.
TypeOK ==
    /\ tag \in 1..(Len(Comment) + 2) /\ text \in Nat
    /\ values \in Seq(Arguments)
    /\ raised \in BOOLEAN
    /\ DOMAIN read \subseteq STRING /\ \A n \in DOMAIN read : read[n] \in Seq(Arguments)
    /\ DOMAIN tags \subseteq STRING \cup {"runtime", "property"}
    /\ \A n \in DOMAIN tags : tags[n] \in Seq(Arguments)
    /\ Len(stack) <= MaxDepth
    /\ answers \subseteq (DOMAIN given.types) \X (DOMAIN given.types) \X BOOLEAN

\* Of a tag that is written more than once the last one counts, with one value
\* for each text that is not empty, in their order; what the annotations of a
\* registration or the collector add never replaces what the comment says
\* (Tag.cpp:93-155, 163-169, 198-219, CxxRouterVisitor.cpp:771-774,
\* CxxTemplateSpecializationVisitor.cpp:203-208).
LastOf(name) == CHOOSE i \in DOMAIN Comment :
                 /\ Comment[i].name = name
                 /\ \A j \in DOMAIN Comment : Comment[j].name = name => j <= i
Full == {t \in Texts : ~t.empty}
Meant(texts) == Kept(texts, Full)
TagsAsWritten ==
    Collected =>
        /\ DOMAIN tags = {Comment[i].name : i \in DOMAIN Comment} \cup DOMAIN Extra
        /\ \A i \in DOMAIN Comment :
              LET name == Comment[i].name
                  texts == Meant(Comment[LastOf(name)].texts)
              IN  /\ Len(tags[name]) = Len(texts)
                  /\ \A k \in DOMAIN texts : tags[name][k] = Argument(TypeOfText(texts[k]), texts[k])
        /\ given.route = "registered" =>
              \A n \in DOMAIN given.additional \ {Comment[i].name : i \in DOMAIN Comment} :
                  tags[n] = given.additional[n]

\* Reading ends early for a number that does not fit, and for nothing else: a text
\* that is no number at all is one of the ordinary cases. Nothing of a comment is
\* passed over: either every text of it was understood or the reading was ended
\* (Tag.cpp:112-137).
TooLarge == {t \in UNION {Range(Comment[i].texts) : i \in DOMAIN Comment} :
                ~t.empty /\ "range" \in {t.integer, t.float}}
RaisedByNumbersOnly ==
    /\ raised => TooLarge # {}
    /\ Collected => TooLarge = {}

\* Where comparing two types answers, they are equal only if a set or a dict of a
\* script would find one with the hash of the other, and the answer does not
\* depend on which one is asked (PyTypeBase.cpp:53-72, TypeBase.cpp:41-46).
EqualTypesHashAlike ==
    \A a \in answers :
        /\ a[3] => Id(given.types[a[1]]) = Id(given.types[a[2]])
        /\ <<a[2], a[1], ~a[3]>> \notin answers

-----------------------------------------------------------------------------
(* What the stubs say and the code does not do *)

\* "def __eq__(self, other) -> bool" (PyBind/rg3py.pyi:160): a comparison that
\* comes back to a call it is in never answers.
ComparisonsAnswer ==
    \A i, j \in DOMAIN stack : i # j => stack[i] # stack[j]
=============================================================================
