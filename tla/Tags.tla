-------------------------------- MODULE Tags --------------------------------
(***************************************************************************)
(* Tags: "@name(argument, ...)" in a comment (Cpp/source/Tag.cpp and       *)
(* TagArgument.cpp).  A Tags object is a function from names to sequences  *)
(* of arguments.  What the regular expression finds is given here: a       *)
(* sequence of tags, each with the texts between its commas.  A text is    *)
(* what std::stoll and std::stof make of it once its leading spaces and    *)
(* its quotes are gone.                                                    *)
(***************************************************************************)
EXTENDS Integers, Sequences, SequencesExt

\* "all": every character is part of the number; "part": a number and more;
\* "none": no number (invalid_argument); "range": too large (out_of_range).
Readings == {"all", "part", "none", "range"}
Texts ==
    {t \in [word : STRING, integer : Readings, float : Readings,
            empty : BOOLEAN,   \* nothing but leading spaces and quotes
            at : BOOLEAN] :    \* begins with '@'
        t.integer = "all" => t.float = "all"} \* 64 bits are in the range of a float
Written == [name : STRING, texts : Seq(Texts)]

ArgumentTypes == {"AT_I64", "AT_FLOAT", "AT_BOOL", "AT_TYPEREF", "AT_STRING"}
Arguments == [type : ArgumentTypes, word : STRING]
Argument(type, text) == [type |-> type, word |-> text.word]

\* Only invalid_argument is caught; the float is read if the integer was not all.
Raises(text, uncaught) ==
    /\ ~text.empty
    /\ text.integer \in uncaught \/ (text.integer # "all" /\ text.float \in uncaught)
NothingCaught(text) == Raises(text, {"none", "range"})
OutOfRange(text) == Raises(text, {"range"})

\* What one text adds: the first reading that fits ends the attempt.
Word(text) ==
    IF text.word \in {"true", "false"} THEN "AT_BOOL" ELSE IF text.at THEN "AT_TYPEREF" ELSE "AT_STRING"
Undefined(text) == IF text.integer = "all" THEN "AT_I64" ELSE "AT_UNDEFINED"
TypeOfText(text) ==
    IF text.integer = "all" THEN "AT_I64" ELSE IF text.float = "all" THEN "AT_FLOAT" ELSE Word(text)
GoesOn(text) ==
    (IF text.integer = "all" THEN <<Argument("AT_I64", text)>> ELSE <<>>)
    \o <<Argument(IF text.float = "all" THEN "AT_FLOAT" ELSE Word(text), text)>>
Added(text) == <<Argument(TypeOfText(text), text)>>

\* Tags(vector) and operator+: the later one of a name is kept; operator+=: the
\* one that is there.
NoTags == [name \in {} |-> <<>>]
Later(tags, others) ==
    [name \in DOMAIN tags \cup DOMAIN others |-> IF name \in DOMAIN others THEN others[name] ELSE tags[name]]
Earlier(tags, others) ==
    [name \in DOMAIN tags \cup DOMAIN others |-> IF name \in DOMAIN tags THEN tags[name] ELSE others[name]]
Overridden(tags, others) == Later(tags, others)
AddedTo(tags, others) == Earlier(tags, others)
OneTag(name, arguments) == [n \in {name} |-> arguments]
Tag(name) == OneTag(name, <<>>)
=============================================================================
