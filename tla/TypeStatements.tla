--------------------------- MODULE TypeStatements ---------------------------
(***************************************************************************)
(* How the type of a member is put into a TypeStatement: the name of what  *)
(* it is made of, and a flag for a pointer or reference around it          *)
(* (LLVM/source/Utils.cpp), and how a template's parameter in it is        *)
(* replaced by its argument (CxxTemplateSpecializationVisitor.cpp).        *)
(*                                                                         *)
(* A C++ type is what it is made of and the pointers and references around *)
(* it, the outermost last.  alias is the name it was written with, if that *)
(* is the name of a typedef; an alias of what a pointer points at and all  *)
(* places of definition are left out.                                      *)
(***************************************************************************)
EXTENDS Integers, Sequences, SequencesExt

\* "opaque": an enum without a definition; "parameter": one of a template;
\* "dependent": anything else that depends on one, as Vector<T>.
BaseKinds == {"class", "specialization", "enum", "opaque", "builtin", "parameter", "dependent"}
NoAlias == ""
Layers == [kind : {"pointer", "reference"}, const : BOOLEAN]
Types == [alias : STRING \cup {NoAlias}, kind : BaseKinds, name : STRING, const : BOOLEAN,
          layers : Seq(Layers)]

Plain(t) == t.layers = <<>>
Is(t, kind) == ~Plain(t) /\ Last(t.layers).kind = kind
IsConst(t) == IF Plain(t) THEN t.const ELSE Last(t.layers).const
WithConst(t, const) ==
    IF Plain(t) THEN [t EXCEPT !.const = const]
    ELSE [t EXCEPT !.layers[Len(t.layers)].const = const]
Unqualified(t) == WithConst(t, FALSE)
Pointee(t) == [t EXCEPT !.layers = Front(@), !.alias = NoAlias]
Dependent(t) == t.kind \in {"parameter", "dependent"}

\* getQualTypeBaseInfo: the kind of type it knows the name and the definition of.
NoInfo == "none"
KindNamed(t) ==
    CASE t.kind \in {"class", "specialization"} -> "class"
      [] t.kind \in {"enum", "opaque"} -> "enum"
      [] OTHER -> "trivial"
BaseInfo(t) ==
    IF t.alias # NoAlias THEN IF Plain(t) THEN KindNamed(t) ELSE "trivial"
    ELSE IF Plain(t) /\ ~Dependent(t) /\ t.kind # "opaque" THEN KindNamed(t)
    ELSE NoInfo

\* fillTypeStatementFromQualType: const is about the type itself, ptrConst about
\* what it points at; the names of more than one pointer are one text.
ConstOfNamed(t) == t.const
ConstOf(t) == IsConst(t)
Fill(t) ==
    LET named == Unqualified(IF Plain(t) THEN t ELSE Pointee(t))
    IN  [names |-> named, info |-> BaseInfo(named),
         const |-> ConstOf(t),
         pointer |-> Is(t, "pointer"), reference |-> Is(t, "reference"),
         ptrConst |-> ~Plain(t) /\ IsConst(Pointee(t)),
         specialization |-> Plain(t) /\ t.kind = "specialization"]

\* The visitor's map from the names of the type parameters to the arguments; an
\* argument that is a value is not in it.
Value == [value |-> TRUE]
IsType(a) == a # Value
InstantiatedTypes(names, arguments) ==
    LET types == {i \in DOMAIN arguments : IsType(arguments[i])}
    IN  [n \in {names[i] : i \in types} |-> arguments[CHOOSE i \in types : names[i] = n]]

\* tryResolveTemplateType: of the type of the member, no more than one pointer is
\* looked through, and then it has to be a parameter.
BehindPointer(t) == IF t.alias = NoAlias /\ Is(t, "pointer") THEN Pointee(t) ELSE t
Resolvable(t, instantiated) ==
    LET stub == BehindPointer(t)
    IN  stub.alias = NoAlias /\ Plain(stub) /\ stub.kind = "parameter"
          /\ stub.name \in DOMAIN instantiated

\* The name is the argument's, the flags are those of both.
ArgumentOnly(argument, statement) == argument
Both(argument, statement) == argument \/ statement
Resolve(statement, t, instantiated) ==
    LET target == Fill(instantiated[BehindPointer(t).name])
    IN  [target EXCEPT !.const = Both(@, statement.const),
                       !.pointer = Both(@, statement.pointer),
                       !.reference = Both(@, statement.reference),
                       !.ptrConst = Both(@, statement.ptrConst),
                       !.specialization = Both(@, statement.specialization)]

-----------------------------------------------------------------------------
(* What a statement should say *)

\* The type a reader takes a statement for.
Restored(s) ==
    IF s.pointer \/ s.reference
      THEN [WithConst(s.names, s.ptrConst) EXCEPT
              !.layers = Append(@, [kind |-> IF s.pointer THEN "pointer" ELSE "reference",
                                    const |-> s.const])]
      ELSE WithConst(s.names, s.const)

\* The type C++ gives a member when its parameter is replaced: a reference to a
\* reference is one, and a reference is never const itself.
Substituted(t, instantiated) ==
    IF t.kind # "parameter" THEN t
    ELSE LET argument == instantiated[t.name]
             inside == IF Is(argument, "reference") THEN argument
                       ELSE WithConst(argument, IsConst(argument) \/ t.const)
             around == IF Is(argument, "reference") /\ ~Plain(t) /\ t.layers[1].kind = "reference"
                         THEN Tail(t.layers) ELSE t.layers
         IN  [inside EXCEPT !.layers = @ \o around]
=============================================================================
