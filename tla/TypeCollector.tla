--------------------------- MODULE TypeCollector ---------------------------
(***************************************************************************)
(* How the types of a translation unit are found (LLVM/source/Visitors):   *)
(* CxxRouterVisitor walks every declaration; for a class it starts a       *)
(* CxxClassTypeVisitor and for the template behind an alias or a           *)
(* registration a CxxTemplateSpecializationVisitor, which walk the         *)
(* declarations below that one on their own.  A visit that returns false   *)
(* ends the whole walk it belongs to.                                      *)
(*                                                                         *)
(* A unit lists its declarations in the order of the walk, each with its   *)
(* nesting depth.  Namespaces, base classes, friends, locations and all    *)
(* tags but @runtime are left out: they are copied.                        *)
(***************************************************************************)
EXTENDS TypeStatements, Filtering, FiniteSets, Functions

CONSTANTS
    Units,     \* translation units
    NonRuntime \* the values of bAllowCollectNonRuntimeTypes to look at

Builtin == 0     \* the target of an alias or registration of a builtin type
NoTarget == -1   \* a registration without "using Type = ..."
Containers == {"class", "template"}
Definable == Containers \cup {"enum"}
\* "template" stands for a class template and the record in it; "registration"
\* for a specialization with the annotation RG3_RegisterRuntime.
Kinds == Containers \cup {"enum", "constant", "alias", "registration", "field", "method"}
Decls == [kind : Kinds, name : STRING, depth : Nat,
          tagged : BOOLEAN,           \* has @runtime in its comment
          complete : BOOLEAN,         \* of a type: isCompleteDefinition; of a
                                      \* method: isUserProvided
          type : Types,               \* of a field; what a method returns
          params : Seq(Types),        \* of a method
          target : Int,               \* of an alias or registration
          names : Seq(STRING),        \* of the parameters of a template
          arguments : Seq(Types \cup {Value}), \* of a target that is a template
          known : SUBSET STRING,      \* RG3_RegisterField, RG3_RegisterFunction
          trivial : BOOLEAN]          \* RG3_MakeTypeTrivial

\* What a compiler lets pass: a member or a type in another declaration is in the
\* definition of a class, a registration in none; types of one name in one place are
\* of one kind and defined once; and the target of an alias or a registration is a
\* type declared before, with no more arguments than it has parameters.  Clang keeps
\* the arguments of a specialization without the names of typedefs.
IsMemberOf(u, c, d) ==
    /\ u[c].kind \in Containers /\ u[c].complete /\ u[c].depth < u[d].depth
    /\ \A i \in (c + 1)..(d - 1) : u[i].depth >= u[d].depth
IsBeside(u, c, d) ==
    /\ u[c].depth = u[d].depth
    /\ \A i \in c..(d - 1) : u[i].depth >= u[d].depth
IsLegal(u, d) ==
    /\ u[d].depth <= IF d = 1 THEN 0 ELSE u[d - 1].depth + 1
    /\ u[d].kind = "registration" => u[d].depth = 0
    /\ u[d].kind \in {"field", "method"} \/ (u[d].kind \in Definable /\ u[d].depth # 0) =>
          \E c \in 1..(d - 1) : IsMemberOf(u, c, d)
    /\ \A c \in 1..(d - 1) :
          {u[c].kind, u[d].kind} \subseteq Definable /\ u[c].name = u[d].name /\ IsBeside(u, c, d) =>
              u[c].kind = u[d].kind /\ ~(u[c].complete /\ u[d].complete)
    /\ u[d].kind \in {"alias", "registration"} =>
          \/ u[d].target = Builtin
          \/ u[d].kind = "registration" /\ u[d].target = NoTarget
          \/ /\ u[d].target \in 1..(d - 1)
             /\ u[u[d].target].kind \in Definable \cup {"alias"}
             /\ u[u[d].target].kind # "alias" =>
                   Len(u[d].arguments) <= Len(u[u[d].target].names)
    /\ u[d].kind # "template" => u[d].names = <<>>
    /\ \A i \in DOMAIN u[d].arguments :
          u[d].arguments[i] # Value => u[d].arguments[i].alias = NoAlias

ASSUME CollectorAssumption ==
    /\ NonRuntime \subseteq BOOLEAN
    /\ \A u \in Units :
          /\ u \in Seq(Decls)
          /\ \A d \in DOMAIN u : IsLegal(u, d)

VARIABLES
    unit,       \* the translation unit
    nonRuntime, \* m_compilerConfig.bAllowCollectNonRuntimeTypes
    at,         \* the declaration the router is at
    inner,      \* the visitor the router has started, if any
    found       \* m_vFoundTypes

vars == <<unit, nonRuntime, at, inner, found>>

-----------------------------------------------------------------------------
(* The tree of declarations *)

Smallest(S) == CHOOSE i \in S : \A j \in S : i <= j
Largest(S) == CHOOSE i \in S : \A j \in S : j <= i

\* The last declaration below d, the one that encloses it (0: none), all of them.
End(d) == Smallest({j \in (d + 1)..Len(unit) : unit[j].depth <= unit[d].depth} \cup {Len(unit) + 1}) - 1
Up(d) == Largest({i \in 1..(d - 1) : unit[i].depth < unit[d].depth} \cup {0})
Below(d) == (d + 1)..End(d)
Above(d) == {i \in 1..(d - 1) : d \in Below(i)}

\* getNamePrettyNameAndNamespaceForNamedDecl: the enclosing names and its own
Path(d) ==
    LET path[i \in 0..Len(unit)] == IF i = 0 THEN <<>> ELSE Append(path[Up(i)], unit[i].name)
    IN  path[d]

Templated(d) == \E i \in Above(d) \cup {d} : unit[i].kind = "template"

\* What is behind a chain of aliases.
Canonical(t) ==
    LET behind[i \in 0..Len(unit)] ==
            IF i # Builtin /\ unit[i].kind = "alias" THEN behind[unit[i].target] ELSE i
    IN  behind[t]

\* A type names the definition of its class or enum if the unit has one.
Definitions(t) ==
    {d \in DOMAIN unit : unit[d].kind = unit[t].kind /\ unit[d].complete /\ Path(d) = Path(t)}
Definition(t) ==
    IF t = Builtin \/ Definitions(t) = {} THEN t ELSE Smallest(Definitions(t))

\* The constructor of CxxTemplateSpecializationVisitor, for the specialization at
\* the end of a chain of aliases that begins at d.
Instantiated(d) ==
    LET last[i \in 0..Len(unit)] ==
            IF unit[i].target \in 1..(i - 1) /\ unit[unit[i].target].kind = "alias"
              THEN last[unit[i].target] ELSE i
        written == unit[last[d]]
    IN  InstantiatedTypes(unit[written.target].names, written.arguments)

-----------------------------------------------------------------------------
(* The visitors of one type *)

NoVisitor == [by |-> "none"]
\* taken: the record that became the type; filter: knownProperties and -Functions
Visitor(by, root, allow, filter) ==
    [by |-> by, root |-> root, at |-> root, allow |-> allow, filter |-> filter,
     taken |-> 0, members |-> <<>>]

\* A ClassProperty or ClassFunction: its declaration, its type and its arguments;
\* named: with their names and whether they have a default value.
Argument(statement, named) == [type |-> statement, named |-> named]
Member(m, statement, arguments) == [decl |-> m, type |-> statement, params |-> arguments]
AsWritten(m) ==
    Member(m, Fill(unit[m].type),
           [i \in DOMAIN unit[m].params |-> Argument(Fill(unit[m].params[i]), TRUE)])

WantedAnyway(d, allow) == unit[d].complete
WantedIncomplete(d, allow) == unit[d].tagged \/ allow
Wanted(d, allow) == unit[d].complete /\ (unit[d].tagged \/ allow)

\* VisitFieldDecl and VisitCXXMethodDecl: a member counts as the class's own if
\* the simple name of its parent is the name of the class, which has the names
\* of the enclosing classes in it; a name the class has already is not added.
IsMember(m) == unit[m].kind \in {"field", "method"}
Named(members, m) == \E i \in DOMAIN members : unit[members[i].decl].kind = unit[m].kind
                                              /\ unit[members[i].decl].name = unit[m].name
FromAnywhere(class, m) == TRUE
IsOurs(class, m) == <<unit[Up(m)].name>> = Path(class)
WithMember(class, members, m) ==
    IF IsOurs(class, m) /\ ~Named(members, m) /\ unit[m].complete
        THEN Append(members, AsWritten(m)) ELSE members

\* The record visits its fields, then its methods, before the walk gets there.
InOrder(decls) == Kept([d \in DOMAIN unit |-> d], decls)
ByKind(class, kind) == InOrder({m \in Below(class) : unit[m].kind = kind /\ Up(m) = class})
OwnMembers(class) ==
    LET visited == ByKind(class, "field") \o ByKind(class, "method")
        members[n \in 0..Len(visited)] ==
            IF n = 0 THEN <<>> ELSE WithMember(class, members[n - 1], visited[n])
    IN  members[Len(visited)]
LeftToTheWalk(class) == <<>>
Collected(class) == OwnMembers(class)

Stopped(v) == [v EXCEPT !.at = End(v.root) + 1]
Past(v) == [v EXCEPT !.at = @ + 1]

\* CxxClassTypeVisitor: the first record that is wanted becomes the type, and the
\* next one, wanted or not, ends the walk.
TakeRecord(v) ==
    IF v.taken # 0 THEN Stopped(v)
    ELSE IF ~Wanted(v.at, v.allow) THEN Past(v)
    ELSE [Past(v) EXCEPT !.taken = v.at, !.members = Collected(v.at)]
TakeMember(v) ==
    IF v.taken = 0 THEN Past(v)
    ELSE [Past(v) EXCEPT !.members = WithMember(v.taken, @, v.at)]

\* VisitFieldDecl and VisitCXXMethodDecl of the template: what depends on no
\* parameter is filled in as written.  In a method that depends on one, the type
\* to return must be one it can resolve, and the arguments that depend on one are
\* resolved like it.
DependentMember(m) ==
    \E t \in {unit[m].type} \cup Range(unit[m].params) : Dependent(t)
ArgumentOf(m, t, given) ==
    IF Dependent(t) THEN Argument(Resolve(Fill(t), unit[m].type, given), FALSE)
    ELSE Argument(Fill(t), TRUE)
Specialized(m, given) ==
    IF ~DependentMember(m) THEN AsWritten(m)
    ELSE Member(m, Resolve(Fill(unit[m].type), unit[m].type, given),
                [i \in DOMAIN unit[m].params |-> ArgumentOf(m, unit[m].params[i], given)])
Readable(m, given) == DependentMember(m) => Resolvable(unit[m].type, given)

\* CxxTemplateSpecializationVisitor always runs with bAllowCollectNonRuntimeTypes.
\* It adds members on the walk only, overloads too, and those it cannot resolve
\* the type of are left out.
TakeTemplateRecord(v) ==
    IF v.taken # 0 THEN Stopped(v)
    ELSE IF ~unit[v.at].complete THEN Past(v)
    ELSE [Past(v) EXCEPT !.taken = v.at]
TakeTemplateMember(v) ==
    IF v.taken # 0 /\ unit[v.at].name \in v.filter /\ Readable(v.at, Instantiated(at))
      THEN [Past(v) EXCEPT !.members = Append(@, Specialized(v.at, Instantiated(at)))]
      ELSE Past(v)

\* The step of the walk for the declaration it is at.
Visited(v) ==
    LET isRecord == unit[v.at].kind \in Containers
    IN  CASE v.by = "class" /\ isRecord -> TakeRecord(v)
          [] v.by = "class" /\ IsMember(v.at) -> TakeMember(v)
          [] v.by = "template" /\ isRecord -> TakeTemplateRecord(v)
          [] v.by = "template" /\ IsMember(v.at) -> TakeTemplateMember(v)
          [] OTHER -> Past(v)

Visit ==
    /\ inner.by # "none" /\ inner.at <= End(inner.root)
    /\ inner' = Visited(inner)
    /\ UNCHANGED <<unit, nonRuntime, at, found>>

-----------------------------------------------------------------------------
(* The router *)

\* owner: the sOwnerClassName of the functions; runtime: it has the tag.
Found(kind, name, members, owner, flags, runtime) ==
    [kind |-> kind, name |-> name, members |-> members, owner |-> owner, flags |-> flags,
     runtime |-> runtime, by |-> at]

\* m_flags: from a template, from an alias, declared inside another type. A name
\* with "::" in it is that of a nested type.
AsDeclared(d) == {}
Nested(d) == IF Len(Path(d)) > 1 THEN {"nested"} ELSE {}
FromAlias == {"alias"}
FlagsOf(v) == IF v.by = "template" THEN {"template"} ELSE Nested(v.taken)

\* Every Visit of the router returns true: it goes on below the declaration.
AfterSubtree == End(at) + 1
NextDecl == at + 1

Report(types) == found' = found \o types /\ at' = NextDecl /\ inner' = NoVisitor
Start(v) == inner' = v /\ UNCHANGED <<found, at>>
AtKind(kind) == inner.by = "none" /\ at <= Len(unit) /\ unit[at].kind = kind

\* VisitEnumDecl and VisitEnumConstantDecl: an enum with its constants
Constants(e) == InOrder({c \in Below(e) : unit[c].kind = "constant"})
Enum(e) == Found("enum", Path(e), Constants(e), <<>>, Nested(e), unit[e].tagged)
EnumOfAlias(e) ==
    Found("enum", Path(at), Constants(e), <<>>, Nested(e) \cup FromAlias, unit[at].tagged)

\* VisitCXXRecordDecl
VisitClass ==
    /\ AtKind("class")
    /\ IF Templated(at) THEN Report(<<>>) ELSE Start(Visitor("class", at, nonRuntime, {}))
    /\ UNCHANGED <<unit, nonRuntime>>

VisitEnum ==
    /\ AtKind("enum")
    /\ Report(IF Wanted(at, nonRuntime) THEN <<Enum(at)>> ELSE <<>>)
    /\ UNCHANGED <<unit, nonRuntime>>

Target == Definition(Canonical(unit[at].target))
TargetKind == IF Target = Builtin THEN "builtin" ELSE unit[Target].kind

\* VisitTypedefNameDecl: an alias with a tag becomes a type of its own; the
\* template behind one is read without properties and functions.
VisitAlias ==
    /\ AtKind("alias")
    /\ IF ~(unit[at].tagged \/ nonRuntime) \/ TargetKind = "builtin" THEN Report(<<>>)
       ELSE IF TargetKind = "enum"
         THEN Report(IF Wanted(Target, TRUE) THEN <<EnumOfAlias(Target)>> ELSE <<>>)
       ELSE IF TargetKind = "template" /\ ~unit[Target].complete THEN Report(<<>>)
       ELSE Start(Visitor(TargetKind, Target, TRUE, {}))
    /\ UNCHANGED <<unit, nonRuntime>>

\* handleAnnotationBasedType reads what is behind the aliases as it is. On the way
\* back every alias renames it and the functions that belong to it; the alias finds
\* it by the index that the next type was going to have (iKnownTypes).
RenamedBy(alias, f) ==
    [f EXCEPT !.name = Path(alias), !.flags = @ \cup FromAlias,
              !.owner = IF f.kind = "class" /\ @ = f.name THEN Path(alias) ELSE @]
NamedByAll(f) ==
    LET named[i \in 0..Len(unit)] ==
            IF i # Builtin /\ unit[i].kind = "alias" THEN RenamedBy(i, named[unit[i].target]) ELSE f
    IN  named[unit[at].target]
LastType == Len(found)
NextType == Len(found) + 1
WithNames(types) == [types EXCEPT ![NextType] = NamedByAll(@)]

\* The runtime tag goes to the last type, m_vFoundTypes.back().
WithTag(types) == [types EXCEPT ![Len(types)].runtime = TRUE]

Register(f) ==
    /\ found' = WithTag(WithNames(Append(found, f)))
    /\ at' = NextDecl /\ inner' = NoVisitor

\* RG3_MakeTypeTrivial takes the name as it is written.
WrittenName == IF unit[at].target = Builtin THEN <<"int">> ELSE Path(unit[at].target)

HandleAnnotationBasedType ==
    IF unit[at].trivial
      THEN Report(WithTag(<<Found("trivial", WrittenName, <<>>, <<>>, {}, FALSE)>>))
    ELSE IF TargetKind = "builtin"
      THEN Register(Found("trivial", <<"int">>, <<>>, <<>>, {}, TRUE))
    ELSE IF TargetKind = "enum"
      THEN IF Wanted(Target, TRUE) THEN Register(Enum(Target)) ELSE Report(<<>>)
    ELSE IF TargetKind = "template" /\ ~unit[Target].complete THEN Report(<<>>)
    ELSE Start(Visitor(TargetKind, Target, TRUE, unit[at].known))

\* VisitCXXRecordDecl of a specialization that is annotated
VisitRegistration ==
    /\ AtKind("registration")
    /\ IF unit[at].target = NoTarget THEN Report(<<>>) ELSE HandleAnnotationBasedType
    /\ UNCHANGED <<unit, nonRuntime>>

\* ExtraPropertiesFilter and ExtraFunctionsFilter
Unfiltered(members, known) == members
Filtered(members, known) == Kept(members, {m \in Range(members) : unit[m.decl].name \in known})

\* An alias keeps the owner of the functions. The arguments in the name of an
\* instance of a template are left out.
TypeOf(v) ==
    CASE unit[at].kind = "alias" ->
            Found("class", Path(at), v.members, Path(v.taken), FlagsOf(v) \cup FromAlias,
                  unit[at].tagged)
      [] unit[at].kind = "registration" ->
            Found("class", Path(v.taken), Filtered(v.members, unit[at].known), Path(v.taken),
                  FlagsOf(v), unit[v.taken].tagged)
      [] OTHER -> Found("class", Path(v.taken), v.members, Path(v.taken), FlagsOf(v),
                        unit[v.taken].tagged)

\* A registered class that is nowhere defined becomes a type without name.
Nameless == Found("class", <<>>, <<>>, <<>>, {}, FALSE)

Finish ==
    /\ inner.by # "none" /\ inner.at > End(inner.root)
    /\ IF unit[at].kind = "registration"
         THEN Register(IF inner.taken # 0 THEN TypeOf(inner) ELSE Nameless)
         ELSE Report(IF inner.taken # 0 THEN <<TypeOf(inner)>> ELSE <<>>)
    /\ UNCHANGED <<unit, nonRuntime>>

Skip ==
    /\ \E kind \in {"template", "constant", "field", "method"} : AtKind(kind)
    /\ Report(<<>>)
    /\ UNCHANGED <<unit, nonRuntime>>

-----------------------------------------------------------------------------
Init ==
    /\ unit \in Units
    /\ nonRuntime \in NonRuntime
    /\ at = 1
    /\ inner = NoVisitor
    /\ found = <<>>

Next ==
    \/ VisitClass \/ VisitEnum \/ VisitAlias \/ VisitRegistration \/ Skip
    \/ Visit \/ Finish

Spec == Init /\ [][Next]_vars
-----------------------------------------------------------------------------
(* Properties *)

Done == inner.by = "none" /\ at > Len(unit)
FoundBy(d) == {i \in DOMAIN found : found[i].by = d}
DeclsOf(members) == {members[i].decl : i \in DOMAIN members}
MembersOf(class) ==
    {m \in Below(class) : IsMember(m) /\ Up(m) = class
                            /\ (unit[class].kind = "class" => unit[m].complete)}
NamesOf(decls) == {unit[m].name : m \in decls}

\* The shape of the state.
TypeOK ==
    /\ at \in 1..(Len(unit) + 1)
    /\ inner.by \in {"none", "class", "template"}
    /\ inner.by # "none" =>
          /\ unit[inner.root].kind = inner.by /\ unit[inner.root].kind \in Containers
          /\ inner.at \in inner.root..(End(inner.root) + 1)
          /\ inner.taken \in {0, inner.root} \cup Below(inner.root)
          /\ \A i \in DOMAIN inner.members : inner.members[i].decl \in Below(inner.taken)
    /\ \A i \in DOMAIN found :
          /\ found[i].kind \in {"class", "enum", "trivial"}
          /\ found[i].flags \subseteq {"template", "alias", "nested"}
          /\ found[i].runtime \in BOOLEAN
          /\ found[i].by \in 1..(at - 1)

\* Every class and enum that asks for it is reported when its own turn comes,
\* however deep it is nested and wherever the walks of the classes around it
\* were stopped (CxxRouterVisitor.cpp:25-140, CxxClassTypeVisitor.cpp:39-63).
AskedFor(d) ==
    /\ unit[d].kind \in {"class", "enum"} /\ Wanted(d, nonRuntime)
    /\ unit[d].kind = "class" => ~Templated(d)
EveryTaggedReported ==
    Done => \A d \in DOMAIN unit : AskedFor(d) => \E i \in FoundBy(d) : found[i].name = Path(d)

\* A type without tag is reported only for an alias or a registration that asks
\* for it: reading one for them never lets another through, not even from inside
\* the class (CxxRouterVisitor.cpp:142-324, 477-721).
NothingUnasked ==
    \A i \in DOMAIN found :
        LET visited == found[i].by
        IN  \/ nonRuntime \/ unit[visited].tagged \/ unit[visited].kind = "registration"
            \/ \E d \in Below(visited) : unit[d].tagged /\ found[i].name = Path(d)

\* A class that is not nested has, each once, all of its fields and of its methods
\* of a name the one declared first, though a nested class ends the walk before the
\* members behind it are reached; it has no member of another class and none of the
\* other overloads (CxxClassTypeVisitor.cpp:137-147, 154, 196, 255-274).
SameName(m, n) == unit[m].kind = unit[n].kind /\ unit[m].name = unit[n].name
FirstOfTheirName(members) == {m \in members : \A n \in members : SameName(n, m) => m <= n}
OwnMembersComplete ==
    \A i \in DOMAIN found :
        LET f == found[i]
        IN  unit[f.by].kind = "class" /\ f.name = Path(f.by) /\ Len(f.name) = 1 =>
              /\ DeclsOf(f.members) = FirstOfTheirName(MembersOf(f.by))
              /\ Cardinality(DeclsOf(f.members)) = Len(f.members)

\* A class is reported once unless it is nested in one that is not reported:
\* neither its forward declarations nor the walks of the classes around it
\* report it again (CxxClassTypeVisitor.cpp:41-45, CxxRouterVisitor.cpp:34-61).
ReportedOnce ==
    Done => \A d \in DOMAIN unit :
        AskedFor(d) /\ (\A a \in Above(d) : AskedFor(a)) =>
            Cardinality({i \in DOMAIN found :
                found[i].name = Path(d) /\ unit[found[i].by].kind \in {"class", "enum"}}) = 1

\* A registration adds one type, which has the runtime tag: the index the renaming
\* uses and the end of the list the tag goes to are the same type. It has the name of
\* the alias it was written with, through any chain of aliases, the functions belong
\* to that name, and of the members only those asked for are left: all of them, if
\* the type is a class or template with nothing nested, but those of an unreadable
\* type (CxxRouterVisitor.cpp:412-475, 587-774).
ReadableOf(class, d) ==
    {m \in MembersOf(class) : unit[class].kind = "template" => Readable(m, Instantiated(d))}
Registered(d) ==
    \E i \in FoundBy(d) :
        LET f == found[i]
            named == Definition(Canonical(unit[d].target))
        IN  /\ FoundBy(d) = {i} /\ f.runtime
            /\ unit[d].target # Builtin => f.name = Path(unit[d].target)
            /\ f.kind = "class" => f.owner = f.name /\ NamesOf(DeclsOf(f.members)) \subseteq unit[d].known
            /\ f.kind = "class" /\ Len(Path(named)) = 1
                 /\ (\A b \in Below(named) : unit[b].kind \notin Containers) =>
                     NamesOf(DeclsOf(f.members)) = unit[d].known \cap NamesOf(ReadableOf(named, d))
RegistrationsAsAsked ==
    Done => \A d \in DOMAIN unit :
        unit[d].kind = "registration" /\ unit[d].target # NoTarget
          /\ (LET t == Definition(Canonical(unit[d].target))
              IN  t = Builtin \/ unit[t].complete) => Registered(d)

\* A type is offered for a forward declaration only if the unit has a class or enum
\* of its name that is neither nested nor a template, and always then, unless an alias
\* has that name, too: through no chain of aliases does an alias, a nested type or an
\* instance of a template get offered. Left out is the type without name that the
\* registration of a class nowhere defined adds: its flags would let it be offered
\* (TypeBase.cpp:77-89, CxxRouterVisitor.cpp:59, 235, 273, 314, 442, 649).
IsForwardDeclarable(f) == f.flags = {} /\ f.kind \in {"class", "enum"}
DeclaredForward(name) ==
    \E d \in DOMAIN unit : unit[d].kind \in {"class", "enum"} /\ unit[d].depth = 0 /\ Path(d) = name
IsAlias(name) == \E d \in DOMAIN unit : unit[d].kind = "alias" /\ Path(d) = name
OffersForwardDeclarations ==
    \A i \in DOMAIN found :
        LET f == found[i]
        IN  f.name # <<>> /\ f.kind # "trivial" =>
              /\ IsForwardDeclarable(f) => DeclaredForward(f.name)
              /\ DeclaredForward(f.name) => IsForwardDeclarable(f) \/ IsAlias(f.name)

\* What a member is reported to be, read back from the name and the flags, is its
\* type in C++, with the parameters of a template replaced by their arguments, if
\* no pointer of the template meets a pointer, a reference or a const of the
\* argument: so for what a method takes, too, unless it is of another parameter
\* than what it returns (Utils.cpp:205-262,
\* CxxTemplateSpecializationVisitor.cpp:160-186, 264-348, 379-420).
Simple(t, given) ==
    t.kind = "parameter" =>
        /\ t.name \in DOMAIN given
        /\ IF Plain(t) THEN ~(t.const /\ Is(given[t.name], "reference"))
           ELSE Plain(given[t.name]) /\ ~given[t.name].const
Desugared(t) == IF Plain(t) THEN t ELSE [t EXCEPT !.alias = NoAlias]
SaysType(statement, t, given) ==
    Simple(t, given) => Restored(statement) = Desugared(Substituted(t, given))
SameParameter(m, t) ==
    Dependent(t) => t.kind = "parameter" /\ t.name = unit[m].type.name /\ Len(t.layers) <= 1
MembersSayTheirType ==
    \A n \in DOMAIN found : found[n].kind = "class" =>
        LET f == found[n]
            given == IF unit[f.by].kind = "registration" THEN Instantiated(f.by) ELSE <<>>
        IN  \A i \in DOMAIN f.members :
              LET m == f.members[i]
              IN  /\ SaysType(m.type, unit[m.decl].type, given)
                  /\ \A p \in DOMAIN m.params :
                        LET t == unit[m.decl].params[p]
                        IN  SameParameter(m.decl, t) => SaysType(m.params[p].type, t, given)

-----------------------------------------------------------------------------
(* What a comment says and the code does not do *)

\* "For arg type: cxxMethodDecl->parameters()[i]->getType()->
\* isTemplateTypeParmType()" (CxxTemplateSpecializationVisitor.cpp:239): what a
\* method takes is resolved from its own type.
ArgumentsSayTheirType ==
    \A n \in DOMAIN found : found[n].kind = "class" /\ unit[found[n].by].kind = "registration" =>
        LET given == Instantiated(found[n].by)
        IN  \A i \in DOMAIN found[n].members :
              LET m == found[n].members[i]
              IN  \A p \in DOMAIN m.params :
                    LET t == unit[m.decl].params[p]
                    IN  Resolvable(t, given) => SaysType(m.params[p].type, t, given)

\* "Ignore this field, it's not our" (CxxClassTypeVisitor.cpp:156)
IgnoredFieldsAreForeign ==
    \A i \in DOMAIN found :
        LET f == found[i]
        IN  unit[f.by].kind = "class" /\ f.name = Path(f.by) =>
              \A m \in MembersOf(f.by) : unit[m].kind = "field" => m \in DeclsOf(f.members)
=============================================================================
