------------------------ MODULE CodeAnalyzerBuilder ------------------------
(***************************************************************************)
(* rg3py.CodeAnalyzer (PyBind/source/PyCodeAnalyzerBuilder.cpp) over       *)
(* rg3::llvm::CodeAnalyzer (LLVM/source/CodeAnalyzer.cpp): one source, one *)
(* configuration, and an analyze() that a script may call again and again. *)
(* Every call runs under the GIL from its first line to its last, so an    *)
(* operation is one step.                                                  *)
(*                                                                         *)
(* Each analysis binds a new list of types and of issues, while the map    *)
(* that resolves parents and the detected environment live on from one     *)
(* analysis to the next.  An analyze() left by an exception of the         *)
(* environment detection has changed nothing: a stuttering step.           *)
(***************************************************************************)
EXTENDS Integers, Sequences, Functions

CONSTANTS
    Names,            \* pretty names of types
    Sources,          \* source texts and source files
    Options,          \* standard, arguments and include directories
    Definitions,      \* the lists scripts pass as compiler definitions
    Envs, NoEnv,      \* compiler environments, none detected yet
    Issues,           \* compiler issues
    EnvironmentIssue, \* the issue that says that no environment was found
    MaxAnalyses,      \* bound: analyses in a behaviour
    AnalysisOf(_, _, _) \* what clang reports for a source, config and env

Kinds == {"none", "trivial", "enum", "class"}
TypeDecls == [name : Names, kind : Kinds, parents : SUBSET Names]
\* Definitions are a list a script passed, or the part of it before an element
\* that is no string.
Prefixes(list) == {SubSeq(list, 1, n) : n \in 0..Len(list)}
Configs == [deep : BOOLEAN, nonRuntime : BOOLEAN, options : Options,
            defs : {<<>>} \cup UNION {Prefixes(list) : list \in Definitions}]
Outputs == [types : Seq(TypeDecls), issues : Seq(Issues)]

ASSUME BuilderAssumption ==
    /\ EnvironmentIssue \in Issues
    /\ NoEnv \notin Envs
    /\ MaxAnalyses \in Nat
    /\ \A s \in Sources, c \in Configs, e \in Envs : AnalysisOf(s, c, e) \in Outputs

\* A source gives a name to types of one kind only.
ASSUME OneKindAssumption ==
    \A s \in Sources, c \in Configs, e \in Envs :
        LET types == AnalysisOf(s, c, e).types
        IN  \A i, j \in DOMAIN types : types[i].name = types[j].name => types[i].kind = types[j].kind

VARIABLES
    source,      \* m_source
    config,      \* m_compilerConfig
    env,         \* CodeAnalyzer::m_env
    foundTypes,  \* every list m_foundTypes was bound to, the current one last
    foundIssues, \* the same for m_foundIssues
    typeMap,     \* m_mFoundTypesMap
    links        \* PyClassParent::m_pClassType of every object: child and parent

vars == <<source, config, env, foundTypes, foundIssues, typeMap, links>>
results == <<env, foundTypes, foundIssues, typeMap, links>>

Init ==
    /\ source \in Sources
    /\ config \in {[deep |-> FALSE, nonRuntime |-> FALSE, options |-> o, defs |-> <<>>] : o \in Options}
    /\ env = NoEnv
    /\ foundTypes = << <<>> >>
    /\ foundIssues = << <<>> >>
    /\ typeMap = [n \in {} |-> n]
    /\ links = {}

-----------------------------------------------------------------------------
(* The setters *)

SetSource ==
    /\ source' \in Sources
    /\ UNCHANGED <<config, results>>

\* setCppStandard, setCompilerArgs, setCompilerIncludeDirs: the new value is
\* complete before it is stored; addIncludeDir leads to another value, too.
SetCompilerOptions ==
    /\ \E o \in Options : config' = [config EXCEPT !.options = o]
    /\ UNCHANGED <<source, results>>

\* The old definitions are gone before an element that is no string raises.
SetCompilerDefinitions ==
    /\ \E list \in Definitions : \E reached \in Prefixes(list) :
          config' = [config EXCEPT !.defs = reached]
    /\ UNCHANGED <<source, results>>

SetAllowToCollectNonRuntimeTypes ==
    /\ \E b \in BOOLEAN : config' = [config EXCEPT !.nonRuntime = b]
    /\ UNCHANGED <<source, results>>

SetUseDeepAnalysis ==
    /\ \E b \in BOOLEAN : config' = [config EXCEPT !.deep = b]
    /\ UNCHANGED <<source, results>>

-----------------------------------------------------------------------------
(* analyze() *)

\* The Python objects the n-th analysis makes for what was reported.
Object(decl, e, n, i) == [decl |-> decl, env |-> e, analysis |-> n, at |-> i]
ObjectsOfOldEnvironment(decls, n) == [i \in DOMAIN decls |-> Object(decls[i], env, n, i)]
Objects(decls, n) == [i \in DOMAIN decls |-> Object(decls[i], env', n, i)]

Named(list, name) == {i \in DOMAIN list : list[i].decl.name = name}
LastNamed(list, name) == list[CHOOSE i \in Named(list, name) : \A j \in Named(list, name) : j <= i]
NamesIn(list) == {o.decl.name : o \in Range(list)}

\* m_mFoundTypesMap[name] = object, in the order of the list
OnlyNewKept(list) == [n \in NamesIn(list) |-> LastNamed(list, n)]
FirstKept(list) ==
    [n \in DOMAIN typeMap \cup NamesIn(list) |->
        IF n \in DOMAIN typeMap THEN typeMap[n] ELSE LastNamed(list, n)]
LastKept(list) ==
    [n \in DOMAIN typeMap \cup NamesIn(list) |->
        IF n \in NamesIn(list) THEN LastNamed(list, n) ELSE typeMap[n]]

SameReference(l, m) == l.child = m.child /\ l.parent.decl.name = m.parent.decl.name

\* The classes of the map, whichever analysis they are from, are linked to the
\* objects that now have the names of their parents.
Resolved(map) ==
    UNION {{[child |-> o, parent |-> map[p]] : p \in o.decl.parents \cap DOMAIN map} :
              o \in {x \in Range(map) : x.decl.kind = "class"}}
Relinked(new) == new \cup {l \in links : \A m \in new : ~SameReference(l, m)}

Report(out) ==
    LET list == Objects(out.types, Len(foundTypes) + 1)
    IN  /\ foundTypes' = Append(foundTypes, list)
        /\ foundIssues' = Append(foundIssues, out.issues)
        /\ typeMap' = LastKept(list)
        /\ links' = IF config.deep THEN Relinked(Resolved(typeMap')) ELSE links
        /\ UNCHANGED <<source, config>>

EveryTime == TRUE
NeedsEnvironment == env = NoEnv

Analyze ==
    /\ Len(foundTypes) <= MaxAnalyses
    /\ IF NeedsEnvironment THEN env' \in Envs ELSE env' = env
    /\ Report(AnalysisOf(source, config, env'))

\* Detection failed: an issue and no type, and the next analysis tries again.
AnalyzeWithoutEnvironment ==
    /\ Len(foundTypes) <= MaxAnalyses
    /\ NeedsEnvironment
    /\ env' = env
    /\ Report([types |-> <<>>, issues |-> <<EnvironmentIssue>>])

-----------------------------------------------------------------------------
Next ==
    \/ SetSource \/ SetCompilerOptions \/ SetCompilerDefinitions
    \/ SetAllowToCollectNonRuntimeTypes \/ SetUseDeepAnalysis
    \/ Analyze \/ AnalyzeWithoutEnvironment

Spec == Init /\ [][Next]_vars

-----------------------------------------------------------------------------
(* Properties *)

Current(lists) == lists[Len(lists)]
TypeObjects == [decl : TypeDecls, env : Envs, analysis : Nat, at : Nat]

\* The shape of the state.
TypeOK ==
    /\ source \in Sources
    /\ config \in Configs
    /\ env \in Envs \cup {NoEnv}
    /\ foundTypes \in Seq(Seq(TypeObjects)) /\ Len(foundTypes) <= MaxAnalyses + 1
    /\ foundIssues \in Seq(Seq(Issues)) /\ Len(foundIssues) = Len(foundTypes)
    /\ DOMAIN typeMap \subseteq Names
    /\ \A n \in DOMAIN typeMap : typeMap[n] \in TypeObjects /\ typeMap[n].decl.name = n
    /\ links \subseteq [child : TypeObjects, parent : TypeObjects]

\* No class is ever linked to a parent that was found with another compiler
\* environment, although the map mixes the types of all analyses: the environment
\* is detected once (CodeAnalyzer.cpp:90-102, PyCodeAnalyzerBuilder.cpp:153-184).
LinksOfOneEnvironment == \A l \in links : l.child.env = env /\ l.parent.env = env

Analysed == Len(foundTypes') > Len(foundTypes)
ParentsWithin(list, o) ==
    \A p \in o.decl.parents \cap NamesIn(list) :
        \E l \in links : l.child = o /\ l.parent.decl.name = p /\ l.parent \in Range(list)
ClassesLinked(list) ==
    LET classes == {o \in Range(list) : o.decl.kind = "class"}
    IN  \A o \in classes : \E twin \in classes :
            twin.decl.name = o.decl.name /\ ParentsWithin(list, twin)
\* After a deep analysis every class in the new list has an object there whose
\* parents are objects of the new list wherever that list has their names, never
\* the ones an earlier analysis left in the map (PyCodeAnalyzerBuilder.cpp:115-184).
NewestLinks == [][Analysed /\ config.deep => ClassesLinked(Current(foundTypes))']_vars

\* The objects of all analyses; the newest of a name is the one that the last
\* analysis to report the name reported last.
EverFound(lists) == UNION {Range(list) : list \in Range(lists)}
Newer(o, p) == o.analysis > p.analysis \/ (o.analysis = p.analysis /\ o.at > p.at)
IsNewest(lists, o) ==
    /\ o \in EverFound(lists)
    /\ \A p \in EverFound(lists) : p.decl.name = o.decl.name => ~Newer(p, o)
FollowTheirParents ==
    \A o, p \in EverFound(foundTypes) :
        /\ IsNewest(foundTypes, o) /\ o.decl.kind = "class"
        /\ IsNewest(foundTypes, p) /\ p.decl.name \in o.decl.parents
        => [child |-> o, parent |-> p] \in links
\* After a deep analysis the newest object of each class is linked to the newest
\* object of each of its parents, whichever analyses found the two: a class that is
\* no longer reported follows a parent that is, and a class reported now still has a
\* parent that was last reported long ago (PyCodeAnalyzerBuilder.cpp:115-184).
ClassesFollowTheirParents == [][Analysed /\ config.deep => FollowTheirParents']_vars
=============================================================================
