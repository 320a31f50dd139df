--------------------- MODULE CodeAnalyzerBuilder_proofs ---------------------
(***************************************************************************)
(* Theorems about CodeAnalyzerBuilder, for all sources, configurations,    *)
(* environments and types, and any number of analyses.                     *)
(***************************************************************************)
EXTENDS CodeAnalyzerBuilder, WellFoundedInduction, TLAPS

-----------------------------------------------------------------------------
(* The last object of a name in a list *)

\* A set of indexes of a list that is not empty has a largest element.
LEMMA LargestIndex ==
    ASSUME NEW n \in Nat, NEW S \in SUBSET (1..n), S # {}
    PROVE  \E i \in S : \A j \in S : j <= i
<1> DEFINE R == OpToRel(<, Nat)
<1> DEFINE T == {n - i : i \in S}
<1>1. IsWellFoundedOn(R, Nat) BY NatLessThanWellFounded
<1>2. T \subseteq Nat /\ T # {}
  <2>1. \A i \in S : i \in 1..n /\ n - i \in Nat OBVIOUS
  <2> QED BY <2>1, Zenon
<1>3. \A x, y \in Nat : x < y => <<x, y>> \in R BY DEF OpToRel
<1> HIDE DEF R, T
<1>4. PICK x \in T : \A y \in T : ~(<<y, x>> \in R) BY <1>1, <1>2, WFMin
<1>5. \A y \in T : ~(y < x) BY <1>2, <1>3, <1>4
<1>6. PICK i \in S : x = n - i BY <1>4 DEF T
<1>7. \A j \in S : ~(n - j < n - i) BY <1>5, <1>6 DEF T
<1> QED BY <1>7

\* So LastNamed finds an object of the list, of that name, and none behind it.
LEMMA LastOfName ==
    ASSUME NEW S, NEW list \in Seq(S), NEW name \in NamesIn(list)
    PROVE  /\ LastNamed(list, name) \in Range(list)
           /\ LastNamed(list, name).decl.name = name
           /\ \E i \in DOMAIN list : /\ LastNamed(list, name) = list[i]
                                    /\ \A j \in Named(list, name) : j <= i
<1>1. Named(list, name) # {} /\ Named(list, name) \in SUBSET (1..Len(list))
  BY DEF NamesIn, Named, Range
<1>2. \E i \in Named(list, name) : \A j \in Named(list, name) : j <= i
  <2>1. Len(list) \in Nat OBVIOUS
  <2> QED BY <1>1, <2>1, LargestIndex, Zenon
<1>3. PICK i \in Named(list, name) :
         LastNamed(list, name) = list[i] /\ \A j \in Named(list, name) : j <= i
  BY <1>2 DEF LastNamed
<1> QED BY <1>3 DEF Named, Range

-----------------------------------------------------------------------------
(* What an analysis adds *)

\* The objects of an analysis have the environment of that analysis.
LEMMA ObjectsTyped ==
    ASSUME NEW decls \in Seq(TypeDecls), NEW n \in Nat, env' \in Envs \/ decls = <<>>
    PROVE  /\ Objects(decls, n) \in Seq(TypeObjects)
           /\ \A o \in Range(Objects(decls, n)) : o.env = env'
<1>1. \A i \in DOMAIN decls : Object(decls[i], env', n, i) \in TypeObjects
  <2> SUFFICES ASSUME NEW i \in DOMAIN decls PROVE Object(decls[i], env', n, i) \in TypeObjects
    OBVIOUS
  <2>1. i \in Nat /\ decls[i] \in TypeDecls /\ env' \in Envs OBVIOUS
  <2> QED BY <2>1 DEF Object, TypeObjects
<1>2. Objects(decls, n) \in [1..Len(decls) -> TypeObjects]
  BY <1>1 DEF Objects
<1>3. \A i \in DOMAIN decls : Objects(decls, n)[i].env = env' BY DEF Objects, Object
<1>4. DOMAIN Objects(decls, n) = DOMAIN decls BY DEF Objects
<1> QED BY <1>2, <1>3, <1>4 DEF Range

MapTyped ==
    /\ DOMAIN typeMap \subseteq Names
    /\ \A n \in DOMAIN typeMap : typeMap[n] \in TypeObjects /\ typeMap[n].decl.name = n

\* The new map has every name of the old map and of the list, with an object of
\* that name, and one of the list wherever it has one.
LEMMA LastKeptTyped ==
    ASSUME MapTyped, NEW list \in Seq(TypeObjects)
    PROVE  /\ DOMAIN LastKept(list) = DOMAIN typeMap \cup NamesIn(list)
           /\ DOMAIN LastKept(list) \subseteq Names
           /\ \A n \in DOMAIN LastKept(list) :
                /\ LastKept(list)[n] \in TypeObjects /\ LastKept(list)[n].decl.name = n
                /\ LastKept(list)[n] \in Range(typeMap) \cup Range(list)
                /\ n \in NamesIn(list) => LastKept(list)[n] \in Range(list)
<1>1. DOMAIN LastKept(list) = DOMAIN typeMap \cup NamesIn(list) BY DEF LastKept
<1>2. Range(list) \subseteq TypeObjects BY DEF Range
<1>3. NamesIn(list) \subseteq Names BY <1>2 DEF NamesIn, TypeObjects, TypeDecls
<1>4. ASSUME NEW n \in DOMAIN LastKept(list)
      PROVE  /\ LastKept(list)[n] \in TypeObjects /\ LastKept(list)[n].decl.name = n
             /\ LastKept(list)[n] \in Range(typeMap) \cup Range(list)
             /\ n \in NamesIn(list) => LastKept(list)[n] \in Range(list)
  <2>1. CASE n \in NamesIn(list)
    <3>1. LastKept(list)[n] = LastNamed(list, n) BY <1>1, <2>1 DEF LastKept
    <3>2. LastNamed(list, n) \in Range(list) /\ LastNamed(list, n).decl.name = n
      BY <2>1, LastOfName
    <3> QED BY <1>2, <3>1, <3>2
  <2>2. CASE n \notin NamesIn(list)
    <3>1. n \in DOMAIN typeMap /\ LastKept(list)[n] = typeMap[n] BY <1>1, <2>2 DEF LastKept
    <3> QED BY <2>2, <3>1 DEF MapTyped, Range
  <2> QED BY <2>1, <2>2
<1> QED BY <1>1, <1>3, <1>4, Zenon DEF MapTyped

\* References lead from a class of the map to objects of the map.
LEMMA ResolvedInMap ==
    ASSUME NEW map, NEW l \in Resolved(map)
    PROVE  l.child \in Range(map) /\ l.parent \in Range(map)
             /\ \E c, p : l = [child |-> c, parent |-> p]
BY DEF Resolved, Range

-----------------------------------------------------------------------------
(* Type correctness *)

\* An analysis keeps every type.
LEMMA ReportTypeOK ==
    ASSUME TypeOK, NEW out \in Outputs, env' \in Envs \/ (env' = env /\ out.types = <<>>),
           Len(foundTypes) <= MaxAnalyses, Report(out)
    PROVE  TypeOK'
<1> DEFINE list == Objects(out.types, Len(foundTypes) + 1)
<1>1. /\ source' \in Sources /\ config' \in Configs /\ env' \in Envs \cup {NoEnv}
  BY DEF TypeOK, Report
<1>2. out.types \in Seq(TypeDecls) /\ out.issues \in Seq(Issues) BY DEF Outputs
<1>3. foundTypes \in Seq(Seq(TypeObjects)) /\ foundIssues \in Seq(Seq(Issues))
      /\ Len(foundIssues) = Len(foundTypes) /\ Len(foundTypes) \in Nat
  BY DEF TypeOK
<1>4. list \in Seq(TypeObjects)
  <2>1. Len(foundTypes) + 1 \in Nat BY <1>3
  <2> QED BY <1>2, <2>1, ObjectsTyped
<1>5. foundTypes' = Append(foundTypes, list) /\ foundIssues' = Append(foundIssues, out.issues)
      /\ typeMap' = LastKept(list)
  BY DEF Report
<1> HIDE DEF list
<1>6. foundTypes' \in Seq(Seq(TypeObjects)) /\ Len(foundTypes') = Len(foundTypes) + 1
  <2> DEFINE Lists == Seq(TypeObjects)
  <2>1. foundTypes \in Seq(Lists) /\ list \in Lists BY <1>3, <1>4
  <2> HIDE DEF Lists
  <2>2. Append(foundTypes, list) \in Seq(Lists) /\ Len(Append(foundTypes, list)) = Len(foundTypes) + 1
    BY <2>1
  <2> QED BY <1>5, <2>2 DEF Lists
<1>7. foundIssues' \in Seq(Seq(Issues)) /\ Len(foundIssues') = Len(foundIssues) + 1
  <2> DEFINE Lists == Seq(Issues)
  <2>1. foundIssues \in Seq(Lists) /\ out.issues \in Lists BY <1>2, <1>3
  <2> HIDE DEF Lists
  <2>2. /\ Append(foundIssues, out.issues) \in Seq(Lists)
        /\ Len(Append(foundIssues, out.issues)) = Len(foundIssues) + 1
    BY <2>1
  <2> QED BY <1>5, <2>2 DEF Lists
<1>8. MapTyped'
  <2>1. MapTyped BY DEF TypeOK, MapTyped
  <2>2. /\ DOMAIN LastKept(list) \subseteq Names
        /\ \A n \in DOMAIN LastKept(list) :
              LastKept(list)[n] \in TypeObjects /\ LastKept(list)[n].decl.name = n
    BY <1>4, <2>1, LastKeptTyped
  <2> QED BY <1>5, <2>2 DEF MapTyped
<1>9. links' \subseteq [child : TypeObjects, parent : TypeObjects]
  <2>1. Range(typeMap') \subseteq TypeObjects BY <1>8 DEF MapTyped, Range
  <2>2. Resolved(typeMap') \subseteq [child : TypeObjects, parent : TypeObjects]
    BY <2>1, ResolvedInMap
  <2> QED BY <2>2 DEF Report, TypeOK, Relinked
<1>10. Len(foundTypes') <= MaxAnalyses + 1 /\ Len(foundIssues') = Len(foundTypes')
  BY <1>3, <1>6, <1>7, BuilderAssumption
<1> QED BY <1>1, <1>6, <1>7, <1>8, <1>9, <1>10 DEF TypeOK, MapTyped

\* Every reachable state has its type: what an analysis binds is a list of objects,
\* whatever clang reports (PyCodeAnalyzerBuilder.cpp:111-185).
THEOREM TypeCorrectness == Spec => []TypeOK
<1>1. Init => TypeOK
  <2> SUFFICES ASSUME Init PROVE TypeOK OBVIOUS
  <2>1. source \in Sources /\ config \in Configs /\ env = NoEnv
    <3>1. PICK o \in Options : config = [deep |-> FALSE, nonRuntime |-> FALSE, options |-> o, defs |-> <<>>]
      BY DEF Init
    <3> QED BY <3>1, Zenon DEF Init, Configs
  <2>2. foundTypes \in Seq(Seq(TypeObjects)) /\ foundIssues \in Seq(Seq(Issues))
        /\ Len(foundTypes) = 1 /\ Len(foundIssues) = 1
    BY DEF Init
  <2>3. DOMAIN typeMap = {} /\ links = {} BY DEF Init
  <2> QED BY <2>1, <2>2, <2>3, BuilderAssumption DEF TypeOK
<1>2. TypeOK /\ [Next]_vars => TypeOK'
  <2> SUFFICES ASSUME TypeOK, [Next]_vars PROVE TypeOK' OBVIOUS
  <2>1. CASE SetSource BY <2>1 DEF SetSource, TypeOK, results
  <2>2. CASE SetCompilerOptions BY <2>2 DEF SetCompilerOptions, TypeOK, results, Configs
  <2>3. CASE SetCompilerDefinitions BY <2>3 DEF SetCompilerDefinitions, TypeOK, results, Configs
  <2>4. CASE SetAllowToCollectNonRuntimeTypes
    BY <2>4 DEF SetAllowToCollectNonRuntimeTypes, TypeOK, results, Configs
  <2>5. CASE SetUseDeepAnalysis BY <2>5 DEF SetUseDeepAnalysis, TypeOK, results, Configs
  <2>6. CASE Analyze
    <3>1. env' \in Envs BY <2>6 DEF Analyze, NeedsEnvironment, TypeOK
    <3>2. AnalysisOf(source, config, env') \in Outputs BY <3>1, BuilderAssumption DEF TypeOK
    <3> QED BY <2>6, <3>1, <3>2, ReportTypeOK DEF Analyze
  <2>7. CASE AnalyzeWithoutEnvironment
    <3>1. [types |-> <<>>, issues |-> <<EnvironmentIssue>>] \in Outputs
      BY BuilderAssumption DEF Outputs
    <3> QED BY <2>7, <3>1, ReportTypeOK DEF AnalyzeWithoutEnvironment
  <2>8. CASE UNCHANGED vars BY <2>8 DEF vars, TypeOK
  <2> QED BY <2>1, <2>2, <2>3, <2>4, <2>5, <2>6, <2>7, <2>8 DEF Next
<1> QED BY <1>1, <1>2, PTL DEF Spec

-----------------------------------------------------------------------------
(* Links of one environment *)

\* The map holds objects of the environment in force only, and there are none
\* before one was detected: what makes LinksOfOneEnvironment inductive.
MapOfOneEnvironment ==
    /\ \A o \in Range(typeMap) : o.env = env
    /\ env = NoEnv => DOMAIN typeMap = {} /\ links = {}

EnvInv == MapOfOneEnvironment /\ LinksOfOneEnvironment

\* An analysis whose objects have the environment of the map adds no others.
LEMMA ReportEnvInv ==
    ASSUME TypeOK, EnvInv, NEW out \in Outputs, Report(out), Len(foundTypes) <= MaxAnalyses,
           \/ env' = env
           \/ env = NoEnv,
           env' \in Envs \/ (env' = env /\ out.types = <<>>)
    PROVE  EnvInv'
<1> DEFINE list == Objects(out.types, Len(foundTypes) + 1)
<1>1. list \in Seq(TypeObjects) /\ \A o \in Range(list) : o.env = env'
  <2>1. out.types \in Seq(TypeDecls) /\ Len(foundTypes) + 1 \in Nat BY DEF Outputs, TypeOK
  <2> QED BY <2>1, ObjectsTyped
<1>2. MapTyped BY DEF TypeOK, MapTyped
<1>3. typeMap' = LastKept(list) BY DEF Report
<1>4. \A o \in Range(typeMap) : o.env = env'
  BY DEF EnvInv, MapOfOneEnvironment, Range
<1>5. out.types = <<>> => NamesIn(list) = {} BY DEF NamesIn, Objects, Range
<1> HIDE DEF list
<1>6. \A o \in Range(typeMap') : o.env = env'
  <2>1. \A n \in DOMAIN LastKept(list) : LastKept(list)[n] \in Range(typeMap) \cup Range(list)
    BY <1>1, <1>2, LastKeptTyped
  <2> QED BY <1>1, <1>3, <1>4, <2>1 DEF Range
<1>7. \A l \in Resolved(typeMap') : l.child.env = env' /\ l.parent.env = env'
  BY <1>6, ResolvedInMap
<1>8. \A l \in links : l.child.env = env' /\ l.parent.env = env'
  BY DEF EnvInv, MapOfOneEnvironment, LinksOfOneEnvironment
<1>9. LinksOfOneEnvironment' BY <1>7, <1>8 DEF LinksOfOneEnvironment, Report, Relinked
<1>10. ASSUME env' = NoEnv PROVE DOMAIN typeMap' = {} /\ links' = {}
  <2>1. env = NoEnv /\ out.types = <<>> BY <1>10, BuilderAssumption
  <2>2. DOMAIN typeMap' = {}
    <3>1. DOMAIN LastKept(list) = DOMAIN typeMap \cup NamesIn(list)
      BY <1>1, <1>2, LastKeptTyped
    <3> QED BY <1>3, <1>5, <2>1, <3>1 DEF EnvInv, MapOfOneEnvironment
  <2>3. Resolved(typeMap') = {} BY <2>2 DEF Resolved, Range
  <2> QED BY <2>1, <2>2, <2>3 DEF Report, Relinked, EnvInv, MapOfOneEnvironment
<1> QED BY <1>6, <1>9, <1>10 DEF EnvInv, MapOfOneEnvironment

\* No class is ever linked to a parent of another environment, however often the
\* analyzer is used and detection fails (CodeAnalyzer.cpp:90-102).
THEOREM OneEnvironment == Spec => []LinksOfOneEnvironment
<1>1. Init => EnvInv
  BY DEF Init, EnvInv, MapOfOneEnvironment, LinksOfOneEnvironment, Range
<1>2. TypeOK /\ EnvInv /\ [Next]_vars => EnvInv'
  <2> SUFFICES ASSUME TypeOK, EnvInv, [Next]_vars PROVE EnvInv' OBVIOUS
  <2>1. ASSUME UNCHANGED results PROVE EnvInv'
    BY <2>1 DEF results, EnvInv, MapOfOneEnvironment, LinksOfOneEnvironment, Range
  <2>2. CASE Analyze
    <3>1. env' \in Envs /\ (env' = env \/ env = NoEnv)
      BY <2>2 DEF Analyze, NeedsEnvironment, TypeOK
    <3>2. AnalysisOf(source, config, env') \in Outputs BY <3>1, BuilderAssumption DEF TypeOK
    <3> QED BY <2>2, <3>1, <3>2, ReportEnvInv DEF Analyze
  <2>3. CASE AnalyzeWithoutEnvironment
    <3>1. [types |-> <<>>, issues |-> <<EnvironmentIssue>>] \in Outputs
      BY BuilderAssumption DEF Outputs
    <3> QED BY <2>3, <3>1, ReportEnvInv DEF AnalyzeWithoutEnvironment
  <2>4. CASE UNCHANGED vars BY <2>1, <2>4 DEF vars, results
  <2> QED BY <2>1, <2>2, <2>3, <2>4
       DEF Next, SetSource, SetCompilerOptions, SetCompilerDefinitions,
           SetAllowToCollectNonRuntimeTypes, SetUseDeepAnalysis
<1>3. EnvInv => LinksOfOneEnvironment BY DEF EnvInv
<1> QED BY <1>1, <1>2, <1>3, TypeCorrectness, PTL DEF Spec

-----------------------------------------------------------------------------
(* Parents of all analyses *)

\* An object bears the number of its analysis and its place in the list.
Numbered(lists) ==
    \A k \in DOMAIN lists : \A i \in DOMAIN lists[k] :
        lists[k][i].analysis = k /\ lists[k][i].at = i

\* The map has every name that any analysis found, with the newest object of it:
\* what makes the links of a deep analysis the right ones.
MapIsNewest ==
    /\ Numbered(foundTypes)
    /\ \A o \in EverFound(foundTypes) : o.decl.name \in DOMAIN typeMap
    /\ \A n \in DOMAIN typeMap :
          IsNewest(foundTypes, typeMap[n]) /\ typeMap[n].decl.name = n

\* An object of the lists is at the place that it names.
LEMMA FoundAtItsPlace ==
    ASSUME NEW lists \in Seq(Seq(TypeObjects)), Numbered(lists), NEW o \in EverFound(lists)
    PROVE  /\ o.analysis \in DOMAIN lists /\ o.at \in DOMAIN lists[o.analysis]
           /\ o = lists[o.analysis][o.at]
           /\ o.analysis \in 1..Len(lists) /\ o.at \in Nat
<1>1. PICK k \in DOMAIN lists : o \in Range(lists[k]) BY DEF EverFound, Range
<1>2. PICK i \in DOMAIN lists[k] : o = lists[k][i] BY <1>1 DEF Range
<1>3. o.analysis = k /\ o.at = i BY <1>2 DEF Numbered
<1>4. lists[k] \in Seq(TypeObjects) BY <1>1
<1>5. i \in Nat BY <1>2, <1>4
<1> QED BY <1>1, <1>2, <1>3, <1>5

\* A name has one newest object.
LEMMA NewestIsOne ==
    ASSUME NEW lists \in Seq(Seq(TypeObjects)), Numbered(lists),
           NEW o, NEW p, IsNewest(lists, o), IsNewest(lists, p), o.decl.name = p.decl.name
    PROVE  o = p
<1>1. ~Newer(o, p) /\ ~Newer(p, o) /\ o \in EverFound(lists) /\ p \in EverFound(lists)
  BY DEF IsNewest
<1>2. /\ o = lists[o.analysis][o.at] /\ o.analysis \in Nat /\ o.at \in Nat
      /\ p = lists[p.analysis][p.at] /\ p.analysis \in Nat /\ p.at \in Nat
  BY <1>1, FoundAtItsPlace
<1>3. o.analysis = p.analysis /\ o.at = p.at BY <1>1, <1>2 DEF Newer
<1> QED BY <1>2, <1>3

\* An analysis leaves the map with the newest objects.
LEMMA ReportMapIsNewest ==
    ASSUME TypeOK, MapIsNewest, NEW out \in Outputs, Report(out), env' \in Envs \/ out.types = <<>>
    PROVE  MapIsNewest'
<1> DEFINE n1 == Len(foundTypes) + 1
<1> DEFINE list == Objects(out.types, n1)
<1> DEFINE lists == Append(foundTypes, list)
<1>1. /\ foundTypes \in Seq(Seq(TypeObjects)) /\ n1 \in Nat
      /\ list \in Seq(TypeObjects) /\ MapTyped
      /\ foundTypes' = lists /\ typeMap' = LastKept(list)
  <2>1. out.types \in Seq(TypeDecls) /\ n1 \in Nat /\ foundTypes \in Seq(Seq(TypeObjects))
    BY DEF Outputs, TypeOK
  <2> QED BY <2>1, ObjectsTyped DEF TypeOK, MapTyped, Report
<1>2. \A i \in DOMAIN list : list[i].analysis = n1 /\ list[i].at = i BY DEF Objects, Object
<1> HIDE DEF list
<1>3. /\ DOMAIN lists = 1..n1 /\ lists[n1] = list
      /\ \A k \in DOMAIN foundTypes : k \in 1..n1 /\ k < n1 /\ lists[k] = foundTypes[k]
      /\ \A k \in 1..n1 : k = n1 \/ k \in DOMAIN foundTypes
  BY <1>1
<1>4. Numbered(lists) BY <1>2, <1>3 DEF MapIsNewest, Numbered
<1>5. EverFound(lists) = EverFound(foundTypes) \cup Range(list)
  <2>1. Range(lists) = Range(foundTypes) \cup {list}
    <3>1. \A x \in Range(lists) : x \in Range(foundTypes) \cup {list} BY <1>3 DEF Range
    <3>2. \A x \in Range(foundTypes) \cup {list} : x \in Range(lists) BY <1>1, <1>3 DEF Range
    <3> QED BY <3>1, <3>2
  <2> HIDE DEF lists
  <2> QED BY <2>1, Zenon DEF EverFound
<1>6. \A o \in EverFound(foundTypes) : o.analysis \in Nat /\ o.analysis < n1 /\ o.at \in Nat
  BY <1>1, FoundAtItsPlace DEF MapIsNewest
<1>7. \A o \in Range(list) : o.analysis = n1 /\ o.at \in Nat
  BY <1>1, <1>2 DEF Range
<1>8. DOMAIN LastKept(list) = DOMAIN typeMap \cup NamesIn(list) BY DEF LastKept
<1> HIDE DEF lists
<1>9. \A o \in EverFound(lists) : o.decl.name \in DOMAIN LastKept(list)
  BY <1>5, <1>8 DEF MapIsNewest, NamesIn
<1>10. ASSUME NEW n \in DOMAIN LastKept(list)
       PROVE  IsNewest(lists, LastKept(list)[n]) /\ LastKept(list)[n].decl.name = n
  <2> DEFINE o == LastKept(list)[n]
  <2>1. CASE n \in NamesIn(list)
    <3>1. o = LastNamed(list, n) BY <1>8, <2>1 DEF LastKept
    <3>2. PICK i \in DOMAIN list : o = list[i] /\ \A j \in Named(list, n) : j <= i
      BY <1>1, <2>1, <3>1, LastOfName
    <3>3. o \in Range(list) /\ o.decl.name = n BY <1>1, <2>1, <3>1, LastOfName
    <3>4. o.analysis = n1 /\ o.at = i /\ i \in Nat BY <1>1, <1>2, <3>2
    <3> HIDE DEF o, n1
    <3>5. ASSUME NEW p \in EverFound(lists), p.decl.name = n PROVE ~Newer(p, o)
      <4>1. CASE p \in Range(list)
        <5>1. PICK j \in DOMAIN list : p = list[j] BY <4>1 DEF Range
        <5>2. j \in Named(list, n) /\ j \in Nat BY <1>1, <3>5, <5>1 DEF Named
        <5>3. j <= i /\ p.at = j /\ p.analysis = n1 BY <1>2, <3>2, <5>1, <5>2
        <5> QED BY <1>1, <3>4, <5>2, <5>3 DEF Newer
      <4>2. CASE p \in EverFound(foundTypes) BY <1>1, <1>6, <3>4, <4>2 DEF Newer
      <4> QED BY <1>5, <3>5, <4>1, <4>2
    <3> QED BY <1>5, <3>3, <3>5 DEF IsNewest, o
  <2>2. CASE n \notin NamesIn(list)
    <3>1. n \in DOMAIN typeMap /\ o = typeMap[n] BY <1>8, <2>2 DEF LastKept
    <3>2. IsNewest(foundTypes, o) /\ o.decl.name = n BY <3>1 DEF MapIsNewest
    <3> HIDE DEF o
    <3>3. \A p \in Range(list) : p.decl.name # n BY <2>2 DEF NamesIn
    <3> QED BY <1>5, <3>2, <3>3 DEF IsNewest, o
  <2> QED BY <2>1, <2>2
<1> QED BY <1>1, <1>4, <1>9, <1>10 DEF MapIsNewest

\* A deep analysis over such a map links the newest objects.
LEMMA ReportFollows ==
    ASSUME TypeOK', MapIsNewest', NEW out, Report(out), config.deep
    PROVE  FollowTheirParents'
<1> SUFFICES ASSUME NEW o \in EverFound(foundTypes'), NEW p \in EverFound(foundTypes'),
                    IsNewest(foundTypes', o), o.decl.kind = "class",
                    IsNewest(foundTypes', p), p.decl.name \in o.decl.parents
             PROVE  [child |-> o, parent |-> p] \in links'
  BY DEF FollowTheirParents
<1>1. foundTypes' \in Seq(Seq(TypeObjects)) /\ Numbered(foundTypes') BY DEF TypeOK, MapIsNewest
<1>2. /\ o.decl.name \in DOMAIN typeMap' /\ IsNewest(foundTypes', typeMap'[o.decl.name])
      /\ typeMap'[o.decl.name].decl.name = o.decl.name
      /\ p.decl.name \in DOMAIN typeMap' /\ IsNewest(foundTypes', typeMap'[p.decl.name])
      /\ typeMap'[p.decl.name].decl.name = p.decl.name
  BY DEF MapIsNewest
<1>3. typeMap'[o.decl.name] = o /\ typeMap'[p.decl.name] = p BY <1>1, <1>2, NewestIsOne
<1>4. o \in Range(typeMap') BY <1>2, <1>3 DEF Range
<1>5. [child |-> o, parent |-> p] \in Resolved(typeMap') BY <1>2, <1>3, <1>4 DEF Resolved
<1> QED BY <1>5 DEF Report, Relinked

\* After a deep analysis every class follows its parents, whichever analyses found
\* it and them (PyCodeAnalyzerBuilder.cpp:115-184).
THEOREM ParentsFollowed == Spec => ClassesFollowTheirParents
<1>1. Init => MapIsNewest
  <2> SUFFICES ASSUME Init PROVE MapIsNewest OBVIOUS
  <2>1. foundTypes = << <<>> >> /\ DOMAIN typeMap = {} BY DEF Init
  <2>2. EverFound(foundTypes) = {} BY <2>1 DEF EverFound, Range
  <2> QED BY <2>1, <2>2 DEF MapIsNewest, Numbered
<1>2. ASSUME TypeOK, Next, TypeOK', MapIsNewest
      PROVE  /\ MapIsNewest'
             /\ Analysed /\ config.deep => FollowTheirParents'
  <2>1. CASE Analyze
    <3>1. env' \in Envs BY <1>2, <2>1 DEF Analyze, NeedsEnvironment, TypeOK
    <3>2. AnalysisOf(source, config, env') \in Outputs BY <1>2, <3>1, BuilderAssumption DEF TypeOK
    <3>3. Report(AnalysisOf(source, config, env')) BY <2>1 DEF Analyze
    <3>4. MapIsNewest' BY <1>2, <3>1, <3>2, <3>3, ReportMapIsNewest
    <3> QED BY <1>2, <3>3, <3>4, ReportFollows
  <2>2. CASE AnalyzeWithoutEnvironment
    <3> DEFINE out == [types |-> <<>>, issues |-> <<EnvironmentIssue>>]
    <3>1. out \in Outputs /\ out.types = <<>> BY BuilderAssumption DEF Outputs
    <3>2. Report(out) BY <2>2 DEF AnalyzeWithoutEnvironment
    <3> HIDE DEF out
    <3>3. MapIsNewest' BY <1>2, <3>1, <3>2, ReportMapIsNewest
    <3> QED BY <1>2, <3>2, <3>3, ReportFollows
  <2>3. ASSUME UNCHANGED results PROVE MapIsNewest' /\ ~Analysed
    BY <1>2, <2>3 DEF results, Analysed, TypeOK, MapIsNewest
  <2> QED BY <1>2, <2>1, <2>2, <2>3
       DEF Next, SetSource, SetCompilerOptions, SetCompilerDefinitions,
           SetAllowToCollectNonRuntimeTypes, SetUseDeepAnalysis
<1>3. MapIsNewest /\ UNCHANGED vars => MapIsNewest' BY DEF vars, MapIsNewest
<1>4. TypeOK /\ TypeOK' /\ MapIsNewest /\ [Next]_vars =>
         MapIsNewest' /\ [Analysed /\ config.deep => FollowTheirParents']_vars
  BY <1>2, <1>3
<1> QED BY <1>1, <1>4, TypeCorrectness, PTL DEF Spec, ClassesFollowTheirParents

-----------------------------------------------------------------------------
(* Parents in the list of the analysis *)

\* Objects of one name in the list of an analysis are of one kind.
LEMMA OneKindOfObject ==
    ASSUME NEW types \in Seq(TypeDecls), NEW n,
           \A i, j \in DOMAIN types : types[i].name = types[j].name => types[i].kind = types[j].kind,
           NEW o \in Range(Objects(types, n)), NEW p \in Range(Objects(types, n)),
           o.decl.name = p.decl.name
    PROVE  o.decl.kind = p.decl.kind
<1>1. PICK i \in DOMAIN types : o.decl = types[i] BY DEF Objects, Object, Range
<1>2. PICK j \in DOMAIN types : p.decl = types[j] BY DEF Objects, Object, Range
<1> QED BY <1>1, <1>2

\* After a deep analysis the classes of the new list are linked within that list
\* wherever it has the names of their parents: of objects that share a name it is
\* the last one that is linked (PyCodeAnalyzerBuilder.cpp:115-184).
THEOREM NewestParents == Spec => NewestLinks
<1>1. ASSUME TypeOK, config.deep, NEW out \in Outputs, Report(out),
             env' \in Envs \/ out.types = <<>>,
             \A i, j \in DOMAIN out.types :
                out.types[i].name = out.types[j].name => out.types[i].kind = out.types[j].kind
      PROVE  ClassesLinked(Current(foundTypes))'
  <2> DEFINE list == Objects(out.types, Len(foundTypes) + 1)
  <2>1. out.types \in Seq(TypeDecls) /\ Len(foundTypes) + 1 \in Nat BY <1>1 DEF Outputs, TypeOK
  <2>2. list \in Seq(TypeObjects) BY <1>1, <2>1, ObjectsTyped
  <2>3. \A o, p \in Range(list) : o.decl.name = p.decl.name => o.decl.kind = p.decl.kind
    BY <1>1, <2>1, OneKindOfObject
  <2>4. foundTypes' = Append(foundTypes, list) /\ typeMap' = LastKept(list)
        /\ links' = Relinked(Resolved(typeMap'))
    BY <1>1 DEF Report
  <2> HIDE DEF list
  <2>5. Current(foundTypes') = list BY <1>1, <2>2, <2>4 DEF Current, TypeOK
  <2>6. \A n \in NamesIn(list) :
           /\ n \in DOMAIN typeMap' /\ typeMap'[n] \in Range(list) /\ typeMap'[n].decl.name = n
    <3>1. MapTyped BY <1>1 DEF TypeOK, MapTyped
    <3> QED BY <2>2, <2>4, <3>1, LastKeptTyped
  <2>7. ASSUME NEW o \in Range(list), o.decl.kind = "class"
        PROVE  \E twin \in {x \in Range(list) : x.decl.kind = "class"} :
                  /\ twin.decl.name = o.decl.name
                  /\ \A p \in twin.decl.parents \cap NamesIn(list) : \E l \in links' :
                        l.child = twin /\ l.parent.decl.name = p /\ l.parent \in Range(list)
    <3> DEFINE twin == typeMap'[o.decl.name]
    <3>1. o.decl.name \in NamesIn(list) BY DEF NamesIn
    <3>2. twin \in Range(list) /\ twin.decl.name = o.decl.name /\ twin \in Range(typeMap')
      BY <2>6, <3>1 DEF Range
    <3>3. twin.decl.kind = "class" BY <2>3, <2>7, <3>2
    <3> HIDE DEF twin
    <3>4. ASSUME NEW p \in twin.decl.parents \cap NamesIn(list)
          PROVE  \E l \in links' : l.child = twin /\ l.parent.decl.name = p /\ l.parent \in Range(list)
      <4>1. [child |-> twin, parent |-> typeMap'[p]] \in Resolved(typeMap')
        BY <2>6, <3>2, <3>3, <3>4 DEF Resolved
      <4> QED BY <2>4, <2>6, <3>4, <4>1 DEF Relinked
    <3> QED BY <3>2, <3>3, <3>4
  <2>8. list = Current(foundTypes)' BY <2>5
  <2> QED BY <2>7, <2>8 DEF ClassesLinked, ParentsWithin
<1>2. ASSUME TypeOK, Next, Analysed, config.deep PROVE ClassesLinked(Current(foundTypes))'
  <2>1. CASE Analyze
    <3>1. env' \in Envs BY <1>2, <2>1 DEF Analyze, NeedsEnvironment, TypeOK
    <3>2. source \in Sources /\ config \in Configs BY <1>2 DEF TypeOK
    <3>3. AnalysisOf(source, config, env') \in Outputs BY <3>1, <3>2, BuilderAssumption
    <3>4. \A i, j \in DOMAIN AnalysisOf(source, config, env').types :
             AnalysisOf(source, config, env').types[i].name = AnalysisOf(source, config, env').types[j].name
               => AnalysisOf(source, config, env').types[i].kind = AnalysisOf(source, config, env').types[j].kind
      BY <3>1, <3>2, OneKindAssumption
    <3>5. Report(AnalysisOf(source, config, env')) BY <2>1 DEF Analyze
    <3> QED BY <1>1, <1>2, <3>1, <3>3, <3>4, <3>5
  <2>2. CASE AnalyzeWithoutEnvironment
    <3>1. [types |-> <<>>, issues |-> <<EnvironmentIssue>>] \in Outputs
      BY BuilderAssumption DEF Outputs
    <3> QED BY <1>1, <1>2, <2>2, <3>1 DEF AnalyzeWithoutEnvironment
  <2>3. ASSUME UNCHANGED results PROVE FALSE
    BY <1>2, <2>3 DEF results, Analysed, TypeOK
  <2> QED BY <1>2, <2>1, <2>2, <2>3
       DEF Next, SetSource, SetCompilerOptions, SetCompilerDefinitions,
           SetAllowToCollectNonRuntimeTypes, SetUseDeepAnalysis
<1>3. TypeOK /\ [Next]_vars => [Analysed /\ config.deep => ClassesLinked(Current(foundTypes))']_vars
  BY <1>2
<1> QED BY <1>3, TypeCorrectness, PTL DEF Spec, NewestLinks
=============================================================================
