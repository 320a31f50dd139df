----------------------- MODULE AnalyzerContext_proofs -----------------------
(***************************************************************************)
(* Theorems about AnalyzerContext, for every set of clients, headers and   *)
(* types, every number of workers and every outcome of the analyses.       *)
(***************************************************************************)
EXTENDS AnalyzerContext, FiniteSetTheorems, TLAPS

-----------------------------------------------------------------------------
(* Sequences whose last element is replaced or that grow by one *)

\* Replacing the last element changes that element and nothing else.
LEMMA ReplacedLast ==
    ASSUME NEW S, NEW list \in Seq(S), list # <<>>, NEW y \in S
    PROVE  /\ [list EXCEPT ![Len(list)] = y] \in Seq(S)
           /\ Len([list EXCEPT ![Len(list)] = y]) = Len(list)
           /\ [list EXCEPT ![Len(list)] = y][Len(list)] = y
           /\ \A i \in 1..Len(list) :
                i # Len(list) => [list EXCEPT ![Len(list)] = y][i] = list[i]
           /\ Len(list) \in 1..Len(list) /\ list[Len(list)] \in S
OBVIOUS

\* Appending keeps the old elements where they were.
LEMMA Appended ==
    ASSUME NEW S, NEW list \in Seq(S), NEW y \in S
    PROVE  /\ Append(list, y) \in Seq(S)
           /\ Len(Append(list, y)) = Len(list) + 1
           /\ Append(list, y) # <<>>
           /\ Append(list, y)[Len(list) + 1] = y
           /\ \A i \in 1..Len(list) : Append(list, y)[i] = list[i]
OBVIOUS

\* So does rebinding, and the new list is empty.
LEMMA ReboundLists ==
    ASSUME NEW S, NEW lists \in Seq(Seq(S))
    PROVE  /\ Rebound(lists) \in Seq(Seq(S))
           /\ Len(Rebound(lists)) = Len(lists) + 1
           /\ Rebound(lists) # <<>>
           /\ Rebound(lists)[Len(lists) + 1] = <<>>
           /\ \A i \in 1..Len(lists) : Rebound(lists)[i] = lists[i]
<1> <<>> \in Seq(S) OBVIOUS
<1> DEFINE T == Seq(S)
<1> <<>> \in T OBVIOUS
<1> lists \in Seq(T) OBVIOUS
<1> HIDE DEF T
<1> QED BY Appended, T = Seq(S) DEF Rebound, T

-----------------------------------------------------------------------------
(* Type correctness.  It needs to know what a busy worker holds. *)

Busy == {"analyze", "lock", "ensure", "issues", "emplace", "append", "unlock"}
AnalyzeTasks == [kind : {"analyze"}, header : Headers, config : Configs]

\* A busy worker holds the task of a header, and a worker that is about to
\* append a type still has that type in its hands.
WorkersHold ==
    \A w \in Workers :
        /\ wpc[w] \in Busy => wtask[w] \in AnalyzeTasks
        /\ wpc[w] = "append" => wout[w].types # <<>>

TypeInv == TypeOK /\ WorkersHold

\* Nothing has happened yet, so everything has its type.
LEMMA InitTypeInv == Init => TypeInv
<1> SUFFICES ASSUME Init PROVE TypeInv OBVIOUS
<1>0. gil \in Clients \cup Workers \cup {NoOne} /\ headers \in Seq(Headers)
  BY DEF Init
<1>a. inProgress \in BOOLEAN /\ ignoreRT \in BOOLEAN /\ bResult \in BOOLEAN
  BY DEF Init
<1>b. config \in Configs
  BY DEF Init
<1>1. /\ cpc \in [Clients -> {"outside", "python"} \cup Analysing]
      /\ workersAmount \in 0..MaxWorkers /\ spawned \in 0..MaxWorkers
      /\ compilerEnv \in Envs \cup {NoEnv}
  BY ContextAssumption DEF Init
<1>2. /\ tasks \in Seq(Tasks)
      /\ wpc \in [Workers -> {"none", "take", "analyze", "lock", "ensure", "issues",
                              "emplace", "append", "unlock", "done"}]
      /\ wtask \in [Workers -> Tasks \cup {NoTask}]
      /\ lockMutex \in Workers \cup {NoOne}
  BY DEF Init
<1>3. wout \in [Workers -> Outputs]
  BY DEF Init, Outputs, NoOutput
<1>4. /\ DOMAIN typeMap \subseteq Names
      /\ typeMap \in [DOMAIN typeMap -> TypeObjects]
  BY DEF Init, Empty
<1>5. /\ foundTypes \in Seq(Seq(TypeObjects)) /\ foundTypes # <<>>
      /\ foundIssues \in Seq(Seq(Issues)) /\ Len(foundIssues) = Len(foundTypes)
  BY DEF Init
<1>6. /\ handed \subseteq 1..Len(foundTypes)
      /\ parentRefs \subseteq [child : TypeObjects, parent : TypeObjects]
  BY DEF Init
<1>7. WorkersHold
  BY DEF Init, WorkersHold, Busy
<1> QED BY <1>0, <1>a, <1>b, <1>1, <1>2, <1>3, <1>4, <1>5, <1>6, <1>7 DEF TypeInv, TypeOK

\* A Python call keeps every type.
LEMMA PythonTypeInv ==
    ASSUME TypeInv, NEW c \in Clients, PythonStep(c)
    PROVE  TypeInv'
<1> USE DEF TypeInv, TypeOK, WorkersHold, settings, pool, subjects
<1>1. CASE AcquireGIL(c) BY <1>1 DEF AcquireGIL
<1>2. CASE ReleaseGIL(c) BY <1>2 DEF ReleaseGIL
<1>3. CASE GetFound(c)
  <2>1. Len(foundTypes) \in 1..Len(foundTypes) BY ReplacedLast
  <2> QED BY <1>3, <2>1 DEF GetFound
<1>4. CASE SetHeaders(c) BY <1>4, ContextAssumption, SMTT(20) DEF SetHeaders
<1>5. CASE SetWorkersCount(c) BY <1>5, ContextAssumption DEF SetWorkersCount
<1>6. CASE SetCompilerOptions(c) BY <1>6 DEF SetCompilerOptions, Configs
<1>7. CASE SetEnableDeepAnalysis(c) BY <1>7 DEF SetEnableDeepAnalysis, Configs
<1>8. CASE SetIgnoreRuntimeTag(c) BY <1>8 DEF SetIgnoreRuntimeTag
<1> QED BY <1>1, <1>2, <1>3, <1>4, <1>5, <1>6, <1>7, <1>8 DEF PythonStep

\* A step of analyze() keeps every type.
LEMMA AnalyzeTypeInv ==
    ASSUME TypeInv, NEW c \in Clients, AnalyzeStep(c)
    PROVE  TypeInv'
<1> USE DEF TypeInv, settings, pool, subjects
<1>1. CASE StartAnalyze(c)
  <2>1. /\ foundTypes' \in Seq(Seq(TypeObjects)) /\ foundTypes' # <<>>
        /\ Len(foundTypes') = Len(foundTypes) + 1
    BY <1>1, ReboundLists DEF StartAnalyze, TypeOK
  <2>2. /\ foundIssues' \in Seq(Seq(Issues))
        /\ Len(foundIssues') = Len(foundIssues) + 1
    BY <1>1, ReboundLists DEF StartAnalyze, TypeOK
  <2>3. Len(foundIssues') = Len(foundTypes')
    BY <2>1, <2>2 DEF TypeOK
  <2>4. handed' \subseteq 1..Len(foundTypes')
    BY <1>1, <2>1 DEF StartAnalyze, TypeOK
  <2>5. /\ DOMAIN typeMap' \subseteq Names
        /\ typeMap' \in [DOMAIN typeMap' -> TypeObjects]
    BY <1>1 DEF StartAnalyze, Empty
  <2>6. cpc' \in [Clients -> {"outside", "python"} \cup Analysing]
    BY <1>1 DEF StartAnalyze, TypeOK, Analysing
  <2> QED BY <1>1, <2>1, <2>2, <2>3, <2>4, <2>5, <2>6 DEF StartAnalyze, TypeOK, WorkersHold
<1>2. CASE DetectEnvironment(c)
  BY <1>2 DEF DetectEnvironment, SavedGIL, TypeOK, WorkersHold, Analysing
<1>3. CASE DetectFails(c)
  <2>1. PICK i \in Issues : foundIssues' = AppendToLast(foundIssues, i)
    BY <1>3 DEF DetectFails
  <2>2. foundIssues # <<>> BY DEF TypeOK
  <2>3. Append(foundIssues[Len(foundIssues)], i) \in Seq(Issues)
    BY <2>2, ReplacedLast DEF TypeOK
  <2>4. foundIssues' \in Seq(Seq(Issues)) /\ Len(foundIssues') = Len(foundIssues)
    BY <2>1, <2>2, <2>3, ReplacedLast DEF AppendToLast, TypeOK
  <2> QED BY <1>3, <2>4 DEF DetectFails, TypeOK, WorkersHold, Analysing
<1>4. CASE DetectThrows(c)
  BY <1>4 DEF DetectThrows, TypeOK, WorkersHold, Analysing
<1>5. CASE FillQueue(c)
  <2>1. \A h \in Headers : HeaderTask(h) \in Tasks
    BY DEF HeaderTask, Tasks, TypeOK
  <2>2. StopTask \in Tasks BY DEF Tasks
  <2>3. Len(headers) + workersAmount \in Nat BY ContextAssumption DEF TypeOK
  <2>4. \A i \in 1..Len(headers) : headers[i] \in Headers BY DEF TypeOK
  <2>5. tasks' \in Seq(Tasks)
    BY <1>5, <2>1, <2>2, <2>3, <2>4 DEF FillQueue, FreshQueue, NewTasks
  <2>6. spawned' \in 0..MaxWorkers
    BY <1>5, ContextAssumption DEF FillQueue, TypeOK
  <2>7. /\ wpc' \in [Workers -> {"none", "take", "analyze", "lock", "ensure", "issues",
                                 "emplace", "append", "unlock", "done"}]
        /\ WorkersHold'
    BY <1>5 DEF FillQueue, TypeOK, WorkersHold, Busy
  <2> QED BY <1>5, <2>5, <2>6, <2>7 DEF FillQueue, TypeOK, Analysing
<1>6. CASE SpawnWorker(c)
  <2>1. spawned' \in 0..MaxWorkers
    BY <1>6, ContextAssumption DEF SpawnWorker, MoreToSpawn, TypeOK
  <2>2. /\ wpc' \in [Workers -> {"none", "take", "analyze", "lock", "ensure", "issues",
                                 "emplace", "append", "unlock", "done"}]
        /\ WorkersHold'
    BY <1>6 DEF SpawnWorker, TypeOK, WorkersHold, Busy
  <2> QED BY <1>6, <2>1, <2>2 DEF SpawnWorker, TypeOK
<1>7. CASE SpawnThrows(c)
  BY <1>7 DEF SpawnThrows, TypeOK, WorkersHold, Analysing
<1>8. CASE AllSpawned(c)
  BY <1>8 DEF AllSpawned, TypeOK, WorkersHold, Analysing
<1>9. CASE JoinWorkers(c)
  BY <1>9 DEF JoinWorkers, TypeOK, WorkersHold, Analysing
<1>10. CASE RestoreGIL(c)
  BY <1>10 DEF RestoreGIL, TypeOK, WorkersHold, Analysing
<1>11. CASE FinishAnalyze(c)
  <2>1. \A o \in FoundClasses : o \in TypeObjects
    <3>1. Current(foundTypes) \in Seq(TypeObjects)
      BY ReplacedLast DEF Current, TypeOK
    <3> QED BY <3>1 DEF FoundClasses, Range
  <2>2. \A p \in DOMAIN typeMap : typeMap[p] \in TypeObjects BY DEF TypeOK
  <2>3. ResolveReferences \subseteq [child : TypeObjects, parent : TypeObjects]
    BY <2>1, <2>2 DEF ResolveReferences
  <2>4. parentRefs' \subseteq [child : TypeObjects, parent : TypeObjects]
    BY <1>11, <2>3 DEF FinishAnalyze, TypeOK
  <2> QED BY <1>11, <2>4 DEF FinishAnalyze, TypeOK, WorkersHold, Analysing
<1> QED BY <1>1, <1>2, <1>3, <1>4, <1>5, <1>6, <1>7, <1>8, <1>9, <1>10, <1>11 DEF AnalyzeStep

\* A step of a worker keeps every type.
LEMMA WorkerTypeInv ==
    ASSUME TypeInv, NEW w \in Workers, WorkerStep(w)
    PROVE  TypeInv'
<1> USE DEF TypeInv, settings, pool, subjects
<1>t. /\ wout[w] \in Outputs
      /\ wout[w].types # <<>> => /\ NextType(w) \in TypeDecls
                                 /\ WithoutFirst(wout[w]) \in Outputs
  BY DEF TypeOK, Outputs, NextType, WithoutFirst
<1>o. ASSUME wpc[w] \in Busy, wout[w].types # <<>>
      PROVE  NewObject(w) \in TypeObjects /\ NextType(w).name \in Names
  BY <1>t, <1>o DEF WorkersHold, AnalyzeTasks, NewObject, TypeObjects, TypeDecls
<1>1. CASE TakeTask(w)
  <2>1. Head(tasks) \in Tasks /\ Tail(tasks) \in Seq(Tasks)
    BY <1>1 DEF TakeTask, TypeOK
  <2>2. TypeOK' BY <1>1, <2>1 DEF TakeTask, PopFront, TypeOK
  <2>3. WorkersHold'
    BY <1>1, <2>1 DEF TakeTask, WorkersHold, Busy, Tasks, AnalyzeTasks, TypeOK
  <2> QED BY <2>2, <2>3
<1>2. CASE AnalyzeHeader(w)
  <2>1. wtask[w].header \in Headers /\ wtask[w].config \in Configs
    BY <1>2 DEF AnalyzeHeader, WorkersHold, Busy, AnalyzeTasks
  <2>2. AnalysisOf[wtask[w].header][wtask[w].config][compilerEnv] \in Outputs
    BY <2>1, ContextAssumption DEF TypeOK
  <2>3. TypeOK' BY <1>2, <2>2 DEF AnalyzeHeader, TypeOK
  <2>4. WorkersHold' BY <1>2 DEF AnalyzeHeader, WorkersHold, Busy, TypeOK
  <2> QED BY <2>3, <2>4
<1>3. CASE LockSubjects(w) BY <1>3 DEF LockSubjects, TypeOK, WorkersHold, Busy
<1>4. CASE EnsureGIL(w) BY <1>4 DEF EnsureGIL, TakesGIL, TypeOK, WorkersHold, Busy
<1>5. CASE AppendIssues(w)
  <2>1. foundIssues # <<>> BY DEF TypeOK
  <2>2. foundIssues[Len(foundIssues)] \o wout[w].issues \in Seq(Issues)
    BY <2>1, <1>t, ReplacedLast DEF TypeOK, Outputs
  <2>3. foundIssues' \in Seq(Seq(Issues)) /\ Len(foundIssues') = Len(foundIssues)
    BY <1>5, <2>1, <2>2, ReplacedLast DEF AppendIssues, TypeOK
  <2>4. TypeOK' BY <1>5, <2>3 DEF AppendIssues, TypeOK
  <2>5. WorkersHold' BY <1>5 DEF AppendIssues, WorkersHold, Busy, TypeOK
  <2> QED BY <2>4, <2>5
<1>6. CASE DropType(w)
  <2>1. TypeOK' BY <1>6, <1>t DEF DropType, TypeOK
  <2>2. WorkersHold' BY <1>6 DEF DropType, WorkersHold, TypeOK
  <2> QED BY <2>1, <2>2
<1>7. CASE EmplaceType(w)
  <2>1. NewObject(w) \in TypeObjects /\ NextType(w).name \in Names
    BY <1>7, <1>o DEF EmplaceType, Busy
  <2>2. /\ DOMAIN typeMap' \subseteq Names
        /\ typeMap' \in [DOMAIN typeMap' -> TypeObjects]
    BY <1>7, <2>1 DEF EmplaceType, TryEmplace, TypeOK
  <2>3. wout' \in [Workers -> Outputs]
    BY <1>7, <1>t DEF EmplaceType, TypeOK
  <2>4. wpc' \in [Workers -> {"none", "take", "analyze", "lock", "ensure", "issues",
                              "emplace", "append", "unlock", "done"}]
    BY <1>7 DEF EmplaceType, TypeOK
  <2>5. TypeOK' BY <1>7, <2>2, <2>3, <2>4 DEF EmplaceType, TypeOK
  <2>6. WorkersHold' BY <1>7 DEF EmplaceType, WorkersHold, Busy, TypeOK
  <2> QED BY <2>5, <2>6
<1>8. CASE AppendType(w)
  <2>1. wout[w].types # <<>> BY <1>8 DEF AppendType, WorkersHold
  <2>2. NewObject(w) \in TypeObjects BY <1>8, <1>o, <2>1 DEF AppendType, Busy
  <2>3. Append(foundTypes[Len(foundTypes)], NewObject(w)) \in Seq(TypeObjects)
    BY <2>2, ReplacedLast DEF TypeOK
  <2>4. /\ foundTypes' \in Seq(Seq(TypeObjects)) /\ foundTypes' # <<>>
        /\ Len(foundTypes') = Len(foundTypes)
    BY <1>8, <2>3, ReplacedLast DEF AppendType, AppendToLast, TypeOK
  <2>5. TypeOK' BY <1>8, <2>1, <2>4, <1>t DEF AppendType, TypeOK
  <2>6. WorkersHold' BY <1>8 DEF AppendType, WorkersHold, Busy, TypeOK
  <2> QED BY <2>5, <2>6
<1>9. CASE DropGIL(w)
  <2>1. NoOutput \in Outputs BY DEF NoOutput, Outputs
  <2>2. TypeOK' BY <1>9, <2>1 DEF DropGIL, TypeOK
  <2>3. WorkersHold' BY <1>9 DEF DropGIL, WorkersHold, Busy, TypeOK
  <2> QED BY <2>2, <2>3
<1>10. CASE UnlockSubjects(w)
  BY <1>10 DEF UnlockSubjects, TypeOK, WorkersHold, Busy
<1> QED BY <1>1, <1>2, <1>3, <1>4, <1>5, <1>6, <1>7, <1>8, <1>9, <1>10 DEF WorkerStep

\* A step that changes nothing keeps every type.
LEMMA StutterTypeInv == TypeInv /\ UNCHANGED vars => TypeInv'
BY DEF TypeInv, TypeOK, WorkersHold, vars, settings, pool, subjects

\* TypeInv is inductive.
THEOREM TypeInvariant == Spec => []TypeInv
<1>1. TypeInv /\ [Next]_vars => TypeInv'
  BY PythonTypeInv, AnalyzeTypeInv, WorkerTypeInv, StutterTypeInv DEF Next
<1> QED BY <1>1, InitTypeInv, PTL DEF Spec

\* Every variable keeps its type, for all constants.
THEOREM TypeCorrectness == Spec => []TypeOK
BY TypeInvariant, PTL DEF TypeInv

-----------------------------------------------------------------------------
(* Who runs, and who holds what *)

\* At most one client is inside analyze(), and only while m_bInProgress is set.
OneRunner ==
    /\ \A c, d \in Clients : cpc[c] \in Analysing /\ cpc[d] \in Analysing => c = d
    /\ \A c \in Clients : cpc[c] \in Analysing => inProgress

\* The GIL's owner is where it may run Python code.
GilHeld ==
    /\ \A c \in Clients : gil = c <=> cpc[c] \in {"python", "detect", "return"}
    /\ \A w \in Workers : gil = w <=> wpc[w] \in {"issues", "emplace", "append"}

\* No worker is under way unless an analysis has spawned it.
WorkersQuiet ==
    (~inProgress \/ \E c \in Clients : cpc[c] \in {"detect", "queue", "acquire", "return"}) =>
        \A w \in Workers : wpc[w] \in {"none", "done"}

\* While workers are spawned and joined, the others do not exist.
SpawnedOnly ==
    (\E c \in Clients : cpc[c] \in {"spawn", "join"}) =>
        \A w \in Workers : w > spawned => wpc[w] = "none"

ControlInv == OneRunner /\ GilHeld /\ WorkersQuiet /\ SpawnedOnly

\* Workers and clients are different threads, and a free lock has no owner.
LEMMA Threads == Clients \cap Workers = {} /\ NoOne \notin Clients /\ NoOne \notin Workers
BY ContextAssumption DEF Workers

\* Nobody runs at first.
LEMMA InitControl == Init => ControlInv
BY Threads DEF Init, ControlInv, OneRunner, GilHeld, WorkersQuiet, SpawnedOnly, Analysing

\* A Python call leaves the analysis and the workers alone.
LEMMA PythonControl ==
    ASSUME TypeInv, ControlInv, NEW c \in Clients, PythonStep(c)
    PROVE  ControlInv'
<1> USE Threads DEF ControlInv, OneRunner, GilHeld, WorkersQuiet, SpawnedOnly, Analysing, pool
<1>t. cpc \in [Clients -> {"outside", "python"} \cup Analysing] BY DEF TypeInv, TypeOK
<1>1. CASE AcquireGIL(c) BY <1>1, <1>t DEF AcquireGIL
<1>2. CASE ReleaseGIL(c) BY <1>2, <1>t DEF ReleaseGIL
<1>3. CASE UNCHANGED <<gil, cpc, inProgress, wpc, spawned>> BY <1>3
<1> QED
  BY <1>1, <1>2, <1>3 DEF PythonStep, GetFound, SetHeaders, SetWorkersCount,
     SetCompilerOptions, SetEnableDeepAnalysis, SetIgnoreRuntimeTag, pool

\* A step of analyze() moves its own client, and spawns or joins its own workers.
LEMMA AnalyzeControl ==
    ASSUME TypeInv, ControlInv, NEW c \in Clients, AnalyzeStep(c)
    PROVE  ControlInv'
<1> USE Threads DEF ControlInv, OneRunner, GilHeld, WorkersQuiet, SpawnedOnly, Analysing, pool
<1>t. /\ cpc \in [Clients -> {"outside", "python"} \cup Analysing]
      /\ inProgress \in BOOLEAN
      /\ wpc \in [Workers -> {"none", "take", "analyze", "lock", "ensure", "issues",
                              "emplace", "append", "unlock", "done"}]
  BY DEF TypeInv, TypeOK
<1>1. CASE StartAnalyze(c) BY <1>1, <1>t DEF StartAnalyze
<1>2. CASE DetectEnvironment(c) BY <1>2, <1>t DEF DetectEnvironment, SavedGIL
<1>3. CASE DetectFails(c) BY <1>3, <1>t DEF DetectFails
<1>4. CASE DetectThrows(c) BY <1>4, <1>t DEF DetectThrows
<1>5. CASE FillQueue(c) BY <1>5, <1>t DEF FillQueue
<1>6. CASE SpawnWorker(c)
  <2>1. spawned \in Nat /\ spawned' = spawned + 1 /\ Workers \subseteq Nat
    BY <1>6, ContextAssumption DEF TypeInv, TypeOK, SpawnWorker, Workers
  <2>2. spawned + 1 \in Workers
    BY <1>6, ContextAssumption DEF TypeInv, TypeOK, SpawnWorker, MoreToSpawn, Workers
  <2>3. wpc[spawned + 1] = "none"
    BY <1>6, <2>1, <2>2 DEF SpawnWorker
  <2> QED BY <1>6, <1>t, <2>1, <2>2, <2>3 DEF SpawnWorker
<1>7. CASE SpawnThrows(c) BY <1>7, <1>t DEF SpawnThrows
<1>8. CASE AllSpawned(c) BY <1>8, <1>t DEF AllSpawned
<1>9. CASE JoinWorkers(c)
  <2>1. \A w \in Workers : wpc[w] \in {"none", "done"}
    BY <1>9, <1>t, ContextAssumption DEF JoinWorkers, AllJoined, TypeInv, TypeOK, Workers
  <2> QED BY <1>9, <1>t, <2>1 DEF JoinWorkers
<1>10. CASE RestoreGIL(c) BY <1>10, <1>t DEF RestoreGIL
<1>11. CASE FinishAnalyze(c) BY <1>11, <1>t DEF FinishAnalyze
<1> QED BY <1>1, <1>2, <1>3, <1>4, <1>5, <1>6, <1>7, <1>8, <1>9, <1>10, <1>11 DEF AnalyzeStep

\* A worker moves itself, and takes and drops the GIL for itself.
LEMMA WorkerControl ==
    ASSUME TypeInv, ControlInv, NEW w \in Workers, WorkerStep(w)
    PROVE  ControlInv'
<1> USE Threads DEF ControlInv, OneRunner, GilHeld, WorkersQuiet, SpawnedOnly, pool
<1>t. wpc \in [Workers -> {"none", "take", "analyze", "lock", "ensure", "issues",
                           "emplace", "append", "unlock", "done"}]
  BY DEF TypeInv, TypeOK
<1>1. CASE TakeTask(w) BY <1>1, <1>t DEF TakeTask
<1>2. CASE AnalyzeHeader(w) BY <1>2, <1>t DEF AnalyzeHeader
<1>3. CASE LockSubjects(w) BY <1>3, <1>t DEF LockSubjects
<1>4. CASE EnsureGIL(w) BY <1>4, <1>t DEF EnsureGIL, TakesGIL
<1>5. CASE AppendIssues(w) BY <1>5, <1>t DEF AppendIssues
<1>6. CASE DropType(w) BY <1>6, <1>t DEF DropType
<1>7. CASE EmplaceType(w) BY <1>7, <1>t DEF EmplaceType
<1>8. CASE AppendType(w) BY <1>8, <1>t DEF AppendType
<1>9. CASE DropGIL(w) BY <1>9, <1>t DEF DropGIL
<1>10. CASE UnlockSubjects(w) BY <1>10, <1>t DEF UnlockSubjects
<1> QED BY <1>1, <1>2, <1>3, <1>4, <1>5, <1>6, <1>7, <1>8, <1>9, <1>10 DEF WorkerStep

\* ControlInv is inductive relative to TypeInv.
THEOREM ControlInvariant == Spec => []ControlInv
<1>1. ASSUME TypeInv, ControlInv, [Next]_vars PROVE ControlInv'
  <2>1. CASE UNCHANGED vars
    BY <1>1, <2>1 DEF vars, pool, ControlInv, OneRunner, GilHeld, WorkersQuiet, SpawnedOnly
  <2> QED BY <1>1, <2>1, PythonControl, AnalyzeControl, WorkerControl DEF Next
<1> QED BY <1>1, InitControl, TypeInvariant, PTL DEF Spec

-----------------------------------------------------------------------------
(* Lists in Python's hands *)

\* The list an analysis is filling has not been handed out.
FillingUnseen == inProgress => Len(foundTypes) \notin handed

\* Only an analysis in progress touches a list, and only the last one.
LEMMA ListsStep ==
    ASSUME TypeInv, ControlInv, FillingUnseen, [Next]_vars
    PROVE  /\ FillingUnseen'
           /\ \A g \in handed : foundTypes'[g] = foundTypes[g] /\ foundIssues'[g] = foundIssues[g]
<1> USE DEF FillingUnseen, settings, pool, subjects
<1>t. /\ foundTypes \in Seq(Seq(TypeObjects)) /\ foundTypes # <<>>
      /\ foundIssues \in Seq(Seq(Issues)) /\ foundIssues # <<>>
      /\ Len(foundIssues) = Len(foundTypes)
      /\ handed \subseteq 1..Len(foundTypes)
  BY DEF TypeInv, TypeOK
<1>r. \A w \in Workers : wpc[w] \notin {"none", "done"} => inProgress
  BY DEF ControlInv, WorkersQuiet
<1>1. CASE UNCHANGED <<foundTypes, foundIssues, inProgress, handed>> BY <1>1
<1>2. ASSUME NEW c \in Clients, PythonStep(c) \/ AnalyzeStep(c)
      PROVE  /\ FillingUnseen'
             /\ \A g \in handed : foundTypes'[g] = foundTypes[g] /\ foundIssues'[g] = foundIssues[g]
  <2>1. CASE GetFound(c) BY <2>1 DEF GetFound
  <2>2. CASE StartAnalyze(c)
    <3>1. /\ Len(foundTypes') = Len(foundTypes) + 1
          /\ \A g \in handed : foundTypes'[g] = foundTypes[g]
      BY <2>2, <1>t, ReboundLists DEF StartAnalyze
    <3>2. \A g \in handed : foundIssues'[g] = foundIssues[g]
      BY <2>2, <1>t, ReboundLists DEF StartAnalyze
    <3> QED BY <2>2, <1>t, <3>1, <3>2 DEF StartAnalyze
  <2>3. CASE DetectFails(c)
    <3>1. inProgress BY <2>3 DEF DetectFails, ControlInv, OneRunner, Analysing
    <3>2. \A g \in handed : foundIssues'[g] = foundIssues[g]
      BY <2>3, <1>t, <3>1 DEF DetectFails, AppendToLast
    <3> QED BY <2>3, <1>t, <3>2 DEF DetectFails
  <2>4. CASE FinishAnalyze(c) BY <2>4 DEF FinishAnalyze
  <2>5. CASE UNCHANGED <<foundTypes, foundIssues, inProgress, handed>> BY <2>5
  <2> QED
    BY <1>2, <2>1, <2>2, <2>3, <2>4, <2>5 DEF PythonStep, AnalyzeStep, AcquireGIL, ReleaseGIL,
       SetHeaders, SetWorkersCount, SetCompilerOptions, SetEnableDeepAnalysis, SetIgnoreRuntimeTag,
       DetectEnvironment, DetectThrows, FillQueue, SpawnWorker, SpawnThrows, AllSpawned,
       JoinWorkers, RestoreGIL
<1>3. ASSUME NEW w \in Workers, WorkerStep(w)
      PROVE  /\ FillingUnseen'
             /\ \A g \in handed : foundTypes'[g] = foundTypes[g] /\ foundIssues'[g] = foundIssues[g]
  <2>1. CASE AppendIssues(w)
    <3>1. inProgress BY <2>1, <1>r DEF AppendIssues
    <3> QED BY <2>1, <1>t, <3>1 DEF AppendIssues
  <2>2. CASE AppendType(w)
    <3>1. inProgress BY <2>2, <1>r DEF AppendType
    <3>2. Len(foundTypes') = Len(foundTypes)
      BY <2>2, <1>t DEF AppendType, AppendToLast
    <3> QED BY <2>2, <1>t, <3>1, <3>2 DEF AppendType, AppendToLast
  <2>3. CASE UNCHANGED <<foundTypes, foundIssues, inProgress, handed>> BY <2>3
  <2> QED
    BY <1>3, <2>1, <2>2, <2>3 DEF WorkerStep, TakeTask, AnalyzeHeader, LockSubjects, EnsureGIL,
       DropType, EmplaceType, DropGIL, UnlockSubjects
<1> QED BY <1>1, <1>2, <1>3 DEF Next, vars

\* No list of types or issues changes once Python code holds it.
THEOREM FrozenLists == Spec => HandedListsFrozen
<1>1. Init => FillingUnseen BY DEF Init, FillingUnseen
<1>2. TypeInv /\ ControlInv /\ FillingUnseen /\ [Next]_vars => FillingUnseen'
  BY ListsStep
<1>3. TypeInv /\ ControlInv /\ FillingUnseen /\ [Next]_vars =>
        [\A g \in handed : foundTypes'[g] = foundTypes[g] /\ foundIssues'[g] = foundIssues[g]]_vars
  BY ListsStep
<1> QED BY <1>1, <1>2, <1>3, TypeInvariant, ControlInvariant, PTL DEF Spec, HandedListsFrozen

-----------------------------------------------------------------------------
(* The map and the list *)

\* Names that are in the map and, for the worker under way, not yet in the list.
Pending == {NextType(w).name : w \in {v \in Workers : wpc[v] = "append"}}

\* The list holds the objects of the map, each once, but for a pending one.
MapMatchesList ==
    /\ \A n \in DOMAIN typeMap : typeMap[n].decl.name = n
    /\ \A w \in Workers : wpc[w] = "append" =>
         NextType(w).name \in DOMAIN typeMap /\ typeMap[NextType(w).name] = NewObject(w)
    /\ Range(Current(foundTypes)) = {typeMap[n] : n \in DOMAIN typeMap \ Pending}
    /\ \A i, j \in DOMAIN Current(foundTypes) :
         Current(foundTypes)[i].decl.name = Current(foundTypes)[j].decl.name => i = j

\* Appending adds one element to the range.
LEMMA RangeOfAppend ==
    ASSUME NEW S, NEW list \in Seq(S), NEW y \in S
    PROVE  Range(Append(list, y)) = Range(list) \cup {y}
<1>1. ASSUME NEW x \in Range(list) \cup {y} PROVE x \in Range(Append(list, y))
  <2>1. CASE x = y
    <3>1. Len(list) + 1 \in DOMAIN Append(list, y) /\ Append(list, y)[Len(list) + 1] = y OBVIOUS
    <3> QED BY <2>1, <3>1 DEF Range
  <2>2. CASE x \in Range(list)
    <3>1. PICK i \in DOMAIN list : list[i] = x BY <2>2 DEF Range
    <3>2. i \in DOMAIN Append(list, y) /\ Append(list, y)[i] = x BY <3>1
    <3> QED BY <3>2 DEF Range
  <2> QED BY <1>1, <2>1, <2>2
<1>2. ASSUME NEW x \in Range(Append(list, y)) PROVE x \in Range(list) \cup {y}
  <2>1. PICK i \in DOMAIN Append(list, y) : Append(list, y)[i] = x BY <1>2 DEF Range
  <2>2. CASE i = Len(list) + 1 BY <2>1, <2>2
  <2>3. CASE i # Len(list) + 1
    <3>1. i \in DOMAIN list /\ list[i] = x BY <2>1, <2>3
    <3> QED BY <3>1 DEF Range
  <2> QED BY <2>2, <2>3
<1> QED BY <1>1, <1>2

\* At first both are empty.
LEMMA InitMatches == Init => MapMatchesList
BY DEF Init, MapMatchesList, Empty, Current, Range, Pending

\* A step of a worker keeps the map and the list in step.
LEMMA WorkerMatches ==
    ASSUME TypeInv, ControlInv, MapMatchesList, NEW w \in Workers, WorkerStep(w)
    PROVE  MapMatchesList'
<1> USE DEF settings, pool, subjects
<1>t. /\ wpc \in [Workers -> {"none", "take", "analyze", "lock", "ensure", "issues",
                              "emplace", "append", "unlock", "done"}]
      /\ wout \in [Workers -> Outputs]
      /\ wtask \in [Workers -> Tasks \cup {NoTask}]
      /\ foundTypes \in Seq(Seq(TypeObjects)) /\ foundTypes # <<>>
      /\ typeMap \in [DOMAIN typeMap -> TypeObjects]
  BY DEF TypeInv, TypeOK
<1>g. \A v \in Workers : wpc[v] = "append" /\ wpc[w] \in {"emplace", "append"} => v = w
  BY DEF ControlInv, GilHeld
<1>1. ASSUME UNCHANGED <<typeMap, foundTypes>>,
             \A v \in Workers : wpc'[v] = "append" <=> wpc[v] = "append",
             \A v \in Workers : wpc[v] = "append" => wout'[v] = wout[v] /\ wtask'[v] = wtask[v]
      PROVE  MapMatchesList'
  <2>1. \A v \in Workers : wpc[v] = "append" =>
          NextType(v)' = NextType(v) /\ NewObject(v)' = NewObject(v)
    BY <1>1 DEF NextType, NewObject
  <2>2. Pending' = Pending BY <1>1, <2>1 DEF Pending
  <2> QED BY <1>1, <2>1, <2>2 DEF MapMatchesList, Current
<1>2. CASE \/ TakeTask(w) \/ AnalyzeHeader(w) \/ LockSubjects(w) \/ EnsureGIL(w)
           \/ AppendIssues(w) \/ DropType(w) \/ DropGIL(w) \/ UnlockSubjects(w)
  <2>1. /\ UNCHANGED <<typeMap, foundTypes>>
        /\ \A v \in Workers : wpc'[v] = "append" <=> wpc[v] = "append"
        /\ \A v \in Workers : wpc[v] = "append" => wout'[v] = wout[v] /\ wtask'[v] = wtask[v]
    BY <1>2, <1>t DEF TakeTask, AnalyzeHeader, LockSubjects, EnsureGIL, AppendIssues, DropType,
       DropGIL, UnlockSubjects
  <2> QED BY <1>1, <2>1
<1>3. CASE EmplaceType(w)
  <2> DEFINE n == NextType(w).name
  <2>1. Pending = {} BY <1>3, <1>g DEF Pending, EmplaceType
  <2>2. CASE n \in DOMAIN typeMap
    <3>1. typeMap' = typeMap
      BY <1>3, <1>t, <2>2 DEF EmplaceType, TryEmplace
    <3>2. /\ \A v \in Workers : wpc'[v] = "append" <=> wpc[v] = "append"
          /\ \A v \in Workers : wpc[v] = "append" => wout'[v] = wout[v] /\ wtask'[v] = wtask[v]
          /\ foundTypes' = foundTypes
      BY <1>3, <1>t, <2>2 DEF EmplaceType
    <3> QED BY <1>1, <3>1, <3>2
  <2>3. CASE n \notin DOMAIN typeMap
    <3>1. /\ DOMAIN typeMap' = DOMAIN typeMap \cup {n}
          /\ typeMap'[n] = NewObject(w)
          /\ \A m \in DOMAIN typeMap : typeMap'[m] = typeMap[m]
      BY <1>3, <2>3 DEF EmplaceType, TryEmplace
    <3>2. /\ foundTypes' = foundTypes /\ wout' = wout /\ wtask' = wtask
          /\ wpc' = [wpc EXCEPT ![w] = "append"]
      BY <1>3, <2>3 DEF EmplaceType
    <3>3. \A v \in Workers : NextType(v)' = NextType(v) /\ NewObject(v)' = NewObject(v)
      BY <3>2 DEF NextType, NewObject
    <3>4. \A v \in Workers : wpc'[v] = "append" <=> v = w
      BY <3>2, <1>t, <1>g, <1>3 DEF EmplaceType
    <3>5. Pending' = {n} BY <3>3, <3>4 DEF Pending
    <3>6. NewObject(w).decl.name = n BY DEF NewObject
    <3>7. {typeMap'[m] : m \in DOMAIN typeMap' \ Pending'} = {typeMap[m] : m \in DOMAIN typeMap \ Pending}
      BY <2>1, <2>3, <3>1, <3>5
    <3>8. \A m \in DOMAIN typeMap' : typeMap'[m].decl.name = m
      BY <3>1, <3>6 DEF MapMatchesList
    <3>9. \A v \in Workers : wpc'[v] = "append" =>
              NextType(v)'.name \in DOMAIN typeMap' /\ typeMap'[NextType(v)'.name] = NewObject(v)'
      BY <3>1, <3>3, <3>4
    <3>10. Current(foundTypes)' = Current(foundTypes) BY <3>2 DEF Current
    <3> QED BY <3>7, <3>8, <3>9, <3>10 DEF MapMatchesList
  <2> QED BY <2>2, <2>3
<1>4. CASE AppendType(w)
  <2> DEFINE n == NextType(w).name
             list == Current(foundTypes)
  <2>1. \A v \in Workers : wpc[v] = "append" <=> v = w BY <1>4, <1>g DEF AppendType
  <2>2. Pending = {n} BY <2>1 DEF Pending
  <2>3. n \in DOMAIN typeMap /\ typeMap[n] = NewObject(w) BY <2>1 DEF MapMatchesList
  <2>4. list \in Seq(TypeObjects) /\ NewObject(w) \in TypeObjects
    BY <1>t, <2>3, ReplacedLast DEF Current
  <2>5. Append(list, NewObject(w)) \in Seq(TypeObjects) BY <2>4
  <2>6. Current(foundTypes') = Append(list, NewObject(w))
    BY <1>4, <1>t, <2>5, ReplacedLast DEF AppendType, AppendToLast, Current
  <2>7. \A v \in Workers : wpc'[v] # "append" BY <1>4, <1>t, <2>1 DEF AppendType
  <2>8. Pending' = {} BY <2>7 DEF Pending
  <2>9. typeMap' = typeMap BY <1>4 DEF AppendType
  <2>10. Range(list) = {typeMap[m] : m \in DOMAIN typeMap \ {n}} BY <2>2 DEF MapMatchesList
  <2>11. Range(Append(list, NewObject(w))) = {typeMap[m] : m \in DOMAIN typeMap}
    BY <2>3, <2>4, <2>10, RangeOfAppend
  <2>12. NewObject(w).decl.name = n BY DEF NewObject
  <2>13. ASSUME NEW i \in DOMAIN list PROVE list[i].decl.name # n
    <3>1. list[i] \in {typeMap[m] : m \in DOMAIN typeMap \ {n}} BY <2>10 DEF Range
    <3>2. PICK m \in DOMAIN typeMap \ {n} : list[i] = typeMap[m] BY <3>1
    <3> QED BY <3>2 DEF MapMatchesList
  <2>14. \A i, j \in DOMAIN Append(list, NewObject(w)) :
           Append(list, NewObject(w))[i].decl.name = Append(list, NewObject(w))[j].decl.name => i = j
    <3>1. \A i, j \in DOMAIN list : list[i].decl.name = list[j].decl.name => i = j
      BY DEF MapMatchesList
    <3> HIDE DEF list, n
    <3> QED BY <3>1, <2>4, <2>12, <2>13
  <2> QED BY <2>6, <2>7, <2>8, <2>9, <2>11, <2>14 DEF MapMatchesList
<1> QED BY <1>2, <1>3, <1>4 DEF WorkerStep

\* A client touches neither, but for the start of an analysis, which empties both.
LEMMA ClientMatches ==
    ASSUME TypeInv, ControlInv, MapMatchesList, NEW c \in Clients, PythonStep(c) \/ AnalyzeStep(c)
    PROVE  MapMatchesList'
<1> USE DEF settings, pool, subjects
<1>t. wpc \in [Workers -> {"none", "take", "analyze", "lock", "ensure", "issues",
                           "emplace", "append", "unlock", "done"}]
  BY DEF TypeInv, TypeOK
<1>1. ASSUME UNCHANGED <<typeMap, foundTypes, wout, wtask>>,
             \A v \in Workers : wpc'[v] = "append" <=> wpc[v] = "append"
      PROVE  MapMatchesList'
  <2>1. \A v \in Workers : NextType(v)' = NextType(v) /\ NewObject(v)' = NewObject(v)
    BY <1>1 DEF NextType, NewObject
  <2>2. Pending' = Pending BY <1>1, <2>1 DEF Pending
  <2> QED BY <1>1, <2>1, <2>2 DEF MapMatchesList, Current
<1>2. CASE StartAnalyze(c)
  <2>1. \A w \in Workers : wpc'[w] # "append"
    BY <1>2, <1>t DEF StartAnalyze, ControlInv, WorkersQuiet
  <2>2. Pending' = {} BY <2>1 DEF Pending
  <2>3. Current(foundTypes') = <<>>
    BY <1>2, ReboundLists DEF StartAnalyze, Current, TypeInv, TypeOK
  <2>4. DOMAIN typeMap' = {} BY <1>2 DEF StartAnalyze, Empty
  <2> QED BY <2>1, <2>2, <2>3, <2>4 DEF MapMatchesList, Range
<1>3. CASE FillQueue(c)
  <2>1. \A w \in Workers : wpc[w] \in {"none", "done"}
    BY <1>3 DEF FillQueue, ControlInv, WorkersQuiet
  <2>2. \A v \in Workers : wpc'[v] = "append" <=> wpc[v] = "append"
    BY <1>3, <1>t, <2>1 DEF FillQueue
  <2> QED BY <1>1, <1>3, <2>2 DEF FillQueue
<1>4. CASE SpawnWorker(c)
  <2>1. spawned + 1 \in Workers
    BY <1>4, ContextAssumption DEF TypeInv, TypeOK, SpawnWorker, MoreToSpawn, Workers
  <2>2. wpc[spawned + 1] = "none"
    BY <1>4, <2>1, ContextAssumption DEF SpawnWorker, ControlInv, SpawnedOnly, TypeInv, TypeOK, Workers
  <2>3. \A v \in Workers : wpc'[v] = "append" <=> wpc[v] = "append"
    BY <1>4, <1>t, <2>1, <2>2 DEF SpawnWorker
  <2> QED BY <1>1, <1>4, <2>3 DEF SpawnWorker
<1>5. CASE UNCHANGED <<typeMap, foundTypes, wout, wtask, wpc>> BY <1>1, <1>5
<1> QED
  BY <1>2, <1>3, <1>4, <1>5 DEF PythonStep, AnalyzeStep, AcquireGIL, ReleaseGIL, GetFound,
     SetHeaders, SetWorkersCount, SetCompilerOptions, SetEnableDeepAnalysis, SetIgnoreRuntimeTag,
     DetectEnvironment, DetectFails, DetectThrows, SpawnThrows, AllSpawned, JoinWorkers, RestoreGIL,
     FinishAnalyze

\* The map and the list match at all times.
THEOREM MapMatchesListInvariant == Spec => []MapMatchesList
<1>1. ASSUME TypeInv, ControlInv, MapMatchesList, [Next]_vars PROVE MapMatchesList'
  <2>1. CASE UNCHANGED vars
    BY <1>1, <2>1 DEF vars, pool, subjects, MapMatchesList, Pending, NextType, NewObject, Current
  <2> QED BY <1>1, <2>1, WorkerMatches, ClientMatches DEF Next
<1> QED BY <1>1, InitMatches, TypeInvariant, ControlInvariant, PTL DEF Spec

\* A client that holds the GIL sees no pending type.
THEOREM ReadersAgreement == Spec => []ReadersSeeAgreement
<1>1. ControlInv /\ MapMatchesList => ReadersSeeAgreement
  <2> SUFFICES ASSUME ControlInv, MapMatchesList, gil \in Clients
               PROVE  Range(Current(foundTypes)) = Range(typeMap)
    BY DEF ReadersSeeAgreement, MapMatchesList
  <2>1. \A w \in Workers : wpc[w] # "append" BY Threads DEF ControlInv, GilHeld
  <2>2. Pending = {} BY <2>1 DEF Pending
  <2> QED BY <2>2 DEF MapMatchesList, Range
<1> QED BY <1>1, ControlInvariant, MapMatchesListInvariant, PTL

-----------------------------------------------------------------------------
(* Every header is analysed, and nothing else *)

Reports(h) == ReportedBy(h, config, compilerEnv)
Registering == {"lock", "ensure", "issues", "emplace", "append"}

\* What a worker holds belongs to this analysis: a header the client asked for,
\* under the settings in force; and of what that header reports, the part that is
\* not in the map yet is still in the worker's hands.
WorkInv ==
    \A w \in Workers :
        /\ wpc[w] \in Busy => wtask[w].config = config /\ wtask[w].header \in Range(headers)
        /\ wpc[w] \in Registering =>
             /\ NamesIn(wout[w].types) \subseteq Reports(wtask[w].header)
             /\ Reports(wtask[w].header) \subseteq DOMAIN typeMap \cup NamesIn(wout[w].types)
        /\ wpc[w] = "unlock" => Reports(wtask[w].header) \subseteq DOMAIN typeMap

\* The queue holds stop tasks and headers of this analysis.
QueueInv ==
    (\/ \E w \in Workers : wpc[w] \notin {"none", "done"}
     \/ \E c \in Clients : cpc[c] \in {"spawn", "join"}) =>
        \A i \in DOMAIN tasks :
            tasks[i] = StopTask \/ \E h \in Range(headers) : tasks[i] = HeaderTask(h)

\* Nothing is in the map that this analysis did not find.
MapInv ==
    /\ inProgress => DOMAIN typeMap \subseteq Expected
    /\ \A c \in Clients : cpc[c] \in {"detect", "queue"} => DOMAIN typeMap = {}

\* No header waits behind a stop task; once one worker was stopped, none waits.
OrderInv ==
    (\E c \in Clients : cpc[c] \in {"spawn", "join"}) =>
        /\ \A i, j \in DOMAIN tasks : i < j /\ tasks[i] = StopTask => tasks[j] = StopTask
        /\ (\E w \in Workers : wpc[w] = "done") => \A i \in DOMAIN tasks : tasks[i] = StopTask

\* A header waits, is in a worker's hands, or is done.
AccountInv ==
    (\E c \in Clients : cpc[c] \in {"spawn", "join"}) =>
        \A h \in Range(headers) :
            \/ \E i \in DOMAIN tasks : tasks[i] = HeaderTask(h)
            \/ \E w \in Workers : wpc[w] \in Busy /\ wtask[w].header = h
            \/ Reports(h) \subseteq DOMAIN typeMap

\* The join is entered with at least two workers, and its result is the whole.
ResultInv ==
    \A c \in Clients :
        /\ cpc[c] \in {"spawn", "join"} => workersAmount >= 2
        /\ cpc[c] = "join" => spawned = workersAmount
        /\ cpc[c] \in {"detect", "queue", "spawn", "join"} => ~bResult
        /\ cpc[c] \in {"acquire", "return"} /\ bResult => DOMAIN typeMap = Expected

ContentInv == WorkInv /\ QueueInv /\ MapInv /\ OrderInv /\ AccountInv /\ ResultInv

\* Nothing runs at first.
LEMMA InitContent == Init => ContentInv
BY DEF Init, ContentInv, WorkInv, QueueInv, MapInv, OrderInv, AccountInv, ResultInv, Busy,
   Registering, Empty

\* A worker leaves the analysis' settings, the clients and the other workers alone.
LEMMA WorkerFrame ==
    ASSUME TypeInv, NEW w \in Workers, WorkerStep(w)
    PROVE  /\ UNCHANGED <<headers, config, compilerEnv, inProgress, cpc, bResult, spawned, workersAmount>>
           /\ DOMAIN typeMap \subseteq DOMAIN typeMap'
           /\ \A v \in Workers \ {w} : wpc'[v] = wpc[v] /\ wtask'[v] = wtask[v] /\ wout'[v] = wout[v]
<1>t. /\ wpc \in [Workers -> {"none", "take", "analyze", "lock", "ensure", "issues",
                              "emplace", "append", "unlock", "done"}]
      /\ wout \in [Workers -> Outputs]
      /\ wtask \in [Workers -> Tasks \cup {NoTask}]
  BY DEF TypeInv, TypeOK
<1> USE DEF settings, pool, subjects
<1>1. CASE EmplaceType(w)
  <2>1. DOMAIN typeMap \subseteq DOMAIN typeMap' BY <1>1 DEF EmplaceType, TryEmplace
  <2> QED BY <1>1, <1>t, <2>1 DEF EmplaceType
<1>2. CASE AppendType(w) BY <1>2, <1>t DEF AppendType
<1>3. CASE \/ TakeTask(w) \/ AnalyzeHeader(w) \/ LockSubjects(w) \/ EnsureGIL(w)
           \/ AppendIssues(w) \/ DropType(w) \/ DropGIL(w) \/ UnlockSubjects(w)
  BY <1>3, <1>t DEF TakeTask, AnalyzeHeader, LockSubjects, EnsureGIL, AppendIssues, DropType,
     DropGIL, UnlockSubjects
<1> QED BY <1>1, <1>2, <1>3 DEF WorkerStep

\* Handling the first type leaves its name and the names of the rest.
LEMMA NamesWithoutFirst ==
    ASSUME NEW out \in Outputs, out.types # <<>>
    PROVE  /\ Head(out.types).kind # "none" =>
                NamesIn(out.types) = NamesIn(WithoutFirst(out).types) \cup {Head(out.types).name}
           /\ Head(out.types).kind = "none" => NamesIn(out.types) = NamesIn(WithoutFirst(out).types)
<1> DEFINE all == out.types
           rest == Tail(out.types)
<1>1. all \in Seq(TypeDecls) /\ all # <<>> BY DEF Outputs
<1>2. Range(all) = Range(rest) \cup {Head(all)}
  <2>1. ASSUME NEW x \in Range(all) PROVE x \in Range(rest) \cup {Head(all)}
    <3>1. PICK i \in DOMAIN all : all[i] = x BY <2>1 DEF Range
    <3>2. CASE i = 1 BY <3>1, <3>2, <1>1
    <3>3. CASE i # 1
      <4>1. i - 1 \in DOMAIN rest /\ rest[i - 1] = x BY <3>1, <3>3, <1>1
      <4> QED BY <4>1 DEF Range
    <3> QED BY <3>2, <3>3
  <2>2. ASSUME NEW x \in Range(rest) \cup {Head(all)} PROVE x \in Range(all)
    <3>1. CASE x = Head(all)
      <4>1. 1 \in DOMAIN all /\ all[1] = x BY <3>1, <1>1
      <4> QED BY <4>1 DEF Range
    <3>2. CASE x \in Range(rest)
      <4>1. PICK i \in DOMAIN rest : rest[i] = x BY <3>2 DEF Range
      <4>2. i + 1 \in DOMAIN all /\ all[i + 1] = x BY <4>1, <1>1
      <4> QED BY <4>2 DEF Range
    <3> QED BY <2>2, <3>1, <3>2
  <2> QED BY <2>1, <2>2
<1>3. WithoutFirst(out).types = rest BY DEF WithoutFirst
<1> HIDE DEF all, rest
<1> QED BY <1>2, <1>3 DEF NamesIn, all

\* A worker registers exactly what its header reports.
LEMMA WorkerWork ==
    ASSUME TypeInv, ControlInv, ContentInv, MapMatchesList, NEW w \in Workers, WorkerStep(w)
    PROVE  WorkInv' /\ MapInv'
<1> USE DEF settings, pool, subjects
<1>t. /\ wpc \in [Workers -> {"none", "take", "analyze", "lock", "ensure", "issues",
                              "emplace", "append", "unlock", "done"}]
      /\ wout \in [Workers -> Outputs]
      /\ wtask \in [Workers -> Tasks \cup {NoTask}]
      /\ tasks \in Seq(Tasks)
  BY DEF TypeInv, TypeOK
<1>f. /\ UNCHANGED <<headers, config, compilerEnv, inProgress, cpc>>
      /\ DOMAIN typeMap \subseteq DOMAIN typeMap'
      /\ \A v \in Workers \ {w} : wpc'[v] = wpc[v] /\ wtask'[v] = wtask[v] /\ wout'[v] = wout[v]
  BY WorkerFrame
<1>r. /\ \A h : Reports(h)' = Reports(h)
      /\ Expected' = Expected
  BY <1>f DEF Reports, Expected
<1>x. \A h \in Range(headers) : Reports(h) \subseteq Expected
  BY DEF Reports, Expected
<1>o. WorkInv BY DEF ContentInv
<1>w. SUFFICES
        /\ wpc'[w] \in Busy => wtask'[w].config = config /\ wtask'[w].header \in Range(headers)
        /\ wpc'[w] \in Registering =>
             /\ NamesIn(wout'[w].types) \subseteq Reports(wtask'[w].header)
             /\ Reports(wtask'[w].header) \subseteq DOMAIN typeMap' \cup NamesIn(wout'[w].types)
        /\ wpc'[w] = "unlock" => Reports(wtask'[w].header) \subseteq DOMAIN typeMap'
        /\ DOMAIN typeMap' \subseteq DOMAIN typeMap \cup Expected
        /\ wpc[w] = "emplace" \/ DOMAIN typeMap' = DOMAIN typeMap
  <2>1. WorkInv' BY <1>w, <1>f, <1>r, <1>o DEF WorkInv
  <2>2. wpc[w] = "emplace" => \A c \in Clients : cpc[c] \notin {"detect", "queue"}
    BY DEF ControlInv, WorkersQuiet
  <2>3. MapInv' BY <1>w, <1>f, <1>r, <2>2 DEF ContentInv, MapInv
  <2> QED BY <2>1, <2>3
<1>1. CASE TakeTask(w)
  <2>1. /\ wtask'[w] = tasks[1] /\ 1 \in DOMAIN tasks /\ typeMap' = typeMap
        /\ wpc'[w] = IF tasks[1] = StopTask THEN "done" ELSE "analyze"
    BY <1>1, <1>t DEF TakeTask
  <2>2. tasks[1] = StopTask \/ \E h \in Range(headers) : tasks[1] = HeaderTask(h)
    BY <1>1, <2>1 DEF TakeTask, ContentInv, QueueInv
  <2> QED BY <2>1, <2>2 DEF HeaderTask, Busy, Registering
<1>2. CASE AnalyzeHeader(w)
  <2>1. /\ wtask' = wtask /\ typeMap' = typeMap /\ wpc'[w] = "lock"
        /\ wout'[w] = AnalysisOf[wtask[w].header][wtask[w].config][compilerEnv]
    BY <1>2, <1>t DEF AnalyzeHeader
  <2>2. wtask[w].config = config /\ wtask[w].header \in Range(headers)
    BY <1>2, <1>o DEF WorkInv, AnalyzeHeader, Busy
  <2>3. NamesIn(wout'[w].types) = Reports(wtask[w].header)
    BY <2>1, <2>2 DEF Reports, ReportedBy
  <2> QED BY <2>1, <2>2, <2>3 DEF Busy, Registering
<1>3. CASE LockSubjects(w) \/ EnsureGIL(w) \/ AppendIssues(w)
  <2>1. /\ UNCHANGED <<wtask, wout, typeMap>>
        /\ wpc[w] \in Registering /\ wpc'[w] \in Registering
    BY <1>3, <1>t DEF LockSubjects, EnsureGIL, AppendIssues, Registering
  <2> QED BY <2>1, <1>o DEF WorkInv, Busy, Registering
<1>4. CASE DropType(w)
  <2>1. /\ UNCHANGED <<wtask, typeMap, wpc>> /\ wpc[w] = "emplace"
        /\ wout'[w] = WithoutFirst(wout[w])
        /\ wout[w].types # <<>> /\ Head(wout[w].types).kind = "none"
    BY <1>4, <1>t DEF DropType, NextType
  <2>2. NamesIn(wout'[w].types) = NamesIn(wout[w].types)
    BY <2>1, <1>t, NamesWithoutFirst
  <2> QED BY <2>1, <2>2, <1>o DEF WorkInv, Busy, Registering
<1>5. CASE EmplaceType(w)
  <2> DEFINE n == NextType(w).name
  <2>1. /\ UNCHANGED wtask /\ wpc[w] = "emplace"
        /\ wout[w].types # <<>> /\ Head(wout[w].types).kind # "none"
        /\ DOMAIN typeMap' = DOMAIN typeMap \cup {n}
    BY <1>5 DEF EmplaceType, NextType, TryEmplace
  <2>2. NamesIn(wout[w].types) = NamesIn(WithoutFirst(wout[w]).types) \cup {n}
    BY <2>1, <1>t, NamesWithoutFirst DEF NextType
  <2>3. /\ NamesIn(wout[w].types) \subseteq Reports(wtask[w].header)
        /\ Reports(wtask[w].header) \subseteq DOMAIN typeMap \cup NamesIn(wout[w].types)
        /\ wtask[w].config = config /\ wtask[w].header \in Range(headers)
    BY <2>1, <1>o DEF WorkInv, Busy, Registering
  <2>4. \/ wout'[w] = WithoutFirst(wout[w]) /\ wpc'[w] = "emplace"
        \/ wout'[w] = wout[w] /\ wpc'[w] = "append"
    BY <1>5, <1>t DEF EmplaceType
  <2> QED BY <2>1, <2>2, <2>3, <2>4, <1>x
<1>6. CASE AppendType(w)
  <2>1. /\ UNCHANGED <<wtask, typeMap>> /\ wpc[w] = "append" /\ wpc'[w] = "emplace"
        /\ wout'[w] = WithoutFirst(wout[w]) /\ wout[w].types # <<>>
    BY <1>6, <1>t DEF AppendType, TypeInv, WorkersHold
  <2>2. NextType(w).name \in DOMAIN typeMap BY <2>1 DEF MapMatchesList
  <2>3. /\ NamesIn(wout'[w].types) \subseteq NamesIn(wout[w].types)
        /\ NamesIn(wout[w].types) \subseteq NamesIn(wout'[w].types) \cup {NextType(w).name}
    BY <2>1, <1>t, NamesWithoutFirst DEF NextType
  <2> QED BY <2>1, <2>2, <2>3, <1>o DEF WorkInv, Busy, Registering
<1>7. CASE DropGIL(w)
  <2>1. /\ UNCHANGED <<wtask, typeMap>> /\ wpc[w] = "emplace" /\ wpc'[w] = "unlock"
        /\ wout[w].types = <<>>
    BY <1>7, <1>t DEF DropGIL
  <2>2. NamesIn(wout[w].types) = {} BY <2>1 DEF NamesIn, Range
  <2> QED BY <2>1, <2>2, <1>o DEF WorkInv, Busy, Registering
<1>8. CASE UnlockSubjects(w)
  BY <1>8, <1>t DEF UnlockSubjects, Busy, Registering
<1> QED BY <1>1, <1>2, <1>3, <1>4, <1>5, <1>6, <1>7, <1>8 DEF WorkerStep

\* A worker takes the front of the queue into its hands and puts nothing back.
LEMMA WorkerQueue ==
    ASSUME TypeInv, ControlInv, ContentInv, MapMatchesList, NEW w \in Workers, WorkerStep(w)
    PROVE  QueueInv' /\ OrderInv' /\ AccountInv' /\ ResultInv'
<1> USE DEF settings, pool, subjects
<1>t. /\ wpc \in [Workers -> {"none", "take", "analyze", "lock", "ensure", "issues",
                              "emplace", "append", "unlock", "done"}]
      /\ wtask \in [Workers -> Tasks \cup {NoTask}]
      /\ tasks \in Seq(Tasks)
  BY DEF TypeInv, TypeOK
<1>f. /\ UNCHANGED <<headers, config, compilerEnv, inProgress, cpc, bResult, spawned, workersAmount>>
      /\ DOMAIN typeMap \subseteq DOMAIN typeMap'
      /\ \A v \in Workers \ {w} : wpc'[v] = wpc[v] /\ wtask'[v] = wtask[v] /\ wout'[v] = wout[v]
  BY WorkerFrame
<1>r. \A h : Reports(h)' = Reports(h) /\ HeaderTask(h)' = HeaderTask(h)
  BY <1>f DEF Reports, HeaderTask
<1>a. wpc[w] \notin {"none", "done"}
  BY DEF WorkerStep, TakeTask, AnalyzeHeader, LockSubjects, EnsureGIL, AppendIssues, DropType,
     EmplaceType, AppendType, DropGIL, UnlockSubjects
<1>s. \A h : HeaderTask(h) # StopTask /\ HeaderTask(h).header = h
  BY DEF HeaderTask, StopTask
<1>m. ResultInv'
  <2>1. \A c \in Clients : cpc[c] \notin {"acquire", "return"}
    BY <1>a DEF ControlInv, WorkersQuiet
  <2> QED BY <1>f, <2>1 DEF ContentInv, ResultInv
<1>1. CASE TakeTask(w)
  <2>1. /\ tasks # <<>> /\ tasks' = Tail(tasks) /\ typeMap' = typeMap
        /\ wtask' = [wtask EXCEPT ![w] = tasks[1]]
        /\ wpc' = [wpc EXCEPT ![w] = IF tasks[1] = StopTask THEN "done" ELSE "analyze"]
        /\ wpc[w] = "take"
    BY <1>1, <1>t DEF TakeTask, PopFront
  <2>2. /\ 1 \in DOMAIN tasks
        /\ \A i \in DOMAIN tasks' : i + 1 \in DOMAIN tasks /\ tasks'[i] = tasks[i + 1]
        /\ \A i \in DOMAIN tasks : i # 1 => i - 1 \in DOMAIN tasks' /\ tasks'[i - 1] = tasks[i]
        /\ DOMAIN tasks' \subseteq Nat /\ DOMAIN tasks \subseteq Nat \ {0}
    BY <2>1, <1>t
  <2>3. QueueInv' BY <1>a, <1>f, <1>r, <2>2 DEF ContentInv, QueueInv
  <2>4. ASSUME \E c \in Clients : cpc[c] \in {"spawn", "join"}
        PROVE  /\ \A i, j \in DOMAIN tasks' : i < j /\ tasks'[i] = StopTask => tasks'[j] = StopTask
               /\ (\E v \in Workers : wpc'[v] = "done") => \A i \in DOMAIN tasks' : tasks'[i] = StopTask
    <3>1. \A i, j \in DOMAIN tasks : i < j /\ tasks[i] = StopTask => tasks[j] = StopTask
      BY <2>4 DEF ContentInv, OrderInv
    <3>2. \A i, j \in DOMAIN tasks' : i < j /\ tasks'[i] = StopTask => tasks'[j] = StopTask
      BY <2>2, <3>1
    <3>3. CASE tasks[1] = StopTask
      <4>1. ASSUME NEW i \in DOMAIN tasks' PROVE tasks'[i] = StopTask
        <5>1. 1 < i + 1 /\ i + 1 \in DOMAIN tasks BY <2>2, <1>t
        <5> QED BY <2>2, <3>1, <3>3, <5>1
      <4> QED BY <3>2, <4>1
    <3>4. CASE tasks[1] # StopTask
      <4>1. ~ \E v \in Workers : wpc[v] = "done"
        BY <2>2, <2>4, <3>4 DEF ContentInv, OrderInv
      <4>2. ~ \E v \in Workers : wpc'[v] = "done" BY <2>1, <1>t, <3>4, <4>1
      <4> QED BY <3>2, <4>2
    <3> QED BY <3>3, <3>4
  <2>5. OrderInv' BY <1>f, <2>4 DEF OrderInv, StopTask
  <2>6. ASSUME \E c \in Clients : cpc[c] \in {"spawn", "join"}, NEW h \in Range(headers)
        PROVE  \/ \E i \in DOMAIN tasks' : tasks'[i] = HeaderTask(h)
               \/ \E v \in Workers : wpc'[v] \in Busy /\ wtask'[v].header = h
               \/ Reports(h) \subseteq DOMAIN typeMap'
    <3>1. CASE \E i \in DOMAIN tasks : tasks[i] = HeaderTask(h)
      <4>1. PICK i \in DOMAIN tasks : tasks[i] = HeaderTask(h) BY <3>1
      <4>2. CASE i = 1
        <5>1. wpc'[w] = "analyze" /\ wtask'[w].header = h
          BY <2>1, <4>1, <4>2, <1>s, <1>t
        <5> QED BY <5>1 DEF Busy
      <4>3. CASE i # 1 BY <2>2, <4>1, <4>3
      <4> QED BY <4>2, <4>3
    <3>2. CASE \E v \in Workers : wpc[v] \in Busy /\ wtask[v].header = h
      <4>1. PICK v \in Workers : wpc[v] \in Busy /\ wtask[v].header = h BY <3>2
      <4>2. v # w BY <2>1, <4>1 DEF Busy
      <4> QED BY <1>f, <4>1, <4>2
    <3>3. CASE Reports(h) \subseteq DOMAIN typeMap BY <3>3, <2>1
    <3> QED BY <2>6, <3>1, <3>2, <3>3 DEF ContentInv, AccountInv
  <2>7. AccountInv' BY <1>f, <1>r, <2>6 DEF AccountInv
  <2> QED BY <1>m, <2>3, <2>5, <2>7
<1>2. CASE ~TakeTask(w)
  <2>1. /\ UNCHANGED tasks
        /\ wpc[w] \in Busy
        /\ \/ wpc'[w] \in Busy /\ wtask'[w] = wtask[w]
           \/ wpc[w] = "unlock" /\ wpc'[w] = "take"
    BY <1>2, <1>t DEF WorkerStep, AnalyzeHeader, LockSubjects, EnsureGIL, AppendIssues, DropType,
       EmplaceType, AppendType, DropGIL, UnlockSubjects, Busy
  <2>2. QueueInv' BY <1>a, <1>f, <1>r, <2>1 DEF ContentInv, QueueInv, StopTask
  <2>3. \A v \in Workers : wpc'[v] = "done" => wpc[v] = "done"
    BY <1>f, <2>1 DEF Busy
  <2>4. OrderInv' BY <1>f, <2>1, <2>3 DEF ContentInv, OrderInv, StopTask
  <2>5. ASSUME \E c \in Clients : cpc[c] \in {"spawn", "join"}, NEW h \in Range(headers)
        PROVE  \/ \E i \in DOMAIN tasks : tasks[i] = HeaderTask(h)
               \/ \E v \in Workers : wpc'[v] \in Busy /\ wtask'[v].header = h
               \/ Reports(h) \subseteq DOMAIN typeMap'
    <3>1. CASE \E v \in Workers : wpc[v] \in Busy /\ wtask[v].header = h
      <4>1. PICK v \in Workers : wpc[v] \in Busy /\ wtask[v].header = h BY <3>1
      <4>2. CASE v # w BY <1>f, <4>1, <4>2
      <4>3. CASE v = w /\ wpc[w] # "unlock" BY <2>1, <4>1, <4>3
      <4>4. CASE v = w /\ wpc[w] = "unlock"
        <5>1. Reports(h) \subseteq DOMAIN typeMap BY <4>1, <4>4 DEF ContentInv, WorkInv
        <5> QED BY <5>1, <1>f
      <4> QED BY <4>2, <4>3, <4>4
    <3>2. CASE Reports(h) \subseteq DOMAIN typeMap BY <3>2, <1>f
    <3> QED BY <2>5, <3>1, <3>2 DEF ContentInv, AccountInv
  <2>6. AccountInv' BY <1>f, <1>r, <2>1, <2>5 DEF AccountInv
  <2> QED BY <1>m, <2>2, <2>4, <2>6
<1> QED BY <1>1, <1>2

\* Python calls change settings only between analyses.
LEMMA PythonContent ==
    ASSUME TypeInv, ControlInv, ContentInv, NEW c \in Clients, PythonStep(c)
    PROVE  ContentInv'
<1> USE DEF settings, pool, subjects
<1>t. cpc \in [Clients -> {"outside", "python"} \cup Analysing] BY DEF TypeInv, TypeOK
<1>1. ASSUME cpc[c] \in {"outside", "python"}, cpc'[c] \in {"outside", "python"},
             \A d \in Clients : d # c => cpc'[d] = cpc[d],
             UNCHANGED <<inProgress, settings, bResult, compilerEnv, pool, subjects>>
      PROVE  ContentInv'
  <2>1. \A d \in Clients : \A S \in SUBSET Analysing : cpc'[d] \in S <=> cpc[d] \in S
    BY <1>1 DEF Analysing
  <2>2. /\ \A h : Reports(h)' = Reports(h) /\ HeaderTask(h)' = HeaderTask(h)
        /\ Expected' = Expected
    BY <1>1 DEF Reports, HeaderTask, Expected
  <2>3. /\ \A d \in Clients : cpc'[d] \in {"spawn", "join"} <=> cpc[d] \in {"spawn", "join"}
        /\ \A d \in Clients : cpc'[d] \in {"detect", "queue"} <=> cpc[d] \in {"detect", "queue"}
    BY <1>1
  <2>4. WorkInv' BY <1>1, <2>2 DEF ContentInv, WorkInv
  <2>5. QueueInv' BY <1>1, <2>2, <2>3 DEF ContentInv, QueueInv, StopTask
  <2>6. MapInv' BY <1>1, <2>2, <2>3 DEF ContentInv, MapInv
  <2>7. OrderInv' BY <1>1, <2>3 DEF ContentInv, OrderInv, StopTask
  <2>8. AccountInv' BY <1>1, <2>2, <2>3 DEF ContentInv, AccountInv
  <2>9. ResultInv' BY <1>1, <2>2, <2>3 DEF ContentInv, ResultInv
  <2> QED BY <2>4, <2>5, <2>6, <2>7, <2>8, <2>9 DEF ContentInv
<1>2. ASSUME ~inProgress, UNCHANGED <<cpc, inProgress, bResult, compilerEnv, pool, subjects>>
      PROVE  ContentInv'
  <2>1. \A d \in Clients : cpc'[d] \notin Analysing BY <1>2 DEF ControlInv, OneRunner
  <2>2. \A w \in Workers : wpc'[w] \in {"none", "done"} BY <1>2 DEF ControlInv, WorkersQuiet
  <2> QED BY <1>2, <2>1, <2>2 DEF ContentInv, WorkInv, QueueInv, MapInv, OrderInv, AccountInv,
          ResultInv, Busy, Registering, Analysing
<1>3. CASE AcquireGIL(c) \/ ReleaseGIL(c) \/ GetFound(c)
  <2>1. /\ cpc[c] \in {"outside", "python"} /\ cpc'[c] \in {"outside", "python"}
        /\ \A d \in Clients : d # c => cpc'[d] = cpc[d]
        /\ UNCHANGED <<inProgress, settings, bResult, compilerEnv, pool, subjects>>
    BY <1>3, <1>t DEF AcquireGIL, ReleaseGIL, GetFound
  <2> QED BY <1>1, <2>1
<1>4. CASE \/ SetHeaders(c) \/ SetWorkersCount(c) \/ SetCompilerOptions(c)
           \/ SetEnableDeepAnalysis(c) \/ SetIgnoreRuntimeTag(c)
  BY <1>2, <1>4 DEF SetHeaders, SetWorkersCount, SetCompilerOptions, SetEnableDeepAnalysis,
     SetIgnoreRuntimeTag, MaySet
<1> QED BY <1>3, <1>4 DEF PythonStep

\* The queue filled by runAnalyze: the headers, and then nothing but stop tasks.
LEMMA NewTasksShape ==
    ASSUME TypeInv
    PROVE  /\ \A i \in DOMAIN NewTasks :
                NewTasks[i] = StopTask \/ \E h \in Range(headers) : NewTasks[i] = HeaderTask(h)
           /\ \A i, j \in DOMAIN NewTasks : i < j /\ NewTasks[i] = StopTask => NewTasks[j] = StopTask
           /\ \A h \in Range(headers) : \E i \in DOMAIN NewTasks : NewTasks[i] = HeaderTask(h)
<1>1. /\ headers \in Seq(Headers) /\ Len(headers) \in Nat /\ workersAmount \in Nat
      /\ DOMAIN headers = 1..Len(headers)
  BY ContextAssumption DEF TypeInv, TypeOK
<1>2. \A h : HeaderTask(h) # StopTask BY DEF HeaderTask, StopTask
<1>3. \A i \in DOMAIN NewTasks :
        /\ i \in 1..(Len(headers) + workersAmount)
        /\ i <= Len(headers) => NewTasks[i] = HeaderTask(headers[i]) /\ headers[i] \in Range(headers)
        /\ i > Len(headers) => NewTasks[i] = StopTask
  BY <1>1 DEF NewTasks, Range
<1>4. ASSUME NEW h \in Range(headers) PROVE \E i \in DOMAIN NewTasks : NewTasks[i] = HeaderTask(h)
  <2>1. PICK i \in 1..Len(headers) : headers[i] = h BY <1>1 DEF Range
  <2>2. i \in DOMAIN NewTasks BY <1>1 DEF NewTasks
  <2> QED BY <1>3, <2>1, <2>2
<1> QED BY <1>1, <1>2, <1>3, <1>4

\* Once every worker was joined, every header is done.
LEMMA JoinComplete ==
    ASSUME TypeInv, ControlInv, ContentInv, NEW c \in Clients, JoinWorkers(c)
    PROVE  Expected \subseteq DOMAIN typeMap
<1>1. /\ cpc[c] = "join" /\ \A w \in 1..spawned : wpc[w] = "done"
      /\ spawned >= 2 /\ spawned \in 0..MaxWorkers
  BY DEF JoinWorkers, AllJoined, ContentInv, ResultInv, TypeInv, TypeOK
<1>2. 1 \in Workers /\ wpc[1] = "done" BY <1>1, ContextAssumption DEF Workers
<1>3. \A w \in Workers : wpc[w] \in {"none", "done"}
  BY <1>1, ContextAssumption DEF ControlInv, SpawnedOnly, Workers
<1>4. \A i \in DOMAIN tasks : tasks[i] = StopTask BY <1>1, <1>2 DEF ContentInv, OrderInv
<1>5. \A h : HeaderTask(h) # StopTask BY DEF HeaderTask, StopTask
<1>6. \A h \in Range(headers) : Reports(h) \subseteq DOMAIN typeMap
  BY <1>1, <1>3, <1>4, <1>5 DEF ContentInv, AccountInv, Busy
<1> QED BY <1>6 DEF Expected, Reports

\* analyze() asks for every header once and returns with all of them done.
LEMMA AnalyzeContent ==
    ASSUME TypeInv, ControlInv, ContentInv, NEW c \in Clients, AnalyzeStep(c)
    PROVE  ContentInv'
<1> USE DEF settings, pool, subjects
<1>t. /\ cpc \in [Clients -> {"outside", "python"} \cup Analysing]
      /\ wpc \in [Workers -> {"none", "take", "analyze", "lock", "ensure", "issues",
                              "emplace", "append", "unlock", "done"}]
  BY DEF TypeInv, TypeOK
<1>c. /\ WorkInv /\ QueueInv /\ MapInv /\ OrderInv /\ AccountInv /\ ResultInv BY DEF ContentInv
<1>u. cpc[c] \in Analysing => inProgress /\ \A d \in Clients : d # c => cpc[d] \notin Analysing
  BY DEF ControlInv, OneRunner
<1>q. cpc[c] \in {"detect", "queue", "acquire", "return"} => \A w \in Workers : wpc[w] \in {"none", "done"}
  BY DEF ControlInv, WorkersQuiet
<1>k. ASSUME NEW s \in {"outside", "python"} \cup Analysing,
             cpc' = [cpc EXCEPT ![c] = s],
             cpc[c] \in Analysing \/ ~inProgress
      PROVE  \A d \in Clients : cpc'[d] \in Analysing => d = c /\ cpc'[c] = s
  BY <1>k, <1>u, <1>t DEF ControlInv, OneRunner
<1>0. ASSUME \A w \in Workers : wpc[w] \in {"none", "done"}, UNCHANGED wpc,
             \A d \in Clients : cpc'[d] \notin {"spawn", "join"}
      PROVE  WorkInv' /\ QueueInv' /\ OrderInv' /\ AccountInv'
  BY <1>0 DEF WorkInv, QueueInv, OrderInv, AccountInv, Busy, Registering
<1>1. CASE StartAnalyze(c)
  <2>1. /\ \A w \in Workers : wpc[w] \in {"none", "done"}
        /\ ~inProgress /\ cpc' = [cpc EXCEPT ![c] = "detect"]
        /\ UNCHANGED wpc /\ DOMAIN typeMap' = {} /\ bResult' = FALSE
    BY <1>1 DEF StartAnalyze, ControlInv, WorkersQuiet, Empty
  <2>2. \A d \in Clients : cpc'[d] \in Analysing => cpc'[d] = "detect"
    BY <2>1, <1>k DEF Analysing
  <2>3. WorkInv' /\ QueueInv' /\ OrderInv' /\ AccountInv' BY <2>1, <2>2, <1>0 DEF Analysing
  <2>4. MapInv' BY <2>1 DEF MapInv
  <2>5. ResultInv' BY <2>1, <2>2 DEF ResultInv, Analysing
  <2> QED BY <2>3, <2>4, <2>5 DEF ContentInv
<1>2. CASE DetectEnvironment(c)
  <2>1. /\ cpc[c] = "detect" /\ cpc' = [cpc EXCEPT ![c] = "queue"]
        /\ UNCHANGED <<wpc, typeMap, bResult>>
    BY <1>2 DEF DetectEnvironment
  <2>2. \A d \in Clients : cpc'[d] \in Analysing => cpc'[d] = "queue"
    BY <2>1, <1>k DEF Analysing
  <2>3. WorkInv' /\ QueueInv' /\ OrderInv' /\ AccountInv' BY <2>1, <2>2, <1>q, <1>0 DEF Analysing
  <2>4. DOMAIN typeMap = {} BY <2>1, <1>c DEF MapInv
  <2>5. MapInv' BY <2>1, <2>4 DEF MapInv
  <2>6. ResultInv' BY <2>1, <2>2, <1>c DEF ResultInv, Analysing
  <2> QED BY <2>3, <2>5, <2>6 DEF ContentInv
<1>3. CASE DetectFails(c) \/ DetectThrows(c) \/ FinishAnalyze(c)
  <2>1. /\ cpc[c] \in {"detect", "return"} /\ cpc' = [cpc EXCEPT ![c] = "python"]
        /\ UNCHANGED <<wpc, typeMap, bResult, headers, config, compilerEnv>>
        /\ inProgress' => inProgress
    BY <1>3, <1>u DEF DetectFails, DetectThrows, FinishAnalyze, Analysing
  <2>2. \A d \in Clients : cpc'[d] \notin Analysing
    BY <2>1, <1>k DEF Analysing
  <2>3. WorkInv' /\ QueueInv' /\ OrderInv' /\ AccountInv' BY <2>1, <2>2, <1>q, <1>0 DEF Analysing
  <2>4. Expected' = Expected BY <2>1 DEF Expected
  <2>5. MapInv' BY <2>1, <2>2, <2>4, <1>c DEF MapInv, Analysing
  <2>6. ResultInv' BY <2>2 DEF ResultInv, Analysing
  <2> QED BY <2>3, <2>5, <2>6 DEF ContentInv
<1>4. CASE FillQueue(c)
  <2>1. /\ cpc[c] = "queue" /\ tasks' = NewTasks
        /\ UNCHANGED <<inProgress, headers, config, compilerEnv, typeMap, bResult, workersAmount>>
        /\ DOMAIN typeMap = {} /\ ~bResult
    BY <1>4, <1>c DEF FillQueue, FreshQueue, MapInv, ResultInv
  <2>2. /\ \A h : Reports(h)' = Reports(h) /\ HeaderTask(h)' = HeaderTask(h)
        /\ Expected' = Expected
    BY <2>1 DEF Reports, HeaderTask, Expected
  <2>3. CASE workersAmount <= 1
    <3>1. cpc' = [cpc EXCEPT ![c] = "acquire"] /\ UNCHANGED wpc
      BY <1>4, <2>3 DEF FillQueue
    <3>2. \A d \in Clients : cpc'[d] \in Analysing => cpc'[d] = "acquire"
      BY <2>1, <3>1, <1>k DEF Analysing
    <3>3. WorkInv' /\ QueueInv' /\ OrderInv' /\ AccountInv'
      BY <2>1, <3>1, <3>2, <1>q, <1>0 DEF Analysing
    <3>4. MapInv' BY <2>1 DEF MapInv
    <3>5. ResultInv' BY <2>1, <3>2 DEF ResultInv, Analysing
    <3> QED BY <3>3, <3>4, <3>5 DEF ContentInv
  <2>4. CASE ~(workersAmount <= 1)
    <3>1. cpc' = [cpc EXCEPT ![c] = "spawn"] /\ wpc' = [w \in Workers |-> "none"]
      BY <1>4, <2>4 DEF FillQueue
    <3>2. \A d \in Clients : cpc'[d] \in Analysing => cpc'[d] = "spawn"
      BY <2>1, <3>1, <1>k DEF Analysing
    <3>3. WorkInv' BY <3>1 DEF WorkInv, Busy, Registering
    <3>4. QueueInv' BY <2>1, <2>2, NewTasksShape DEF QueueInv, StopTask
    <3>5. OrderInv' BY <2>1, <3>1, NewTasksShape DEF OrderInv, StopTask
    <3>6. AccountInv' BY <2>1, <2>2, NewTasksShape DEF AccountInv
    <3>7. MapInv' BY <2>1 DEF MapInv
    <3>8. workersAmount >= 2 BY <2>4, ContextAssumption DEF TypeInv, TypeOK
    <3>9. ResultInv' BY <2>1, <3>2, <3>8 DEF ResultInv, Analysing
    <3> QED BY <3>3, <3>4, <3>5, <3>6, <3>7, <3>9 DEF ContentInv
  <2> QED BY <2>3, <2>4
<1>5. ASSUME cpc[c] \in {"spawn", "join"},
             UNCHANGED <<inProgress, headers, config, compilerEnv, typeMap, tasks, wtask, wout, workersAmount>>,
             \A w \in Workers : wpc'[w] = wpc[w] \/ (wpc[w] = "none" /\ wpc'[w] = "take"),
             NEW s \in Analysing \ {"detect", "queue"}, cpc' = [cpc EXCEPT ![c] = s],
             s = "join" => spawned' = workersAmount,
             s \in {"spawn", "join"} => ~bResult',
             s \in {"acquire", "return"} /\ bResult' => DOMAIN typeMap = Expected
      PROVE  ContentInv'
  <2>0. cpc[c] \in Analysing BY <1>5 DEF Analysing
  <2>1. \A d \in Clients : cpc'[d] \in Analysing => d = c /\ cpc'[d] = s
    BY <1>5, <1>k, <2>0
  <2>2. /\ \A h : Reports(h)' = Reports(h) /\ HeaderTask(h)' = HeaderTask(h)
        /\ Expected' = Expected
    BY <1>5 DEF Reports, HeaderTask, Expected
  <2>3. WorkInv' BY <1>5, <1>c, <2>2 DEF WorkInv, Busy, Registering
  <2>4. QueueInv' BY <1>5, <1>c, <2>2 DEF QueueInv, StopTask
  <2>5. OrderInv' BY <1>5, <1>c DEF OrderInv, StopTask
  <2>6. AccountInv' BY <1>5, <1>c, <2>2 DEF AccountInv, Busy
  <2>7. MapInv' BY <1>5, <1>c, <2>1, <2>2 DEF MapInv, Analysing
  <2>8. ResultInv' BY <1>5, <1>c, <2>1, <2>2 DEF ResultInv, Analysing
  <2> QED BY <2>3, <2>4, <2>5, <2>6, <2>7, <2>8 DEF ContentInv
<1>6. CASE SpawnWorker(c)
  <2>1. spawned + 1 \in Workers /\ spawned + 1 > spawned
    BY <1>6, ContextAssumption DEF TypeInv, TypeOK, SpawnWorker, MoreToSpawn, Workers
  <2>2. wpc[spawned + 1] = "none" BY <1>6, <2>1 DEF SpawnWorker, ControlInv, SpawnedOnly
  <2>3. \A w \in Workers : wpc'[w] = wpc[w] \/ (wpc[w] = "none" /\ wpc'[w] = "take")
    BY <1>6, <1>t, <2>1, <2>2 DEF SpawnWorker
  <2>4. cpc' = [cpc EXCEPT ![c] = "spawn"] BY <1>6, <1>t DEF SpawnWorker
  <2>5. ~bResult' BY <1>6, <1>c DEF SpawnWorker, ResultInv
  <2> QED BY <1>5, <1>6, <2>3, <2>4, <2>5 DEF SpawnWorker, Analysing
<1>7. CASE SpawnThrows(c)
  BY <1>5, <1>7 DEF SpawnThrows, Analysing
<1>8. CASE AllSpawned(c)
  <2>1. ~bResult' BY <1>8, <1>c DEF AllSpawned, ResultInv
  <2> QED BY <1>5, <1>8, <2>1 DEF AllSpawned, Analysing
<1>9. CASE JoinWorkers(c)
  <2>1. DOMAIN typeMap = Expected
    <3>1. inProgress BY <1>9, <1>u DEF JoinWorkers, Analysing
    <3> QED BY <1>9, <1>c, <3>1, JoinComplete DEF MapInv
  <2> QED BY <1>5, <1>9, <2>1 DEF JoinWorkers, Analysing
<1>10. CASE RestoreGIL(c)
  <2>1. /\ cpc[c] \in {"acquire", "unwind"}
        /\ cpc' = [cpc EXCEPT ![c] = IF cpc[c] = "acquire" THEN "return" ELSE "python"]
        /\ UNCHANGED <<inProgress, headers, config, compilerEnv, typeMap, tasks, wpc, wtask, wout, bResult>>
    BY <1>10 DEF RestoreGIL
  <2>2. \A d \in Clients : cpc'[d] \in Analysing => d = c /\ cpc[c] = "acquire" /\ cpc'[d] = "return"
    <3>1. CASE cpc[c] = "acquire" BY <2>1, <3>1, <1>k DEF Analysing
    <3>2. CASE cpc[c] = "unwind" BY <2>1, <3>2, <1>k DEF Analysing
    <3> QED BY <2>1, <3>1, <3>2
  <2>3. /\ \A h : Reports(h)' = Reports(h) /\ HeaderTask(h)' = HeaderTask(h)
        /\ Expected' = Expected
    BY <2>1 DEF Reports, HeaderTask, Expected
  <2>4. WorkInv' BY <2>1, <1>c, <2>3 DEF WorkInv
  <2>5. QueueInv' BY <2>1, <1>c, <2>2, <2>3 DEF QueueInv, StopTask, Analysing
  <2>6. OrderInv' /\ AccountInv' BY <2>2 DEF OrderInv, AccountInv, Analysing
  <2>7. MapInv' BY <2>1, <1>c, <2>2, <2>3 DEF MapInv, Analysing
  <2>8. ResultInv' BY <2>1, <1>c, <2>2, <2>3 DEF ResultInv, Analysing
  <2> QED BY <2>4, <2>5, <2>6, <2>7, <2>8 DEF ContentInv
<1> QED BY <1>1, <1>2, <1>3, <1>4, <1>6, <1>7, <1>8, <1>9, <1>10 DEF AnalyzeStep

\* ContentInv is inductive relative to the invariants before it.
THEOREM ContentInvariant == Spec => []ContentInv
<1>1. ASSUME TypeInv, ControlInv, MapMatchesList, ContentInv, [Next]_vars PROVE ContentInv'
  <2>1. CASE UNCHANGED vars
    <3>1. UNCHANGED <<cpc, wpc, wtask, wout, tasks, spawned, typeMap, bResult, inProgress,
                      headers, config, compilerEnv, workersAmount>>
      BY <2>1 DEF vars, settings, pool, subjects
    <3>2. /\ \A h : Reports(h)' = Reports(h) /\ HeaderTask(h)' = HeaderTask(h)
          /\ Expected' = Expected
      BY <3>1 DEF Reports, HeaderTask, Expected
    <3>3. WorkInv' BY <1>1, <3>1, <3>2 DEF ContentInv, WorkInv, Busy, Registering
    <3>4. QueueInv' BY <1>1, <3>1, <3>2 DEF ContentInv, QueueInv, StopTask
    <3>5. OrderInv' BY <1>1, <3>1 DEF ContentInv, OrderInv, StopTask
    <3>6. AccountInv' BY <1>1, <3>1, <3>2 DEF ContentInv, AccountInv, Busy
    <3>7. MapInv' BY <1>1, <3>1, <3>2 DEF ContentInv, MapInv
    <3>8. ResultInv' BY <1>1, <3>1, <3>2 DEF ContentInv, ResultInv
    <3> QED BY <3>3, <3>4, <3>5, <3>6, <3>7, <3>8 DEF ContentInv
  <2>2. CASE \E c \in Clients : PythonStep(c) \/ AnalyzeStep(c)
    BY <1>1, <2>2, PythonContent, AnalyzeContent
  <2>3. CASE \E w \in Workers : WorkerStep(w)
    BY <1>1, <2>3, WorkerWork, WorkerQueue DEF ContentInv
  <2> QED BY <1>1, <2>1, <2>2, <2>3 DEF Next
<1> QED
  BY <1>1, InitContent, TypeInvariant, ControlInvariant, MapMatchesListInvariant, PTL DEF Spec

\* A successful analysis ends with the types of every header and of no other.
THEOREM Completeness == Spec => []CompleteAtReturn
<1>1. ContentInv => CompleteAtReturn BY DEF ContentInv, ResultInv, CompleteAtReturn
<1> QED BY <1>1, ContentInvariant, PTL

\* An object never takes the place of another under the same name.
THEOREM Identity == Spec => StableIdentity
<1>1. ASSUME TypeInv, [Next]_vars, Len(foundTypes') = Len(foundTypes)
      PROVE  \A n \in DOMAIN typeMap : n \in DOMAIN typeMap' /\ typeMap'[n] = typeMap[n]
  <2> USE DEF settings, pool, subjects
  <2>1. CASE UNCHANGED typeMap BY <2>1
  <2>2. CASE \E w \in Workers : EmplaceType(w) BY <2>2 DEF EmplaceType, TryEmplace
  <2>3. \A c \in Clients : ~StartAnalyze(c)
    <3>1. foundTypes \in Seq(Seq(TypeObjects)) BY <1>1 DEF TypeInv, TypeOK
    <3>2. Len(Rebound(foundTypes)) = Len(foundTypes) + 1 /\ Len(foundTypes) \in Nat
      BY <3>1, ReboundLists
    <3> QED BY <1>1, <3>2 DEF StartAnalyze
  <2> QED
    BY <1>1, <2>1, <2>2, <2>3 DEF Next, vars, PythonStep, AnalyzeStep, WorkerStep, AcquireGIL, ReleaseGIL,
       GetFound, SetHeaders, SetWorkersCount, SetCompilerOptions, SetEnableDeepAnalysis,
       SetIgnoreRuntimeTag, DetectEnvironment, DetectFails, DetectThrows, FillQueue, SpawnWorker,
       SpawnThrows, AllSpawned, JoinWorkers, RestoreGIL, FinishAnalyze, TakeTask, AnalyzeHeader,
       LockSubjects, EnsureGIL, AppendIssues, DropType, AppendType, DropGIL, UnlockSubjects
<1>2. TypeInv /\ [Next]_vars =>
        [Len(foundTypes') = Len(foundTypes) =>
           \A n \in DOMAIN typeMap : n \in DOMAIN typeMap' /\ typeMap'[n] = typeMap[n]]_vars
  BY <1>1
<1> QED BY <1>2, TypeInvariant, PTL DEF Spec, StableIdentity

\* When a deep analysis returns, each parent that some header reported is in the
\* map, and what is in the map then is in the list of types.
THEOREM DeepLinks == Spec => DeepLinksComplete
<1>1. ASSUME TypeInv, ControlInv, MapMatchesList, ContentInv, [Next]_vars,
             NEW c \in Clients, cpc[c] = "return", cpc'[c] = "python", bResult, config.deep
      PROVE  \A o \in FoundClasses : \A p \in o.decl.parents \cap Expected :
                \E r \in parentRefs' :
                   /\ r.child = o
                   /\ r.parent.decl.name = p
                   /\ r.parent \in Range(Current(foundTypes'))
  <2>1. parentRefs' = ResolveReferences /\ foundTypes' = foundTypes
    <3>1. \A w \in Workers : ~WorkerStep(w)
      <4>1. \A w \in Workers : wpc[w] \in {"none", "done"}
        BY <1>1 DEF ControlInv, WorkersQuiet
      <4> QED
        BY <4>1 DEF WorkerStep, TakeTask, AnalyzeHeader, LockSubjects, EnsureGIL, AppendIssues,
           DropType, EmplaceType, AppendType, DropGIL, UnlockSubjects
    <3>2. cpc' # cpc BY <1>1
    <3>3. PICK d \in Clients : PythonStep(d) \/ AnalyzeStep(d)
      BY <1>1, <3>1, <3>2 DEF Next, vars
    <3>5. cpc \in [Clients -> {"outside", "python"} \cup Analysing] BY <1>1 DEF TypeInv, TypeOK
    <3>6. d = c
      <4>1. \E x : cpc' = [cpc EXCEPT ![d] = x]
        BY <3>2, <3>3 DEF PythonStep, AnalyzeStep, AcquireGIL, ReleaseGIL, GetFound, SetHeaders,
           SetWorkersCount, SetCompilerOptions, SetEnableDeepAnalysis, SetIgnoreRuntimeTag, StartAnalyze,
           DetectEnvironment, DetectFails, DetectThrows, FillQueue, SpawnWorker, SpawnThrows,
           AllSpawned, JoinWorkers, RestoreGIL, FinishAnalyze
      <4> QED BY <1>1, <3>5, <4>1
    <3>7. FinishAnalyze(c)
      BY <1>1, <3>2, <3>3, <3>6 DEF PythonStep, AnalyzeStep, AcquireGIL, ReleaseGIL, GetFound, SetHeaders,
         SetWorkersCount, SetCompilerOptions, SetEnableDeepAnalysis, SetIgnoreRuntimeTag, StartAnalyze,
         DetectEnvironment, DetectFails, DetectThrows, FillQueue, SpawnWorker, SpawnThrows,
         AllSpawned, JoinWorkers, RestoreGIL
    <3> QED BY <1>1, <3>7 DEF FinishAnalyze, subjects
  <2>2. DOMAIN typeMap = Expected BY <1>1 DEF ContentInv, ResultInv
  <2>3. Range(Current(foundTypes)) = {typeMap[n] : n \in DOMAIN typeMap}
    <3>1. \A w \in Workers : wpc[w] # "append" BY <1>1 DEF ControlInv, WorkersQuiet
    <3>2. Pending = {} BY <3>1 DEF Pending
    <3> QED BY <1>1, <3>2 DEF MapMatchesList
  <2>4. SUFFICES ASSUME NEW o \in FoundClasses, NEW p \in o.decl.parents \cap Expected
                 PROVE  \E r \in parentRefs' :
                           /\ r.child = o
                           /\ r.parent.decl.name = p
                           /\ r.parent \in Range(Current(foundTypes'))
    OBVIOUS
  <2>5. [child |-> o, parent |-> typeMap[p]] \in ResolveReferences BY <2>2, <2>4 DEF ResolveReferences
  <2>6. typeMap[p].decl.name = p /\ typeMap[p] \in Range(Current(foundTypes))
    BY <1>1, <2>2, <2>3, <2>4 DEF MapMatchesList
  <2> QED BY <2>1, <2>5, <2>6
<1>2. TypeInv /\ ControlInv /\ MapMatchesList /\ ContentInv /\ [Next]_vars =>
        [\A c \in Clients :
           cpc[c] = "return" /\ cpc'[c] = "python" /\ bResult /\ config.deep =>
              \A o \in FoundClasses : \A p \in o.decl.parents \cap Expected :
                 \E r \in parentRefs' :
                    /\ r.child = o
                    /\ r.parent.decl.name = p
                    /\ r.parent \in Range(Current(foundTypes'))]_vars
  BY <1>1
<1> QED
  BY <1>2, TypeInvariant, ControlInvariant, MapMatchesListInvariant, ContentInvariant, PTL
     DEF Spec, DeepLinksComplete
-----------------------------------------------------------------------------
(* Every header is registered once *)

\* A worker that carries a header has not appended its issues yet.
Carrying == {"analyze", "lock", "ensure", "issues"}
Carriers == {w \in Workers : wpc[w] \in Carrying}

\* The tasks before the queue's first one were taken.
TasksTaken == Len(headers) + workersAmount - Len(tasks)
TakenHeaders == {n \in DOMAIN headers : n <= TasksTaken}

\* The issues some of the headers report, a header as often as it is asked for.
Found(some, i) == UNION {{<<n, k>> : k \in Positions(IssuesOf(headers[n]), i)} : n \in some}
Tallied(some) ==
    \A i \in Issues :
        /\ IsFiniteSet(Found(some, i))
        /\ Cardinality(Positions(Current(foundIssues), i)) = Cardinality(Found(some, i))

\* A worker that analysed a header holds the header's issues.
HoldsIssues ==
    \A w \in Workers :
        wpc[w] \in {"lock", "ensure", "issues"} => wout[w].issues = IssuesOf(wtask[w].header)

\* No issue is in the list before a header was analysed.
NoIssueYet ==
    \A c \in Clients : cpc[c] \in {"detect", "queue"} => Current(foundIssues) = <<>>

\* The queue is what is left of the one that was filled.
QueueSuffix ==
    /\ TasksTaken \in 0..(Len(headers) + workersAmount)
    /\ \A j \in DOMAIN tasks : tasks[j] = NewTasks[TasksTaken + j]

\* Each carrier holds a taken header of its own; the issues in the list are those
\* of the other taken headers.
Shared(who) ==
    /\ who \in [Carriers -> TakenHeaders]
    /\ \A v, w \in Carriers : who[v] = who[w] => v = w
    /\ \A w \in Carriers : wtask[w].header = headers[who[w]]
    /\ Tallied(TakenHeaders \ {who[w] : w \in Carriers})

\* No header is lost or registered twice, at every point of an analysis.
IssueInv ==
    /\ HoldsIssues
    /\ NoIssueYet
    /\ (\E c \in Clients : cpc[c] \in {"spawn", "join"}) =>
          QueueSuffix /\ \E who \in [Carriers -> TakenHeaders] : Shared(who)
    /\ \A c \in Clients : cpc[c] \in {"acquire", "return"} /\ bResult => Tallied(DOMAIN headers)

\* The positions of an element, as far as they are in a list.
LEMMA FinitePositions ==
    ASSUME NEW T, NEW list \in Seq(T), NEW x
    PROVE  IsFiniteSet(Positions(list, x))
<1>1. Positions(list, x) \subseteq 1..Len(list) BY DEF Positions
<1>2. Len(list) \in Int /\ 1 \in Int OBVIOUS
<1>3. IsFiniteSet(1..Len(list)) BY <1>2, FS_Interval
<1> QED BY <1>1, <1>3, FS_Subset

IsJoined(c, a, b) == c = a \o b

\* A concatenation has an element as often as its two parts together.
LEMMA PositionsOfConcat ==
    ASSUME NEW T, NEW a \in Seq(T), NEW b \in Seq(T), NEW x, NEW c, IsJoined(c, a, b)
    PROVE  Cardinality(Positions(c, x)) =
              Cardinality(Positions(a, x)) + Cardinality(Positions(b, x))
<1>1. /\ c \in Seq(T) /\ Len(c) = Len(a) + Len(b) /\ Len(a) \in Nat /\ Len(b) \in Nat
      /\ \A k \in 1..Len(a) : c[k] = a[k]
      /\ \A k \in 1..Len(b) : c[Len(a) + k] = b[k]
  BY DEF IsJoined
<1>2. /\ DOMAIN c = 1..Len(c) /\ DOMAIN a = 1..Len(a) /\ DOMAIN b = 1..Len(b)
  BY <1>1
<1> DEFINE late == {k \in 1..Len(c) : k > Len(a) /\ c[k] = x}
<1>3. Positions(c, x) = Positions(a, x) \cup late
  <2>1. ASSUME NEW k \in 1..Len(c), k <= Len(a) PROVE k \in 1..Len(a) /\ c[k] = a[k]
    BY <1>1, <2>1
  <2>2. \A k \in 1..Len(a) : k \in 1..Len(c) /\ k <= Len(a) BY <1>1
  <2> QED BY <1>1, <1>2, <2>1, <2>2 DEF Positions
<1>4. Positions(a, x) \cap late = {} BY <1>1, <1>2 DEF Positions
<1>5. IsFiniteSet(Positions(a, x)) /\ IsFiniteSet(Positions(b, x)) BY FinitePositions
<1>6. IsFiniteSet(late) /\ Cardinality(late) = Cardinality(Positions(b, x))
  <2> DEFINE S == Positions(b, x)
             f == [k \in S |-> Len(a) + k]
  <2>1. S \subseteq 1..Len(b) /\ \A k \in S : b[k] = x BY <1>2 DEF Positions
  <2>2. \A k \in 1..Len(b) : b[k] = x => k \in S BY <1>2 DEF Positions
  <2>3. \A k \in S : f[k] \in late
    <3>1. ASSUME NEW k \in S PROVE Len(a) + k \in late
      <4>1. Len(a) + k \in 1..Len(c) /\ Len(a) + k > Len(a) BY <1>1, <2>1
      <4>2. c[Len(a) + k] = x BY <1>1, <2>1
      <4> QED BY <4>1, <4>2
    <3> QED BY <3>1
  <2>4. \A t \in late : \E k \in S : f[k] = t
    <3>1. ASSUME NEW t \in late PROVE \E k \in S : f[k] = t
      <4>1. t - Len(a) \in 1..Len(b) BY <1>1
      <4>2. Len(a) + (t - Len(a)) = t /\ c[t] = x BY <1>1
      <4>3. b[t - Len(a)] = x BY <1>1, <4>1, <4>2
      <4>4. t - Len(a) \in S BY <2>2, <4>1, <4>3
      <4> QED BY <4>2, <4>4
    <3> QED BY <3>1
  <2>5. \A k, m \in S : f[k] = f[m] => k = m BY <1>1, <2>1
  <2>6. f \in Bijection(S, late)
    <3>1. f \in [S -> late] BY <2>3
    <3> HIDE DEF late, S
    <3> QED BY <2>4, <2>5, <3>1 DEF Bijection, Injection, Surjection, IsInjective
  <2>7. ExistsBijection(S, late) BY <2>6 DEF ExistsBijection
  <2> HIDE DEF late, S
  <2>8. IsFiniteSet(S) BY <1>5 DEF S
  <2>9. IsFiniteSet(late) /\ Cardinality(late) = Cardinality(S) BY <2>7, <2>8, FS_Bijection
  <2> QED BY <2>9 DEF S
<1> HIDE DEF late
<1>7. Cardinality(Positions(a, x) \cup late) =
         Cardinality(Positions(a, x)) + Cardinality(late) - Cardinality(Positions(a, x) \cap late)
  BY <1>5, <1>6, FS_Union
<1>8. Cardinality(Positions(a, x)) \in Nat /\ Cardinality(Positions(b, x)) \in Nat
  BY <1>5, FS_CardinalityType
<1>9. Cardinality(Positions(a, x) \cap late) = 0 BY <1>4, FS_EmptySet
<1> QED BY <1>3, <1>6, <1>7, <1>8, <1>9

\* One header more adds the issues it reports.
LEMMA FoundOneMore ==
    ASSUME NEW some, NEW n, n \notin some, NEW i, IsFiniteSet(Found(some, i)),
           NEW T, IssuesOf(headers[n]) \in Seq(T)
    PROVE  /\ IsFiniteSet(Found(some \cup {n}, i))
           /\ Cardinality(Found(some \cup {n}, i)) =
                 Cardinality(Found(some, i)) + Cardinality(Positions(IssuesOf(headers[n]), i))
<1> DEFINE P == Positions(IssuesOf(headers[n]), i)
           Q == {<<n, k>> : k \in P}
           f == [k \in P |-> <<n, k>>]
<1>1. Found(some \cup {n}, i) = Found(some, i) \cup Q BY DEF Found
<1>2. Found(some, i) \cap Q = {} BY DEF Found
<1>3. IsFiniteSet(P) BY FinitePositions
<1>4. IsFiniteSet(Q) /\ Cardinality(Q) = Cardinality(P)
  <2>1. f \in [P -> Q] OBVIOUS
  <2>2. \A t \in Q : \E k \in P : f[k] = t OBVIOUS
  <2>3. \A k, m \in P : f[k] = f[m] => k = m OBVIOUS
  <2> HIDE DEF P, Q, f
  <2>4. f \in Bijection(P, Q) BY <2>1, <2>2, <2>3 DEF Bijection, Injection, Surjection, IsInjective
  <2>5. ExistsBijection(P, Q) BY <2>4 DEF ExistsBijection
  <2> QED BY <1>3, <2>5, FS_Bijection
<1> HIDE DEF P, Q
<1>5. /\ IsFiniteSet(Found(some, i) \cup Q)
      /\ Cardinality(Found(some, i) \cup Q) =
            Cardinality(Found(some, i)) + Cardinality(Q) - Cardinality(Found(some, i) \cap Q)
  BY <1>4, FS_Union
<1>6. Cardinality(Found(some, i)) \in Nat /\ Cardinality(P) \in Nat BY <1>3, FS_CardinalityType
<1>7. Cardinality(Found(some \cup {n}, i)) = Cardinality(Found(some, i)) + Cardinality(P)
  <2>1. Cardinality(Found(some, i) \cap Q) = 0 BY <1>2, FS_EmptySet
  <2>2. Cardinality(Found(some \cup {n}, i)) = Cardinality(Found(some, i) \cup Q) BY <1>1
  <2>3. Cardinality(Found(some, i) \cup Q) = Cardinality(Found(some, i)) + Cardinality(P) - 0
    BY <1>4, <1>5, <2>1
  <2> QED BY <1>6, <2>2, <2>3
<1> QED BY <1>1, <1>5, <1>7 DEF P

\* No list and no header has issues at first.
LEMMA NothingTallied ==
    ASSUME Current(foundIssues) = <<>>
    PROVE  Tallied({})
<1>1. \A i : Positions(<<>>, i) = {} BY DEF Positions
<1>2. \A i : Found({}, i) = {} BY DEF Found
<1> QED BY <1>1, <1>2, FS_EmptySet DEF Tallied

\* A step that leaves the settings and the list of issues alone keeps every tally.
LEMMA SameTally ==
    ASSUME UNCHANGED <<headers, config, compilerEnv>>, Current(foundIssues)' = Current(foundIssues)
    PROVE  \A some : Tallied(some) => Tallied(some)'
<1>1. \A h : IssuesOf(h)' = IssuesOf(h) BY DEF IssuesOf
<1>2. \A some, i : Found(some, i)' = Found(some, i) BY <1>1 DEF Found
<1>3. \A i : Positions(Current(foundIssues), i)' = Positions(Current(foundIssues), i) BY DEF Positions
<1> QED BY <1>2, <1>3 DEF Tallied

\* A worker that takes a header becomes its only carrier.
LEMMA TakeIssues ==
    ASSUME TypeInv, NEW w \in Workers, TakeTask(w), QueueSuffix,
           NEW who \in [Carriers -> TakenHeaders], Shared(who)
    PROVE  QueueSuffix' /\ \E new \in [Carriers' -> TakenHeaders'] : Shared(new)'
<1> USE DEF settings, pool, subjects
<1> DEFINE m == TasksTaken
<1>t. /\ wpc \in [Workers -> {"none", "take", "analyze", "lock", "ensure", "issues",
                              "emplace", "append", "unlock", "done"}]
      /\ wtask \in [Workers -> Tasks \cup {NoTask}]
      /\ tasks \in Seq(Tasks) /\ headers \in Seq(Headers) /\ workersAmount \in Nat
  BY ContextAssumption DEF TypeInv, TypeOK
<1>1. /\ tasks # <<>> /\ tasks' = Tail(tasks) /\ wpc[w] = "take"
      /\ wtask' = [wtask EXCEPT ![w] = tasks[1]]
      /\ wpc' = [wpc EXCEPT ![w] = IF tasks[1] = StopTask THEN "done" ELSE "analyze"]
      /\ UNCHANGED <<headers, config, compilerEnv, workersAmount, foundIssues>>
  BY <1>t DEF TakeTask, PopFront
<1>2. /\ Len(tasks) \in Nat \ {0} /\ Len(tasks') = Len(tasks) - 1
      /\ 1 \in DOMAIN tasks
      /\ \A j \in DOMAIN tasks' : j \in Nat /\ j + 1 \in DOMAIN tasks /\ tasks'[j] = tasks[j + 1]
  BY <1>1, <1>t
<1>3. /\ Len(headers) \in Nat /\ m \in 0..(Len(headers) + workersAmount - 1)
      /\ TasksTaken' = m + 1 /\ NewTasks' = NewTasks
      /\ \A j \in DOMAIN tasks : tasks[j] = NewTasks[m + j]
  <2>1. /\ Len(headers) \in Nat /\ m \in 0..(Len(headers) + workersAmount - 1)
        /\ TasksTaken' = m + 1
    BY <1>1, <1>2, <1>t DEF QueueSuffix, TasksTaken
  <2>2. NewTasks' = NewTasks BY <1>1 DEF NewTasks, HeaderTask, StopTask
  <2> QED BY <2>1, <2>2 DEF QueueSuffix
<1>4. QueueSuffix'
  <2>1. m + 1 \in 0..(Len(headers) + workersAmount) BY <1>3, <1>t
  <2>2. ASSUME NEW j \in DOMAIN tasks' PROVE tasks'[j] = NewTasks[(m + 1) + j]
    <3>1. tasks'[j] = NewTasks[m + (j + 1)] BY <1>2, <1>3
    <3>2. m + (j + 1) = (m + 1) + j BY <1>2, <1>3
    <3> QED BY <3>1, <3>2
  <2> QED BY <1>1, <1>3, <2>1, <2>2 DEF QueueSuffix
<1>5. tasks[1] = NewTasks[m + 1] BY <1>2, <1>3
<1>6. m + 1 \in 1..(Len(headers) + workersAmount) BY <1>3, <1>t
<1>7. /\ m + 1 <= Len(headers) => tasks[1] = HeaderTask(headers[m + 1]) /\ tasks[1] # StopTask
      /\ m + 1 > Len(headers) => tasks[1] = StopTask
  BY <1>5, <1>6 DEF NewTasks, HeaderTask, StopTask
<1>8. /\ TakenHeaders' = {n \in DOMAIN headers : n <= m + 1}
      /\ TakenHeaders = {n \in DOMAIN headers : n <= m}
      /\ DOMAIN headers = 1..Len(headers)
  BY <1>1, <1>3, <1>t DEF TakenHeaders
<1>9. Current(foundIssues)' = Current(foundIssues) BY <1>1 DEF Current
<1>10. CASE m + 1 > Len(headers)
  <2>1. TakenHeaders' = TakenHeaders BY <1>3, <1>8, <1>10
  <2>2. Carriers' = Carriers BY <1>1, <1>7, <1>10, <1>t DEF Carriers, Carrying
  <2>3. \A v \in Carriers : wtask'[v] = wtask[v] BY <1>1, <1>t DEF Carriers, Carrying
  <2>4. Tallied(TakenHeaders \ {who[v] : v \in Carriers})'
    <3>1. PICK done : done = TakenHeaders \ {who[v] : v \in Carriers} OBVIOUS
    <3>2. Tallied(done)' BY <1>1, <1>9, <3>1, SameTally DEF Shared
    <3>3. (TakenHeaders \ {who[v] : v \in Carriers})' = done BY <2>1, <2>2, <3>1
    <3> QED BY <3>2, <3>3
  <2>5. Shared(who)' BY <1>1, <2>1, <2>2, <2>3, <2>4 DEF Shared
  <2> QED BY <1>4, <2>1, <2>2, <2>5
<1>11. CASE m + 1 <= Len(headers)
  <2>1. /\ TakenHeaders' = TakenHeaders \cup {m + 1} /\ m + 1 \notin TakenHeaders
    BY <1>3, <1>8, <1>11
  <2>2. Carriers' = Carriers \cup {w} /\ w \notin Carriers
    BY <1>1, <1>7, <1>11, <1>t DEF Carriers, Carrying
  <2>3. /\ \A v \in Carriers : wtask'[v] = wtask[v]
        /\ wtask'[w].header = headers[m + 1]
    BY <1>1, <1>7, <1>11, <1>t, <2>2 DEF Carriers, HeaderTask
  <2>4. PICK k : k = m + 1 OBVIOUS
  <2>5. PICK new : new = [v \in Carriers \cup {w} |-> IF v = w THEN k ELSE who[v]] OBVIOUS
  <2>6. /\ new \in [Carriers' -> TakenHeaders'] /\ new[w] = k
        /\ \A v \in Carriers : new[v] = who[v] /\ who[v] \in TakenHeaders
    BY <2>1, <2>2, <2>4, <2>5
  <2>7. \A u, v \in Carriers' : new[u] = new[v] => u = v
    BY <2>1, <2>2, <2>4, <2>6 DEF Shared
  <2>8. \A v \in Carriers' : wtask'[v].header = headers'[new[v]]
    BY <1>1, <2>2, <2>3, <2>4, <2>6 DEF Shared
  <2>9. Tallied(TakenHeaders \ {new[v] : v \in Carriers})'
    <3>1. PICK done : done = TakenHeaders \ {who[v] : v \in Carriers} OBVIOUS
    <3>2. Tallied(done)' BY <1>1, <1>9, <3>1, SameTally DEF Shared
    <3>3. (TakenHeaders \ {new[v] : v \in Carriers})' = done BY <2>1, <2>2, <2>4, <2>6, <3>1
    <3> QED BY <3>2, <3>3
  <2>10. Shared(new)' BY <2>6, <2>7, <2>8, <2>9 DEF Shared
  <2> QED BY <1>4, <2>6, <2>10
<1> QED BY <1>3, <1>10, <1>11, <1>t

\* A worker that appends its issues is a carrier no more.
LEMMA AppendedIssues ==
    ASSUME TypeInv, HoldsIssues, NEW w \in Workers, AppendIssues(w),
           NEW who \in [Carriers -> TakenHeaders], Shared(who)
    PROVE  \E new \in [Carriers' -> TakenHeaders'] : Shared(new)'
<1> USE DEF settings, pool, subjects
<1>t. /\ wpc \in [Workers -> {"none", "take", "analyze", "lock", "ensure", "issues",
                              "emplace", "append", "unlock", "done"}]
      /\ foundIssues \in Seq(Seq(Issues)) /\ foundIssues # <<>>
      /\ wout[w].issues \in Seq(Issues)
  BY DEF TypeInv, TypeOK, Outputs
<1>1. /\ wpc[w] = "issues" /\ wpc' = [wpc EXCEPT ![w] = "emplace"]
      /\ foundIssues' = [foundIssues EXCEPT ![Len(foundIssues)] = @ \o wout[w].issues]
      /\ UNCHANGED <<headers, config, compilerEnv, workersAmount, tasks, wtask>>
  BY DEF AppendIssues
<1>2. PICK list, own, both : list = Current(foundIssues) /\ own = wout[w].issues /\ both = list \o own
  OBVIOUS
<1>21. list \in Seq(Issues) /\ own \in Seq(Issues) /\ both \in Seq(Issues)
  <2>1. foundIssues[Len(foundIssues)] \in Seq(Issues)
    <3> DEFINE S == Seq(Issues)
    <3>1. foundIssues \in Seq(S) /\ foundIssues # <<>> BY <1>t
    <3>2. Len(foundIssues) \in DOMAIN foundIssues BY <3>1
    <3> QED BY <3>1, <3>2
  <2> QED BY <1>2, <1>t, <2>1 DEF Current
<1>22. Current(foundIssues)' = both
  <2> DEFINE S == Seq(Issues)
  <2>1. foundIssues \in Seq(S) /\ foundIssues # <<>> /\ both \in S BY <1>t, <1>21
  <2>2. foundIssues' = [foundIssues EXCEPT ![Len(foundIssues)] = both] BY <1>1, <1>2 DEF Current
  <2> HIDE DEF S
  <2>3. Len(foundIssues') = Len(foundIssues) /\ foundIssues'[Len(foundIssues)] = both
    BY <2>1, <2>2, ReplacedLast
  <2> QED BY <2>3 DEF Current
<1>3. TakenHeaders' = TakenHeaders BY <1>1 DEF TakenHeaders, TasksTaken
<1>4. Carriers' = Carriers \ {w} /\ w \in Carriers BY <1>1, <1>t DEF Carriers, Carrying
<1>5. PICK n : n = who[w] OBVIOUS
<1>6. n \in TakenHeaders /\ wout[w].issues = IssuesOf(headers[n])
  BY <1>1, <1>4, <1>5 DEF HoldsIssues, Shared
<1>7. PICK new : new = [v \in Carriers \ {w} |-> who[v]] OBVIOUS
<1>8. new \in [Carriers' -> TakenHeaders'] BY <1>3, <1>4, <1>7
<1>9. /\ \A u, v \in Carriers' : new[u] = new[v] => u = v
      /\ \A v \in Carriers' : wtask'[v].header = headers'[new[v]]
  BY <1>1, <1>4, <1>7 DEF Shared
<1>10. PICK done : done = TakenHeaders \ {who[v] : v \in Carriers} OBVIOUS
<1>11. (TakenHeaders \ {new[v] : v \in Carriers})' = done \cup {n}
  BY <1>3, <1>4, <1>5, <1>6, <1>7, <1>10 DEF Shared
<1>12. n \notin done BY <1>4, <1>5, <1>10
<1>13. Tallied(done) BY <1>10 DEF Shared
<1>14. Tallied(done \cup {n})'
  <2>1. \A h : IssuesOf(h)' = IssuesOf(h) BY <1>1 DEF IssuesOf
  <2>2. \A some, i : Found(some, i)' = Found(some, i) BY <1>1, <2>1 DEF Found
  <2>3. ASSUME NEW i \in Issues
        PROVE  /\ IsFiniteSet(Found(done \cup {n}, i))
               /\ Cardinality(Positions(Current(foundIssues)', i)) = Cardinality(Found(done \cup {n}, i))
    <3>1. /\ IsFiniteSet(Found(done, i))
          /\ Cardinality(Positions(Current(foundIssues), i)) = Cardinality(Found(done, i))
      BY <1>13 DEF Tallied
    <3>2. IssuesOf(headers[n]) \in Seq(Issues) BY <1>6, <1>t
    <3>3. /\ IsFiniteSet(Found(done \cup {n}, i))
          /\ Cardinality(Found(done \cup {n}, i)) =
                Cardinality(Found(done, i)) + Cardinality(Positions(IssuesOf(headers[n]), i))
      BY <1>12, <3>1, <3>2, FoundOneMore
    <3>4. Cardinality(Positions(both, i)) =
             Cardinality(Positions(list, i)) + Cardinality(Positions(own, i))
      <4>1. IsJoined(both, list, own) BY <1>2 DEF IsJoined
      <4> QED BY <4>1, <1>21, PositionsOfConcat
    <3> QED BY <1>2, <1>22, <1>6, <3>1, <3>3, <3>4
  <2> QED BY <2>2, <2>3 DEF Tallied
<1>15. Tallied(TakenHeaders \ {new[v] : v \in Carriers})' BY <1>11, <1>14
<1>16. Shared(new)' BY <1>8, <1>9, <1>15 DEF Shared
<1> QED BY <1>8, <1>16

\* Any other step of a worker leaves the tally alone.
LEMMA OtherIssues ==
    ASSUME TypeInv, NEW w \in Workers, WorkerStep(w), ~TakeTask(w), ~AppendIssues(w), QueueSuffix,
           NEW who \in [Carriers -> TakenHeaders], Shared(who)
    PROVE  QueueSuffix' /\ \E new \in [Carriers' -> TakenHeaders'] : Shared(new)'
<1> USE DEF settings, pool, subjects
<1>t. wpc \in [Workers -> {"none", "take", "analyze", "lock", "ensure", "issues",
                           "emplace", "append", "unlock", "done"}]
  BY DEF TypeInv, TypeOK
<1>1. UNCHANGED <<headers, config, compilerEnv, workersAmount, tasks, foundIssues>>
  BY DEF WorkerStep, AnalyzeHeader, LockSubjects, EnsureGIL, DropType, EmplaceType, AppendType,
     DropGIL, UnlockSubjects
<1>2. /\ \A v \in Workers : wpc'[v] \in Carrying <=> wpc[v] \in Carrying
      /\ \A v \in Workers : wpc[v] \in Carrying => wtask'[v] = wtask[v]
  <2>1. wpc'[w] \in Carrying <=> wpc[w] \in Carrying
    BY <1>t DEF WorkerStep, AnalyzeHeader, LockSubjects, EnsureGIL, DropType, EmplaceType, AppendType,
       DropGIL, UnlockSubjects, Carrying
  <2>2. wpc[w] \in Carrying => wtask'[w] = wtask[w]
    BY <1>t DEF WorkerStep, AnalyzeHeader, LockSubjects, EnsureGIL, DropType, EmplaceType, AppendType,
       DropGIL, UnlockSubjects, Carrying
  <2> QED BY <2>1, <2>2, WorkerFrame
<1>3. NewTasks' = NewTasks /\ TasksTaken' = TasksTaken
  BY <1>1 DEF NewTasks, HeaderTask, StopTask, TasksTaken
<1>4. TakenHeaders' = TakenHeaders BY <1>1, <1>3 DEF TakenHeaders
<1>5. Carriers' = Carriers BY <1>2 DEF Carriers
<1>6. QueueSuffix' BY <1>1, <1>3 DEF QueueSuffix
<1>7. Tallied(TakenHeaders \ {who[v] : v \in Carriers})'
  <2>1. PICK done : done = TakenHeaders \ {who[v] : v \in Carriers} OBVIOUS
  <2>2. Current(foundIssues)' = Current(foundIssues) BY <1>1 DEF Current
  <2>3. Tallied(done)' BY <1>1, <2>1, <2>2, SameTally DEF Shared
  <2>4. (TakenHeaders \ {who[v] : v \in Carriers})' = done BY <1>4, <1>5, <2>1
  <2> QED BY <2>3, <2>4
<1>8. Shared(who)' BY <1>1, <1>2, <1>4, <1>5, <1>7 DEF Shared, Carriers
<1> QED BY <1>4, <1>5, <1>6, <1>8

\* A worker loses no header's issues and registers none twice.
LEMMA WorkerIssues ==
    ASSUME TypeInv, ControlInv, ContentInv, IssueInv, NEW w \in Workers, WorkerStep(w)
    PROVE  IssueInv'
<1> USE DEF settings, pool, subjects
<1>t. /\ wpc \in [Workers -> {"none", "take", "analyze", "lock", "ensure", "issues",
                              "emplace", "append", "unlock", "done"}]
      /\ wout \in [Workers -> Outputs] /\ wtask \in [Workers -> Tasks \cup {NoTask}]
  BY DEF TypeInv, TypeOK
<1>f. /\ UNCHANGED <<headers, config, compilerEnv, cpc, bResult, workersAmount>>
      /\ \A v \in Workers \ {w} : wpc'[v] = wpc[v] /\ wtask'[v] = wtask[v] /\ wout'[v] = wout[v]
  BY WorkerFrame
<1>i. \A h : IssuesOf(h)' = IssuesOf(h) BY <1>f DEF IssuesOf
<1>q. wpc[w] \notin {"none", "done"}
  BY DEF WorkerStep, TakeTask, AnalyzeHeader, LockSubjects, EnsureGIL, AppendIssues, DropType,
     EmplaceType, AppendType, DropGIL, UnlockSubjects
<1>1. HoldsIssues'
  <2>1. CASE AnalyzeHeader(w)
    <3>1. /\ wpc[w] = "analyze" /\ wtask' = wtask
          /\ wout'[w] = AnalysisOf[wtask[w].header][wtask[w].config][compilerEnv]
      BY <2>1, <1>t DEF AnalyzeHeader
    <3>2. wtask[w].config = config BY <3>1 DEF ContentInv, WorkInv, Busy
    <3>3. wout'[w].issues = IssuesOf(wtask'[w].header) BY <3>1, <3>2 DEF IssuesOf
    <3> QED BY <1>f, <1>i, <3>3 DEF IssueInv, HoldsIssues
  <2>2. CASE ~AnalyzeHeader(w)
    <3>1. wpc'[w] \in {"lock", "ensure", "issues"} =>
             /\ wpc[w] \in {"lock", "ensure", "issues"}
             /\ wtask'[w] = wtask[w] /\ wout'[w] = wout[w]
      BY <2>2, <1>t DEF WorkerStep, TakeTask, LockSubjects, EnsureGIL, AppendIssues, DropType,
         EmplaceType, AppendType, DropGIL, UnlockSubjects
    <3> QED BY <1>f, <1>i, <3>1 DEF IssueInv, HoldsIssues
  <2> QED BY <2>1, <2>2
<1>2. \A c \in Clients : cpc'[c] \notin {"detect", "queue", "acquire", "return"}
  BY <1>f, <1>q DEF ControlInv, WorkersQuiet
<1>3. ASSUME \E c \in Clients : cpc'[c] \in {"spawn", "join"}
      PROVE  QueueSuffix' /\ \E who \in [Carriers' -> TakenHeaders'] : Shared(who)'
  <2>1. QueueSuffix /\ \E who \in [Carriers -> TakenHeaders] : Shared(who) BY <1>3, <1>f DEF IssueInv
  <2>2. PICK who \in [Carriers -> TakenHeaders] : Shared(who) BY <2>1
  <2>3. CASE TakeTask(w) BY <2>1, <2>2, <2>3, TakeIssues
  <2>4. CASE AppendIssues(w)
    <3>1. \E new \in [Carriers' -> TakenHeaders'] : Shared(new)'
      BY <2>2, <2>4, AppendedIssues DEF IssueInv
    <3>2. UNCHANGED <<headers, config, workersAmount, tasks>> BY <2>4 DEF AppendIssues
    <3>3. NewTasks' = NewTasks /\ TasksTaken' = TasksTaken
      BY <3>2 DEF NewTasks, HeaderTask, StopTask, TasksTaken
    <3>4. QueueSuffix' BY <2>1, <3>2, <3>3 DEF QueueSuffix
    <3> QED BY <3>1, <3>4
  <2>5. CASE ~TakeTask(w) /\ ~AppendIssues(w) BY <2>1, <2>2, <2>5, OtherIssues
  <2> QED BY <2>3, <2>4, <2>5
<1> QED BY <1>1, <1>2, <1>3 DEF IssueInv, NoIssueYet

\* Python calls that reach the issues are made between analyses.
LEMMA PythonIssues ==
    ASSUME TypeInv, ControlInv, IssueInv, NEW c \in Clients, PythonStep(c)
    PROVE  IssueInv'
<1> USE DEF settings, pool, subjects
<1>t. cpc \in [Clients -> {"outside", "python"} \cup Analysing] BY DEF TypeInv, TypeOK
<1>1. ASSUME ~inProgress, UNCHANGED <<cpc, wpc>> PROVE IssueInv'
  <2>1. \A d \in Clients : cpc'[d] \notin Analysing BY <1>1 DEF ControlInv, OneRunner
  <2>2. \A w \in Workers : wpc'[w] \in {"none", "done"} BY <1>1 DEF ControlInv, WorkersQuiet
  <2>3. HoldsIssues' BY <2>2 DEF HoldsIssues
  <2> QED BY <2>1, <2>3 DEF IssueInv, NoIssueYet, Analysing
<1>2. CASE AcquireGIL(c) \/ ReleaseGIL(c) \/ GetFound(c)
  <2>1. /\ cpc[c] \in {"outside", "python"} /\ cpc'[c] \in {"outside", "python"}
        /\ \A d \in Clients : d # c => cpc'[d] = cpc[d]
        /\ UNCHANGED <<settings, bResult, compilerEnv, pool, foundIssues>>
    BY <1>2, <1>t DEF AcquireGIL, ReleaseGIL, GetFound
  <2>2. \A h : IssuesOf(h)' = IssuesOf(h) BY <2>1 DEF IssuesOf
  <2>3. HoldsIssues' BY <2>1, <2>2 DEF IssueInv, HoldsIssues
  <2>4. Current(foundIssues)' = Current(foundIssues) BY <2>1 DEF Current
  <2>5. \A some : Tallied(some) => Tallied(some)' BY <2>1, <2>4, SameTally
  <2>6. NoIssueYet' BY <2>1, <2>4 DEF IssueInv, NoIssueYet
  <2>7. /\ NewTasks' = NewTasks /\ TasksTaken' = TasksTaken
        /\ TakenHeaders' = TakenHeaders /\ Carriers' = Carriers
    BY <2>1 DEF NewTasks, HeaderTask, StopTask, TasksTaken, TakenHeaders, Carriers
  <2>8. QueueSuffix => QueueSuffix' BY <2>1, <2>7 DEF QueueSuffix
  <2>9. ASSUME NEW who, Shared(who) PROVE Shared(who)'
    <3>1. PICK done : done = TakenHeaders \ {who[v] : v \in Carriers} OBVIOUS
    <3>2. Tallied(done)' BY <2>5, <2>9, <3>1 DEF Shared
    <3>3. (TakenHeaders \ {who[v] : v \in Carriers})' = done BY <2>7, <3>1
    <3>4. Tallied(TakenHeaders \ {who[v] : v \in Carriers})' BY <3>2, <3>3
    <3> QED BY <2>1, <2>7, <2>9, <3>4 DEF Shared
  <2>10. \A d \in Clients : /\ cpc'[d] \in {"spawn", "join"} <=> cpc[d] \in {"spawn", "join"}
                            /\ cpc'[d] \in {"acquire", "return"} <=> cpc[d] \in {"acquire", "return"}
    BY <2>1
  <2>11. \A d \in Clients : cpc'[d] \in {"acquire", "return"} /\ bResult' => Tallied(DOMAIN headers)'
    <3>1. PICK all : all = DOMAIN headers OBVIOUS
    <3>2. (DOMAIN headers)' = all BY <2>1, <3>1
    <3>3. ASSUME NEW d \in Clients, cpc'[d] \in {"acquire", "return"}, bResult' PROVE Tallied(all)'
      BY <2>1, <2>5, <2>10, <3>1, <3>3 DEF IssueInv
    <3> QED BY <3>2, <3>3
  <2> QED BY <2>3, <2>6, <2>7, <2>8, <2>9, <2>10, <2>11 DEF IssueInv
<1>3. CASE \/ SetHeaders(c) \/ SetWorkersCount(c) \/ SetCompilerOptions(c)
           \/ SetEnableDeepAnalysis(c) \/ SetIgnoreRuntimeTag(c)
  BY <1>1, <1>3 DEF SetHeaders, SetWorkersCount, SetCompilerOptions, SetEnableDeepAnalysis,
     SetIgnoreRuntimeTag, MaySet
<1> QED BY <1>2, <1>3 DEF PythonStep

\* Once every worker was joined, each header was taken and none is carried.
LEMMA JoinTallies ==
    ASSUME TypeInv, ControlInv, ContentInv, IssueInv, NEW c \in Clients, JoinWorkers(c)
    PROVE  Tallied(DOMAIN headers)
<1>t. headers \in Seq(Headers) /\ tasks \in Seq(Tasks) /\ workersAmount \in Nat
  BY ContextAssumption DEF TypeInv, TypeOK
<1>1. /\ cpc[c] = "join" /\ \A w \in 1..spawned : wpc[w] = "done"
      /\ spawned >= 2 /\ spawned \in 0..MaxWorkers
  BY DEF JoinWorkers, AllJoined, ContentInv, ResultInv, TypeInv, TypeOK
<1>2. 1 \in Workers /\ wpc[1] = "done" BY <1>1, ContextAssumption DEF Workers
<1>3. \A w \in Workers : wpc[w] \in {"none", "done"}
  BY <1>1, ContextAssumption DEF ControlInv, SpawnedOnly, Workers
<1>4. \A i \in DOMAIN tasks : tasks[i] = StopTask BY <1>1, <1>2 DEF ContentInv, OrderInv
<1>5. QueueSuffix /\ \E who \in [Carriers -> TakenHeaders] : Shared(who) BY <1>1 DEF IssueInv
<1>6. PICK who \in [Carriers -> TakenHeaders] : Shared(who) BY <1>5
<1>7. Carriers = {} BY <1>3 DEF Carriers, Carrying
<1>8. TasksTaken >= Len(headers)
  <2>1. /\ TasksTaken \in 0..(Len(headers) + workersAmount)
        /\ Len(tasks) = Len(headers) + workersAmount - TasksTaken
        /\ Len(tasks) \in Nat /\ Len(headers) \in Nat
    BY <1>5, <1>t DEF QueueSuffix, TasksTaken
  <2>2. SUFFICES ASSUME TasksTaken < Len(headers) PROVE FALSE BY <2>1
  <2>3. 1 \in DOMAIN tasks BY <2>1, <2>2, <1>t
  <2>4. tasks[1] = NewTasks[TasksTaken + 1] BY <1>5, <2>3 DEF QueueSuffix
  <2>5. TasksTaken + 1 \in 1..(Len(headers) + workersAmount) /\ TasksTaken + 1 <= Len(headers)
    BY <2>1, <2>2, <1>t
  <2>6. NewTasks[TasksTaken + 1] = HeaderTask(headers[TasksTaken + 1]) BY <2>5 DEF NewTasks
  <2>7. \A h : HeaderTask(h) # StopTask BY DEF HeaderTask, StopTask
  <2> QED BY <1>4, <2>3, <2>4, <2>6, <2>7
<1>9. TakenHeaders = DOMAIN headers
  <2>1. TasksTaken \in Int BY <1>5, <1>t DEF QueueSuffix
  <2>2. Len(headers) \in Nat /\ DOMAIN headers = 1..Len(headers) BY <1>t
  <2>3. \A n \in DOMAIN headers : n <= TasksTaken BY <1>8, <2>1, <2>2
  <2> QED BY <2>3 DEF TakenHeaders
<1>10. TakenHeaders \ {who[v] : v \in Carriers} = DOMAIN headers BY <1>7, <1>9
<1> QED BY <1>6, <1>10 DEF Shared

\* analyze() starts with no issue and ends with those of every header.
LEMMA AnalyzeIssues ==
    ASSUME TypeInv, ControlInv, ContentInv, IssueInv, NEW c \in Clients, AnalyzeStep(c)
    PROVE  IssueInv'
<1> USE DEF settings, pool, subjects
<1>t. /\ cpc \in [Clients -> {"outside", "python"} \cup Analysing]
      /\ wpc \in [Workers -> {"none", "take", "analyze", "lock", "ensure", "issues",
                              "emplace", "append", "unlock", "done"}]
      /\ foundIssues \in Seq(Seq(Issues)) /\ foundIssues # <<>>
      /\ headers \in Seq(Headers) /\ workersAmount \in Nat
  BY ContextAssumption DEF TypeInv, TypeOK
<1>c. HoldsIssues /\ NoIssueYet BY DEF IssueInv
<1>u. cpc[c] \in Analysing => inProgress /\ \A d \in Clients : d # c => cpc[d] \notin Analysing
  BY DEF ControlInv, OneRunner
<1>q. cpc[c] \in {"detect", "queue", "acquire", "return"} => \A w \in Workers : wpc[w] \in {"none", "done"}
  BY DEF ControlInv, WorkersQuiet
<1>k. ASSUME NEW s \in {"outside", "python"} \cup Analysing,
             cpc' = [cpc EXCEPT ![c] = s],
             cpc[c] \in Analysing \/ ~inProgress
      PROVE  \A d \in Clients : cpc'[d] \in Analysing => d = c /\ cpc'[d] = s
  BY <1>k, <1>u, <1>t DEF ControlInv, OneRunner
<1>0. ASSUME \A w \in Workers : wpc'[w] \in {"none", "done"} PROVE HoldsIssues'
  BY <1>0 DEF HoldsIssues
<1>1. CASE StartAnalyze(c)
  <2>1. /\ \A w \in Workers : wpc'[w] \in {"none", "done"}
        /\ ~inProgress /\ cpc' = [cpc EXCEPT ![c] = "detect"]
    BY <1>1 DEF StartAnalyze, ControlInv, WorkersQuiet
  <2>2. \A d \in Clients : cpc'[d] \in Analysing => cpc'[d] = "detect"
    BY <2>1, <1>k DEF Analysing
  <2>3. Current(foundIssues') = <<>> BY <1>1, <1>t, ReboundLists DEF StartAnalyze, Current
  <2> QED BY <1>0, <2>1, <2>2, <2>3 DEF IssueInv, NoIssueYet, Analysing
<1>2. CASE DetectEnvironment(c)
  <2>1. /\ cpc[c] = "detect" /\ cpc' = [cpc EXCEPT ![c] = "queue"]
        /\ UNCHANGED <<wpc, foundIssues>>
    BY <1>2 DEF DetectEnvironment
  <2>2. \A d \in Clients : cpc'[d] \in Analysing => cpc'[d] = "queue"
    BY <2>1, <1>k DEF Analysing
  <2>3. Current(foundIssues') = <<>> BY <1>c, <2>1 DEF NoIssueYet, Current
  <2> QED BY <1>0, <1>q, <2>1, <2>2, <2>3 DEF IssueInv, NoIssueYet, Analysing
<1>3. CASE DetectFails(c) \/ DetectThrows(c) \/ FinishAnalyze(c)
  <2>1. /\ cpc[c] \in {"detect", "return"} /\ cpc' = [cpc EXCEPT ![c] = "python"]
        /\ UNCHANGED wpc
    BY <1>3 DEF DetectFails, DetectThrows, FinishAnalyze
  <2>2. \A d \in Clients : cpc'[d] \notin Analysing BY <2>1, <1>k DEF Analysing
  <2> QED BY <1>0, <1>q, <2>1, <2>2 DEF IssueInv, NoIssueYet, Analysing
<1>4. CASE FillQueue(c)
  <2>1. /\ cpc[c] = "queue" /\ tasks' = NewTasks
        /\ UNCHANGED <<headers, config, compilerEnv, bResult, workersAmount, foundIssues>>
        /\ Current(foundIssues)' = <<>> /\ ~bResult
    BY <1>4, <1>c DEF FillQueue, FreshQueue, NoIssueYet, Current, ContentInv, ResultInv
  <2>2. CASE workersAmount <= 1
    <3>1. cpc' = [cpc EXCEPT ![c] = "acquire"] /\ UNCHANGED wpc
      BY <1>4, <2>2 DEF FillQueue
    <3>2. \A d \in Clients : cpc'[d] \in Analysing => cpc'[d] = "acquire"
      BY <2>1, <3>1, <1>k DEF Analysing
    <3> QED BY <1>0, <1>q, <2>1, <3>1, <3>2 DEF IssueInv, NoIssueYet, Analysing
  <2>3. CASE ~(workersAmount <= 1)
    <3>1. cpc' = [cpc EXCEPT ![c] = "spawn"] /\ wpc' = [w \in Workers |-> "none"]
      BY <1>4, <2>3 DEF FillQueue
    <3>2. \A d \in Clients : cpc'[d] \in Analysing => cpc'[d] = "spawn"
      BY <2>1, <3>1, <1>k DEF Analysing
    <3>3. Len(headers) \in Nat /\ DOMAIN headers = 1..Len(headers) BY <1>t
    <3>4. Len(NewTasks) = Len(headers) + workersAmount BY <1>t, <3>3 DEF NewTasks
    <3>5. TasksTaken' = 0 /\ NewTasks' = NewTasks
      BY <1>t, <2>1, <3>3, <3>4 DEF NewTasks, HeaderTask, StopTask, TasksTaken
    <3>6. QueueSuffix'
      <4>1. \A j \in DOMAIN NewTasks : 0 + j = j BY <1>t, <3>3 DEF NewTasks
      <4>2. 0 \in 0..(Len(headers) + workersAmount) BY <1>t, <3>3
      <4> QED BY <2>1, <3>5, <4>1, <4>2 DEF QueueSuffix
    <3>7. TakenHeaders' = {}
      <4>1. TakenHeaders' = {n \in 1..Len(headers) : n <= 0} BY <2>1, <3>3, <3>5 DEF TakenHeaders
      <4> QED BY <3>3, <4>1
    <3>8. Carriers' = {} BY <3>1 DEF Carriers, Carrying
    <3>9. PICK who : who = [v \in {} |-> v] OBVIOUS
    <3>10. who \in [Carriers' -> TakenHeaders'] BY <3>8, <3>9
    <3>11. Tallied({})'
      <4>1. Current(foundIssues) = <<>> BY <1>c, <2>1 DEF NoIssueYet
      <4>2. Tallied({}) BY <4>1, NothingTallied
      <4> QED BY <2>1, <4>1, <4>2, SameTally
    <3>12. Shared(who)'
      <4>1. (TakenHeaders \ {who[v] : v \in Carriers})' = {} BY <3>7
      <4>2. Tallied(TakenHeaders \ {who[v] : v \in Carriers})' BY <3>11, <4>1
      <4> QED BY <3>8, <3>10, <4>2 DEF Shared
    <3>13. HoldsIssues' BY <3>1 DEF HoldsIssues
    <3> QED BY <3>2, <3>6, <3>10, <3>12, <3>13 DEF IssueInv, NoIssueYet, Analysing
  <2> QED BY <2>2, <2>3
<1>5. ASSUME cpc[c] \in {"spawn", "join"},
             UNCHANGED <<headers, config, compilerEnv, tasks, wtask, wout, workersAmount, foundIssues>>,
             \A w \in Workers : wpc'[w] = wpc[w] \/ (wpc[w] = "none" /\ wpc'[w] = "take"),
             NEW s \in Analysing \ {"detect", "queue"}, cpc' = [cpc EXCEPT ![c] = s],
             s \in {"acquire", "return"} => Tallied(DOMAIN headers)
      PROVE  IssueInv'
  <2>1. cpc[c] \in Analysing BY <1>5 DEF Analysing
  <2>2. \A d \in Clients : cpc'[d] \in Analysing => d = c /\ cpc'[d] = s
    BY <1>5, <1>k, <2>1
  <2>3. \A h : IssuesOf(h)' = IssuesOf(h) BY <1>5 DEF IssuesOf
  <2>4. HoldsIssues' BY <1>5, <1>c, <2>3 DEF HoldsIssues
  <2>5. NoIssueYet' BY <1>5, <2>2 DEF NoIssueYet, Analysing
  <2>6. Current(foundIssues)' = Current(foundIssues) BY <1>5 DEF Current
  <2>7. \A some : Tallied(some) => Tallied(some)' BY <1>5, <2>6, SameTally
  <2>8. /\ NewTasks' = NewTasks /\ TasksTaken' = TasksTaken
        /\ TakenHeaders' = TakenHeaders
    BY <1>5 DEF NewTasks, HeaderTask, StopTask, TasksTaken, TakenHeaders
  <2>9. Carriers' = Carriers BY <1>5 DEF Carriers, Carrying
  <2>10. QueueSuffix /\ \E who \in [Carriers -> TakenHeaders] : Shared(who) BY <1>5 DEF IssueInv
  <2>11. PICK who \in [Carriers -> TakenHeaders] : Shared(who) BY <2>10
  <2>12. QueueSuffix' BY <1>5, <2>8, <2>10 DEF QueueSuffix
  <2>13. Shared(who)'
    <3>1. PICK done : done = TakenHeaders \ {who[v] : v \in Carriers} OBVIOUS
    <3>2. Tallied(done)' BY <2>7, <2>11, <3>1 DEF Shared
    <3>3. (TakenHeaders \ {who[v] : v \in Carriers})' = done BY <2>8, <2>9, <3>1
    <3>4. Tallied(TakenHeaders \ {who[v] : v \in Carriers})' BY <3>2, <3>3
    <3> QED BY <1>5, <2>8, <2>9, <2>11, <3>4 DEF Shared
  <2>14. ASSUME NEW d \in Clients, cpc'[d] \in {"acquire", "return"} PROVE Tallied(DOMAIN headers)'
    <3>1. PICK all : all = DOMAIN headers OBVIOUS
    <3>2. (DOMAIN headers)' = all BY <1>5, <3>1
    <3>3. s \in {"acquire", "return"} BY <2>2, <2>14 DEF Analysing
    <3>4. Tallied(all)' BY <1>5, <2>7, <3>1, <3>3
    <3> QED BY <3>2, <3>4
  <2>15. who \in [Carriers' -> TakenHeaders'] BY <2>8, <2>9
  <2> QED BY <2>4, <2>5, <2>12, <2>13, <2>14, <2>15 DEF IssueInv
<1>6. CASE SpawnWorker(c)
  <2>1. spawned + 1 \in Workers /\ spawned + 1 > spawned
    BY <1>6, ContextAssumption DEF TypeInv, TypeOK, SpawnWorker, MoreToSpawn, Workers
  <2>2. wpc[spawned + 1] = "none" BY <1>6, <2>1 DEF SpawnWorker, ControlInv, SpawnedOnly
  <2>3. \A w \in Workers : wpc'[w] = wpc[w] \/ (wpc[w] = "none" /\ wpc'[w] = "take")
    BY <1>6, <1>t, <2>1, <2>2 DEF SpawnWorker
  <2>4. cpc' = [cpc EXCEPT ![c] = "spawn"] BY <1>6, <1>t DEF SpawnWorker
  <2> QED BY <1>5, <1>6, <2>3, <2>4 DEF SpawnWorker, Analysing
<1>7. CASE SpawnThrows(c)
  BY <1>5, <1>7 DEF SpawnThrows, Analysing
<1>8. CASE AllSpawned(c)
  BY <1>5, <1>8 DEF AllSpawned, Analysing
<1>9. CASE JoinWorkers(c)
  BY <1>5, <1>9, JoinTallies DEF JoinWorkers, Analysing
<1>10. CASE RestoreGIL(c)
  <2>1. /\ cpc[c] \in {"acquire", "unwind"}
        /\ cpc' = [cpc EXCEPT ![c] = IF cpc[c] = "acquire" THEN "return" ELSE "python"]
        /\ UNCHANGED <<headers, config, compilerEnv, tasks, wpc, wtask, wout, bResult, foundIssues>>
    BY <1>10 DEF RestoreGIL
  <2>2. \A d \in Clients : cpc'[d] \in Analysing => d = c /\ cpc[c] = "acquire" /\ cpc'[d] = "return"
    <3>1. CASE cpc[c] = "acquire" BY <2>1, <3>1, <1>k DEF Analysing
    <3>2. CASE cpc[c] = "unwind" BY <2>1, <3>2, <1>k DEF Analysing
    <3> QED BY <2>1, <3>1, <3>2
  <2>3. \A h : IssuesOf(h)' = IssuesOf(h) BY <2>1 DEF IssuesOf
  <2>4. HoldsIssues' BY <1>c, <2>1, <2>3 DEF HoldsIssues
  <2>5. Current(foundIssues)' = Current(foundIssues) BY <2>1 DEF Current
  <2>6. \A some : Tallied(some) => Tallied(some)' BY <2>1, <2>5, SameTally
  <2>7. ASSUME NEW d \in Clients, cpc'[d] \in {"acquire", "return"}, bResult' PROVE Tallied(DOMAIN headers)'
    <3>1. PICK all : all = DOMAIN headers OBVIOUS
    <3>2. (DOMAIN headers)' = all BY <2>1, <3>1
    <3>3. cpc[c] = "acquire" /\ bResult BY <2>1, <2>2, <2>7 DEF Analysing
    <3>4. Tallied(all)' BY <2>6, <3>1, <3>3 DEF IssueInv
    <3> QED BY <3>2, <3>4
  <2> QED BY <2>2, <2>4, <2>7 DEF IssueInv, NoIssueYet, Analysing
<1> QED BY <1>1, <1>2, <1>3, <1>4, <1>6, <1>7, <1>8, <1>9, <1>10 DEF AnalyzeStep

\* IssueInv is inductive relative to the invariants before it.
THEOREM IssueInvariant == Spec => []IssueInv
<1>1. Init => IssueInv
  <2> SUFFICES ASSUME Init PROVE IssueInv OBVIOUS
  <2>1. \A c \in Clients : cpc[c] = "outside" BY DEF Init
  <2>2. \A w \in Workers : wpc[w] = "none" BY DEF Init
  <2> QED BY <2>1, <2>2 DEF IssueInv, HoldsIssues, NoIssueYet
<1>2. ASSUME TypeInv, ControlInv, ContentInv, IssueInv, [Next]_vars PROVE IssueInv'
  <2>1. CASE UNCHANGED vars
    <3>1. UNCHANGED <<cpc, wpc, wtask, wout, tasks, bResult, headers, config, compilerEnv,
                      workersAmount, foundIssues>>
      BY <2>1 DEF vars, settings, pool, subjects
    <3>2. \A h : IssuesOf(h)' = IssuesOf(h) BY <3>1 DEF IssuesOf
    <3>3. \A some, i : Found(some, i)' = Found(some, i) BY <3>1, <3>2 DEF Found
    <3>4. \A some : Tallied(some)' <=> Tallied(some) BY <3>1, <3>3 DEF Tallied, Positions, Current
    <3>5. /\ NewTasks' = NewTasks /\ TasksTaken' = TasksTaken
          /\ TakenHeaders' = TakenHeaders /\ Carriers' = Carriers
      BY <3>1 DEF NewTasks, HeaderTask, StopTask, TasksTaken, TakenHeaders, Carriers
    <3>6. HoldsIssues' /\ NoIssueYet'
      BY <1>2, <3>1, <3>2 DEF IssueInv, HoldsIssues, NoIssueYet, Current
    <3>7. QueueSuffix => QueueSuffix' BY <3>1, <3>5 DEF QueueSuffix
    <3>8. \A who : Shared(who) => Shared(who)'
      <4>1. ASSUME NEW who, Shared(who) PROVE Shared(who)'
        <5>1. PICK done : done = TakenHeaders \ {who[v] : v \in Carriers} OBVIOUS
        <5>2. Tallied(done)' BY <3>4, <4>1, <5>1 DEF Shared
        <5>3. (TakenHeaders \ {who[v] : v \in Carriers})' = done BY <3>5, <5>1
        <5>4. Tallied(TakenHeaders \ {who[v] : v \in Carriers})' BY <5>2, <5>3
        <5> QED BY <3>1, <3>5, <4>1, <5>4 DEF Shared
      <4> QED BY <4>1
    <3>9. Tallied(DOMAIN headers) => Tallied(DOMAIN headers)'
      <4>1. PICK all : all = DOMAIN headers OBVIOUS
      <4>2. (DOMAIN headers)' = all BY <3>1, <4>1
      <4> QED BY <3>4, <4>1, <4>2
    <3> QED BY <1>2, <3>1, <3>5, <3>6, <3>7, <3>8, <3>9 DEF IssueInv
  <2>2. CASE \E c \in Clients : PythonStep(c) \/ AnalyzeStep(c)
    BY <1>2, <2>2, PythonIssues, AnalyzeIssues
  <2>3. CASE \E w \in Workers : WorkerStep(w) BY <1>2, <2>3, WorkerIssues
  <2> QED BY <1>2, <2>1, <2>2, <2>3 DEF Next
<1> QED
  BY <1>1, <1>2, TypeInvariant, ControlInvariant, ContentInvariant, PTL DEF Spec

\* A successful analysis ends with each issue in the list as often as the headers
\* report it: no header was skipped, and none was registered by two workers.
THEOREM EveryIssueOnce == Spec => []IssuesExactlyOnce
<1>1. IssueInv => IssuesExactlyOnce
  <2> SUFFICES ASSUME IssueInv, NEW c \in Clients, cpc[c] = "return", bResult, NEW i \in Issues
               PROVE  Cardinality(Positions(Current(foundIssues), i)) = Cardinality(Occurrences(i))
    BY DEF IssuesExactlyOnce
  <2>1. Tallied(DOMAIN headers) BY DEF IssueInv
  <2>2. Occurrences(i) = Found(DOMAIN headers, i) BY DEF Occurrences, Found
  <2> QED BY <2>1, <2>2 DEF Tallied
<1> QED BY <1>1, IssueInvariant, PTL
=============================================================================
