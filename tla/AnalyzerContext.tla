--------------------------- MODULE AnalyzerContext ---------------------------
(***************************************************************************)
(* rg3py.AnalyzerContext (PyBind/source/PyAnalyzerContext.cpp): Python     *)
(* threads share one context object.  analyze() drops the GIL, fills a     *)
(* queue with one task per header followed by one stop task per worker,    *)
(* spawns the workers and joins them.  A worker analyses a header with no  *)
(* lock held and then registers what it found under lockMutex and the GIL. *)
(*                                                                         *)
(* Python code runs in a client only while the client holds the GIL; a     *)
(* call that finds m_bInProgress set returns at once and changes nothing,  *)
(* so such a call is a stuttering step and has no action here.             *)
(***************************************************************************)
EXTENDS Integers, Sequences, FiniteSets, Functions

CONSTANTS
    Clients,       \* Python threads that use the context
    NoOne,         \* the owner of a free lock
    Names,         \* pretty names of types
    Headers,       \* paths of headers
    HeaderLists,   \* the lists clients pass to set_headers
    Options,       \* values of the compiler settings (includes, std, args, defs)
    Envs,          \* compiler environments the detector may find
    NoEnv,         \* no environment detected yet
    Issues,        \* compiler issues
    WorkerCounts,  \* the numbers clients pass to set_workers_count
    MaxWorkers,    \* bound: no count passed or preset exceeds it
    ThreadLimit,   \* threads the operating system grants one analysis
    DetectMayThrow,\* may the environment detection leave by an exception?
    MaxAnalyses,   \* bound: analyses started in a behaviour
    AnalysisOf     \* what CodeAnalyzer reports for a header, config and env

Kinds == {"none", "trivial", "enum", "class"}
Configs == [deep : BOOLEAN, nonRuntime : BOOLEAN, options : Options]
TypeDecls == [name : Names, kind : Kinds, parents : SUBSET Names]
\* A Python object for a type: the declaration and the header it came from.
TypeObjects == [decl : TypeDecls, header : Headers]
Workers == 1..MaxWorkers
\* The part of an AnalyzerResult a worker registers.
Outputs == [types : Seq(TypeDecls), issues : Seq(Issues)]

ASSUME ContextAssumption ==
    /\ Clients \cap Nat = {}
    /\ NoOne \notin Clients /\ NoOne \notin Nat
    /\ HeaderLists \subseteq Seq(Headers)
    /\ MaxWorkers \in Nat /\ MaxWorkers >= 2
    /\ WorkerCounts \subseteq 0..MaxWorkers
    /\ ThreadLimit \in Nat
    /\ DetectMayThrow \in BOOLEAN
    /\ MaxAnalyses \in Nat
    /\ AnalysisOf \in [Headers -> [Configs -> [Envs \cup {NoEnv} -> Outputs]]]

VARIABLES
    gil,           \* who holds Python's global interpreter lock
    cpc,           \* where each client is
    inProgress,    \* m_bInProgress
    headers,       \* m_headersToPrepare
    config,        \* m_compilerConfig
    workersAmount, \* m_iWorkersAmount
    ignoreRT,      \* m_bIgnoreRuntimeTag
    bResult,       \* the result runAnalyze is about to return
    compilerEnv,   \* RuntimeContext::m_compilerEnv
    tasks,         \* RuntimeContext::tasks
    spawned,       \* RuntimeContext::workers.size()
    wpc,           \* where each worker thread is
    wtask,         \* the AnalyzeHeaderTask in a worker's hands
    wout,          \* what is left of its AnalyzerResult to register
    lockMutex,     \* owner of PyFoundSubjects::lockMutex
    typeMap,       \* PyFoundSubjects::vFoundTypeInstances
    foundTypes,    \* every list pyFoundTypes was bound to, the current one last
    foundIssues,   \* the same for pyFoundIssues
    handed,        \* positions of the lists Python code got from the getters
    parentRefs     \* PyClassParent::m_pClassType of the found classes

settings == <<headers, config, workersAmount, ignoreRT>>
subjects == <<typeMap, foundTypes, foundIssues>>
pool == <<tasks, spawned, wpc, wtask, wout, lockMutex>>
vars == <<gil, cpc, inProgress, settings, bResult, compilerEnv, pool,
          subjects, handed, parentRefs>>

-----------------------------------------------------------------------------
Current(lists) == lists[Len(lists)]
AppendToLast(lists, x) == [lists EXCEPT ![Len(lists)] = Append(@, x)]
Empty == [n \in {} |-> n]

StopTask == [kind |-> "stop"]
HeaderTask(h) == [kind |-> "analyze", header |-> h, config |-> config]
NoTask == [kind |-> "null"]
NoOutput == [types |-> <<>>, issues |-> <<>>]

\* Where a client is once analyze() has set m_bInProgress.
Analysing == {"detect", "queue", "spawn", "join", "acquire", "return", "unwind"}

Init ==
    /\ gil = NoOne
    /\ cpc = [c \in Clients |-> "outside"]
    /\ inProgress = FALSE
    /\ headers = <<>>
    /\ config \in {cfg \in Configs : ~cfg.deep /\ ~cfg.nonRuntime}
    /\ workersAmount = 2
    /\ ignoreRT = FALSE
    /\ bResult = FALSE
    /\ compilerEnv = NoEnv
    /\ tasks = <<>>
    /\ spawned = 0
    /\ wpc = [w \in Workers |-> "none"]
    /\ wtask = [w \in Workers |-> NoTask]
    /\ wout = [w \in Workers |-> NoOutput]
    /\ lockMutex = NoOne
    /\ typeMap = Empty
    /\ foundTypes = << <<>> >>
    /\ foundIssues = << <<>> >>
    /\ handed = {}
    /\ parentRefs = {}

-----------------------------------------------------------------------------
(* Python code and the GIL *)

AcquireGIL(c) ==
    /\ cpc[c] = "outside" /\ gil = NoOne
    /\ gil' = c
    /\ cpc' = [cpc EXCEPT ![c] = "python"]
    /\ UNCHANGED <<inProgress, settings, bResult, compilerEnv, pool, subjects, handed, parentRefs>>

ReleaseGIL(c) ==
    /\ cpc[c] = "python"
    /\ gil' = NoOne
    /\ cpc' = [cpc EXCEPT ![c] = "outside"]
    /\ UNCHANGED <<inProgress, settings, bResult, compilerEnv, pool, subjects, handed, parentRefs>>

\* The setters share one shape: m_bInProgress makes them do nothing.
MaySetAnytime(c) == cpc[c] = "python"
MaySet(c) == cpc[c] = "python" /\ ~inProgress

\* An element that is no string raises TypeError after the ones before it
\* were stored, so any prefix of the list may be what is left.
SetHeaders(c) ==
    /\ MaySet(c)
    /\ \E list \in HeaderLists : \E n \in 0..Len(list) : headers' = SubSeq(list, 1, n)
    /\ UNCHANGED <<gil, cpc, inProgress, config, workersAmount, ignoreRT, bResult,
                   compilerEnv, pool, subjects, handed, parentRefs>>

\* The guard looks at the count in force, not at the one passed.
SetWorkersCount(c) ==
    /\ MaySet(c) /\ workersAmount >= 1
    /\ workersAmount' \in WorkerCounts
    /\ UNCHANGED <<gil, cpc, inProgress, headers, config, ignoreRT, bResult,
                   compilerEnv, pool, subjects, handed, parentRefs>>

\* setCompilerIncludeDirs, setCppStandard, setCompilerArgs, setCompilerDefs
SetCompilerOptions(c) ==
    /\ MaySet(c)
    /\ \E o \in Options : config' = [config EXCEPT !.options = o]
    /\ UNCHANGED <<gil, cpc, inProgress, headers, workersAmount, ignoreRT, bResult,
                   compilerEnv, pool, subjects, handed, parentRefs>>

SetEnableDeepAnalysis(c) ==
    /\ MaySet(c)
    /\ \E b \in BOOLEAN : config' = [config EXCEPT !.deep = b]
    /\ UNCHANGED <<gil, cpc, inProgress, headers, workersAmount, ignoreRT, bResult,
                   compilerEnv, pool, subjects, handed, parentRefs>>

SetIgnoreRuntimeTag(c) ==
    /\ MaySet(c)
    /\ ignoreRT' \in BOOLEAN
    /\ UNCHANGED <<gil, cpc, inProgress, headers, config, workersAmount, bResult,
                   compilerEnv, pool, subjects, handed, parentRefs>>

\* The types and issues properties hand out the very lists the analysis fills;
\* while it runs they hand out a static empty list instead.
GetFound(c) ==
    /\ cpc[c] = "python" /\ ~inProgress
    /\ handed' = handed \cup {Len(foundTypes)}
    /\ UNCHANGED <<gil, cpc, inProgress, settings, bResult, compilerEnv, pool, subjects, parentRefs>>

-----------------------------------------------------------------------------
(* analyze() and runAnalyze() *)

\* A list is rebound to a new Python list; the old one stays with its holders.
ClearedList(lists) == [lists EXCEPT ![Len(lists)] = <<>>]
Rebound(lists) == Append(lists, <<>>)

\* m_bInProgress is tested and set, and the results reset, under the GIL.
StartAnalyze(c) ==
    /\ cpc[c] = "python" /\ ~inProgress
    /\ Len(foundTypes) <= MaxAnalyses
    /\ inProgress' = TRUE
    /\ foundTypes' = Rebound(foundTypes)
    /\ foundIssues' = Rebound(foundIssues)
    /\ typeMap' = Empty
    /\ parentRefs' = {}            \* the new objects have unresolved parents
    /\ bResult' = FALSE
    /\ cpc' = [cpc EXCEPT ![c] = "detect"]
    /\ UNCHANGED <<gil, settings, compilerEnv, pool, handed>>

\* PyGuard: PyEval_SaveThread
KeptGIL == gil
SavedGIL == NoOne

\* The detected environment is cached and the GIL released.
DetectEnvironment(c) ==
    /\ cpc[c] = "detect"
    /\ compilerEnv' \in Envs
    /\ gil' = SavedGIL
    /\ cpc' = [cpc EXCEPT ![c] = "queue"]
    /\ UNCHANGED <<inProgress, settings, bResult, pool, subjects, handed, parentRefs>>

DetectFails(c) ==
    /\ cpc[c] = "detect"
    /\ \E i \in Issues : foundIssues' = AppendToLast(foundIssues, i)
    /\ inProgress' = FALSE
    /\ cpc' = [cpc EXCEPT ![c] = "python"]
    /\ UNCHANGED <<gil, settings, bResult, compilerEnv, pool, typeMap, foundTypes, handed, parentRefs>>

\* The child process cannot be started: boost::process throws through analyze().
DetectThrows(c) ==
    /\ DetectMayThrow
    /\ cpc[c] = "detect"
    /\ cpc' = [cpc EXCEPT ![c] = "python"]
    /\ UNCHANGED <<gil, inProgress, settings, bResult, compilerEnv, pool, subjects, handed, parentRefs>>

NewTasks ==
    [i \in 1..(Len(headers) + workersAmount) |->
        IF i <= Len(headers) THEN HeaderTask(headers[i]) ELSE StopTask]
StopsFirst ==
    [i \in 1..(Len(headers) + workersAmount) |->
        IF i <= workersAmount THEN StopTask ELSE HeaderTask(headers[i - workersAmount])]
FreshQueue == NewTasks

\* The transaction holds lockMtx from clearTasks to the last pushTask, so for
\* takeTask the whole block is one step.  runWorkers refuses fewer than two.
FillQueue(c) ==
    /\ cpc[c] = "queue"
    /\ tasks' = FreshQueue
    /\ cpc' = [cpc EXCEPT ![c] = IF workersAmount <= 1 THEN "acquire" ELSE "spawn"]
    /\ spawned' = IF workersAmount <= 1 THEN spawned ELSE 0
    /\ wpc' = IF workersAmount <= 1 THEN wpc ELSE [w \in Workers |-> "none"]
    /\ UNCHANGED <<gil, inProgress, settings, bResult, compilerEnv, wtask, wout, lockMutex,
                   subjects, handed, parentRefs>>

OneMoreToSpawn == spawned <= workersAmount
MoreToSpawn == spawned < workersAmount

SpawnWorker(c) ==
    /\ cpc[c] = "spawn" /\ MoreToSpawn /\ spawned < ThreadLimit
    /\ spawned' = spawned + 1
    /\ wpc' = [wpc EXCEPT ![spawned + 1] = "take"]
    /\ UNCHANGED <<gil, cpc, inProgress, settings, bResult, compilerEnv, tasks, wtask, wout,
                   lockMutex, subjects, handed, parentRefs>>

\* std::thread throws; PyGuard's destructor still has to get the GIL back.
SpawnThrows(c) ==
    /\ cpc[c] = "spawn" /\ MoreToSpawn /\ spawned >= ThreadLimit
    /\ cpc' = [cpc EXCEPT ![c] = "unwind"]
    /\ UNCHANGED <<gil, inProgress, settings, bResult, compilerEnv, pool, subjects, handed, parentRefs>>

AllSpawned(c) ==
    /\ cpc[c] = "spawn" /\ spawned = workersAmount
    /\ cpc' = [cpc EXCEPT ![c] = "join"]
    /\ UNCHANGED <<gil, inProgress, settings, bResult, compilerEnv, pool, subjects, handed, parentRefs>>

FirstJoined == wpc[1] = "done"
AllJoined == \A w \in 1..spawned : wpc[w] = "done"

JoinWorkers(c) ==
    /\ cpc[c] = "join" /\ AllJoined
    /\ bResult' = TRUE
    /\ cpc' = [cpc EXCEPT ![c] = "acquire"]
    /\ UNCHANGED <<gil, inProgress, settings, compilerEnv, pool, subjects, handed, parentRefs>>

\* ~PyGuard: PyEval_RestoreThread
RestoreGIL(c) ==
    /\ cpc[c] \in {"acquire", "unwind"} /\ gil = NoOne
    /\ gil' = c
    /\ cpc' = [cpc EXCEPT ![c] = IF @ = "acquire" THEN "return" ELSE "python"]
    /\ UNCHANGED <<inProgress, settings, bResult, compilerEnv, pool, subjects, handed, parentRefs>>

FoundClasses == {o \in Range(Current(foundTypes)) : o.decl.kind = "class"}

\* Only the parents that stand before their class in the list.
ResolveEarlier ==
    LET list == Current(foundTypes)
    IN  UNION {{[child |-> list[i], parent |-> list[j]] :
                  j \in {k \in 1..(i - 1) : list[k].decl.name \in list[i].decl.parents}} :
                  i \in DOMAIN list}

\* Each parent whose name was found points at the object in the map, whatever
\* that object's kind.
ResolveReferences ==
    UNION {{[child |-> o, parent |-> typeMap[p]] : p \in o.decl.parents \cap DOMAIN typeMap} :
              o \in FoundClasses}

FinishAnalyze(c) ==
    /\ cpc[c] = "return"
    /\ parentRefs' = IF bResult /\ config.deep THEN ResolveReferences ELSE parentRefs
    /\ inProgress' = FALSE
    /\ cpc' = [cpc EXCEPT ![c] = "python"]
    /\ UNCHANGED <<gil, settings, bResult, compilerEnv, pool, subjects, handed>>

-----------------------------------------------------------------------------
(* workerEntryPoint *)

PopFront == Tail(tasks)

\* A worker that finds the queue empty runs a NullTask and looks again: a
\* stuttering step.
TakeTask(w) ==
    /\ wpc[w] = "take" /\ tasks # <<>>
    /\ tasks' = PopFront
    /\ wtask' = [wtask EXCEPT ![w] = Head(tasks)]
    /\ wpc' = [wpc EXCEPT ![w] = IF Head(tasks) = StopTask THEN "done" ELSE "analyze"]
    /\ UNCHANGED <<gil, cpc, inProgress, settings, bResult, compilerEnv, spawned, wout, lockMutex,
                   subjects, handed, parentRefs>>

AnalyzeHeader(w) ==
    /\ wpc[w] = "analyze"
    /\ wout' = [wout EXCEPT ![w] = AnalysisOf[wtask[w].header][wtask[w].config][compilerEnv]]
    /\ wpc' = [wpc EXCEPT ![w] = "lock"]
    /\ UNCHANGED <<gil, cpc, inProgress, settings, bResult, compilerEnv, tasks, spawned, wtask,
                   lockMutex, subjects, handed, parentRefs>>

LockSubjects(w) ==
    /\ wpc[w] = "lock" /\ lockMutex = NoOne
    /\ lockMutex' = w
    /\ wpc' = [wpc EXCEPT ![w] = "ensure"]
    /\ UNCHANGED <<gil, cpc, inProgress, settings, bResult, compilerEnv, tasks, spawned, wtask, wout,
                   subjects, handed, parentRefs>>

\* PyGILGuard: PyGILState_Ensure
WithoutGIL(w) == gil' = gil
TakesGIL(w) == gil = NoOne /\ gil' = w

EnsureGIL(w) ==
    /\ wpc[w] = "ensure" /\ TakesGIL(w)
    /\ wpc' = [wpc EXCEPT ![w] = "issues"]
    /\ UNCHANGED <<cpc, inProgress, settings, bResult, compilerEnv, tasks, spawned, wtask, wout,
                   lockMutex, subjects, handed, parentRefs>>

AppendIssues(w) ==
    /\ wpc[w] = "issues"
    /\ foundIssues' = [foundIssues EXCEPT ![Len(foundIssues)] = @ \o wout[w].issues]
    /\ wpc' = [wpc EXCEPT ![w] = "emplace"]
    /\ UNCHANGED <<gil, cpc, inProgress, settings, bResult, compilerEnv, tasks, spawned, wtask, wout,
                   lockMutex, typeMap, foundTypes, handed, parentRefs>>

WithoutFirst(out) == [types |-> Tail(out.types), issues |-> out.issues]
NextType(w) == Head(wout[w].types)
NewObject(w) == [decl |-> NextType(w), header |-> wtask[w].header]

InsertOrAssign(n, o) == [m \in DOMAIN typeMap \cup {n} |-> IF m = n THEN o ELSE typeMap[m]]
TryEmplace(n, o) ==
    [m \in DOMAIN typeMap \cup {n} |-> IF m \in DOMAIN typeMap THEN typeMap[m] ELSE o]

\* case TK_NONE: the type is lost
DropType(w) ==
    /\ wpc[w] = "emplace" /\ wout[w].types # <<>> /\ NextType(w).kind = "none"
    /\ wout' = [wout EXCEPT ![w] = WithoutFirst(@)]
    /\ UNCHANGED <<gil, cpc, inProgress, settings, bResult, compilerEnv, tasks, spawned, wpc, wtask,
                   lockMutex, subjects, handed, parentRefs>>

\* A type whose name is in the map already goes no further.
EmplaceType(w) ==
    /\ wpc[w] = "emplace" /\ wout[w].types # <<>> /\ NextType(w).kind # "none"
    /\ typeMap' = TryEmplace(NextType(w).name, NewObject(w))
    /\ IF NextType(w).name \in DOMAIN typeMap
          THEN wout' = [wout EXCEPT ![w] = WithoutFirst(@)] /\ UNCHANGED wpc
          ELSE wpc' = [wpc EXCEPT ![w] = "append"] /\ UNCHANGED wout
    /\ UNCHANGED <<gil, cpc, inProgress, settings, bResult, compilerEnv, tasks, spawned, wtask,
                   lockMutex, foundTypes, foundIssues, handed, parentRefs>>

AppendType(w) ==
    /\ wpc[w] = "append"
    /\ foundTypes' = AppendToLast(foundTypes, NewObject(w))
    /\ wout' = [wout EXCEPT ![w] = WithoutFirst(@)]
    /\ wpc' = [wpc EXCEPT ![w] = "emplace"]
    /\ UNCHANGED <<gil, cpc, inProgress, settings, bResult, compilerEnv, tasks, spawned, wtask,
                   lockMutex, typeMap, foundIssues, handed, parentRefs>>

\* ~PyGILGuard runs before ~unique_lock: the GIL goes first.
DropGIL(w) ==
    /\ wpc[w] = "emplace" /\ wout[w].types = <<>>
    /\ gil' = NoOne
    /\ wout' = [wout EXCEPT ![w] = NoOutput]
    /\ wpc' = [wpc EXCEPT ![w] = "unlock"]
    /\ UNCHANGED <<cpc, inProgress, settings, bResult, compilerEnv, tasks, spawned, wtask, lockMutex,
                   subjects, handed, parentRefs>>

UnlockSubjects(w) ==
    /\ wpc[w] = "unlock"
    /\ lockMutex' = NoOne
    /\ wtask' = [wtask EXCEPT ![w] = NoTask]
    /\ wpc' = [wpc EXCEPT ![w] = "take"]
    /\ UNCHANGED <<gil, cpc, inProgress, settings, bResult, compilerEnv, tasks, spawned, wout,
                   subjects, handed, parentRefs>>

-----------------------------------------------------------------------------
PythonStep(c) ==
    \/ AcquireGIL(c) \/ ReleaseGIL(c) \/ GetFound(c)
    \/ SetHeaders(c) \/ SetWorkersCount(c) \/ SetCompilerOptions(c)
    \/ SetEnableDeepAnalysis(c) \/ SetIgnoreRuntimeTag(c)

AnalyzeStep(c) ==
    \/ StartAnalyze(c) \/ DetectEnvironment(c) \/ DetectFails(c) \/ DetectThrows(c)
    \/ FillQueue(c) \/ SpawnWorker(c) \/ SpawnThrows(c) \/ AllSpawned(c)
    \/ JoinWorkers(c) \/ RestoreGIL(c) \/ FinishAnalyze(c)

WorkerStep(w) ==
    \/ TakeTask(w) \/ AnalyzeHeader(w) \/ LockSubjects(w) \/ EnsureGIL(w)
    \/ AppendIssues(w) \/ DropType(w) \/ EmplaceType(w) \/ AppendType(w)
    \/ DropGIL(w) \/ UnlockSubjects(w)

Next ==
    \/ \E c \in Clients : PythonStep(c) \/ AnalyzeStep(c)
    \/ \E w \in Workers : WorkerStep(w)

Spec == Init /\ [][Next]_vars

\* The operating system schedules every thread, clang terminates, and CPython
\* makes a thread that runs Python code give the GIL up when another asks for it,
\* so whoever waits for the GIL gets it in the end.  Nothing makes a client call.
Fairness ==
    /\ \A c \in Clients :
        /\ WF_vars(ReleaseGIL(c))
        /\ WF_vars(DetectEnvironment(c) \/ DetectFails(c))
        /\ WF_vars(FillQueue(c))
        /\ WF_vars(SpawnWorker(c) \/ AllSpawned(c))
        /\ WF_vars(JoinWorkers(c))
        /\ SF_vars(RestoreGIL(c))
        /\ WF_vars(FinishAnalyze(c))
    /\ \A w \in Workers : WF_vars(WorkerStep(w)) /\ SF_vars(EnsureGIL(w))

FairSpec == Spec /\ Fairness

-----------------------------------------------------------------------------
(* Properties *)

Tasks == {StopTask} \cup [kind : {"analyze"}, header : Headers, config : Configs]

\* The shape of the state.
TypeOK ==
    /\ gil \in Clients \cup Workers \cup {NoOne}
    /\ cpc \in [Clients -> {"outside", "python"} \cup Analysing]
    /\ inProgress \in BOOLEAN
    /\ headers \in Seq(Headers)
    /\ config \in Configs
    /\ workersAmount \in 0..MaxWorkers
    /\ ignoreRT \in BOOLEAN
    /\ bResult \in BOOLEAN
    /\ compilerEnv \in Envs \cup {NoEnv}
    /\ tasks \in Seq(Tasks)
    /\ spawned \in 0..MaxWorkers
    /\ wpc \in [Workers -> {"none", "take", "analyze", "lock", "ensure", "issues",
                            "emplace", "append", "unlock", "done"}]
    /\ wtask \in [Workers -> Tasks \cup {NoTask}]
    /\ wout \in [Workers -> Outputs]
    /\ lockMutex \in Workers \cup {NoOne}
    /\ DOMAIN typeMap \subseteq Names
    /\ typeMap \in [DOMAIN typeMap -> TypeObjects]
    /\ foundTypes \in Seq(Seq(TypeObjects)) /\ foundTypes # <<>>
    /\ foundIssues \in Seq(Seq(Issues)) /\ Len(foundIssues) = Len(foundTypes)
    /\ handed \subseteq 1..Len(foundTypes)
    /\ parentRefs \subseteq [child : TypeObjects, parent : TypeObjects]

\* The names a list of types, a header, and all headers report.
NamesIn(types) == {t.name : t \in {x \in Range(types) : x.kind # "none"}}
ReportedBy(h, cfg, env) == NamesIn(AnalysisOf[h][cfg][env].types)
Expected == UNION {ReportedBy(h, config, compilerEnv) : h \in Range(headers)}

\* When every worker has been joined, the map holds the types of every header
\* the client asked for and no others, however the workers shared the queue and
\* whatever other clients called meanwhile (runAnalyze, PyAnalyzerContext.cpp:590-611).
CompleteAtReturn ==
    \A c \in Clients : cpc[c] = "return" /\ bResult => DOMAIN typeMap = Expected

\* Python code never sees a type that get_type_by_reference knows and the list
\* of types lacks, or the reverse, and the list names no type twice: both are
\* changed in one hold of the GIL (PyAnalyzerContext.cpp:275-325, 509-519).
ReadersSeeAgreement ==
    gil \in Clients =>
        /\ Range(Current(foundTypes)) = Range(typeMap)
        /\ \A n \in DOMAIN typeMap : typeMap[n].decl.name = n
        /\ \A i, j \in DOMAIN Current(foundTypes) :
              Current(foundTypes)[i].decl.name = Current(foundTypes)[j].decl.name => i = j

\* A list of types or issues that Python code holds never changes under it, not
\* even when the same context analyses again (PyAnalyzerContext.cpp:521-541, 565-566).
HandedListsFrozen ==
    [][\A g \in handed : foundTypes'[g] = foundTypes[g] /\ foundIssues'[g] = foundIssues[g]]_vars

\* Within one analysis the object a name was first given stays the one it has, so
\* what get_type_by_reference returned early is what the list holds at the end
\* (PyAnalyzerContext.cpp:295, 306, 317).
StableIdentity ==
    [][Len(foundTypes') = Len(foundTypes) =>
         \A n \in DOMAIN typeMap : n \in DOMAIN typeMap' /\ typeMap'[n] = typeMap[n]]_vars

\* No header is analysed twice or lost: after the join every issue is in the
\* list as often as the headers report it (PyAnalyzerContext.cpp:149-159, 278-281).
Positions(list, x) == {k \in DOMAIN list : list[k] = x}
IssuesOf(h) == AnalysisOf[h][config][compilerEnv].issues
Occurrences(i) ==
    UNION {{<<n, k>> : k \in Positions(IssuesOf(headers[n]), i)} : n \in DOMAIN headers}
IssuesExactlyOnce ==
    \A c \in Clients : cpc[c] = "return" /\ bResult =>
        \A i \in Issues :
            Cardinality(Positions(Current(foundIssues), i)) = Cardinality(Occurrences(i))

\* A deep analysis links a class to every parent any header reported, whichever
\* worker found which first, and links it to the object in the list of types
\* (PyAnalyzerContext.cpp:202-236, 616-619).
DeepLinksComplete ==
    [][\A c \in Clients :
         cpc[c] = "return" /\ cpc'[c] = "python" /\ bResult /\ config.deep =>
            \A o \in FoundClasses : \A p \in o.decl.parents \cap Expected :
               \E r \in parentRefs' :
                  /\ r.child = o
                  /\ r.parent.decl.name = p
                  /\ r.parent \in Range(Current(foundTypes'))]_vars

\* An analysis ends: the join never waits for a worker that no stop task reaches
\* and no thread holds the GIL while it waits for a worker
\* (PyAnalyzerContext.cpp:588-613).
AnalyzeTerminates == inProgress ~> ~inProgress

\* The context does what AnalyzerService says (PyAnalyzerContext.cpp:521-622).
ReportedFor(input, env) ==
    UNION {ReportedBy(h, input[2], env) : h \in Range(input[1])}
Service == INSTANCE AnalyzerService WITH
    Inputs <- Seq(Headers) \X Configs,
    NoTypes <- {},
    NamesOf <- ReportedFor,
    running <- inProgress,
    input <- <<headers, config>>,
    shown <- IF inProgress THEN {} ELSE {o.decl.name : o \in Range(Current(foundTypes))}
ImplementsService == Service!Spec

-----------------------------------------------------------------------------
(* What the documentation says and the code does not do *)

\* "return true if analyzer finished or not started" (PyAnalyzerContext.h:95)
FinishedWhenNoneRuns == (\A c \in Clients : cpc[c] \notin Analysing) => ~inProgress
=============================================================================
