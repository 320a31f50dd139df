----------------------- MODULE AnalyzerService_proofs -----------------------
(***************************************************************************)
(* AnalyzerContext implements AnalyzerService, for every set of clients    *)
(* and headers and every number of workers and analyses: the invariants of *)
(* AnalyzerContext_proofs and one more say what the list of types holds    *)
(* when an analysis ends, and each step of the context is a step of the    *)
(* service or leaves its state alone.                                      *)
(***************************************************************************)
EXTENDS AnalyzerContext_proofs

\* An analysis past its detection has an environment, and one that was refused
\* has found nothing.
OutcomeInv ==
    \A c \in Clients :
        /\ cpc[c] \in {"queue", "spawn", "join"} => compilerEnv \in Envs
        /\ cpc[c] \in {"acquire", "return"} /\ bResult => compilerEnv \in Envs
        /\ cpc[c] \in {"acquire", "return"} /\ ~bResult => DOMAIN typeMap = {}

Invariants == TypeInv /\ ControlInv /\ MapMatchesList /\ ContentInv

\* A client's steps keep it: only the client in analyze() moves, and it empties the
\* map when it starts.
LEMMA ClientOutcome ==
    ASSUME Invariants, OutcomeInv, NEW c \in Clients, PythonStep(c) \/ AnalyzeStep(c)
    PROVE  OutcomeInv'
<1> USE DEF settings, pool, subjects
<1>t. cpc \in [Clients -> {"outside", "python"} \cup Analysing]
  BY DEF Invariants, TypeInv, TypeOK
<1>r. \A d, e \in Clients : cpc[d] \in Analysing /\ cpc[e] \in Analysing => d = e
  BY DEF Invariants, ControlInv, OneRunner
<1>1. CASE AcquireGIL(c) BY <1>1, <1>t DEF AcquireGIL, OutcomeInv
<1>2. CASE ReleaseGIL(c) BY <1>2, <1>t DEF ReleaseGIL, OutcomeInv
<1>3. CASE StartAnalyze(c)
  <2>1. \A d \in Clients : cpc[d] \notin Analysing
    BY <1>3 DEF StartAnalyze, Invariants, ControlInv, OneRunner
  <2> QED BY <1>3, <1>t, <2>1 DEF StartAnalyze, OutcomeInv, Analysing
<1>4. CASE DetectEnvironment(c)
  <2>1. \A d \in Clients : d # c => cpc[d] \notin Analysing
    BY <1>4, <1>r DEF DetectEnvironment, Analysing
  <2> QED BY <1>4, <1>t, <2>1 DEF DetectEnvironment, OutcomeInv, Analysing
<1>5. CASE DetectFails(c) BY <1>5, <1>t DEF DetectFails, OutcomeInv
<1>6. CASE DetectThrows(c) BY <1>6, <1>t DEF DetectThrows, OutcomeInv
<1>7. CASE FillQueue(c)
  <2>1. ~bResult /\ DOMAIN typeMap = {}
    BY <1>7 DEF FillQueue, Invariants, ContentInv, ResultInv, MapInv
  <2> QED BY <1>7, <1>t, <2>1 DEF FillQueue, OutcomeInv
<1>8. CASE AllSpawned(c) BY <1>8, <1>t DEF AllSpawned, OutcomeInv
<1>9. CASE SpawnThrows(c) BY <1>9, <1>t DEF SpawnThrows, OutcomeInv
<1>10. CASE JoinWorkers(c)
  <2>1. \A d \in Clients : d # c => cpc[d] \notin Analysing
    BY <1>10, <1>r DEF JoinWorkers, Analysing
  <2> QED BY <1>10, <1>t, <2>1 DEF JoinWorkers, OutcomeInv, Analysing
<1>11. CASE RestoreGIL(c) BY <1>11, <1>t DEF RestoreGIL, OutcomeInv
<1>12. CASE FinishAnalyze(c) BY <1>12, <1>t DEF FinishAnalyze, OutcomeInv
<1>13. CASE UNCHANGED <<cpc, bResult, compilerEnv, typeMap>> BY <1>13 DEF OutcomeInv
<1> QED
  BY <1>1, <1>2, <1>3, <1>4, <1>5, <1>6, <1>7, <1>8, <1>9, <1>10, <1>11, <1>12, <1>13
     DEF PythonStep, AnalyzeStep, GetFound, SetHeaders, SetWorkersCount, SetCompilerOptions,
         SetEnableDeepAnalysis, SetIgnoreRuntimeTag, SpawnWorker

\* A worker that adds to the map is never there when an analysis was refused.
LEMMA WorkerOutcome ==
    ASSUME Invariants, OutcomeInv, NEW w \in Workers, WorkerStep(w)
    PROVE  OutcomeInv'
<1>1. UNCHANGED <<compilerEnv, cpc, bResult>> BY WorkerFrame DEF Invariants
<1>2. wpc[w] \notin {"none", "done"}
  BY DEF WorkerStep, TakeTask, AnalyzeHeader, LockSubjects, EnsureGIL, AppendIssues, DropType,
     EmplaceType, AppendType, DropGIL, UnlockSubjects
<1>3. \A c \in Clients : cpc[c] \notin {"acquire", "return"}
  BY <1>2 DEF Invariants, ControlInv, WorkersQuiet
<1> QED BY <1>1, <1>3 DEF OutcomeInv

\* OutcomeInv holds in every reachable state.
THEOREM OutcomeInvariant == Spec => []OutcomeInv
<1>1. Init => OutcomeInv BY DEF Init, OutcomeInv
<1>2. ASSUME Invariants, OutcomeInv, [Next]_vars PROVE OutcomeInv'
  <2>1. CASE UNCHANGED vars BY <2>1, <1>2 DEF vars, subjects, OutcomeInv
  <2> QED BY <1>2, <2>1, ClientOutcome, WorkerOutcome DEF Next
<1> QED
  BY <1>1, <1>2, TypeInvariant, ControlInvariant, MapMatchesListInvariant, ContentInvariant, PTL
     DEF Spec, Invariants

-----------------------------------------------------------------------------
(* The steps of the service *)

NamesShown(lists) == {o.decl.name : o \in Range(Current(lists))}

\* While no worker is about to append a type, the list has the names of the map.
LEMMA ShownIsMap ==
    ASSUME Invariants, \A w \in Workers : wpc[w] # "append"
    PROVE  NamesShown(foundTypes) = DOMAIN typeMap
<1>1. Pending = {} BY DEF Pending
<1>2. Range(Current(foundTypes)) = {typeMap[n] : n \in DOMAIN typeMap}
  BY <1>1 DEF Invariants, MapMatchesList
<1>3. \A n \in DOMAIN typeMap : typeMap[n].decl.name = n BY DEF Invariants, MapMatchesList
<1>4. \A n : n \in NamesShown(foundTypes) <=> \E m \in DOMAIN typeMap : typeMap[m].decl.name = n
  BY <1>2 DEF NamesShown
<1>5. \A n : n \in NamesShown(foundTypes) <=> n \in DOMAIN typeMap BY <1>3, <1>4
<1> QED BY <1>5

\* At first nothing is shown and nothing runs.
LEMMA InitServes == Init => Service!Init
<1> SUFFICES ASSUME Init PROVE Service!Init OBVIOUS
<1>1. inProgress = FALSE BY DEF Init
<1>2. headers = <<>> /\ config \in Configs BY DEF Init
<1>3. headers \in Seq(Headers) BY <1>2
<1>4. <<headers, config>> \in Seq(Headers) \X Configs BY <1>2, <1>3
<1>5. Current(foundTypes) = <<>> BY DEF Init, Current
<1>6. Range(<<>>) = {} BY DEF Range
<1>7. {o.decl.name : o \in Range(Current(foundTypes))} = {} BY <1>5, <1>6
<1> QED BY <1>1, <1>4, <1>7 DEF Service!Init

\* The settings, the flag and, between analyses, the list: what the service sees.
Seen == <<inProgress, headers, config>>

LEMMA UnseenStep ==
    ASSUME UNCHANGED Seen, inProgress \/ foundTypes' = foundTypes
    PROVE  UNCHANGED <<inProgress, <<headers, config>>,
                       IF inProgress THEN {} ELSE {o.decl.name : o \in Range(Current(foundTypes))}>>
BY DEF Seen, Current

\* A step of a Python thread.
LEMMA ClientServes ==
    ASSUME Invariants, OutcomeInv, TypeOK', NEW c \in Clients, PythonStep(c) \/ AnalyzeStep(c)
    PROVE  \/ Service!Next
           \/ UNCHANGED <<inProgress, <<headers, config>>,
                          IF inProgress THEN {} ELSE {o.decl.name : o \in Range(Current(foundTypes))}>>
<1> USE DEF settings, pool, subjects
<1>r. cpc[c] \in Analysing => inProgress BY DEF Invariants, ControlInv, OneRunner
<1>q. cpc[c] \in {"detect", "return"} => \A w \in Workers : wpc[w] # "append"
  BY DEF Invariants, ControlInv, WorkersQuiet
<1>1. CASE SetHeaders(c) \/ SetCompilerOptions(c) \/ SetEnableDeepAnalysis(c)
  <2>1. ~inProgress /\ inProgress' = inProgress /\ foundTypes' = foundTypes
    BY <1>1 DEF SetHeaders, SetCompilerOptions, SetEnableDeepAnalysis, MaySet
  <2>2. <<headers, config>>' \in Seq(Headers) \X Configs BY DEF TypeOK
  <2>3. Service!Configure BY <2>1, <2>2 DEF Service!Configure, Current
  <2> QED BY <2>3 DEF Service!Next
<1>2. CASE StartAnalyze(c)
  <2>1. Service!Begin BY <1>2 DEF StartAnalyze, Service!Begin
  <2> QED BY <2>1 DEF Service!Next
<1>3. CASE DetectFails(c)
  <2>1. inProgress /\ ~inProgress' /\ UNCHANGED <<headers, config, foundTypes>>
    BY <1>3, <1>r DEF DetectFails, Analysing
  <2>2. NamesShown(foundTypes) = {}
    <3>1. NamesShown(foundTypes) = DOMAIN typeMap BY <1>3, <1>q, ShownIsMap DEF DetectFails
    <3> QED BY <1>3, <3>1 DEF DetectFails, Invariants, ContentInv, MapInv
  <2>3. {o.decl.name : o \in Range(Current(foundTypes))}' = {}
    BY <2>1, <2>2 DEF NamesShown, Current
  <2>4. Service!GiveUp BY <2>1, <2>3 DEF Service!GiveUp
  <2> QED BY <2>4 DEF Service!Next
<1>4. CASE FinishAnalyze(c)
  <2>1. /\ cpc[c] = "return" /\ inProgress /\ inProgress' = FALSE
        /\ UNCHANGED <<headers, config, foundTypes>>
    BY <1>4, <1>r DEF FinishAnalyze, Analysing
  <2>2. NamesShown(foundTypes) = DOMAIN typeMap BY <1>q, <2>1, ShownIsMap
  <2>3. CASE bResult
    <3>1. DOMAIN typeMap = Expected BY <2>1, <2>3 DEF Invariants, ContentInv, ResultInv
    <3>2. Expected = ReportedFor(<<headers, config>>, compilerEnv) BY DEF Expected, ReportedFor
    <3>3. compilerEnv \in Envs BY <2>1, <2>3 DEF OutcomeInv
    <3>4. Service!Complete
      BY <2>1, <2>2, <3>1, <3>2, <3>3 DEF Service!Complete, NamesShown, Current
    <3> QED BY <3>4 DEF Service!Next
  <2>4. CASE ~bResult
    <3>1. NamesShown(foundTypes) = {} BY <2>1, <2>2, <2>4 DEF OutcomeInv
    <3>2. UNCHANGED <<headers, config>> BY <2>1
    <3>3. {o.decl.name : o \in Range(Current(foundTypes))}' = {}
      BY <2>1, <3>1 DEF NamesShown, Current
    <3>4. Service!GiveUp BY <2>1, <3>2, <3>3 DEF Service!GiveUp
    <3> QED BY <3>4 DEF Service!Next
  <2> QED BY <2>3, <2>4
<1>5. CASE UNCHANGED <<inProgress, headers, config, foundTypes>>
  BY <1>5, UnseenStep DEF Seen
<1> QED
  BY <1>1, <1>2, <1>3, <1>4, <1>5
     DEF PythonStep, AnalyzeStep, AcquireGIL, ReleaseGIL, GetFound, SetWorkersCount,
         SetIgnoreRuntimeTag, DetectEnvironment, DetectThrows, FillQueue, SpawnWorker, SpawnThrows,
         AllSpawned, JoinWorkers, RestoreGIL

\* A worker is unseen: it moves only while an analysis runs.
LEMMA WorkerServes ==
    ASSUME Invariants, NEW w \in Workers, WorkerStep(w)
    PROVE  UNCHANGED <<inProgress, <<headers, config>>,
                       IF inProgress THEN {} ELSE {o.decl.name : o \in Range(Current(foundTypes))}>>
<1>1. UNCHANGED Seen BY WorkerFrame DEF Invariants, Seen
<1>2. wpc[w] \notin {"none", "done"}
  BY DEF WorkerStep, TakeTask, AnalyzeHeader, LockSubjects, EnsureGIL, AppendIssues, DropType,
     EmplaceType, AppendType, DropGIL, UnlockSubjects
<1>3. inProgress BY <1>2 DEF Invariants, ControlInv, WorkersQuiet
<1> QED BY <1>1, <1>3, UnseenStep

\* What Python threads see of a context that analyses with any number of workers is
\* what they would see of a service that does the whole analysis in one step
\* (PyAnalyzerContext.cpp:521-622).
THEOREM Implementation == Spec => ImplementsService
<1>1. ASSUME Invariants, OutcomeInv, TypeOK', [Next]_vars
      PROVE  [Service!Next]_<<inProgress, <<headers, config>>,
                 IF inProgress THEN {} ELSE {o.decl.name : o \in Range(Current(foundTypes))}>>
  <2>1. CASE UNCHANGED vars BY <2>1, UnseenStep DEF vars, settings, subjects, Seen
  <2>2. CASE \E c \in Clients : PythonStep(c) \/ AnalyzeStep(c) BY <1>1, <2>2, ClientServes
  <2>3. CASE \E w \in Workers : WorkerStep(w) BY <1>1, <2>3, WorkerServes
  <2> QED BY <1>1, <2>1, <2>2, <2>3 DEF Next
<1> QED
  BY <1>1, InitServes, TypeInvariant, TypeCorrectness, ControlInvariant, MapMatchesListInvariant,
     ContentInvariant, OutcomeInvariant, PTL
     DEF Spec, Invariants, ImplementsService, Service!Spec
=============================================================================
