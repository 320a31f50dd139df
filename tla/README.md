# RG3 in TLA+

RG3 reads C++ headers with clang and hands the types it finds to Python scripts
(`rg3py`), which generate code from them. This directory models the parts of RG3
that have state, several actors or a traversal order that matters, checks them with
TLC on small instances, and proves with TLAPS, for instances of every size, every safety
property that the code satisfies.

Paths below are relative to the repository.

## Inventory

### AnalyzerContext (`PyBind/source/PyAnalyzerContext.cpp`)

Analyses many headers with a pool of threads.

- *State*: `m_bInProgress`, the headers, the configuration, the number of workers,
  the task queue and the cached compiler environment (`RuntimeContext`), the found
  subjects (a map from pretty names to objects, two Python lists, a mutex), and
  CPython's GIL.
- *Operations*: setters, which do nothing while an analysis runs; getters, which
  show an empty list then; `analyze`, which resets the results, detects the
  environment, releases the GIL, fills the queue, starts and joins the workers, takes
  the GIL back and resolves the references to parent classes; the worker loop, which
  takes a task, analyses a header with a `CodeAnalyzer` of its own, and merges what was
  found under the mutex and the GIL.
- *Interaction*: workers share the queue (its mutex), the subjects (`lockMutex`) and
  the GIL; Python threads share the context. It calls `CompilerConfigDetector` once per
  analysis and `CodeAnalyzer` once per header.
- *Hard*: who holds the GIL while waiting for whom, two headers that declare the same
  type, a thread that cannot be started, an exception on the way, a second analysis
  with other settings while the lists of the first are still in a script's hands.
- *Correct if*: `analyze` returns everything that the headers declare, exactly once;
  no reader sees the map and the list disagree; an object's identity is stable; lists
  that were handed out never change; parents are linked whichever worker found them;
  every analysis ends.

### CodeAnalyzer (`PyBind/source/PyCodeAnalyzerBuilder.cpp`, `LLVM/source/CodeAnalyzer.cpp`)

Analyses one source; a script may change it and analyse again.

- *State*: source, configuration, the environment (detected once), the lists of the
  last analysis, and a map of the types of *all* analyses so far.
- *Hard*: the map and the environment outlive an analysis, the lists do not. Later
  analyses relink classes that were handed out earlier.
- *Correct if*: links never mix environments, new classes get new parents, and the newest
  class of a name is linked to the newest object of each parent, whichever analyses found
  the two.

### CompilerConfigDetector (`LLVM/source/CompilerConfigDetector.cpp`)

Finds the system's compiler, runs it as a child process and reads the include
directories and the target off its output; on macOS the sysroot, and the directories
are those below it.

- *State*: the child, two pipes (one on Windows), the states of the two streams, the
  response, the parsed environment.
- *Hard*: the reader alternates between the streams while the child writes in an order
  of its own; the child may end at any time; the last line may lack its newline.
- *Correct if*: no line is lost, the reader and the child do not wait for each other,
  and half a list of directories is never taken for a whole one.

### Type collection (`LLVM/source/Visitors`, `Annotations.cpp`, `Utils.cpp`)

Walks the declarations of a translation unit and decides what is a type to report.

- *State*: the router's place in the walk, the visitor it has started and that
  visitor's own walk, the types found.
- *Hard*: a visit that returns `false` stops the walk it belongs to, while every class
  is also met by the router; nested classes; forward declarations; chains of aliases;
  registrations by annotation, which rename the type whose index they took before
  it was read, filter its members and tag the type found last; flags that several visitors
  set in turn; types of a template's members, which are put together of
  the member's and the argument's pointers and const.
- *Correct if*: every type that asks for it is reported, once, under its name and with
  its own members (of overloads, the first), each with its own type, and nothing else is; a forward declaration is
  offered for a type that has one.

### Type model and tags (`Cpp/source/TypeBase.cpp`, `TypeClass.cpp`, `TypeEnum.cpp`, `Tag.cpp`, `TagArgument.cpp`)

What a script gets: types with tags, a hash and a comparison.

- *State*: the tags of a type, read from its comment and added to by a registration.
- *Operations*: `Tag::parseFromCommentString`, the sums of tag lists, `areSame` and the
  virtual `doAreSame` of each kind of type, `getID`, `__eq__` and `__hash__`.
- *Hard*: a text that looks like a number and is none, or one that is too large; two tags
  of one name, for which the two ways of putting tags together decide differently; a
  comparison whose base version calls the virtual one.
- *Correct if*: each tag has the arguments that were written, a registration's tags do not
  hide the comment's, reading ends early only for a number that cannot be read, and equal
  types have equal hashes.

### CodeEvaluator (`LLVM/source/CodeEvaluator.cpp`, `CompilerInstanceFactory.cpp`, `PyBind.cpp`)

Compiles code and reports the values of `constexpr` variables. `CompilerInstanceFactory`,
which `CodeAnalyzer` uses as well, translates a configuration and an environment into
clang's invocation; `CompilerDiagnosticsConsumer` turns diagnostics into issues.

- *State*: configuration, environment (detected once).
- *Operations*: `set_cpp_standard`, `set_compiler_config` (a dictionary), `eval`; made by
  default, from an analyzer's configuration, or with the environment detected at once.
- *Hard*: a dictionary that fails half-way; the order in which macros, arguments and
  directories are added, and what `setInvocation` throws away and what the instance keeps; a compilation that stops
  after some variables were found.
- *Correct if*: values are reported only of code that compiled, RG3's macros and language
  take precedence, the script's directories come before those of the compiler, settings come from one call, and all
  evaluations use one environment.

### The rest

- `CppNamespace`: a value class that splits and joins a string. Not modelled.
- `PyBind.cpp`, `PyType*`, `PyClassParent`, `PyClangRuntime`: declarative wrappers. That
  every call holds the GIL and that lists are handed out by reference is part of the
  models; the link stored in a `PyClassParent` is `parentRefs` and `links` there.
- `Extension/`, `PyDocs/`, `Usage/`, `CMake/`: packaging.

The hazards of this code, each at its line with the properties that cover it, are
listed in `PROJECT.json`.

## Modules

| Module | What it is |
| --- | --- |
| `AnalyzerService` | what an `AnalyzerContext` promises: settings frozen and results hidden while it runs, then all types or none |
| `AnalyzerContext` | the context, its workers, queue, locks and the GIL; refines `AnalyzerService` |
| `AnalyzerContext_proofs` | theorems about it |
| `AnalyzerService_proofs` | the proof that it does |
| `CodeAnalyzerBuilder`, `CodeAnalyzerBuilder_proofs` | one analyzer used again and again |
| `ShellCommand` | the child process, its pipes and the reader |
| `CompilerConfigDetector`, `CompilerConfigDetector_proofs` | extends it: locate, run, parse; theorems about both |
| `CompilerInstanceFactory` | operators: what clang is told |
| `CodeEvaluator`, `CodeEvaluator_proofs` | extends it: configuration, evaluation, results |
| `TypeStatements` | operators: what is said of the type of a member |
| `TypeCollector`, `TypeCollector_proofs` | extends it: the router and its visitors over a tree of declarations |
| `Tags` | operators: what is read of a tag's arguments, and how lists of tags are added |
| `TypeModel`, `TypeModel_proofs` | extends it: reading a comment, comparing types |
| `Filtering`, `Filtering_proofs` | the elements of a sequence that belong to a set, and what can be proved of them; inductions that the proofs share |
| `MC...` | small instances of each |

`AnalyzerContext` and `CodeAnalyzerBuilder` take what clang reports for a header as a
constant `AnalysisOf`; `TypeCollector` is the model of what happens behind that
constant. `CompilerConfigDetector` is what `AnalyzerContext` sees as one of
`DetectEnvironment`, `DetectFails` and `DetectThrows`. `CodeEvaluator` builds its
invocation with the operators of `CompilerInstanceFactory`. A registration in
`TypeCollector` and the route `"registered"` in `TypeModel` are the same code
(`handleAnnotationBasedType`), the one looking at the types and the other at the tags.

### AnalyzerContext

Each Python thread is a *client* with a program counter `cpc`; each worker has one,
`wpc`. One action stands for what happens between two points at which another thread
may run:

- `AcquireGIL`, `ReleaseGIL`: CPython switches threads. A client calls only while it
  holds the GIL, so a setter is one action.
- `StartAnalyze`: the test and the set of `m_bInProgress` and the reset of the results,
  all in one hold of the GIL. `DetectEnvironment` caches the environment and releases
  the GIL (`PyGuard`).
- `FillQueue`: `clearTasks` and all the `pushTask`s, one transaction under `lockMtx`.
- `SpawnWorker`, `AllSpawned`, `SpawnThrows`: `runWorkers`. `ThreadLimit` is how many
  threads the system gives.
- `JoinWorkers`, `RestoreGIL`, `FinishAnalyze`: `waitAll`, the end of `PyGuard`, and
  `resolveReferences` under the GIL.
- `TakeTask`, `AnalyzeHeader`, `LockSubjects`, `EnsureGIL`, `AppendIssues`, then per type
  `DropType` or `EmplaceType` and `AppendType`, then `DropGIL` and `UnlockSubjects`: the
  worker loop. `try_emplace` and the append to the list are separate steps, so that
  what protects them shows.

A Python list is an object that others may hold: `foundTypes` is the sequence of all
lists the member was ever bound to, the current one last, and `handed` says which of
them a script has.

### CodeAnalyzerBuilder

No thread but the caller's is involved and the GIL is never released, so an operation
is one action. An object is a record that says which analysis made it at which place
of its list; `links` holds every resolved parent of every object, also of objects that
are no longer in the list. An issue list has the same treatment as a list of types.
`ClassesFollowTheirParents` compares the links with the newest objects of *all* lists ever
returned (`IsNewest`), which the code does not keep: it has only the map.

### ShellCommand, CompilerConfigDetector

Pipes are sequences of lines. The child writes, closes its pipes and is gone, in that
order, at any time. `GetLine` has the three outcomes of `std::getline`, including that
it leaves the old text alone when the stream is not good; so the reader stores an
unended last line again until `running()` is false, as the code does. The list of
directories is computed with the wrap of the unsigned length. `platform` chooses the
branch of the `#if`: one pipe on Windows, and on macOS `DetectedBelow`, which takes the
first sysroot and drops the directories that were parsed before.

### CompilerInstanceFactory, CodeEvaluator

An invocation is a record of what is set on clang's options; `SetInvocation` returns the
new one and forgets the old, as clang does, but for the target, which the code sets on the
instance beside it. `MakeInstance` keeps the order of the code. `SearchOrder` is what clang
makes of the directories: a directory of the script that is also a system directory stays at
its place among those, as clang ignores the earlier of the two (`Shadowed`).
A description is a sequence of entries, with `Bad` where a Python value has the wrong type;
`Reached` are the entries that are read before one raises. `last` records what the last
`eval` told clang and returned.

### TypeCollector

A unit is the sequence of its declarations in the order of the walk, with their depth.
`at` is the router's place; `inner` is the visitor it started, which goes over the same
declarations below its root (`Visit`) until it stops or gets to the end (`Finish`).
A C++ type is what it is made of and the pointers and references around it; `Fill` is
`fillTypeStatementFromQualType`, which keeps one of each in flags and the rest in the
name, and `TypeStatements` replaces parameters as the visitor of templates does. The
property reads a statement back (`Restored`) and compares it with the substituted type.
Parents, friends, locations, the values of enum constants and the arguments in the name of
an instance of a template are copied by the code and left out here.

Of methods with one name a visitor keeps the first (`hasMethod`,
`CxxClassTypeVisitor.cpp:196`), whatever they take: the other overloads of a class are not
reported. The comment there (`it's not our`) is about the other conditions of that `if`, and
nothing in the repository says what should become of overloads, so this is no finding; but
a script does not see them. `OwnMembersComplete` says exactly this, all fields and of each
name the method declared first, and the instances have overloads.

A registration reads what is behind the aliases, renames it once for every alias on the
way back (`NamedByAll`), at the index the next type was going to have, and puts the runtime
tag on the last type of the list (`WithTag`). `RegistrationsAsAsked` holds because the two
are one place: nothing reads a second type in between.

`IsLegal` says which units there are, and says only what a compiler demands: a member
belongs to a class that is defined, types of one name in one place are of one kind and
defined once, an alias or a registration names a type declared before it. Namespaces and
function bodies hold no types here. Scripts write forward declarations of what is reported, and
`OffersForwardDeclarations` says for what they may: what is offered is declared at the top of the unit
under that name, and what is declared there is offered, except that an alias may take the
name of its class (`typedef struct A A;`); what is reported of the alias is then not
offered, and need not be. The registration of a class that is nowhere defined adds a type
without name, which its flags would let be offered; the property leaves it out.

### Tags, TypeModel

A text between a tag's parentheses is what `stoll`, `stof` and the comparisons make of
it: how much of it each of them reads, or that the number is out of range. One action
reads one text (`ReadText`), so that the exception has its place; `FinishTag` and
`FinishComment` follow the loops. A comparison is a stack of calls (`Compare`,
`AreSame`, `DoAreSame`), because the code's recursion through a virtual function is
what the run `equality` is about.

## Runs

| Run | Asks | Result |
| --- | --- | --- |
| `threads` | what one analysis delivers to two Python threads, with 2 and 3 workers, and that it ends | holds |
| `reuse` | two analyses with changing settings, environments, refused counts, failing detection and threads; refinement of `AnalyzerService` | holds |
| `stuck_after_throw` | `isFinished` is true when nothing runs (`PyAnalyzerContext.h:95`) | violated |
| `detect` | reading the compiler's output on three platforms, and what is made of it | holds |
| `output` | `runShellCommand` returns the output (its comment, line 16) | violated on Windows |
| `builder` | three analyses of one analyzer | holds |
| `evaluate` | what an evaluator tells clang and the script, on three platforms | holds |
| `collect` | which types of every small unit are reported, with which members and flags | holds |
| `nested` | only fields of other classes are ignored (`CxxClassTypeVisitor.cpp:156`) | violated |
| `argument_types` | what a method takes is resolved from its own type (`CxxTemplateSpecializationVisitor.cpp:239`) | violated |
| `types` | tags of every small comment, and comparisons of every pair of small types | holds |
| `equality` | a comparison of types answers (`rg3py.pyi:160`) | violated |

Every property of a passing run has a mutant in `PROJECT.json`: a definition with a
plausible bug (the GIL kept while joining, the list cleared instead of rebound,
`running()` alone as the loop condition, the tag test dropped, ...) that makes TLC
find that property violated.

### What the violated runs show

- **An exception leaves the context unusable.** `analyze` clears `m_bInProgress` only when
  `runAnalyze` returns. If a thread cannot be started, or the child process cannot, the
  context says for ever that it is not finished, shows no results and ignores setters.
- **The end of the output is lost on Windows.** The loop condition tests `running()`
  before it reads. `EnvironmentWhole` shows that this loses the environment, but never
  truncates the list of directories silently.
- **A tagged nested class has no members.** Its own fields are compared by the simple
  name of their parent with the qualified name of the class.
- **A method of a template is reported with arguments of the wrong type.** What it takes is
  resolved from the type it returns, so `U f(T)` is reported as `U f(U)`.
- **Comparing equal classes or enums never ends.** `doAreSame` of a class ends in
  `TypeBase::areSame`, which calls `doAreSame` of the same class.

More is in the models without a run of its own: `ignore_runtime_tag`, which
`PyBind.cpp:598` describes, is stored and read back (`ignoreRT`), and nothing copies it
into the configuration the workers use; the macros for Windows
(`CompilerInstanceFactory.cpp:170`) are added to the invocation that `setInvocation`
replaces (`MakeInstance`), so clang never sees them, while the target, set in the same place,
is the instance's and stays; an empty list of directories
(in `detect`), for which `endOfLookup - startPoint - 1` wraps and every line up to the end
of the output is taken for a directory; and a parent whose name another header gives to an
enum (`ResolveReferences`), which is cast to a class. A `double` is reported to scripts as
a `float` (`Outputs` in `CodeEvaluator`).

## Bounds, and why they are enough

- `MaxWorkers` 2 or 3, two clients: two workers that hold the same name are what the
  merging is about; the third shows a worker for which only a stop task is left.
- `HeaderLists`: two headers that both declare `Shared`, one of which declares the parent
  of a class in the other; in `threads` also the same header twice. A client may also set any prefix of a list, for a Python error in the middle.
- `MaxAnalyses` 1 or 2: the second analysis is where leftovers of the first show. 3 in
  `CodeAnalyzerBuilder`, so that an old object can be relinked and relinked again.
- `WorkerCounts`: 2 and 3 are analysed with; in `reuse` also 0 and 1, which `runWorkers`
  refuses and of which 0 can never be changed again. A negative count fills the queue for ever
  (`PyAnalyzerContext.cpp:601`) and is left out.
- `ThreadLimit`: 3 or 4 (enough), 2 and 1 (a thread fails with others already running).
- `Capacity` 3 lines in a pipe with outputs of up to 8 lines: both pipes fill up. A real
  pipe holds about 64 KiB; only the ratio to the output matters.
- `MaxRepeats` 1: the reader spins while the child has closed its pipes and is not
  gone; a system may let it spin for any time, and each round only repeats the last line.
- `TypeCollector`: every accepted tree of up to 3 declarations over 2 classes, enums,
  templates, fields and methods with and without tag, and of up to 5 declarations of
  fewer kinds: enough for two levels of nesting with members on both sides of the
  nested class. A library of types of every kind with two aliases and a registration of
  each of them, with every filter, on top; and a field and a method of every type with
  up to two layers of pointer and reference, in a class and in a template with one or two
  parameters.
- `TypeModel`: comments of one tag with up to two texts of eleven kinds, or of two tags,
  equal or not, with one text each; two types of a name. `MaxDepth` 4 calls: the cycle of
  an endless comparison is two calls long.
- `detect` has the three platforms and outputs with one, two or no sysroots.
- `CodeEvaluator`: four texts whose outcome depends on the standard, the macros or neither;
  arguments with a language, two of them and one without its operand; dictionaries that
  raise at the first, a middle and the last entry. Nothing counts, so the space is finite
  without a bound.
- Clients are symmetric and the symmetry is used where no liveness is checked.
  `CHECK_DEADLOCK FALSE` is set for the detector, the collector and the type model only,
  which end.

## Fairness

Safety needs none. `threads` uses `FairSpec`: threads that run are scheduled,
clang returns, a Python thread releases the GIL in the end (CPython's switch interval),
and a thread that waits for the GIL again and again while it is free again and again
gets it (strong fairness of `EnsureGIL` and `RestoreGIL`; CPython's forced switching does
not let one thread take it back at once). No client is forced to call anything.
`Fairness` in `CompilerConfigDetector` says that the child and the reader both run.
`DetectionEnds` assumes on Linux that the streams are `Balanced`: the lead of one over
the other stays within the pipes. The code does not guarantee that; without it the
reader does block while the child waits for room, which is recorded as a hazard. The
outputs of `-v -E` for an empty header are far below a pipe's capacity.

## Theorems

Every safety property that a passing run checks is a theorem, for every value of the
constants that satisfies the assumptions below. TLC found each of them to
hold on the instances of the runs first.

`AnalyzerContext_proofs` proves, of `Spec` and under `ContextAssumption` (any number of
clients, headers, types, workers and analyses, any results of clang):

| Theorem | Statement |
| --- | --- |
| `TypeCorrectness` | `Spec => []TypeOK` |
| `ReadersAgreement` | `Spec => []ReadersSeeAgreement` |
| `Completeness` | `Spec => []CompleteAtReturn` |
| `EveryIssueOnce` | `Spec => []IssuesExactlyOnce` |
| `FrozenLists` | `Spec => HandedListsFrozen` |
| `Identity` | `Spec => StableIdentity` |
| `DeepLinks` | `Spec => DeepLinksComplete` |

They rest on five inductive invariants, each proved with the ones before it and with
one step per action:

1. `TypeInv`: `TypeOK`, and a busy worker holds a header's task, one that is about to
   append holds a type. Without the latter `Head` of an empty list would have no type.
2. `ControlInv`: where each thread may be. At most one client is in `analyze`, and then
   `m_bInProgress` is set; workers that are not done belong to a client that waits or to
   one that was left by an exception; a worker that merges holds the GIL, and so does
   a client that runs Python code. The GIL alone gives mutual exclusion of the steps
   that change the results: the theorems do not need `lockMutex`.
3. `MapMatchesList`: the map and the list hold the same objects, each name once, except
   while one worker is between `try_emplace` and the append, when exactly that object is
   missing in the list. `ReadersSeeAgreement` is not inductive without that exception.
4. `ContentInv`: a header of the client's list waits in the queue, or is in the hands of a
   worker with the settings in force, or all its names are in the map (`AccountInv`,
   `WorkInv`); the queue holds this analysis only, and no header behind a stop task
   (`QueueInv`, `OrderInv`); nothing else gets into the map (`MapInv`). A joined worker
   has met a stop task, so no header waits and only the third case is left (`ResultInv`):
   `CompleteAtReturn`. Without `OrderInv` a stopped worker would say nothing about the
   headers behind it.
5. `IssueInv`: the queue is what is left of the one that was filled (`QueueSuffix`), and
   there is an assignment of the workers that have not registered their issues yet to
   positions of the list of headers, one position each, such that the issues in the list
   are those of the other positions that were taken (`Shared`). Types are merged by name, so
   sets are enough for `ContentInv`; issues are appended, and a header that was set twice
   counts twice, so here the positions matter and not the headers. How often an issue is in
   a list adds up over a concatenation (`PositionsOfConcat`).

`StableIdentity` follows from `TypeInv` step by step. `HandedListsFrozen` needs
`TypeInv`, `ControlInv` and that nobody has the list an analysis is filling
(`FillingUnseen`). `DeepLinksComplete` needs the first four.

`AnalyzerService_proofs` proves `Implementation`, `Spec => ImplementsService`, from the
same four and `OutcomeInv`: an analysis that returns true has an environment, and one
that was refused has an empty map. Setters map to `Configure`, `StartAnalyze` to `Begin`,
`FinishAnalyze` to `Complete` or `GiveUp`, `DetectFails` to `GiveUp`, and every other step,
those of all workers included, changes nothing that the service shows.

| Module | Theorem | Statement | Rests on |
| --- | --- | --- | --- |
| `CodeAnalyzerBuilder_proofs` | `TypeCorrectness` | `Spec => []TypeOK` | `BuilderAssumption` |
| | `OneEnvironment` | `Spec => []LinksOfOneEnvironment` | `EnvInv`: the objects of the map are of the cached environment, too |
| | `ParentsFollowed` | `Spec => ClassesFollowTheirParents` | `MapIsNewest`: the map has the newest object of every name ever found |
| | `NewestParents` | `Spec => NewestLinks` | `OneKindAssumption`: a source gives a name to one kind of type |
| `CompilerConfigDetector_proofs` | `Typing` | `Spec => []TypeOK` | `ShellAssumption` |
| | `AllLinesReturned` | `Spec => []NoLineLost` | `ReadInOrder`, `LinesAssumption` |
| | `EnvironmentComplete` | `Spec => []EnvironmentWhole` | `ReadInOrder`, `DetectorAssumption`, `OutputAssumption` |
| `CodeEvaluator_proofs` | `TypeCorrectness` | `Spec => []TypeOK` | `EvaluatorInv` |
| | `EnvironmentKept` | `Spec => OneEnvironment` | the last evaluation ran in the cached environment |
| | `DefinitionsTogether` | `Spec => []DefinitionsOfOneCall` | `ConfigOK`, and `EvaluatorAssumption`: a value is wrong or `OfItsType`, a dictionary has each key once |
| | `OwnMacrosWin` | `Spec => []BuiltinsWin` | `EvaluatorInv`; `WordsAssumption` |
| | `ScriptDirsBefore` | `Spec => []ScriptDirsFirst` | `EvaluatorInv`, and `EvaluatorAssumption`: detected directories are system directories |
| | `HeaderLanguage` | `Spec => []LanguageIsHeader` | `EvaluatorInv`, `ArgsAssumption` |
| | `ValuesOfGoodCode` | `Spec => []GoodResult` | what `eval` leaves behind (`Reported`) |
| `TypeModel_proofs` | `TypeCorrectness` | `Spec => []TypeOK` | `TagsInv`, `ComparedSoFar` |
| | `NumbersOnly` | `Spec => []RaisedByNumbersOnly` | `ReadSoFar`: no text that was passed over was too large |
| | `TagsWritten` | `Spec => []TagsAsWritten` | `TagsInv` |
| | `HashAlike` | `Spec => []EqualTypesHashAlike` | `ComparedSoFar`: every answer is justified by the two types |
| `TypeCollector_proofs` | `TypeCorrectness` | `Spec => []TypeOK` | `CollectorInv`, for all of these; `CollectorAssumption` |
| | `TaggedAreReported` | `Spec => []EveryTaggedReported` | `HadItsTurn` |
| | `NothingIsUnasked` | `Spec => []NothingUnasked` | `WasAsked` |
| | `OwnMembersAreComplete` | `Spec => []OwnMembersComplete` | `HasOwn`: of the members passed so far, exactly the first of each name |
| | `RegisteredAsAsked` | `Spec => []RegistrationsAsAsked` | `AsDemanded`, `HadItsTurn`, and `RegistersOne`: the index of the next type is the end of the list |
| | `MembersSay` | `Spec => []MembersSayTheirType` | `SaysTypes` |
| | `ReportedIsOnce` | `Spec => []ReportedOnce` | `IsOwnReport`, and `OneDefinition`: a name has one definition |
| | `ForwardDeclarationsOffered` | `Spec => []OffersForwardDeclarations` | `HasOrigin`, `OneKind`, and `AtTop`: a name of one part is declared at the top |

**The reader** (`ReadInOrder`). Of each stream, what the child has written is what was taken
and then what is still in the pipe. While the stream is good the response, with a line that
was read and is not stored yet, has exactly the lines taken; once it is not, the child has
written all, the pipe is empty, and what is stored again and again is the last line
(`HasTaken`). The line buffer is part of the invariant because an unsuccessful `getline`
leaves it alone. On Windows there is one pipe, from which lines may be missing at the end
(`OneStream`). `EnvironmentWhole` then follows from what the parser finds in all lines and
possibly repeated last ones, or in a beginning of them: the end of the list of directories
comes after all of them.

**The evaluator** (`EvaluatorInv`). The last invocation was built of the arguments and
directories in force, which are still those of a configuration the evaluator began with,
because a dictionary has no key for them. The rest is about the operators of
`CompilerInstanceFactory`: the last definition of a name counts, sorting by kind keeps the
script's directories before the detected ones (but one that is itself detected), and taking out the first `-x` with its
operand leaves the other languages behind theirs.

**Tags** (`TagsInv`). The arguments of the tag that is read are those of the texts passed so
far; of the tags read before, each name has the arguments of its last tag (`IsMerged`).

**The collector** (`CollectorInv`). `IsWalk` says of a visitor under way what it has taken:
the root if it is wanted, else a record in it that is; after that there was no other record;
the members it has are the class's own that are the first of their name, as far as the walk
has come. `IsStarted` ties it to the
declaration the router is at, with the permissions and the filter it was given. `FoundInv`
says of each declaration that is passed that it left at most one type, which is right
(`IsRight`), and that it left one if it asks for it (`HadItsTurn`). `ReportedOnce` is about
names and not about declarations, so it needs more: a report that a class makes is of the
class itself, or of a type in it, and the latter only if the class itself is not wanted
(`IsOwnReport`); with all enclosing classes wanted only the first is left, and the name has
one definition. What the recursive functions over the unit compute (`Path`, `Canonical`,
`Instantiated`, a class's members) is proved first, as that they exist, are unique and have
the values their equations say (`PathExists`, `OwnExists`, `LastExists`).

The assumptions on constants are about what the program reads, and each is checked by TLC
for the instances of the runs:

- `LinesAssumption`: only the last line of a stream may lack its newline.
- `OutputAssumption`: the compiler describes itself on stderr and prints its list of
  directories in one piece. That is what gcc and clang do with the `-v` they are given
  (`CompilerConfigDetector.cpp:357-361`); stdout gets the preprocessed, empty header.
- `EvaluatorAssumption`: the detector makes every directory one of `IK_SYSTEM`,
  `IK_C_SYSTEM` or `IK_SYSROOT` (`CompilerConfigDetector.cpp:203, 400-407`).
- `ArgsAssumption`: a script names a language as the operand of an `-x`, and only there.
- `WordsAssumption`: what RG3 adds itself is among the strings.
- `ModelAssumption`: comments are sequences of tags, types are of the model's kinds.
- `CollectorAssumption`: units are what a compiler lets pass (`IsLegal`).

`NumbersOnly` uses what `Texts` says of `stoll` and `stof`: a text that is an integer as a
whole is a number for `stof`, too. `OneKindAssumption` is about what one analysis of one
source reports; across analyses a name may change its kind, and the theorem covers that.

Induction and recursion over data are done by hand. The induction theorems of the library
are about an operator, which the provers cannot instantiate; `NumberInduction` and
`SequenceInduction` in `Filtering_proofs` are about a set, which they can, and `Recursion`
says that a rule which looks at smaller numbers only defines a function. `SelectSeq`, the folds,
`:>` and `@@` stay out of reach: they are recursive, take operators, or are built into the tools. So the models filter with `Kept`,
a recursive function with the same values, and write such functions out.

## Only model-checked

- `AnalyzeTerminates` and `DetectionEnds`: liveness under fairness, which needs `ENABLED`, is
  outside the prover.
- The violated runs: their counterexamples are behaviours of a small instance, and one is
  enough.

## Not modelled

- The text of messages, locations and repr strings, regular expressions, `CppNamespace`, and
  clang itself.
- On macOS, the versions of the SDK and of GNU C, which are read and used nowhere.
- A value of `--target=` that no space follows, which takes the rest of the output with it.
- In templates: where a pointer of the template meets a pointer, a reference or a const of the argument, a
  level is lost or the const changes place; `TypeStatements` computes that, and `Simple`
  leaves it out of `MembersSayTheirType`. A dependent argument also loses its name and default
  value, which are not in the model.
- The static list that getters return while an analysis runs can be changed from Python.
- Destructors at interpreter exit.

## Plan

The safety properties of the runs are proved. In this order:

1. Parents and friends in `TypeCollector`, with the property that a parent is reported
   under the name by which `resolveReferences` looks for it; then the composition with
   `CodeAnalyzerBuilder` and `AnalyzerContext`: what the collector finds satisfies what these
   assume of `AnalysisOf` (`OneKindAssumption`, names once), as a theorem.
2. Namespaces, anonymous and inline ones included, which `Path` and the lookup by simple names
   depend on.
3. The hazards without a property: the names of registered types that are only declared, and the
   empty list of directories.

Liveness stays with TLC.
