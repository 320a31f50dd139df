--------------------------- MODULE CodeEvaluator ---------------------------
(***************************************************************************)
(* rg3py.CodeEvaluator: LLVM/source/CodeEvaluator.cpp and its wrappers in  *)
(* PyBind/source/PyBind.cpp.  A script configures an evaluator, partly     *)
(* with dictionaries, and has it compile code and report the values of     *)
(* constexpr variables.  Every call runs under the GIL from its first line *)
(* to its last, so an operation is one step; a call that raises before it  *)
(* has changed anything is a stuttering step.                              *)
(***************************************************************************)
EXTENDS CompilerInstanceFactory

CONSTANTS
    Platforms,    \* the builds looked at: "linux", "windows", "apple"
    Standards,    \* values of CxxStandard
    StartConfigs, \* configurations make_evaluator copies from an analyzer
    Descriptions, \* what scripts pass to set_compiler_config
    Bad,          \* a Python value of the wrong type
    Envs, NoEnv,  \* compiler environments, none detected yet
    Codes,        \* source texts
    Captures,     \* sets of variable names to report
    UnitOf(_, _)  \* what clang makes of a source text under an invocation

\* The fields of a description that are read, with the names they have there.
Keys == {"cpp_standard", "definitions", "allow_collect_non_runtime", "skip_function_bodies"}
Configs == [cpp_standard : Standards, definitions : Seq(Macros), allow_collect_non_runtime : BOOLEAN,
            skip_function_bodies : BOOLEAN, args : Seq(Words), includes : Seq(Includes)]
DefaultConfig == [cpp_standard |-> "CXX_11", definitions |-> <<>>, allow_collect_non_runtime |-> FALSE,
                  skip_function_bodies |-> TRUE, args |-> <<>>, includes |-> <<>>]

\* A value of the type that is asked for; the elements of a list are looked at later.
OfItsType(entry) ==
    /\ entry.key = "cpp_standard" => entry.value \in Standards
    /\ entry.key = "definitions" => entry.value \in Seq(Macros \cup {Bad})
    /\ entry.key \in {"allow_collect_non_runtime", "skip_function_bodies"} => entry.value \in BOOLEAN

ASSUME EvaluatorAssumption ==
    /\ "CXX_11" \in Standards
    /\ StartConfigs \subseteq Configs
    /\ NoEnv \notin Envs
    \* What is detected are system directories (CompilerConfigDetector.cpp:203, 400-407).
    /\ \A e \in Envs :
          e.dirs \in Seq({d \in Includes : d.kind \in {"IK_SYSTEM", "IK_C_SYSTEM", "IK_SYSROOT"}})
    \* A dictionary has each key once.
    /\ \A d \in Descriptions :
          /\ \A i, j \in DOMAIN d : d[i].key = d[j].key => i = j
          /\ \A i \in DOMAIN d : d[i].value = Bad \/ OfItsType(d[i])

\* The script names a language as the operand of an -x, and only there.
Languages == {"c", "c++", "c++-header"}
ASSUME ArgsAssumption ==
    \A c \in StartConfigs : \A i \in DOMAIN c.args :
        /\ c.args[i] \in Languages => i > 1 /\ c.args[i - 1] = "-x"
        /\ c.args[i] = "-x" => ~(i > 1 /\ c.args[i - 1] = "-x")

VARIABLES
    platform, \* the operating system rg3py was built for
    config,   \* m_compilerConfig
    env,      \* m_env
    last      \* the last evaluation: environment, invocation, diagnostics, result

vars == <<platform, config, env, last>>

NotRun == [env |-> NoEnv, invocation |-> NewInvocation, diagnostics |-> <<>>, result |-> [kind |-> "none"]]

\* An evaluator is default constructed, made from an analyzer's configuration, or
\* made by make_from_system_env, which detects the environment at once.
Init ==
    /\ platform \in Platforms
    /\ \/ env = NoEnv /\ config \in StartConfigs \cup {DefaultConfig}
       \/ env \in Envs /\ config = DefaultConfig
    /\ last = NotRun

-----------------------------------------------------------------------------
(* Configuration *)

SetCppStandard ==
    /\ \E s \in Standards : config' = [config EXCEPT !.cpp_standard = s]
    /\ UNCHANGED <<platform, env, last>>

\* The elements of a list that come before the first one of the wrong type.
Convertible(list) ==
    LET bad == SelectInSeq(list, LAMBDA x : x = Bad)
    IN  IF bad = 0 THEN list ELSE SubSeq(list, 1, bad - 1)

Raises(entry) ==
    \/ entry.key = Bad
    \/ entry.key \in Keys /\ entry.value = Bad
    \/ entry.key = "definitions" /\ entry.value # Bad /\ Convertible(entry.value) # entry.value

\* The value an entry leaves behind: the list of definitions is cleared once it is
\* known to be a list, and filled until an element raises.
AppendedValue(entry, old) ==
    CASE entry.value = Bad -> old
      [] entry.key = "definitions" /\ entry.value # Bad -> old \o Convertible(entry.value)
      [] OTHER -> entry.value
UncheckedValue(entry, old) == entry.value
StoredValue(entry, old) ==
    CASE entry.value = Bad -> old
      [] entry.key = "definitions" /\ entry.value # Bad -> Convertible(entry.value)
      [] OTHER -> entry.value

\* The entries are read in order until one raises; unknown keys are passed over.
Reached(description) ==
    {i \in DOMAIN description : \A j \in 1..(i - 1) : ~Raises(description[j])}
Configured(description) ==
    [k \in DOMAIN config |->
        LET entries == {i \in Reached(description) : description[i].key = k /\ k \in Keys}
        IN  IF entries = {} THEN config[k]
            ELSE StoredValue(description[CHOOSE i \in entries : TRUE], config[k])]

SetCompilerConfig ==
    /\ \E d \in Descriptions : config' = Configured(d)
    /\ UNCHANGED <<platform, env, last>>

-----------------------------------------------------------------------------
(* eval *)

EvaluationInvocation(e) ==
    Defining(MakeInstance(config, e, platform), <<Macro("__RG3_CODE_EVAL__", "1")>>)

\* What clang makes of a text: the diagnostics it has and the variables it defines.
Levels == {"remark", "note", "warning", "error", "fatal"}
Variables == [name : Words, type : Words, constexpr : BOOLEAN]
Units == [diagnostics : Seq(Levels), vars : Seq(Variables)]

\* CompilerDiagnosticsConsumer: remarks are dropped.
KindWithoutFatal(level) ==
    CASE level = "note" -> "IK_INFO" [] level = "warning" -> "IK_WARNING"
      [] level = "error" -> "IK_ERROR" [] OTHER -> "IK_NONE"
KindOf(level) ==
    CASE level = "note" -> "IK_INFO" [] level = "warning" -> "IK_WARNING"
      [] level \in {"error", "fatal"} -> "IK_ERROR" [] OTHER -> "IK_NONE"
IssuesOf(diagnostics) ==
    LET kept == Kept(diagnostics, Levels \ {"remark"})
    IN  [i \in DOMAIN kept |-> KindOf(kept[i])]

\* ConstexprVisitor: a later variable of the same name replaces an earlier one, and
\* the test for floating types catches double, too.
Captured(vs, names) ==
    Kept(vs, {v \in Variables : v.constexpr /\ v.name \in names
                /\ v.type \in {"bool", "signed", "unsigned", "float", "double", "string"}})
Outputs(captured) ==
    [n \in {v.name : v \in Range(captured)} |->
        LET v == Last(Kept(captured, {x \in Variables : x.name = n}))
        IN  IF v.type = "double" THEN "float" ELSE v.type]

\* CodeEvaluateResult::operator bool and the list or dict made for the script.
Result(issues, outputs) ==
    IF \E i \in DOMAIN issues : issues[i] \notin {"IK_INFO", "IK_NONE"}
       THEN [kind |-> "list", issues |-> issues]
       ELSE [kind |-> "dict", outputs |-> outputs]

EveryTime == TRUE
NeedsEnvironment == env = NoEnv

Evaluate ==
    /\ IF NeedsEnvironment THEN env' \in Envs ELSE env' = env
    /\ \E code \in Codes, names \in Captures :
          LET invocation == EvaluationInvocation(env')
              unit == UnitOf(code, invocation)
          IN  /\ unit \in Units
              /\ last' = [env |-> env', invocation |-> invocation, diagnostics |-> unit.diagnostics,
                          result |-> Result(IssuesOf(unit.diagnostics), Outputs(Captured(unit.vars, names)))]
    /\ UNCHANGED <<platform, config>>

\* No environment: a list with the error, and clang never runs.
EvaluateWithoutEnvironment ==
    /\ NeedsEnvironment
    /\ last' = [NotRun EXCEPT !.result = Result(<<"IK_ERROR">>, <<>>)]
    /\ UNCHANGED <<platform, config, env>>

-----------------------------------------------------------------------------
Next == SetCppStandard \/ SetCompilerConfig \/ Evaluate \/ EvaluateWithoutEnvironment

Spec == Init /\ [][Next]_vars

-----------------------------------------------------------------------------
(* Properties *)

\* The shape of the state: whatever a dictionary holds, the configuration is one.
TypeOK ==
    /\ platform \in Platforms
    /\ config \in Configs
    /\ env \in Envs \cup {NoEnv} /\ last.env \in {env, NoEnv}
    /\ last.invocation.args \in Seq(Words) /\ last.invocation.macros \in Seq(Macros)
    /\ last.result.kind \in {"none", "list", "dict"}

\* All successful detections of an evaluator agree: once an evaluation ran, every
\* later one runs in the same environment and none fails for the lack of one
\* (CodeEvaluator.cpp:60-74).
OneEnvironment == [][last.env # NoEnv => last'.env = last.env]_vars

\* The definitions in force are those of one call, as far as it got, never a mix of
\* several calls (PyBind.cpp:245-256).
GivenDefinitions ==
    {c.definitions : c \in StartConfigs \cup {DefaultConfig}}
    \cup UNION {{d[i].value : i \in {n \in DOMAIN d : d[n].key = "definitions" /\ d[n].value # Bad}} :
                   d \in Descriptions}
DefinitionsOfOneCall == \E list \in GivenDefinitions : IsPrefix(config.definitions, list)

\* A script gets values only if the compiler got through the code without a warning
\* or an error, and otherwise an issue that says so: an aborted compilation never
\* passes for one that found few variables (CodeEvaluator.cpp:18-27,
\* CompilerDiagnosticsConsumer.cpp:15-26, PyBind.cpp:180-191).
GoodResult ==
    /\ last.result.kind = "dict" =>
         last.env # NoEnv /\ Range(last.diagnostics) \cap {"warning", "error", "fatal"} = {}
    /\ last.result.kind = "list" =>
         \E i \in DOMAIN last.result.issues : last.result.issues[i] \in {"IK_WARNING", "IK_ERROR"}

\* Whatever a script defines, code can rely on RG3's own macros
\* (CompilerInstanceFactory.cpp:231-241, CodeEvaluator.cpp:79).
BuiltinsWin ==
    last.env # NoEnv =>
        \A m \in Range(Builtins(platform) \o <<Macro("__RG3_CODE_EVAL__", "1")>>) :
            ValueOf(last.invocation, m.name) = m.value

\* Whatever -x a script passes, the last language is the C++ header's and no
\* language is left without its -x, where clang would take it for a file
\* (CompilerInstanceFactory.cpp:78-102).
LanguageIsHeader ==
    last.env # NoEnv =>
        LET args == last.invocation.args
        IN  /\ Last(args) = "c++-header"
            /\ \A i \in DOMAIN args : args[i] \in Languages => i > 1 /\ args[i - 1] = "-x"

\* Every directory a script gave is searched, and no detected directory hides its
\* headers although those are added first: it comes before all of them, unless it
\* is one of them itself (CompilerInstanceFactory.cpp:251-281).
GivenDirs == {d.path : d \in Range(config.includes)}
DetectedDirs(e) == {d.path : d \in {x \in Range(e.dirs) : x.kind # "IK_SYSROOT"}}
ScriptDirsFirst ==
    last.env # NoEnv =>
        LET dirs == last.invocation.dirs
        IN  \A path \in GivenDirs : \E i \in DOMAIN dirs :
                /\ dirs[i].path = path
                /\ path \notin DetectedDirs(last.env) =>
                      \A j \in DOMAIN dirs : dirs[j].path \in DetectedDirs(last.env) => i < j
=============================================================================
