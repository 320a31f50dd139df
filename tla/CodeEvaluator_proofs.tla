------------------------ MODULE CodeEvaluator_proofs ------------------------
(***************************************************************************)
(* Theorems about CodeEvaluator, for all dictionaries, configurations and  *)
(* environments, any source texts and any number of calls.                 *)
(***************************************************************************)
EXTENDS CodeEvaluator, Filtering_proofs

-----------------------------------------------------------------------------
(* The environment *)

\* An environment is one of those that can be detected, and the last evaluation,
\* if there was one that ran, had the one that is cached.
EnvironmentCached == env \in Envs \cup {NoEnv} /\ last.env \in {env, NoEnv}

LEMMA CachedInductive == EnvironmentCached /\ [Next]_vars => EnvironmentCached'
BY EvaluatorAssumption
   DEF EnvironmentCached, Next, vars, SetCppStandard, SetCompilerConfig, Evaluate,
       EvaluateWithoutEnvironment, NotRun

\* Once an evaluation ran, every later one runs in its environment and none fails
\* for the lack of one (CodeEvaluator.cpp:60-74).
THEOREM EnvironmentKept == Spec => OneEnvironment
<1>1. Init => EnvironmentCached BY DEF Init, NotRun, EnvironmentCached
<1>2. EnvironmentCached /\ [Next]_vars => EnvironmentCached' BY CachedInductive
<1>3. EnvironmentCached /\ [Next]_vars => [last.env # NoEnv => last'.env = last.env]_vars
  BY DEF EnvironmentCached, Next, SetCppStandard, SetCompilerConfig, Evaluate,
         EvaluateWithoutEnvironment, NeedsEnvironment
<1> QED BY <1>1, <1>2, <1>3, PTL DEF Spec, OneEnvironment

-----------------------------------------------------------------------------
(* The lists of definitions *)

\* What is converted of a list is the part of it before the first element of the
\* wrong type.
LEMMA ConvertibleIsPrefix ==
    ASSUME NEW list \in Seq(Macros \cup {Bad})
    PROVE  \E n \in 0..Len(list) :
              /\ Convertible(list) = SubSeq(list, 1, n)
              /\ \A i \in 1..n : list[i] # Bad
<1> DEFINE I == {i \in 1..Len(list) : list[i] = Bad}
<1>1. CASE I = {}
  <2>1. Convertible(list) = list BY <1>1 DEF Convertible, SelectInSeq
  <2>2. list = SubSeq(list, 1, Len(list)) OBVIOUS
  <2>3. \A i \in 1..Len(list) : list[i] # Bad BY <1>1
  <2>4. Len(list) \in 0..Len(list) OBVIOUS
  <2>5. Convertible(list) = SubSeq(list, 1, Len(list)) BY <2>1, <2>2, Zenon
  <2> QED BY <2>3, <2>4, <2>5, Zenon
<1>2. CASE I # {}
  <2>1. \E i \in I : \A j \in I : i <= j
    <3>1. Len(list) \in Nat /\ I \in SUBSET (1..Len(list)) OBVIOUS
    <3> QED BY <1>2, <3>1, SmallestIndex, Zenon
  <2>2. PICK bad \in I : bad = Min(I) /\ \A j \in I : bad <= j
    <3> HIDE DEF I
    <3> QED BY <2>1 DEF Min
  <2>3. bad \in 1..Len(list) BY <2>2
  <2>4. Convertible(list) = SubSeq(list, 1, bad - 1)
    <3>1. Convertible(list) = IF Min(I) = 0 THEN list ELSE SubSeq(list, 1, Min(I) - 1)
      BY <1>2 DEF Convertible, SelectInSeq
    <3> HIDE DEF I
    <3> QED BY <2>2, <2>3, <3>1
  <2>5. bad - 1 \in 0..Len(list) BY <2>3
  <2>6. \A k \in 1..(bad - 1) : list[k] # Bad
    <3>1. ASSUME NEW k \in 1..(bad - 1), list[k] = Bad PROVE FALSE
      <4>1. k \in I BY <2>3, <3>1
      <4> QED BY <2>2, <2>3, <3>1, <4>1
    <3> QED BY <3>1
  <2> QED BY <2>4, <2>5, <2>6
<1> QED BY <1>1, <1>2

\* So it is a list of definitions, and a prefix of the list.
LEMMA ConvertibleTyped ==
    ASSUME NEW list \in Seq(Macros \cup {Bad})
    PROVE  Convertible(list) \in Seq(Macros) /\ IsPrefix(Convertible(list), list)
<1>1. PICK n \in 0..Len(list) :
         Convertible(list) = SubSeq(list, 1, n) /\ \A i \in 1..n : list[i] # Bad
  BY ConvertibleIsPrefix
<1>2. SubSeq(list, 1, n) \in Seq(Macros \cup {Bad}) /\ Len(SubSeq(list, 1, n)) = n
      /\ \A i \in 1..n : SubSeq(list, 1, n)[i] = list[i]
  OBVIOUS
<1>3. SubSeq(list, 1, n) \in Seq(Macros) BY <1>1, <1>2
<1>4. n <= Len(list) /\ SubSeq(SubSeq(list, 1, n), 1, n) = SubSeq(list, 1, n) BY <1>2
<1> QED BY <1>1, <1>2, <1>3, <1>4 DEF IsPrefix

-----------------------------------------------------------------------------
(* The configuration *)

\* The configuration is one, and its definitions are those of one call.
ConfigOK == config \in Configs /\ DefinitionsOfOneCall

\* What a dictionary leaves in a field is the old value or that of one entry.
LEMMA FieldConfigured ==
    ASSUME NEW d \in Descriptions, NEW k \in DOMAIN config
    PROVE  \/ Configured(d)[k] = config[k]
           \/ k \in Keys /\ \E i \in DOMAIN d :
                 d[i].key = k /\ Configured(d)[k] = StoredValue(d[i], config[k])
<1> DEFINE entries == {i \in Reached(d) : d[i].key = k /\ k \in Keys}
<1>1. CASE entries = {} BY <1>1 DEF Configured
<1>2. CASE entries # {}
  <2>1. (CHOOSE i \in entries : TRUE) \in entries BY <1>2
  <2>2. Configured(d)[k] = StoredValue(d[CHOOSE i \in entries : TRUE], config[k])
    BY <1>2 DEF Configured
  <2> QED BY <2>1, <2>2 DEF Reached
<1> QED BY <1>1, <1>2

\* A dictionary turns a configuration into a configuration.
LEMMA ConfiguredTyped ==
    ASSUME config \in Configs, NEW d \in Descriptions
    PROVE  Configured(d) \in Configs
<1> DEFINE new == Configured(d)
<1>1. \A k \in DOMAIN config : \/ new[k] = config[k]
                               \/ k \in Keys /\ \E i \in DOMAIN d :
                                    d[i].key = k /\ new[k] = StoredValue(d[i], config[k])
  BY FieldConfigured
<1>2. DOMAIN new = DOMAIN config /\ new = [k \in DOMAIN config |-> new[k]] BY DEF Configured
<1> HIDE DEF new
<1>3. DOMAIN config = {"cpp_standard", "definitions", "allow_collect_non_runtime",
                       "skip_function_bodies", "args", "includes"}
  BY DEF Configs
<1>4. new["cpp_standard"] \in Standards
  BY <1>1, <1>3, EvaluatorAssumption DEF Configs, StoredValue, OfItsType
<1>5. new["definitions"] \in Seq(Macros)
  BY <1>1, <1>3, EvaluatorAssumption, ConvertibleTyped DEF Configs, StoredValue, OfItsType
<1>6. new["allow_collect_non_runtime"] \in BOOLEAN
  BY <1>1, <1>3, EvaluatorAssumption DEF Configs, StoredValue, OfItsType
<1>7. new["skip_function_bodies"] \in BOOLEAN
  BY <1>1, <1>3, EvaluatorAssumption DEF Configs, StoredValue, OfItsType
<1>8. new["args"] \in Seq(Words) /\ new["includes"] \in Seq(Includes)
  BY <1>1, <1>3 DEF Configs, Keys
<1>9. new = [cpp_standard |-> new["cpp_standard"], definitions |-> new["definitions"],
             allow_collect_non_runtime |-> new["allow_collect_non_runtime"],
             skip_function_bodies |-> new["skip_function_bodies"],
             args |-> new["args"], includes |-> new["includes"]]
  BY <1>2, <1>3
<1> QED BY <1>4, <1>5, <1>6, <1>7, <1>8, <1>9 DEF Configs, new

LEMMA ConfigInitially == Init => ConfigOK
<1> SUFFICES ASSUME Init PROVE ConfigOK OBVIOUS
<1>1. DefaultConfig \in Configs BY EvaluatorAssumption DEF DefaultConfig, Configs
<1>2. config \in StartConfigs \cup {DefaultConfig} /\ config \in Configs
  BY <1>1, EvaluatorAssumption DEF Init
<1>3. IsPrefix(config.definitions, config.definitions) BY <1>2 DEF IsPrefix, Configs
<1> QED BY <1>2, <1>3 DEF ConfigOK, DefinitionsOfOneCall, GivenDefinitions

LEMMA ConfigInductive == ConfigOK /\ [Next]_vars => ConfigOK'
<1> SUFFICES ASSUME ConfigOK, [Next]_vars PROVE ConfigOK' OBVIOUS
<1>1. CASE UNCHANGED config BY <1>1 DEF ConfigOK, DefinitionsOfOneCall
<1>2. CASE SetCppStandard
  BY <1>2 DEF SetCppStandard, ConfigOK, DefinitionsOfOneCall, Configs
<1>3. CASE SetCompilerConfig
  <2>1. PICK d \in Descriptions : config' = Configured(d) BY <1>3 DEF SetCompilerConfig
  <2>2. config' \in Configs BY <2>1, ConfiguredTyped DEF ConfigOK
  <2>3. "definitions" \in DOMAIN config BY DEF ConfigOK, Configs
  <2>4. CASE config'.definitions = config.definitions
    BY <2>2, <2>4 DEF ConfigOK, DefinitionsOfOneCall
  <2>5. ASSUME NEW i \in DOMAIN d, d[i].key = "definitions",
               config'.definitions = StoredValue(d[i], config.definitions)
        PROVE  ConfigOK'
    <3>1. CASE d[i].value = Bad BY <2>4, <2>5, <3>1 DEF StoredValue
    <3>2. CASE d[i].value # Bad
      <4>1. d[i].value \in GivenDefinitions BY <2>5, <3>2 DEF GivenDefinitions
      <4>2. d[i].value \in Seq(Macros \cup {Bad})
        BY <2>5, <3>2, EvaluatorAssumption DEF OfItsType
      <4>3. IsPrefix(config'.definitions, d[i].value)
        BY <2>5, <3>2, <4>2, ConvertibleTyped DEF StoredValue
      <4> QED BY <2>2, <4>1, <4>3 DEF ConfigOK, DefinitionsOfOneCall
    <3> QED BY <3>1, <3>2
  <2>6. \/ config'["definitions"] = config["definitions"]
        \/ \E i \in DOMAIN d : d[i].key = "definitions"
                               /\ config'["definitions"] = StoredValue(d[i], config["definitions"])
    BY <2>1, <2>3, FieldConfigured
  <2> QED BY <2>4, <2>5, <2>6
<1> QED BY <1>1, <1>2, <1>3 DEF Next, vars, Evaluate, EvaluateWithoutEnvironment

\* ConfigOK holds in every reachable state.
THEOREM ConfigurationTyped == Spec => []ConfigOK
BY ConfigInitially, ConfigInductive, PTL DEF Spec

\* The definitions in force are those of one call, as far as it got, never a mix
\* of several calls (PyBind.cpp:245-256).
THEOREM DefinitionsTogether == Spec => []DefinitionsOfOneCall
BY ConfigurationTyped, PTL DEF ConfigOK

-----------------------------------------------------------------------------
(* What clang is told *)

Eval == Macro("__RG3_CODE_EVAL__", "1")

\* The invocation of an evaluator with a configuration and an environment.
InvocationOf(c, e) == Defining(MakeInstance(c, e, platform), <<Eval>>)

LEMMA InvocationIs ==
    ASSUME NEW c, NEW e
    PROVE  /\ InvocationOf(c, e).args = ProxyArgs(c.args, platform)
           /\ InvocationOf(c, e).macros = (c.definitions \o Builtins(platform)) \o <<Eval>>
           /\ InvocationOf(c, e).dirs = SearchOrder(AddedDirs(c, e))
BY DEF InvocationOf, Defining, MakeInstance, NewInvocation, SetInvocation, BuiltinsLast

\* The last evaluation was done with the configuration there was, of which calls only
\* change what a dictionary has, and the configuration began as one of those given.
Evaluated ==
    /\ \E c \in StartConfigs \cup {DefaultConfig} : config.args = c.args /\ config.includes = c.includes
    /\ last.env # NoEnv =>
          \E c \in Configs : /\ c.args = config.args /\ c.includes = config.includes
                            /\ last.invocation = InvocationOf(c, last.env)
    /\ last.env = NoEnv => last.invocation = NewInvocation

EvaluatorInv == ConfigOK /\ EnvironmentCached /\ Evaluated

LEMMA EvaluatorInductive == EvaluatorInv /\ [Next]_vars => EvaluatorInv'
<1> SUFFICES ASSUME EvaluatorInv, [Next]_vars PROVE Evaluated'
  BY ConfigInductive, CachedInductive DEF EvaluatorInv
<1> USE DEF EvaluatorInv
<1>1. platform' = platform
  BY DEF Next, vars, SetCppStandard, SetCompilerConfig, Evaluate, EvaluateWithoutEnvironment
<1>2. CASE UNCHANGED vars BY <1>2 DEF vars, Evaluated, InvocationOf
<1>3. ASSUME last' = last, config'.args = config.args, config'.includes = config.includes
      PROVE  Evaluated'
  BY <1>1, <1>3 DEF Evaluated, InvocationOf
<1>4. CASE SetCppStandard
  <2>1. config'.args = config.args /\ config'.includes = config.includes /\ last' = last
    BY <1>4 DEF SetCppStandard, ConfigOK, Configs
  <2> QED BY <1>3, <2>1
<1>5. CASE SetCompilerConfig
  <2>1. PICK d \in Descriptions : config' = Configured(d) BY <1>5 DEF SetCompilerConfig
  <2>2. "args" \in DOMAIN config /\ "includes" \in DOMAIN config BY DEF ConfigOK, Configs
  <2>3. config'["args"] = config["args"] /\ config'["includes"] = config["includes"]
    BY <2>1, <2>2, FieldConfigured DEF Keys
  <2> QED BY <1>3, <1>5, <2>3 DEF SetCompilerConfig
<1>6. CASE Evaluate
  <2>1. config' = config /\ env' \in Envs
    BY <1>6 DEF Evaluate, NeedsEnvironment, EnvironmentCached
  <2>2. last'.env = env' /\ last'.invocation = InvocationOf(config, env')
    BY <1>6 DEF Evaluate, InvocationOf, EvaluationInvocation, Eval
  <2>3. last'.env # NoEnv BY <2>1, <2>2, EvaluatorAssumption
  <2>4. config \in Configs BY DEF ConfigOK
  <2> QED BY <1>1, <2>1, <2>2, <2>3, <2>4 DEF Evaluated, InvocationOf
<1>7. CASE EvaluateWithoutEnvironment
  BY <1>7 DEF EvaluateWithoutEnvironment, NotRun, Evaluated
<1> QED BY <1>2, <1>4, <1>5, <1>6, <1>7 DEF Next

LEMMA EvaluatorInitially == Init => EvaluatorInv
<1> SUFFICES ASSUME Init PROVE Evaluated BY ConfigInitially DEF EvaluatorInv, Init, NotRun, EnvironmentCached
<1> QED BY EvaluatorAssumption DEF Init, NotRun, Evaluated, DefaultConfig

LEMMA EvaluatorAlways == Spec => []EvaluatorInv
BY EvaluatorInitially, EvaluatorInductive, PTL DEF Spec

-----------------------------------------------------------------------------
(* RG3's own macros *)

\* The macros that are defined last have different names.
LEMMA OwnMacros ==
    ASSUME NEW own, own = Builtins(platform) \o <<Eval>>
    PROVE  /\ own \in Seq(Macros) /\ Builtins(platform) \in Seq(Macros)
           /\ \A i, j \in 1..Len(own) : own[i].name = own[j].name => i = j
<1>1. PICK a, b, c, d, e : /\ a = Macro("__RG3__", "1") /\ b = Macro("__RG3_COMMIT__", "hash")
                           /\ c = Macro("__RG3_BUILD_DATE__", "date") /\ d = Macro("__GNUC__", "4")
                           /\ e = Eval
  OBVIOUS
<1>2. a \in Macros /\ b \in Macros /\ c \in Macros /\ d \in Macros /\ e \in Macros
  BY <1>1, WordsAssumption DEF Macro, Macros, Eval, OwnWords
<1>3. /\ a.name = "__RG3__" /\ b.name = "__RG3_COMMIT__" /\ c.name = "__RG3_BUILD_DATE__"
      /\ d.name = "__GNUC__" /\ e.name = "__RG3_CODE_EVAL__"
  BY <1>1 DEF Macro, Eval
<1>4. PICK first, builtins : first = <<a, b, c>> /\ builtins = Builtins(platform) OBVIOUS
<1>5. first \in Seq(Macros) /\ Len(first) = 3 /\ first[1] = a /\ first[2] = b /\ first[3] = c
  BY <1>2, <1>4
<1>6. own = builtins \o <<e>> BY <1>1, <1>4
<1>e. <<e>> \in Seq(Macros) /\ Len(<<e>>) = 1 /\ <<e>>[1] = e BY <1>2
<1>7. CASE platform = "apple"
  <2>1. builtins = first \o <<d>> BY <1>1, <1>4, <1>7 DEF Builtins
  <2>2. builtins \in Seq(Macros) /\ Len(builtins) = 4 /\ builtins[4] = d
        /\ \A i \in 1..3 : builtins[i] = first[i]
    <3>1. <<d>> \in Seq(Macros) /\ Len(<<d>>) = 1 /\ <<d>>[1] = d BY <1>2
    <3>2. IsConcat(builtins, first, <<d>>, Macros) BY <1>5, <2>1, <3>1, ElementsOfConcat
    <3> QED BY <1>5, <3>1, <3>2 DEF IsConcat
  <2>3. own \in Seq(Macros) /\ Len(own) = 5 /\ own[5] = e /\ \A i \in 1..4 : own[i] = builtins[i]
    <3>1. IsConcat(own, builtins, <<e>>, Macros) BY <1>6, <1>e, <2>2, ElementsOfConcat
    <3> QED BY <1>e, <2>2, <3>1 DEF IsConcat
  <2>4. \A i \in 1..Len(own) : i = 1 \/ i = 2 \/ i = 3 \/ i = 4 \/ i = 5 BY <2>3
  <2>5. own[1] = a /\ own[2] = b /\ own[3] = c /\ own[4] = d BY <1>5, <2>2, <2>3
  <2> QED BY <1>3, <1>4, <2>2, <2>3, <2>4, <2>5
<1>8. CASE platform # "apple"
  <2>1. builtins = first \o <<>> BY <1>1, <1>4, <1>8 DEF Builtins
  <2>2. builtins = first BY <1>5, <2>1
  <2>3. own \in Seq(Macros) /\ Len(own) = 4 /\ own[4] = e /\ \A i \in 1..3 : own[i] = first[i]
    <3>1. IsConcat(own, first, <<e>>, Macros) BY <1>5, <1>6, <1>e, <2>2, ElementsOfConcat
    <3> QED BY <1>5, <1>e, <3>1 DEF IsConcat
  <2>4. \A i \in 1..Len(own) : i = 1 \/ i = 2 \/ i = 3 \/ i = 4 BY <2>3
  <2> QED BY <1>3, <1>4, <1>5, <2>2, <2>3, <2>4
<1> QED BY <1>7, <1>8

\* They come after those of the configuration, so they count.
LEMMA OwnMacrosCount ==
    ASSUME NEW c \in Configs, NEW e, NEW m \in Range(Builtins(platform) \o <<Eval>>)
    PROVE  ValueOf(InvocationOf(c, e), m.name) = m.value
<1>1. PICK own, given, builtins, macros :
         /\ own = Builtins(platform) \o <<Eval>> /\ given = c.definitions
         /\ builtins = Builtins(platform) /\ macros = (given \o builtins) \o <<Eval>>
  OBVIOUS
<1>2. own \in Seq(Macros) /\ \A i, j \in 1..Len(own) : own[i].name = own[j].name => i = j
  BY <1>1, OwnMacros
<1>3. builtins \in Seq(Macros) /\ <<Eval>> \in Seq(Macros) /\ given \in Seq(Macros)
  <2>1. builtins \in Seq(Macros) BY <1>1, OwnMacros
  <2>2. Eval \in Macros BY WordsAssumption DEF Macros, Macro, Eval, OwnWords
  <2>3. <<Eval>> \in Seq(Macros) BY <2>2
  <2>4. given \in Seq(Macros) BY <1>1 DEF Configs
  <2> QED BY <2>1, <2>3, <2>4
<1>4. macros \in Seq(Macros) /\ Len(given) \in Nat /\ Len(own) \in Nat
      /\ Len(macros) = Len(given) + Len(own)
      /\ \A i \in 1..Len(own) : macros[Len(given) + i] = own[i]
  <2>1. PICK both : both = given \o builtins OBVIOUS
  <2>2. IsConcat(both, given, builtins, Macros) BY <1>3, <2>1, ElementsOfConcat
  <2>3. both \in Seq(Macros) BY <2>2 DEF IsConcat
  <2>4. IsConcat(macros, both, <<Eval>>, Macros) BY <1>1, <1>3, <2>1, <2>3, ElementsOfConcat
  <2>5. IsConcat(own, builtins, <<Eval>>, Macros) BY <1>1, <1>3, ElementsOfConcat
  <2>6. Len(<<Eval>>) = 1 /\ <<Eval>>[1] = Eval OBVIOUS
  <2>7. macros \in Seq(Macros) /\ Len(given) \in Nat /\ Len(own) \in Nat /\ Len(builtins) \in Nat
    BY <1>2, <1>3, <2>4 DEF IsConcat
  <2>8. Len(both) = Len(given) + Len(builtins) /\ Len(macros) = Len(both) + 1
        /\ Len(own) = Len(builtins) + 1
    BY <2>2, <2>4, <2>5, <2>6 DEF IsConcat
  <2>9. ASSUME NEW i \in 1..Len(builtins) PROVE macros[Len(given) + i] = own[i]
    <3>1. Len(given) + i \in 1..Len(both) BY <2>7, <2>8
    <3>2. macros[Len(given) + i] = both[Len(given) + i] BY <2>4, <3>1 DEF IsConcat
    <3>3. both[Len(given) + i] = builtins[i] BY <2>2 DEF IsConcat
    <3>4. own[i] = builtins[i] BY <2>5 DEF IsConcat
    <3> QED BY <3>2, <3>3, <3>4
  <2>10. macros[Len(both) + 1] = Eval /\ own[Len(builtins) + 1] = Eval BY <2>4, <2>5, <2>6 DEF IsConcat
  <2>11. \A i \in 1..Len(own) : macros[Len(given) + i] = own[i]
    <3> TAKE i \in 1..Len(own)
    <3>1. CASE i \in 1..Len(builtins) BY <2>9, <3>1
    <3>2. CASE i = Len(builtins) + 1
      <4>1. Len(given) + i = Len(both) + 1 BY <2>7, <2>8, <3>2
      <4> QED BY <2>10, <3>2, <4>1
    <3> QED BY <2>7, <2>8, <3>1, <3>2
  <2>12. Len(macros) = Len(given) + Len(own) BY <2>7, <2>8
  <2> QED BY <2>7, <2>11, <2>12
<1>5. PICK i \in 1..Len(own) : own[i] = m BY <1>1, <1>2 DEF Range
<1>6. PICK p : p = Len(given) + i OBVIOUS
<1>7. p \in 1..Len(macros) /\ macros[p] = m BY <1>4, <1>5, <1>6
<1>8. m \in Macros BY <1>2, <1>5
<1> DEFINE named == {x \in Macros : x.name = m.name}
<1>9. \A j \in (p + 1)..Len(macros) : macros[j] \notin named
  <2> TAKE j \in (p + 1)..Len(macros)
  <2>1. j - Len(given) \in 1..Len(own) /\ j - Len(given) # i /\ Len(given) + (j - Len(given)) = j
    BY <1>4, <1>6
  <2>2. macros[j] = own[j - Len(given)] BY <1>4, <2>1
  <2> QED BY <1>2, <1>5, <2>1, <2>2
<1>10. macros[p] \in named BY <1>7, <1>8
<1> HIDE DEF named
<1>a. macros \in Seq(Macros) /\ p \in 1..Len(macros) BY <1>4, <1>7
<1>11. Kept(macros, named) # <<>> /\ Kept(macros, named)[Len(Kept(macros, named))] = macros[p]
  <2>1. PICK wanted : wanted = named OBVIOUS
  <2>2. macros[p] \in wanted /\ \A j \in (p + 1)..Len(macros) : macros[j] \notin wanted
    BY <1>9, <1>10, <2>1
  <2> QED BY <1>a, <2>1, <2>2, LastKept
<1>12. InvocationOf(c, e).macros = macros BY <1>1, InvocationIs
<1>13. ValueOf(InvocationOf(c, e), m.name) = Last(Kept(macros, named)).value
  BY <1>11, <1>12 DEF ValueOf, named
<1> QED BY <1>7, <1>11, <1>13 DEF Last

\* Whatever a script defines, code can rely on RG3's own macros
\* (CompilerInstanceFactory.cpp:231-241, CodeEvaluator.cpp:79).
THEOREM OwnMacrosWin == Spec => []BuiltinsWin
<1>1. EvaluatorInv => BuiltinsWin
  BY OwnMacrosCount DEF EvaluatorInv, Evaluated, BuiltinsWin, Eval
<1> QED BY <1>1, EvaluatorAlways, PTL

-----------------------------------------------------------------------------
(* The directories *)

\* The directories of a script that were not detected are looked into first, then
\* the detected ones.
DirsInOrder(dirs, includes, e) ==
    \E first, detected \in Seq(Dirs) :
        /\ dirs = first \o detected
        /\ \A k \in 1..Len(first) : first[k].path \notin DetectedDirs(e)
        /\ \A k \in 1..Len(detected) : detected[k].path \in DetectedDirs(e)
        /\ \A path \in DetectedDirs(e) : \E k \in 1..Len(detected) : detected[k].path = path
        /\ \A i \in 1..Len(includes) :
              \/ includes[i].path \in DetectedDirs(e)
              \/ \E k \in 1..Len(first) : first[k].path = includes[i].path

LEMMA ScriptDirsThenDetected ==
    ASSUME NEW c \in Configs, NEW e \in Envs
    PROVE  DirsInOrder(InvocationOf(c, e).dirs, c.includes, e)
<1> DEFINE wanted == {d \in Includes : d.kind # "IK_SYSROOT"}
<1> DEFINE Known == {d \in Includes : d.kind \in {"IK_SYSTEM", "IK_C_SYSTEM", "IK_SYSROOT"}}
<1> DEFINE System == {d \in Includes : d.kind \in {"IK_SYSTEM", "IK_C_SYSTEM"}}
<1>1. PICK found : found = Kept(e.dirs, wanted) OBVIOUS
<1>a. e.dirs \in Seq(Known) BY EvaluatorAssumption
<1>2. found \in Seq(System)
  <2>1. Known \cap wanted \subseteq System OBVIOUS
  <2> HIDE DEF Known, wanted, System
  <2>2. found \in Seq(Known \cap wanted) BY <1>1, <1>a, KeptTyped
  <2> QED BY <2>1, <2>2, SeqMonotonic
<1>b. \A k \in 1..Len(found) : found[k].path \in DetectedDirs(e)
  <2> SUFFICES ASSUME NEW k \in 1..Len(found) PROVE found[k].path \in DetectedDirs(e) OBVIOUS
  <2>1. PICK all : all = e.dirs /\ all \in Seq(Known) BY <1>a
  <2> HIDE DEF Known, wanted
  <2>2. \E i \in 1..Len(all) : all[i] = found[k] /\ found[k] \in wanted
    BY <1>1, <2>1, KeptComesFrom
  <2>3. found[k].kind # "IK_SYSROOT" BY <2>2 DEF wanted
  <2>4. found[k] \in Range(e.dirs) BY <2>1, <2>2 DEF Range
  <2> QED BY <2>3, <2>4 DEF DetectedDirs
<1>c. \A path \in DetectedDirs(e) : \E k \in 1..Len(found) : found[k].path = path
  <2> SUFFICES ASSUME NEW path \in DetectedDirs(e)
               PROVE  \E k \in 1..Len(found) : found[k].path = path
    OBVIOUS
  <2>1. PICK all : all = e.dirs /\ all \in Seq(Known) BY <1>a
  <2>2. PICK x \in Range(all) : x.kind # "IK_SYSROOT" /\ path = x.path BY <2>1 DEF DetectedDirs
  <2>3. PICK i \in 1..Len(all) : x = all[i] BY <2>1, <2>2 DEF Range
  <2>4. x \in wanted BY <2>1, <2>2, <2>3
  <2> HIDE DEF Known, wanted
  <2>5. \E k \in 1..Len(found) : found[k] = x BY <1>1, <2>1, <2>3, <2>4, KeptHasAll
  <2> QED BY <2>2, <2>5
<1>3. PICK detected, given :
         /\ detected = [i \in DOMAIN found |-> [path |-> found[i].path, group |-> Group(found[i].kind)]]
         /\ given = [i \in DOMAIN c.includes |-> [path |-> c.includes[i].path, group |-> "angled"]]
  OBVIOUS
<1>4. AddedDirs(c, e) = detected \o given BY <1>1, <1>3 DEF AddedDirs
<1>5. detected \in Seq(Dirs \ Angled) /\ Len(detected) = Len(found)
      /\ \A k \in 1..Len(found) : detected[k].path = found[k].path
  <2>1. DOMAIN found = 1..Len(found) /\ Len(found) \in Nat BY <1>2
  <2>2. \A i \in 1..Len(found) : found[i] \in System BY <1>2
  <2>3. \A i \in 1..Len(found) :
           [path |-> found[i].path, group |-> Group(found[i].kind)] \in Dirs \ Angled
    BY <2>2 DEF Dirs, Angled, Group, Includes
  <2> QED BY <1>3, <2>1, <2>3
<1> HIDE DEF wanted, Known, System
<1>6. given \in Seq(Angled) /\ Len(given) = Len(c.includes)
      /\ \A i \in 1..Len(given) : given[i].path = c.includes[i].path
  <2>1. c.includes \in Seq(Includes) BY DEF Configs
  <2>2. DOMAIN c.includes = 1..Len(c.includes) /\ Len(c.includes) \in Nat BY <2>1
  <2>3. \A i \in 1..Len(c.includes) : [path |-> c.includes[i].path, group |-> "angled"] \in Angled
    <3> TAKE i \in 1..Len(c.includes)
    <3>1. c.includes[i] \in Includes BY <2>1
    <3>2. c.includes[i].path \in Words BY <3>1 DEF Includes
    <3> QED BY <3>2 DEF Dirs, Angled
  <2> QED BY <1>3, <2>2, <2>3
<1>7. detected \in Seq(Dirs) /\ given \in Seq(Dirs)
  <2>1. Angled \subseteq Dirs /\ Dirs \ Angled \subseteq Dirs BY DEF Angled
  <2> QED BY <1>5, <1>6, <2>1, SeqMonotonic
<1>8. \A A : \A p, q \in Seq(Dirs) : Kept(p \o q, A) = Kept(p, A) \o Kept(q, A) BY KeptOfConcat
<1>d. PICK alone : alone = Angled \ Shadowed(detected \o given) OBVIOUS
<1>9. Kept(detected \o given, alone) = Kept(given, alone)
  <2>1. Kept(detected, alone) = <<>>
    <3>1. (Dirs \ Angled) \cap alone = {} BY <1>d
    <3> QED BY <1>5, <3>1, KeptNone
  <2>2. Kept(given, alone) \in Seq(Dirs) BY <1>7, KeptIn
  <2>3. <<>> \o Kept(given, alone) = Kept(given, alone) BY <2>2
  <2> QED BY <1>7, <1>8, <2>1, <2>3
<1>10. Kept(detected \o given, Dirs \ Angled) = detected
  <2>1. Kept(detected, Dirs \ Angled) = detected BY <1>5, KeptAll
  <2>2. Kept(given, Dirs \ Angled) = <<>> BY <1>6, KeptNone
  <2>3. detected \o <<>> = detected BY <1>7
  <2> QED BY <1>7, <1>8, <2>1, <2>2, <2>3
<1>11. PICK first \in Seq(Dirs) : first = Kept(given, alone) BY <1>7, KeptIn
<1>12. InvocationOf(c, e).dirs = first \o detected
  <2>1. SearchOrder(detected \o given) = first \o detected BY <1>d, <1>9, <1>10, <1>11 DEF SearchOrder
  <2> QED BY <1>4, <2>1, InvocationIs
<1>13. \A d \in Angled : d \in alone <=> d.path \notin DetectedDirs(e)
  <2>1. PICK both : both = detected \o given OBVIOUS
  <2>2. IsConcat(both, detected, given, Dirs) BY <1>7, <2>1, ElementsOfConcat
  <2> SUFFICES ASSUME NEW d \in Angled
               PROVE  (\E s \in Range(both) \ Angled : s.path = d.path) <=> d.path \in DetectedDirs(e)
    BY <1>d, <2>1 DEF Shadowed
  <2>3. ASSUME NEW s \in Range(both) \ Angled, s.path = d.path PROVE d.path \in DetectedDirs(e)
    <3>1. PICK n \in DOMAIN both : s = both[n] BY <2>3 DEF Range
    <3>2. n \in 1..Len(both) BY <2>2, <3>1 DEF IsConcat
    <3>3. CASE n \in 1..Len(detected)
      BY <1>b, <1>5, <2>2, <2>3, <3>1, <3>3 DEF IsConcat
    <3>4. CASE n \notin 1..Len(detected)
      <4>1. n - Len(detected) \in 1..Len(given) /\ Len(detected) + (n - Len(detected)) = n
        BY <2>2, <3>2, <3>4 DEF IsConcat
      <4>2. s = given[n - Len(detected)] BY <2>2, <3>1, <4>1 DEF IsConcat
      <4>3. s \in Angled BY <1>6, <4>1, <4>2
      <4> QED BY <2>3, <4>3
    <3> QED BY <3>3, <3>4
  <2>4. ASSUME d.path \in DetectedDirs(e) PROVE \E s \in Range(both) \ Angled : s.path = d.path
    <3>1. PICK k \in 1..Len(found) : found[k].path = d.path BY <1>c, <2>4
    <3>2. detected[k].path = d.path /\ detected[k] \in Dirs \ Angled BY <1>5, <3>1
    <3>3. k \in DOMAIN both /\ both[k] = detected[k] BY <1>5, <2>2, <3>1 DEF IsConcat
    <3>4. detected[k] \in Range(both) BY <3>3 DEF Range
    <3> QED BY <3>2, <3>4
  <2> QED BY <2>3, <2>4
<1>14. \A k \in 1..Len(first) : first[k].path \notin DetectedDirs(e)
  <2>1. first \in Seq(Angled \cap alone) BY <1>6, <1>11, KeptTyped
  <2> QED BY <1>13, <2>1
<1>15. \A i \in 1..Len(c.includes) :
          \/ c.includes[i].path \in DetectedDirs(e)
          \/ \E k \in 1..Len(first) : first[k].path = c.includes[i].path
  <2> SUFFICES ASSUME NEW i \in 1..Len(c.includes), c.includes[i].path \notin DetectedDirs(e)
               PROVE  \E k \in 1..Len(first) : first[k].path = c.includes[i].path
    OBVIOUS
  <2>1. given[i] \in Angled /\ given[i].path = c.includes[i].path /\ i \in 1..Len(given) BY <1>6
  <2>2. given[i] \in alone BY <1>13, <2>1
  <2>3. \E k \in 1..Len(first) : first[k] = given[i] BY <1>7, <1>11, <2>1, <2>2, KeptHasAll
  <2> QED BY <2>1, <2>3
<1>16. /\ \A k \in 1..Len(detected) : detected[k].path \in DetectedDirs(e)
       /\ \A path \in DetectedDirs(e) : \E k \in 1..Len(detected) : detected[k].path = path
  BY <1>b, <1>c, <1>5
<1> QED BY <1>7, <1>11, <1>12, <1>14, <1>15, <1>16, Zenon DEF DirsInOrder

\* Every directory a script gave is searched, and before all detected ones unless it
\* is one of them (CompilerInstanceFactory.cpp:251-281).
THEOREM ScriptDirsBefore == Spec => []ScriptDirsFirst
<1>1. ASSUME EvaluatorInv, last.env # NoEnv, NEW path \in GivenDirs
      PROVE  \E i \in DOMAIN last.invocation.dirs :
                /\ last.invocation.dirs[i].path = path
                /\ path \notin DetectedDirs(last.env) =>
                      \A j \in DOMAIN last.invocation.dirs :
                         last.invocation.dirs[j].path \in DetectedDirs(last.env) => i < j
  <2>1. PICK c \in Configs : c.includes = config.includes /\ last.invocation = InvocationOf(c, last.env)
    BY <1>1 DEF EvaluatorInv, Evaluated
  <2>2. last.env \in Envs BY <1>1 DEF EvaluatorInv, EnvironmentCached
  <2>3. PICK dirs : dirs = last.invocation.dirs OBVIOUS
  <2>4. DirsInOrder(dirs, c.includes, last.env) BY <2>1, <2>2, <2>3, ScriptDirsThenDetected
  <2>5. PICK first, detected \in Seq(Dirs) :
           /\ dirs = first \o detected
           /\ \A k \in 1..Len(first) : first[k].path \notin DetectedDirs(last.env)
           /\ \A k \in 1..Len(detected) : detected[k].path \in DetectedDirs(last.env)
           /\ \A p \in DetectedDirs(last.env) : \E k \in 1..Len(detected) : detected[k].path = p
           /\ \A i \in 1..Len(c.includes) :
                 \/ c.includes[i].path \in DetectedDirs(last.env)
                 \/ \E k \in 1..Len(first) : first[k].path = c.includes[i].path
    BY <2>4, Zenon DEF DirsInOrder
  <2>6. IsConcat(dirs, first, detected, Dirs) BY <2>5, ElementsOfConcat
  <2>7. PICK n \in 1..Len(c.includes) : c.includes[n].path = path
    <3>1. PICK l : l = config.includes OBVIOUS
    <3>2. l \in Seq(Includes) /\ l = c.includes BY <2>1, <3>1 DEF Configs
    <3>3. PICK d \in Range(l) : path = d.path BY <1>1, <3>1 DEF GivenDirs
    <3>4. PICK i \in 1..Len(l) : d = l[i] BY <3>2, <3>3 DEF Range
    <3> QED BY <3>2, <3>3, <3>4
  <2>8. CASE path \in DetectedDirs(last.env)
    <3>1. PICK k \in 1..Len(detected) : detected[k].path = path BY <2>5, <2>8
    <3>2. Len(first) + k \in DOMAIN dirs /\ dirs[Len(first) + k] = detected[k]
      BY <2>6, <3>1 DEF IsConcat
    <3> QED BY <2>3, <2>8, <3>1, <3>2
  <2>9. CASE path \notin DetectedDirs(last.env)
    <3>1. PICK i \in 1..Len(first) : first[i].path = path BY <2>5, <2>7, <2>9
    <3>2. i \in DOMAIN dirs /\ dirs[i].path = path BY <2>6, <3>1 DEF IsConcat
    <3>3. ASSUME NEW j \in DOMAIN dirs, dirs[j].path \in DetectedDirs(last.env) PROVE i < j
      <4>1. j \in 1..Len(dirs) BY <2>6, <3>3 DEF IsConcat
      <4>2. j \notin 1..Len(first) BY <2>5, <2>6, <3>3 DEF IsConcat
      <4> QED BY <2>6, <3>1, <4>1, <4>2 DEF IsConcat
    <3> QED BY <2>3, <3>2, <3>3
  <2> QED BY <2>8, <2>9
<1>2. EvaluatorInv => ScriptDirsFirst BY <1>1 DEF ScriptDirsFirst
<1> QED BY <1>2, EvaluatorAlways, PTL

-----------------------------------------------------------------------------
(* The arguments *)

\* The arguments without a -x and what follows it.
LEMMA WithoutLanguageIs ==
    ASSUME NEW args \in Seq(Words)
    PROVE  \/ WithoutLanguage(args) = args
           \/ \E x \in 1..Len(args) : /\ args[x] = "-x"
                 /\ WithoutLanguage(args) = SubSeq(args, 1, x - 1) \o SubSeq(args, x + 2, Len(args))
<1> DEFINE I == {i \in 1..Len(args) : args[i] = "-x"}
<1>1. CASE I = {} BY <1>1 DEF WithoutLanguage, FirstLanguage, SelectInSeq
<1>2. CASE I # {}
  <2>1. \E i \in I : \A j \in I : i <= j
    <3>1. Len(args) \in Nat /\ I \in SUBSET (1..Len(args)) OBVIOUS
    <3> QED BY <1>2, <3>1, SmallestIndex, Zenon
  <2>2. PICK x \in I : x = Min(I)
    <3> HIDE DEF I
    <3> QED BY <2>1 DEF Min
  <2>3. FirstLanguage(args) = x BY <1>2, <2>2 DEF FirstLanguage, SelectInSeq
  <2>4. x # 0 /\ x \in 1..Len(args) /\ args[x] = "-x" BY <2>2
  <2> HIDE DEF I
  <2>5. WithoutLanguage(args) = SubSeq(args, 1, x - 1) \o SubSeq(args, x + 2, Len(args))
    BY <2>3, <2>4 DEF WithoutLanguage
  <2> QED BY <2>4, <2>5
<1> QED BY <1>1, <1>2

\* Every language is the operand of an -x.
OperandsOnly(args) ==
    \A i \in 1..Len(args) : args[i] \in Languages => i > 1 /\ args[i - 1] = "-x"

\* And no -x is.
FlagsOnly(args) ==
    \A i \in 1..Len(args) : args[i] = "-x" => ~(i > 1 /\ args[i - 1] = "-x")

\* The operand goes with its flag.
LEMMA LanguageGoes ==
    ASSUME NEW args \in Seq(Words), OperandsOnly(args), FlagsOnly(args)
    PROVE  WithoutLanguage(args) \in Seq(Words) /\ OperandsOnly(WithoutLanguage(args))
<1>1. PICK rest : rest = WithoutLanguage(args) OBVIOUS
<1>2. CASE rest = args BY <1>1, <1>2
<1>3. ASSUME NEW x \in 1..Len(args), args[x] = "-x",
             rest = SubSeq(args, 1, x - 1) \o SubSeq(args, x + 2, Len(args))
      PROVE  rest \in Seq(Words) /\ OperandsOnly(rest)
  <2>1. PICK a, b : a = SubSeq(args, 1, x - 1) /\ b = SubSeq(args, x + 2, Len(args)) OBVIOUS
  <2>2. a \in Seq(Words) /\ b \in Seq(Words) BY <2>1
  <2>3. Len(a) = x - 1 /\ \A i \in 1..(x - 1) : a[i] = args[i] BY <2>1
  <2>4. \A i \in 1..Len(b) : b[i] = args[x + 1 + i] /\ x + 1 + i \in 1..Len(args) BY <2>1
  <2>5. IsConcat(rest, a, b, Words) BY <1>3, <2>1, <2>2, ElementsOfConcat
  <2>6. rest \in Seq(Words) /\ Len(rest) = x - 1 + Len(b) /\ Len(b) \in Nat BY <2>3, <2>5 DEF IsConcat
  <2>7. \A i \in 1..(x - 1) : rest[i] = args[i] BY <2>3, <2>5 DEF IsConcat
  <2>8. \A i \in 1..Len(b) : rest[x - 1 + i] = args[x + 1 + i] BY <2>3, <2>4, <2>5 DEF IsConcat
  <2>9. ASSUME NEW i \in 1..Len(rest), rest[i] \in Languages PROVE i > 1 /\ rest[i - 1] = "-x"
    <3>1. CASE i < x
      <4>1. args[i] \in Languages BY <2>7, <2>9, <3>1
      <4>2. i > 1 /\ args[i - 1] = "-x" BY <3>1, <4>1 DEF OperandsOnly
      <4> QED BY <2>7, <3>1, <4>2
    <3>2. CASE i >= x
      <4>1. PICK k : k = i - (x - 1) OBVIOUS
      <4>2. k \in 1..Len(b) /\ x - 1 + k = i BY <2>6, <3>2, <4>1
      <4>3. args[x + 1 + k] \in Languages /\ x + 1 + k \in 1..Len(args) BY <2>4, <2>8, <2>9, <4>2
      <4>4. args[x + k] = "-x"
        <5>1. PICK p : p = x + 1 + k OBVIOUS
        <5>2. p \in 1..Len(args) /\ args[p] \in Languages BY <4>3, <5>1
        <5>3. args[p - 1] = "-x" BY <5>2 DEF OperandsOnly
        <5>4. p - 1 = x + k BY <4>2, <5>1
        <5> QED BY <5>3, <5>4
      <4>5. k # 1
        <5>1. ASSUME k = 1 PROVE FALSE
          <6>1. x + 1 \in 1..Len(args) /\ x + 1 > 1 /\ (x + 1) - 1 = x /\ args[x + 1] = "-x"
            BY <4>3, <4>4, <5>1
          <6> QED BY <1>3, <6>1 DEF FlagsOnly
        <5> QED BY <5>1
      <4>6. k - 1 \in 1..Len(b) /\ x + 1 + (k - 1) = x + k /\ x - 1 + (k - 1) = i - 1 /\ i > 1
        BY <2>6, <4>2, <4>5
      <4>7. rest[x - 1 + (k - 1)] = args[x + 1 + (k - 1)] BY <2>8, <4>6
      <4> QED BY <4>4, <4>6, <4>7
    <3> QED BY <3>1, <3>2
  <2> QED BY <2>6, <2>9 DEF OperandsOnly
<1>4. \/ rest = args
      \/ \E x \in 1..Len(args) : args[x] = "-x"
             /\ rest = SubSeq(args, 1, x - 1) \o SubSeq(args, x + 2, Len(args))
  BY <1>1, WithoutLanguageIs
<1>5. rest \in Seq(Words) /\ OperandsOnly(rest) BY <1>2, <1>3, <1>4
<1> QED BY <1>1, <1>5

\* What a platform adds are other arguments.
LEMMA PlatformArgsTyped ==
    /\ PlatformArgs(platform) \in Seq(Words)
    /\ \A i \in 1..Len(PlatformArgs(platform)) :
          PlatformArgs(platform)[i] \notin Languages /\ PlatformArgs(platform)[i] # "-x"
<1>1. CASE platform # "windows"
  <2>1. PlatformArgs(platform) = <<>> BY <1>1 DEF PlatformArgs
  <2> QED BY <2>1
<1>2. CASE platform = "windows"
  <2>1. PICK a, b, c : a = "-fms-extensions" /\ b = "-fdelayed-template-parsing"
                       /\ c = "-fms-compatibility-version=19"
    OBVIOUS
  <2>2. a \in Words /\ b \in Words /\ c \in Words BY <2>1, WordsAssumption DEF OwnWords
  <2>3. PICK args : args = PlatformArgs(platform) OBVIOUS
  <2>4. args = <<a, b, c>> BY <1>2, <2>1, <2>3 DEF PlatformArgs
  <2>5. args \in Seq(Words) /\ Len(args) = 3 /\ args[1] = a /\ args[2] = b /\ args[3] = c BY <2>2, <2>4
  <2>6. \A i \in 1..Len(args) : i = 1 \/ i = 2 \/ i = 3 BY <2>5
  <2>7. \A i \in 1..Len(args) : args[i] \notin Languages /\ args[i] # "-x"
    BY <2>1, <2>5, <2>6 DEF Languages
  <2> QED BY <2>3, <2>5, <2>7
<1> QED BY <1>1, <1>2

\* So the language clang is given last is the header's, and each one has its flag.
LEMMA ProxyArgsOK ==
    ASSUME NEW args \in Seq(Words), OperandsOnly(args), FlagsOnly(args)
    PROVE  /\ ProxyArgs(args, platform) \in Seq(Words)
           /\ Last(ProxyArgs(args, platform)) = "c++-header"
           /\ OperandsOnly(ProxyArgs(args, platform))
<1>1. PICK added, all, rest, proxy :
         /\ added = PlatformArgs(platform) /\ all = args \o added
         /\ rest = WithoutLanguage(all) /\ proxy = ProxyArgs(args, platform)
  OBVIOUS
<1>2. added \in Seq(Words) /\ \A i \in 1..Len(added) : added[i] \notin Languages /\ added[i] # "-x"
  BY <1>1, PlatformArgsTyped
<1>3. IsConcat(all, args, added, Words) BY <1>1, <1>2, ElementsOfConcat
<1>4. /\ all \in Seq(Words) /\ Len(all) = Len(args) + Len(added)
      /\ \A i \in 1..Len(args) : all[i] = args[i]
      /\ \A i \in 1..Len(all) : i \notin 1..Len(args) => all[i] \notin Languages /\ all[i] # "-x"
  <2>1. ASSUME NEW i \in 1..Len(all), i \notin 1..Len(args) PROVE all[i] \notin Languages /\ all[i] # "-x"
    <3>1. i - Len(args) \in 1..Len(added) /\ Len(args) + (i - Len(args)) = i
      BY <1>3, <2>1 DEF IsConcat
    <3>2. all[i] = added[i - Len(args)] BY <1>3, <3>1 DEF IsConcat
    <3> QED BY <1>2, <3>1, <3>2
  <2> QED BY <1>3, <2>1 DEF IsConcat
<1>5. OperandsOnly(all)
  <2> SUFFICES ASSUME NEW i \in 1..Len(all), all[i] \in Languages PROVE i > 1 /\ all[i - 1] = "-x"
    BY DEF OperandsOnly
  <2>1. i \in 1..Len(args) BY <1>4
  <2>2. args[i] \in Languages BY <1>4, <2>1
  <2>3. i > 1 /\ args[i - 1] = "-x" BY <2>1, <2>2 DEF OperandsOnly
  <2> QED BY <1>4, <2>1, <2>3
<1>6. FlagsOnly(all)
  <2> SUFFICES ASSUME NEW i \in 1..Len(all), all[i] = "-x", i > 1, all[i - 1] = "-x" PROVE FALSE
    BY DEF FlagsOnly
  <2>1. i \in 1..Len(args) BY <1>4
  <2>2. args[i] = "-x" /\ args[i - 1] = "-x" BY <1>4, <2>1
  <2> QED BY <2>1, <2>2 DEF FlagsOnly
<1>7. rest \in Seq(Words) /\ OperandsOnly(rest) BY <1>1, <1>4, <1>5, <1>6, LanguageGoes
<1>8. PICK flag, header : flag = "-x" /\ header = "c++-header" OBVIOUS
<1>9. flag \in Words /\ header \in Words BY <1>8, WordsAssumption DEF OwnWords
<1>10. PICK tail : tail = <<flag, header>> OBVIOUS
<1>11. tail \in Seq(Words) /\ Len(tail) = 2 /\ tail[1] = flag /\ tail[2] = header BY <1>9, <1>10
<1>12. proxy = rest \o tail BY <1>1, <1>8, <1>10 DEF ProxyArgs
<1>13. IsConcat(proxy, rest, tail, Words) BY <1>7, <1>11, <1>12, ElementsOfConcat
<1>14. /\ proxy \in Seq(Words) /\ Len(rest) \in Nat /\ Len(proxy) = Len(rest) + 2
       /\ \A i \in 1..Len(rest) : proxy[i] = rest[i]
  BY <1>11, <1>13 DEF IsConcat
<1>15. proxy[Len(rest) + 1] = flag /\ proxy[Len(rest) + 2] = header BY <1>11, <1>13 DEF IsConcat
<1>16. Last(proxy) = "c++-header" BY <1>8, <1>14, <1>15 DEF Last
<1>17. OperandsOnly(proxy)
  <2> SUFFICES ASSUME NEW i \in 1..Len(proxy), proxy[i] \in Languages PROVE i > 1 /\ proxy[i - 1] = "-x"
    BY DEF OperandsOnly
  <2>1. CASE i \in 1..Len(rest)
    <3>1. i > 1 /\ rest[i - 1] = "-x" BY <1>7, <1>14, <2>1 DEF OperandsOnly
    <3> QED BY <1>14, <2>1, <3>1
  <2>2. i # Len(rest) + 1 BY <1>8, <1>15 DEF Languages
  <2>3. CASE i = Len(rest) + 2
    <3>1. i - 1 = Len(rest) + 1 /\ i > 1 BY <1>14, <2>3
    <3> QED BY <1>8, <1>15, <3>1
  <2> QED BY <1>14, <2>1, <2>2, <2>3
<1> QED BY <1>1, <1>14, <1>16, <1>17

\* The arguments of the last evaluation.
LEMMA ArgsCount ==
    ASSUME EvaluatorInv, last.env # NoEnv
    PROVE  /\ Last(last.invocation.args) = "c++-header"
           /\ last.invocation.args \in Seq(Words) /\ OperandsOnly(last.invocation.args)
<1>1. PICK c \in Configs : c.args = config.args /\ last.invocation = InvocationOf(c, last.env)
  BY DEF EvaluatorInv, Evaluated
<1>2. PICK args : args = c.args OBVIOUS
<1>3. args \in Seq(Words) BY <1>2 DEF Configs
<1>4. PICK s \in StartConfigs \cup {DefaultConfig} : args = s.args
  BY <1>1, <1>2 DEF EvaluatorInv, Evaluated
<1>5. OperandsOnly(args) /\ FlagsOnly(args)
  <2>1. CASE s \in StartConfigs
    <3>1. DOMAIN args = 1..Len(args) BY <1>3
    <3> QED BY <1>4, <2>1, <3>1, ArgsAssumption DEF OperandsOnly, FlagsOnly
  <2>2. CASE s = DefaultConfig
    <3>1. args = <<>> BY <1>4, <2>2 DEF DefaultConfig
    <3> QED BY <3>1 DEF OperandsOnly, FlagsOnly
  <2> QED BY <2>1, <2>2
<1>6. last.invocation.args = ProxyArgs(args, platform) BY <1>1, <1>2, InvocationIs
<1> QED BY <1>3, <1>5, <1>6, ProxyArgsOK

\* Whatever -x a script passes, the last language is the C++ header's and none is
\* left without its -x (CompilerInstanceFactory.cpp:78-102).
THEOREM HeaderLanguage == Spec => []LanguageIsHeader
<1>1. EvaluatorInv /\ last.env # NoEnv =>
         /\ Last(last.invocation.args) = "c++-header"
         /\ last.invocation.args \in Seq(Words) /\ OperandsOnly(last.invocation.args)
  BY ArgsCount
<1>2. EvaluatorInv => LanguageIsHeader
  BY <1>1 DEF LanguageIsHeader, OperandsOnly
<1> QED BY <1>2, EvaluatorAlways, PTL

-----------------------------------------------------------------------------
(* The result *)

\* The last evaluation has what clang reported, or has not run.
Reported ==
    /\ last.env # NoEnv =>
          /\ last.diagnostics \in Seq(Levels)
          /\ \E outputs : last.result = Result(IssuesOf(last.diagnostics), outputs)
    /\ last.env = NoEnv =>
          last.result.kind = "none" \/ last.result = Result(<<"IK_ERROR">>, <<>>)

LEMMA ReportedAlways == Spec => []Reported
<1>1. Init => Reported BY DEF Init, NotRun, Reported
<1>2. EvaluatorInv /\ Reported /\ [Next]_vars => Reported'
  <2> SUFFICES ASSUME EvaluatorInv, Reported, [Next]_vars PROVE Reported' OBVIOUS
  <2>1. CASE UNCHANGED last BY <2>1 DEF Reported
  <2>2. CASE Evaluate
    <3>1. env' \in Envs BY <2>2 DEF Evaluate, NeedsEnvironment, EvaluatorInv, EnvironmentCached
    <3>2. last'.env = env' /\ last'.diagnostics \in Seq(Levels)
          /\ \E outputs : last'.result = Result(IssuesOf(last'.diagnostics), outputs)
      BY <2>2 DEF Evaluate, Units
    <3>3. last'.env # NoEnv BY <3>1, <3>2, EvaluatorAssumption
    <3> QED BY <3>2, <3>3 DEF Reported
  <2>3. CASE EvaluateWithoutEnvironment
    BY <2>3 DEF EvaluateWithoutEnvironment, NotRun, Reported
  <2> QED BY <2>1, <2>2, <2>3 DEF Next, vars, SetCppStandard, SetCompilerConfig
<1> QED BY <1>1, <1>2, EvaluatorAlways, PTL DEF Spec

\* Every diagnostic but a remark becomes an issue of its kind.
LEMMA IssuesAre ==
    ASSUME NEW diagnostics \in Seq(Levels)
    PROVE  /\ \A i \in 1..Len(diagnostics) : diagnostics[i] # "remark" =>
                 \E j \in DOMAIN IssuesOf(diagnostics) :
                    IssuesOf(diagnostics)[j] = KindOf(diagnostics[i])
           /\ \A j \in DOMAIN IssuesOf(diagnostics) :
                 IssuesOf(diagnostics)[j] \in {"IK_INFO", "IK_WARNING", "IK_ERROR", "IK_NONE"}
<1> DEFINE wanted == Levels \ {"remark"}
<1>1. PICK kept : kept = Kept(diagnostics, wanted) OBVIOUS
<1>2. IssuesOf(diagnostics) = [j \in DOMAIN kept |-> KindOf(kept[j])] BY <1>1 DEF IssuesOf
<1>3. kept \in Seq(Levels)
  <2> HIDE DEF wanted
  <2> QED BY <1>1, KeptIn
<1>4. \A i \in 1..Len(diagnostics) : diagnostics[i] \in wanted => \E j \in 1..Len(kept) : kept[j] = diagnostics[i]
  <2> HIDE DEF wanted
  <2> QED BY <1>1, KeptHasAll
<1>5. \A i \in 1..Len(diagnostics) : diagnostics[i] # "remark" => diagnostics[i] \in wanted OBVIOUS
<1>6. DOMAIN kept = 1..Len(kept) BY <1>3
<1>7. \A j \in DOMAIN kept : KindOf(kept[j]) \in {"IK_INFO", "IK_WARNING", "IK_ERROR", "IK_NONE"}
  BY DEF KindOf
<1> HIDE DEF wanted
<1> QED BY <1>2, <1>4, <1>5, <1>6, <1>7

\* A script gets values only if the compiler got through the code without a warning
\* or an error (CodeEvaluator.cpp:18-27, CompilerDiagnosticsConsumer.cpp:15-26,
\* PyBind.cpp:180-191).
THEOREM ValuesOfGoodCode == Spec => []GoodResult
<1>1. ASSUME Reported, last.env # NoEnv PROVE GoodResult
  <2>1. PICK issues : issues = IssuesOf(last.diagnostics) OBVIOUS
  <2>2. PICK outputs : last.result = Result(issues, outputs) BY <1>1, <2>1 DEF Reported
  <2>3. last.diagnostics \in Seq(Levels) BY <1>1 DEF Reported
  <2>4. CASE \E i \in DOMAIN issues : issues[i] \notin {"IK_INFO", "IK_NONE"}
    <3>1. last.result.kind = "list" /\ last.result.issues = issues BY <2>2, <2>4 DEF Result
    <3>2. \A j \in DOMAIN issues : issues[j] \in {"IK_INFO", "IK_WARNING", "IK_ERROR", "IK_NONE"}
      BY <2>1, <2>3, IssuesAre
    <3> QED BY <2>4, <3>1, <3>2 DEF GoodResult
  <2>5. CASE \A i \in DOMAIN issues : issues[i] \in {"IK_INFO", "IK_NONE"}
    <3>1. last.result.kind = "dict" BY <2>2, <2>5 DEF Result
    <3>2. PICK levels : levels = last.diagnostics OBVIOUS
    <3>3. levels \in Seq(Levels) /\ issues = IssuesOf(levels) BY <2>1, <2>3, <3>2
    <3>4. ASSUME NEW i \in 1..Len(levels), levels[i] \in {"warning", "error", "fatal"} PROVE FALSE
      <4>1. PICK j \in DOMAIN issues : issues[j] = KindOf(levels[i]) BY <3>3, <3>4, IssuesAre
      <4>2. KindOf(levels[i]) \in {"IK_WARNING", "IK_ERROR"} BY <3>4 DEF KindOf
      <4> QED BY <2>5, <4>1, <4>2
    <3>5. Range(levels) \cap {"warning", "error", "fatal"} = {} BY <3>3, <3>4 DEF Range
    <3> QED BY <1>1, <3>1, <3>2, <3>5 DEF GoodResult
  <2> QED BY <2>4, <2>5
<1>2. ASSUME Reported, last.env = NoEnv PROVE GoodResult
  <2>1. CASE last.result.kind = "none" BY <2>1 DEF GoodResult
  <2>2. CASE last.result = Result(<<"IK_ERROR">>, <<>>)
    <3>1. PICK issues : issues = <<"IK_ERROR">> OBVIOUS
    <3>2. 1 \in DOMAIN issues /\ issues[1] = "IK_ERROR" BY <3>1
    <3>3. last.result.kind = "list" /\ last.result.issues = issues BY <2>2, <3>1, <3>2 DEF Result
    <3> QED BY <3>2, <3>3 DEF GoodResult
  <2> QED BY <1>2, <2>1, <2>2 DEF Reported
<1>3. Reported => GoodResult BY <1>1, <1>2
<1> QED BY <1>3, ReportedAlways, PTL

-----------------------------------------------------------------------------
(* Types *)

\* Whatever a dictionary holds, the configuration is one, and what clang is told
\* has its type.
THEOREM TypeCorrectness == Spec => []TypeOK
<1>1. Spec => [](platform \in Platforms)
  <2>1. Init => platform \in Platforms BY DEF Init
  <2>2. platform \in Platforms /\ [Next]_vars => (platform \in Platforms)'
    BY DEF Next, vars, SetCppStandard, SetCompilerConfig, Evaluate, EvaluateWithoutEnvironment
  <2> QED BY <2>1, <2>2, PTL DEF Spec
<1>2. ASSUME EvaluatorInv, Reported
      PROVE  /\ last.invocation.args \in Seq(Words) /\ last.invocation.macros \in Seq(Macros)
             /\ last.result.kind \in {"none", "list", "dict"}
  <2>1. CASE last.env # NoEnv
    <3>1. last.invocation.args \in Seq(Words) BY <1>2, <2>1, ArgsCount
    <3>2. PICK c \in Configs : last.invocation = InvocationOf(c, last.env)
      BY <1>2, <2>1 DEF EvaluatorInv, Evaluated
    <3>3. PICK given, builtins : given = c.definitions /\ builtins = Builtins(platform) OBVIOUS
    <3>4. given \in Seq(Macros) /\ builtins \in Seq(Macros) BY <3>3, OwnMacros DEF Configs
    <3>5. Eval \in Macros BY WordsAssumption DEF Macros, Macro, Eval, OwnWords
    <3>6. (given \o builtins) \o <<Eval>> \in Seq(Macros) BY <3>4, <3>5
    <3>7. last.invocation.macros \in Seq(Macros) BY <3>2, <3>3, <3>6, InvocationIs
    <3>8. last.result.kind \in {"list", "dict"}
      <4>1. PICK outputs : last.result = Result(IssuesOf(last.diagnostics), outputs)
        BY <1>2, <2>1 DEF Reported
      <4>2. PICK issues : issues = IssuesOf(last.diagnostics) OBVIOUS
      <4> QED BY <4>1, <4>2 DEF Result
    <3> QED BY <3>1, <3>7, <3>8
  <2>2. CASE last.env = NoEnv
    <3>1. last.invocation = NewInvocation BY <1>2, <2>2 DEF EvaluatorInv, Evaluated
    <3>2. last.result.kind \in {"none", "list", "dict"} BY <1>2, <2>2 DEF Reported, Result
    <3> QED BY <3>1, <3>2 DEF NewInvocation
  <2> QED BY <2>1, <2>2
<1>3. EvaluatorInv /\ Reported /\ platform \in Platforms => TypeOK
  BY <1>2 DEF EvaluatorInv, ConfigOK, EnvironmentCached, TypeOK
<1> QED BY <1>1, <1>3, EvaluatorAlways, ReportedAlways, PTL
=============================================================================
