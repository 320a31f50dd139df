----------------------- MODULE CompilerInstanceFactory -----------------------
(***************************************************************************)
(* What CompilerInstanceFactory::makeInstance                              *)
(* (LLVM/source/CompilerInstanceFactory.cpp) tells clang: the arguments,   *)
(* the macros and the directories of the invocation that clang then runs.  *)
(*                                                                         *)
(* A CompilerInstance owns an invocation from the start; setInvocation     *)
(* replaces it.  What is set before goes to the one that is thrown away,   *)
(* but for the target, which the instance keeps beside its invocation.     *)
(***************************************************************************)
EXTENDS Filtering, SequencesExt

CONSTANT Words      \* the strings that arguments, macros and paths are made of

Macro(name, value) == [name |-> name, value |-> value]
Macros == [name : Words, value : Words]

\* An IncludeInfo: a directory and its kind.
IncludeKinds == {"IK_PROJECT", "IK_SYSTEM", "IK_C_SYSTEM", "IK_SYSROOT", "IK_THIRD_PARTY"}
Includes == [path : Words, kind : IncludeKinds]

NewInvocation ==
    [args |-> <<>>, standard |-> "CXX_DEFAULT", target |-> "host", skipBodies |-> FALSE,
     macros |-> <<>>, dirs |-> <<>>]

\* addMacroDef: of two definitions of a name the later one counts.
Defining(invocation, macros) == [invocation EXCEPT !.macros = @ \o macros]
ValueOf(invocation, name) ==
    LET named == Kept(invocation.macros, {m \in Macros : m.name = name})
    IN  IF named = <<>> THEN "undefined" ELSE Last(named).value

SetInvocation(own, fresh) == [fresh EXCEPT !.target = own.target]

\* What RG3 adds itself.
OwnWords ==
    {"-fms-extensions", "-fdelayed-template-parsing", "-fms-compatibility-version=19", "-x", "c++-header",
     "__RG3__", "__RG3_COMMIT__", "__RG3_BUILD_DATE__", "__GNUC__", "__RG3_CODE_EVAL__",
     "1", "4", "hash", "date"}
ASSUME WordsAssumption == OwnWords \subseteq Words

-----------------------------------------------------------------------------
PlatformArgs(platform) ==
    IF platform = "windows"
       THEN <<"-fms-extensions", "-fdelayed-template-parsing", "-fms-compatibility-version=19">>
       ELSE <<>>

FirstLanguage(args) == SelectInSeq(args, LAMBDA a : a = "-x")

\* The first -x goes, and its operand if it has one.
WithoutFlag(args) == IF FirstLanguage(args) = 0 THEN args ELSE RemoveAt(args, FirstLanguage(args))
WithoutLanguage(args) ==
    LET x == FirstLanguage(args)
    IN  IF x = 0 THEN args ELSE SubSeq(args, 1, x - 1) \o SubSeq(args, x + 2, Len(args))

ProxyArgs(args, platform) ==
    WithoutLanguage(args \o PlatformArgs(platform)) \o <<"-x", "c++-header">>

\* Added before setInvocation, ...
PlatformMacros(platform) ==
    CASE platform = "windows" ->
            <<Macro("_MSC_VER", "1932"), Macro("_MSC_FULL_VER", "193231329"),
              Macro("_MSC_EXTENSIONS", "1"), Macro("_ALLOW_COMPILER_AND_STL_VERSION_MISMATCH", "1")>>
      [] platform = "apple" -> <<Macro("__GCC_HAVE_DWARF2_CFI_ASM", "1")>>
      [] OTHER -> <<>>

\* ... and after it.
Builtins(platform) ==
    <<Macro("__RG3__", "1"), Macro("__RG3_COMMIT__", "hash"), Macro("__RG3_BUILD_DATE__", "date")>>
    \o (IF platform = "apple" THEN <<Macro("__GNUC__", "4")>> ELSE <<>>)

BuiltinsFirst(definitions, platform) == Builtins(platform) \o definitions
BuiltinsLast(definitions, platform) == definitions \o Builtins(platform)

AlwaysAngled(kind) == "angled"
Group(kind) ==
    CASE kind = "IK_SYSTEM" -> "system"
      [] kind = "IK_C_SYSTEM" -> "externC"
      [] OTHER -> "angled"

\* The environment's directories are added first, then the script's.
AddedDirs(config, env) ==
    LET detected == Kept(env.dirs, {d \in Includes : d.kind # "IK_SYSROOT"})
    IN  [i \in DOMAIN detected |-> [path |-> detected[i].path, group |-> Group(detected[i].kind)]]
        \o [i \in DOMAIN config.includes |-> [path |-> config.includes[i].path, group |-> "angled"]]

\* Clang looks into every angled directory before the other groups, but not where
\* it is a system directory, too: the entry of the user is dropped and the one of
\* the system stays.  Looking twice at a directory of one group changes nothing.
Dirs == [path : Words, group : {"angled", "system", "externC"}]
Angled == {d \in Dirs : d.group = "angled"}
Shadowed(dirs) == {d \in Angled : \E s \in Range(dirs) \ Angled : s.path = d.path}
SearchOrder(dirs) == Kept(dirs, Angled \ Shadowed(dirs)) \o Kept(dirs, Dirs \ Angled)

MakeInstance(config, env, platform) ==
    LET own == [Defining(NewInvocation, PlatformMacros(platform)) EXCEPT
                    !.target = IF platform = "apple" \/ env.triple = "" THEN "host" ELSE env.triple]
        fresh == [NewInvocation EXCEPT
                    !.args = ProxyArgs(config.args, platform),
                    !.standard = config.cpp_standard]
        instance == [SetInvocation(own, fresh) EXCEPT
                    !.skipBodies = config.skip_function_bodies,
                    !.dirs = SearchOrder(AddedDirs(config, env))]
    IN  Defining(instance, BuiltinsLast(config.definitions, platform))
=============================================================================
