-------------------------- MODULE MCCodeEvaluator --------------------------
(***************************************************************************)
(* A small instance of CodeEvaluator: four texts, whose variables and      *)
(* diagnostics depend on the standard and on the macros; analyzers that    *)
(* pass a language, twice or without its operand, a macro of RG3's own and *)
(* directories, of which one may be detected, too; and dictionaries that   *)
(* fail at each of their entries.                                          *)
(***************************************************************************)
EXTENDS CodeEvaluator

MCWords == STRING

MCStandards == {"CXX_11", "CXX_20"}
MCCodes == {"twice", "guarded", "modern", "warned"}
MCCaptures == {{}, {"a", "b"}}

Extra == Macro("EXTRA", "1")
Own == Macro("__RG3__", "0")
More == Macro("MORE", "1")
Dir(path, kind) == [path |-> path, kind |-> kind]

MCEnvs ==
    {[triple |-> "", dirs |-> <<Dir("/usr/include", "IK_SYSTEM")>>],
     [triple |-> "x86_64", dirs |-> <<Dir("/sdk", "IK_SYSROOT"), Dir("/cxx", "IK_SYSTEM"),
                                     Dir("/usr/include", "IK_SYSTEM")>>]}

MCStartConfigs ==
    {[DefaultConfig EXCEPT !.args = a, !.definitions = <<Own>>,
                           !.includes = <<Dir("/cxx", "IK_PROJECT"), Dir("project", "IK_PROJECT")>>] :
        a \in {<<"-Wall", "-x", "c++-header">>, <<"-x", "c", "-x", "c++", "-Wall">>, <<"-Wall", "-x">>}}

Entry(key, value) == [key |-> key, value |-> value]
Standard == Entry("cpp_standard", "CXX_20")
MCDescriptions ==
    {<<Standard>>,
     <<Entry("definitions", <<Extra, Own>>), Standard>>,
     <<Standard, Entry("definitions", <<More, Bad, Extra>>), Entry("skip_function_bodies", FALSE)>>,
     <<Entry("definitions", Bad), Standard>>,
     <<Entry("unknown", Bad), Entry("skip_function_bodies", FALSE), Entry(Bad, Bad), Standard>>,
     <<Entry("allow_collect_non_runtime", TRUE), Entry("cpp_standard", Bad)>>}

Var(name, type) == [name |-> name, type |-> type, constexpr |-> TRUE]
Unit(diagnostics, vs) == [diagnostics |-> diagnostics, vars |-> vs]
MCUnitOf(code, invocation) ==
    CASE code = "twice" -> Unit(<<"remark", "note">>, <<Var("a", "signed"), Var("b", "array"), Var("a", "double")>>)
      [] code = "guarded" -> IF ValueOf(invocation, "EXTRA") = "1"
                                THEN Unit(<<>>, <<Var("a", "bool")>>) ELSE Unit(<<"fatal">>, <<>>)
      [] code = "modern" -> IF invocation.standard = "CXX_20"
                                THEN Unit(<<>>, <<Var("b", "string")>>) ELSE Unit(<<"note", "error">>, <<>>)
      [] code = "warned" -> Unit(<<"warning">>, <<Var("a", "unsigned")>>)
=============================================================================
