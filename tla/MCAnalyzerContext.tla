------------------------- MODULE MCAnalyzerContext -------------------------
(***************************************************************************)
(* Small instances of AnalyzerContext.  Two headers: "base" declares       *)
(* Base and Shared; "derived" declares Derived (a child of Base), Shared   *)
(* again and a type of no kind.  What a header reports depends on the      *)
(* options and on the environment, so that a stale copy of either shows.   *)
(***************************************************************************)
EXTENDS AnalyzerContext, TLC

CONSTANTS c1, c2

MCNames == {"Base", "Shared", "Derived", "Void", "Optional", "Hidden"}
MCHeaders == {"base", "derived"}
MCIssues == {"base", "derived", "environment"}

Type(name, kind, parents) == [name |-> name, kind |-> kind, parents |-> parents]

Declared(h) ==
    CASE h = "base" -> <<Type("Base", "class", {}), Type("Shared", "trivial", {})>>
      [] h = "derived" -> <<Type("Shared", "trivial", {}), Type("Void", "none", {}),
                            Type("Derived", "class", {"Base"})>>

\* Two settings decide what "base" reports beside the types above.
Extra(h, cfg, env) ==
    (IF h = "base" /\ cfg.options = "on" /\ env = "second"
        THEN <<Type("Optional", "enum", {})>> ELSE <<>>)
    \o (IF h = "base" /\ cfg.nonRuntime THEN <<Type("Hidden", "class", {})>> ELSE <<>>)

MCAnalysisOf ==
    [h \in MCHeaders |-> [cfg \in Configs |-> [env \in Envs \cup {NoEnv} |->
        [types |-> Declared(h) \o Extra(h, cfg, env), issues |-> <<h>>]]]]

BothHeaders == {<<"base", "derived">>}
ManyLists == {<<"base", "derived">>, <<"base", "base">>}

Symmetry == Permutations(Clients)
=============================================================================
