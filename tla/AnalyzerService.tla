--------------------------- MODULE AnalyzerService ---------------------------
(***************************************************************************)
(* What an AnalyzerContext promises the Python code that uses it, with no  *)
(* threads, queue or locks: an analysis that is running freezes the        *)
(* settings and hides every result, and when it ends the getters show      *)
(* either nothing or the types of every header, each name once.            *)
(***************************************************************************)
CONSTANTS
    Inputs,        \* what an analysis depends on: <<headers, config>>
    Envs,          \* compiler environments
    NoTypes,       \* what the getters show when there is nothing to show
    NamesOf(_, _)  \* the names an analysis of an input in an environment reports

VARIABLES running, input, shown

Init ==
    /\ running = FALSE
    /\ input \in Inputs
    /\ shown = NoTypes

Configure ==
    /\ ~running
    /\ input' \in Inputs
    /\ UNCHANGED <<running, shown>>

Begin ==
    /\ ~running
    /\ running' = TRUE
    /\ shown' = NoTypes
    /\ UNCHANGED input

Complete ==
    /\ running
    /\ running' = FALSE
    /\ \E env \in Envs : shown' = NamesOf(input, env)
    /\ UNCHANGED input

\* No environment, or too few workers: nothing was analysed.
GiveUp ==
    /\ running
    /\ running' = FALSE
    /\ shown' = NoTypes
    /\ UNCHANGED input

Next == Configure \/ Begin \/ Complete \/ GiveUp

Spec == Init /\ [][Next]_<<running, input, shown>>
=============================================================================
