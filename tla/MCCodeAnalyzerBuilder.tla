----------------------- MODULE MCCodeAnalyzerBuilder -----------------------
(***************************************************************************)
(* A small instance of CodeAnalyzerBuilder.  One source declares Base and  *)
(* Derived, a child of it; the other declares Derived twice, as a nested   *)
(* class is reported, and Base only when the non-runtime types are asked   *)
(* for.  What is reported depends on the options and definitions, too.     *)
(***************************************************************************)
EXTENDS CodeAnalyzerBuilder

MCNames == {"Base", "Derived", "Mode", "Size"}
MCSources == {"both", "nested"}
MCDefinitions == {<<"EXTRA">>}

Type(name, kind, parents) == [name |-> name, kind |-> kind, parents |-> parents]
Base == Type("Base", "class", {})
Derived == Type("Derived", "class", {"Base"})

MCAnalysisOf(src, cfg, e) ==
    [types |->
        (IF src = "both" THEN <<Base, Derived>> ELSE <<Derived, Derived>>)
        \o (IF src = "nested" /\ cfg.nonRuntime THEN <<Base>> ELSE <<>>)
        \o (IF cfg.options = "on" THEN <<Type("Mode", "enum", {})>> ELSE <<>>)
        \o (IF cfg.defs # <<>> THEN <<Type("Size", "none", {})>> ELSE <<>>),
     issues |-> IF cfg.options = "on" THEN <<>> ELSE <<"missing">>]
=============================================================================
