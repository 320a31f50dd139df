---------------------- MODULE MCCompilerConfigDetector ----------------------
(***************************************************************************)
(* Small instances of CompilerConfigDetector: what a compiler prints with  *)
(* -v -E, cut down to a few lines, in several orders of the two streams.   *)
(* The list of directories is printed in one piece.                        *)
(***************************************************************************)
EXTENDS CompilerConfigDetector

MCTexts == {"", "search", "end", "spaces", "triple", "target", "dir1", "dir2", "code",
            "sdk", "other sdk"}

\* usr/include/c++/v1, usr/include and the headers of the kernel
MCBelow(text) == <<text \o "/c++/v1", text \o "/include", text \o "/Headers">>

Err(text) == [to |-> "err", text |-> text, ended |-> TRUE]
Out(text) == [to |-> "out", text |-> text, ended |-> TRUE]
\* The child ends without a newline.
Cut(w) == [w EXCEPT !.ended = FALSE]

\* What the preprocessor prints on its two streams.
Code == Out("code")
Blank == Out("")
TwoDirs == <<Err("search"), Err("dir1"), Err("dir2"), Err("end")>>

\* The streams take turns, one comes after the other, or one is empty; the list
\* is whole, has a line of spaces only, or is missing.
MCScripts == {
    <<Err("triple"), Code>> \o TwoDirs \o <<Blank, Code>>,
    <<Err("target")>> \o TwoDirs \o <<Code, Code>>,
    TwoDirs,
    <<Code, Code, Code>> \o TwoDirs \o <<Err("triple")>>,
    <<Err("search"), Err("spaces"), Err("end"), Cut(Code)>>,
    <<Err("search"), Err("dir1"), Err("end"), Cut(Err("target")), Code, Code>>,
    <<Err("triple"), Err("search"), Err("dir1")>>,
    <<Code, Cut(Err("target"))>>,
    <<Err("search"), Err("end"), Err("triple"), Code>>,
    <<Err("sdk"), Code, Err("other sdk")>> \o TwoDirs \o <<Cut(Code)>>,
    <<>> }

=============================================================================
