----------------------- MODULE CompilerConfigDetector -----------------------
(***************************************************************************)
(* CompilerConfigDetector::detectSystemCompilerEnvironment: locates the    *)
(* compiler through PATH, runs it with ShellCommand and reads the system   *)
(* include directories and the target triple off what it printed           *)
(* (LLVM/source/CompilerConfigDetector.cpp:151-418).  On macOS it reads    *)
(* the sysroot instead, and the directories are those below it; the        *)
(* versions it also reads there are used nowhere and left out.             *)
(***************************************************************************)
EXTENDS ShellCommand

CONSTANTS
    SearchStarts,   \* the line "#include <...> search starts here:"
    EndOfList,      \* the line "End of search list."
    Spaces,         \* a line of spaces
    TripleLines,    \* lines that have "-triple x "
    TargetLines,    \* lines that have "--target=x"
    SysrootLines,   \* lines that have "-isysroot x "
    Below(_)        \* the directories in the sysroot that such a line names

ASSUME DetectorAssumption ==
    /\ {SearchStarts, EndOfList, Spaces} \cup TripleLines \cup TargetLines \cup SysrootLines
          \subseteq Texts \ {NoText}
    /\ SearchStarts # EndOfList /\ Spaces \notin {SearchStarts, EndOfList}

\* With -v the compiler describes itself on stderr, and prints the list of
\* directories in one piece.
ASSUME OutputAssumption ==
    \A text \in Scripts : \A i \in DOMAIN text :
        \/ text[i].text \in {SearchStarts, EndOfList} \cup SysrootLines
        \/ \E start, end \in DOMAIN text :
              /\ start < i /\ i < end
              /\ text[start].text = SearchStarts /\ text[end].text = EndOfList
        => text[i].to = "err"

VARIABLE result     \* what detectSystemCompilerEnvironment returned

vars == <<shellVars, result>>

NoResult == [kind |-> "none"]
Error(kind) == [kind |-> "error", error |-> kind]
Environment(includes, triple) == [kind |-> "env", includes |-> includes, triple |-> triple]

Init == ShellInit /\ result = NoResult

-----------------------------------------------------------------------------
(* Locating and starting the compiler *)

Fail(kind) ==
    /\ pc' = "done"
    /\ result' = Error(kind)
    /\ UNCHANGED <<platform, script, child, written, pipes, state, line, got, response>>

NoPaths == pc = "locate" /\ Fail("EK_NO_PATHS")

NoCompiler == pc = "locate" /\ Fail("EK_NO_CLANG_INSTANCE")

Locate ==
    /\ pc = "locate"
    /\ pc' = "spawn"
    /\ UNCHANGED <<platform, script, child, written, pipes, state, line, got, response, result>>

\* bp::child throws when the process cannot be started.
SpawnThrows ==
    /\ pc = "spawn"
    /\ pc' = "done"
    /\ result' = [kind |-> "thrown"]
    /\ UNCHANGED <<platform, script, child, written, pipes, state, line, got, response>>

-----------------------------------------------------------------------------
(* parseClangOutput *)

Positions(lines, text) == {i \in DOMAIN lines : lines[i] = text}
First(S) == CHOOSE i \in S : \A j \in S : i <= j

\* Where the list of directories starts, and where its end marker can be.
StartOfList(lines) == First(Positions(lines, SearchStarts))
EndsOfList(lines) == {e \in Positions(lines, EndOfList) : e > StartOfList(lines)}

HasStart(lines) == Positions(lines, SearchStarts) # {}
HasList(lines) == Positions(lines, SearchStarts) # {} /\ EndsOfList(lines) # {}

\* When the end marker follows the start marker at once, the length of the text
\* between them is -1, which substr takes for all the rest of the response.
List(lines) ==
    LET start == StartOfList(lines)
        end == First(EndsOfList(lines) \cup {Len(lines) + 1})
    IN  SubSeq(lines, start + 1, IF end = start + 1 THEN Len(lines) ELSE end - 1)

Includes(lines) == Kept(List(lines), Texts \ {Spaces})

\* On macOS the first "-isysroot" wins, and what else was found is dropped.
Sysroots(lines) == {i \in DOMAIN lines : lines[i] \in SysrootLines}
LastSysroot(lines) == CHOOSE i \in Sysroots(lines) : \A j \in Sysroots(lines) : j <= i
FirstSysroot(lines) == First(Sysroots(lines))

\* The first "-triple" wins; "--target=" is looked at on Linux only.
Triple(lines) ==
    LET named == {i \in DOMAIN lines : lines[i] \in TripleLines}
        configured == {i \in DOMAIN lines : lines[i] \in TargetLines}
    IN  IF named # {} THEN lines[First(named)]
        ELSE IF platform = "linux" /\ configured # {} THEN lines[First(configured)]
        ELSE NoText

DetectedBelow(lines) ==
    IF Sysroots(lines) = {} THEN Error("EK_BAD_CLANG_OUTPUT")
    ELSE Environment(Below(lines[FirstSysroot(lines)]), Triple(lines))

Detected(lines) ==
    IF platform = "apple" THEN DetectedBelow(lines)
    ELSE IF ~HasList(lines) THEN Error("EK_BAD_CLANG_OUTPUT")
    ELSE IF Includes(lines) = <<>> THEN Error("EK_NO_SYSTEM_INCLUDE_DIRS_FOUND")
    ELSE Environment(Includes(lines), Triple(lines))

\* An empty response is a bad output, too.
Parse ==
    /\ pc = "parse"
    /\ result' = Detected(Response)
    /\ pc' = "done"
    /\ UNCHANGED <<platform, script, child, written, pipes, state, line, got, response>>

-----------------------------------------------------------------------------
Next ==
    \/ NoPaths \/ NoCompiler \/ Locate \/ SpawnThrows \/ Parse
    \/ ShellStep /\ UNCHANGED result

\* Both processes run, and the detector answers.
Fairness ==
    /\ WF_shellVars(ChildStep)
    /\ WF_shellVars(ReaderStep)
    /\ WF_vars(NoPaths \/ NoCompiler \/ Locate)
    /\ WF_vars(Parse)

Spec == Init /\ [][Next]_vars /\ Fairness

-----------------------------------------------------------------------------
(* Properties *)

TypeOK ==
    /\ ShellTypeOK
    /\ pc \in {"locate", "spawn", "readErr", "readOut", "store", "test", "getline", "wait",
               "parse", "done"}
    /\ result.kind \in {"none", "error", "env", "thrown"}

\* The directories the child lists, from the start marker to the end marker.
Listed ==
    LET err == Printed("err")
        before == {i \in DOMAIN err : \E j \in 1..(i - 1) : err[j] = EndOfList}
        after == {i \in DOMAIN err : \E j \in 1..(i - 1) : err[j] = SearchStarts}
        marked == [i \in DOMAIN err |-> IF i \in after \ before THEN err[i] ELSE EndOfList]
    IN  Kept(marked, Texts \ {EndOfList, Spaces})

\* The sysroot of the invocation that the child names first.
SysrootsNamed == {i \in DOMAIN Printed("err") : Printed("err")[i] \in SysrootLines}

\* An environment always has the whole list of directories: a response that
\* lost lines is refused and never taken for a shorter list, nor, on macOS, for one
\* of another sysroot (CompilerConfigDetector.cpp:36-48, 162-172, 395-413).
EnvironmentWhole ==
    result.kind = "env" =>
        IF platform = "apple"
           THEN SysrootsNamed # {} /\ result.includes = Below(Printed("err")[First(SysrootsNamed)])
           ELSE Listed # <<>> => result.includes = Listed

\* Detection answers when the compiler ends, however the reader and the child
\* overtake one another, if the streams are balanced (72-99).
DetectionEnds == (platform = "windows" \/ Balanced) ~> pc = "done"
=============================================================================
