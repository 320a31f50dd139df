---------------------------- MODULE ShellCommand ----------------------------
(***************************************************************************)
(* runShellCommand (LLVM/source/CompilerConfigDetector.cpp:18-149): starts *)
(* the compiler as a child process, reads the lines it prints and returns  *)
(* them as one response.  On Linux and on macOS each of the two output     *)
(* streams has its own pipe and the reader takes a line from one, then     *)
(* from the other; on Windows both go through one pipe, and the reader     *)
(* stops once it sees that the child is gone.                              *)
(*                                                                         *)
(* A pipe stands for the pipe and the buffer of the ipstream behind it and *)
(* is counted in lines.  The shell between the reader and the compiler on  *)
(* Windows, and the \r at the end of its lines, are left out.              *)
(***************************************************************************)
EXTENDS Filtering, FiniteSets

CONSTANTS
    Platforms,   \* the branches of the #if to look at
    Texts,       \* the lines a compiler may print
    Scripts,     \* what it prints, in order: sequences of writes
    Capacity,    \* lines a pipe holds
    MaxRepeats   \* bound: how often an unended line is stored again before the
                 \* system reports a child that has closed its pipes as gone

NoText == ""
Streams == {"err", "out"}
Writes == [to : Streams, text : Texts, ended : BOOLEAN]
To(s) == {w \in Writes : w.to = s}

ASSUME ShellAssumption ==
    /\ Platforms \subseteq {"linux", "windows", "apple"}
    /\ NoText \in Texts
    /\ Scripts \subseteq Seq(Writes)
    /\ Capacity \in Nat \ {0}
    /\ MaxRepeats \in Nat

\* A write is a line: only the last one to a stream may lack its newline.
ASSUME LinesAssumption ==
    \A text \in Scripts, s \in Streams :
        LET lines == Kept(text, To(s)) IN \A i \in 1..(Len(lines) - 1) : lines[i].ended

VARIABLES
    platform,    \* the platform the program was built for
    script,      \* what this child prints
    child,       \* bp::child c
    written,     \* how much of the script it has printed
    pipes,       \* lines that are written and not read
    state,       \* the iostate of stdErr and stdOut (is, on Windows)
    line,        \* stdErrLine and stdOutLine
    got,         \* bHasStdErr and bHasStdOut
    response,    \* stdErrResponse and stdOutResponse
    pc           \* where the caller is

OnePipe == platform = "windows"

shellVars == <<platform, script, child, written, pipes, state, line, got, response, pc>>

ShellInit ==
    /\ platform \in Platforms
    /\ script \in Scripts
    /\ child = "none"
    /\ written = 0
    /\ pipes = [s \in Streams |-> <<>>]
    /\ state = [s \in Streams |-> "good"]
    /\ line = [s \in Streams |-> NoText]
    /\ got = [s \in Streams |-> FALSE]
    /\ response = [s \in Streams |-> <<>>]
    /\ pc = "locate"

Spawn ==
    /\ pc = "spawn"
    /\ child' = "running"
    /\ pc' = IF OnePipe THEN "test" ELSE "readErr"
    /\ UNCHANGED <<platform, script, written, pipes, state, line, got, response>>

-----------------------------------------------------------------------------
(* The child *)

\* std_out > is, std_err > is
Pipe(s) == IF OnePipe THEN "out" ELSE s

HasRoom(s) == Len(pipes[s]) < Capacity

ChildWrites ==
    /\ child = "running" /\ written < Len(script)
    /\ LET w == script[written + 1]
       IN  /\ HasRoom(Pipe(w.to))
           /\ pipes' = [pipes EXCEPT ![Pipe(w.to)] = Append(@, w)]
    /\ written' = written + 1
    /\ UNCHANGED <<platform, script, child, state, line, got, response, pc>>

\* A process that ends loses its pipes first and is reported as gone later.
ChildCloses ==
    /\ child = "running" /\ written = Len(script)
    /\ child' = "closed"
    /\ UNCHANGED <<platform, script, written, pipes, state, line, got, response, pc>>

ChildExits ==
    /\ child = "closed"
    /\ child' = "exited"
    /\ UNCHANGED <<platform, script, written, pipes, state, line, got, response, pc>>

-----------------------------------------------------------------------------
(* The reader *)

\* A write end left open in the program itself would keep the pipe open.
HeldOpen == FALSE
EndOfFile == child \in {"closed", "exited"}

\* std::getline clears the line only if the stream was good: after a last line
\* without newline the stream is at its end and the next call keeps that line.
GetLine(s) ==
    \/ /\ state[s] # "good"
       /\ state' = [state EXCEPT ![s] = "fail"]
       /\ got' = [got EXCEPT ![s] = FALSE]
       /\ UNCHANGED <<line, pipes>>
    \/ /\ state[s] = "good" /\ pipes[s] # <<>>
       /\ Head(pipes[s]).ended \/ EndOfFile
       /\ line' = [line EXCEPT ![s] = Head(pipes[s]).text]
       /\ pipes' = [pipes EXCEPT ![s] = Tail(@)]
       /\ got' = [got EXCEPT ![s] = TRUE]
       /\ state' = [state EXCEPT ![s] = IF Head(pipes[s]).ended THEN "good" ELSE "eof"]
    \/ /\ state[s] = "good" /\ pipes[s] = <<>> /\ EndOfFile
       /\ line' = [line EXCEPT ![s] = NoText]
       /\ state' = [state EXCEPT ![s] = "fail"]
       /\ got' = [got EXCEPT ![s] = FALSE]
       /\ UNCHANGED pipes

StoredAnyway(s, text) == Append(response[s], text)
Stored(s, text) == IF text = NoText THEN response[s] ELSE Append(response[s], text)

ReadErr ==
    /\ pc = "readErr" /\ GetLine("err")
    /\ pc' = "readOut"
    /\ UNCHANGED <<platform, script, child, written, response>>

ReadOut ==
    /\ pc = "readOut" /\ GetLine("out")
    /\ pc' = "store"
    /\ UNCHANGED <<platform, script, child, written, response>>

CanReadWhileRunning == child # "exited"
CanRead == child # "exited" \/ got["err"] \/ got["out"]

\* The reader spins while the child is closed and not yet gone.
WithinRepeats ==
    child = "closed" => \A s \in Streams : Len(response[s]) < Len(script) + MaxRepeats

StoreLines ==
    /\ pc = "store" /\ WithinRepeats
    /\ response' = [s \in Streams |-> Stored(s, line[s])]
    /\ pc' = IF CanRead THEN "readErr" ELSE "wait"
    /\ UNCHANGED <<platform, script, child, written, pipes, state, line, got>>

\* while (c.running() && std::getline(is, line)): two steps
TestRunning ==
    /\ pc = "test"
    /\ pc' = IF child # "exited" THEN "getline" ELSE "wait"
    /\ UNCHANGED <<platform, script, child, written, pipes, state, line, got, response>>

ReadMerged ==
    /\ pc = "getline" /\ GetLine("out")
    /\ response' = IF got'["out"]
                      THEN [response EXCEPT !["out"] = Stored("out", line'["out"])] ELSE response
    /\ pc' = IF got'["out"] THEN "test" ELSE "wait"
    /\ UNCHANGED <<platform, script, child, written>>

\* c.wait()
Wait ==
    /\ pc = "wait" /\ child = "exited"
    /\ pc' = "parse"
    /\ UNCHANGED <<platform, script, child, written, pipes, state, line, got, response>>

Response == response["out"] \o response["err"]

ChildStep == ChildWrites \/ ChildCloses \/ ChildExits
ReaderStep == Spawn \/ ReadErr \/ ReadOut \/ StoreLines \/ TestRunning \/ ReadMerged \/ Wait
ShellStep == ChildStep \/ ReaderStep

-----------------------------------------------------------------------------
(* Properties *)

ShellTypeOK ==
    /\ platform \in Platforms /\ script \in Scripts
    /\ child \in {"none", "running", "closed", "exited"}
    /\ written \in 0..Len(script)
    /\ pipes \in [Streams -> Seq(Writes)] /\ \A s \in Streams : Len(pipes[s]) <= Capacity
    /\ state \in [Streams -> {"good", "eof", "fail"}]
    /\ line \in [Streams -> Texts]
    /\ got \in [Streams -> BOOLEAN]
    /\ response \in [Streams -> Seq(Texts \ {NoText})]

\* The lines with something on them.
Lines(writes) ==
    LET kept == Kept(writes, {w \in Writes : w.text # NoText})
    IN  [i \in DOMAIN kept |-> kept[i].text]

Printed(s) == Lines(Kept(script, To(s)))

\* With a pipe for each stream the response holds every line of a stream, in order, whichever of
\* the streams ends first and whenever the child is seen to be gone; a last line
\* without newline may be repeated (CompilerConfigDetector.cpp:72-97, 116-141).
NoLineLost ==
    pc = "parse" /\ ~OnePipe =>
        \A s \in Streams :
            /\ Len(response[s]) >= Len(Printed(s))
            /\ \A i \in DOMAIN response[s] :
                 response[s][i] = Printed(s)[IF i <= Len(Printed(s)) THEN i ELSE Len(Printed(s))]

\* The streams keep so close together that a reader that alternates between
\* them never waits at one while the child waits for room in the other.
Lead(n) ==
    Cardinality({i \in 1..n : script[i].to = "err"})
      - Cardinality({i \in 1..n : script[i].to = "out"})
Balanced == \A n \in 0..Len(script) : Lead(n) \in (-Capacity)..(Capacity + 1)

-----------------------------------------------------------------------------
(* What the documentation says and the code does not do *)

\* "@return command output" (CompilerConfigDetector.cpp:16)
ReturnsCommandOutput ==
    pc = "parse" =>
        Len(Response) = Len(Printed("out")) + Len(Printed("err"))
=============================================================================
