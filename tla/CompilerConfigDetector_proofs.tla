------------------- MODULE CompilerConfigDetector_proofs -------------------
(***************************************************************************)
(* Theorems about ShellCommand and CompilerConfigDetector, for whatever a  *)
(* compiler prints, pipes of any size, and any order of the steps of the   *)
(* reader and the child.                                                   *)
(***************************************************************************)
EXTENDS CompilerConfigDetector, Filtering_proofs

-----------------------------------------------------------------------------
(* What a reader has of a stream *)

\* What the child has written into a pipe.
Into(s) ==
    IF ~OnePipe THEN Kept(SubSeq(script, 1, written), To(s))
    ELSE IF s = "out" THEN SubSeq(script, 1, written) ELSE <<>>

\* A line that was read and is not stored yet belongs to the response.
Pending(s) == pc = "store" \/ (pc = "readOut" /\ s = "err")
WithPending(s) == IF Pending(s) THEN Stored(s, line[s]) ELSE response[s]

\* All lines, and after them any number of repeats of the last one.
Extends(got_lines, lines) ==
    /\ Len(got_lines) >= Len(lines)
    /\ lines = <<>> => got_lines = <<>>
    /\ \A i \in 1..Len(got_lines) :
          got_lines[i] = lines[IF i <= Len(lines) THEN i ELSE Len(lines)]

\* While a stream is good the response has the lines taken from it and no other;
\* afterwards all is taken, and what is stored again is its last line.
HasTaken(s, taken) ==
    IF state[s] = "good"
       THEN WithPending(s) = Lines(taken) /\ (Pending(s) => got[s])
       ELSE /\ EndOfFile /\ pipes[s] = <<>>
            /\ Extends(WithPending(s), Lines(taken))
            /\ \/ line[s] = NoText
               \/ Lines(taken) # <<>> /\ line[s] = Lines(taken)[Len(Lines(taken))]

TwoStreams ==
    /\ \A s \in Streams : \E taken \in Seq(Writes) :
          Into(s) = taken \o pipes[s] /\ HasTaken(s, taken)
    /\ pc \in {"wait", "parse"} => \A s \in Streams : state[s] # "good"
    /\ pc \notin {"test", "getline"}

\* The one pipe is read in order, and need not be read to its end.
OneStream ==
    /\ response["err"] = <<>>
    /\ \E taken \in Seq(Writes) :
          Into("out") = taken \o pipes["out"] /\ response["out"] = Lines(taken)
    /\ pc \notin {"readErr", "readOut", "store"}

ReadInOrder ==
    /\ pc \in {"locate", "spawn"} => child = "none"
    /\ EndOfFile => written = Len(script)
    /\ IF OnePipe THEN OneStream ELSE TwoStreams

-----------------------------------------------------------------------------
(* The types *)

\* What GetLine leaves is typed.
LEMMA GetLineTyped ==
    ASSUME ShellTypeOK, NEW s \in Streams, GetLine(s)
    PROVE  /\ pipes' \in [Streams -> Seq(Writes)]
           /\ \A r \in Streams : Len(pipes'[r]) <= Capacity
           /\ state' \in [Streams -> {"good", "eof", "fail"}]
           /\ line' \in [Streams -> Texts]
           /\ got' \in [Streams -> BOOLEAN]
<1>1. CASE pipes' = pipes
  <2>1. NoText \in Texts BY ShellAssumption
  <2>2. got' \in [Streams -> BOOLEAN] BY <1>1 DEF GetLine, ShellTypeOK
  <2>3. state' \in [Streams -> {"good", "eof", "fail"}] BY <1>1 DEF GetLine, ShellTypeOK
  <2>4. \/ line' = line
        \/ line' = [line EXCEPT ![s] = NoText]
        \/ pipes[s] # <<>> /\ line' = [line EXCEPT ![s] = Head(pipes[s]).text]
    BY DEF GetLine
  <2>5. pipes[s] # <<>> => Head(pipes[s]).text \in Texts
    <3>1. pipes[s] # <<>> => Head(pipes[s]) \in Writes BY DEF ShellTypeOK
    <3> QED BY <3>1 DEF Writes
  <2>6. line' \in [Streams -> Texts] BY <2>1, <2>4, <2>5 DEF ShellTypeOK
  <2> QED BY <1>1, <2>2, <2>3, <2>6 DEF ShellTypeOK
<1>2. CASE pipes' # pipes
  <2>1. /\ pipes[s] # <<>>
        /\ line' = [line EXCEPT ![s] = Head(pipes[s]).text]
        /\ pipes' = [pipes EXCEPT ![s] = Tail(pipes[s])]
        /\ got' = [got EXCEPT ![s] = TRUE]
        /\ state' = [state EXCEPT ![s] = IF Head(pipes[s]).ended THEN "good" ELSE "eof"]
    BY <1>2 DEF GetLine
  <2>2. Head(pipes[s]) \in Writes /\ Tail(pipes[s]) \in Seq(Writes)
        /\ Len(Tail(pipes[s])) = Len(pipes[s]) - 1
    BY <2>1 DEF ShellTypeOK
  <2>3. Len(Tail(pipes[s])) <= Capacity
    <3>1. Len(pipes[s]) \in Nat /\ Len(pipes[s]) <= Capacity /\ Capacity \in Nat
      BY ShellAssumption DEF ShellTypeOK
    <3> QED BY <2>2, <3>1
  <2>4. pipes' \in [Streams -> Seq(Writes)] /\ \A r \in Streams : Len(pipes'[r]) <= Capacity
    BY <2>1, <2>2, <2>3 DEF ShellTypeOK
  <2>5. line' \in [Streams -> Texts] BY <2>1, <2>2 DEF ShellTypeOK, Writes
  <2>6. got' \in [Streams -> BOOLEAN] /\ state' \in [Streams -> {"good", "eof", "fail"}]
    BY <2>1 DEF ShellTypeOK
  <2> QED BY <2>4, <2>5, <2>6
<1> QED BY <1>1, <1>2

\* So is what is stored.
LEMMA StoredTyped ==
    ASSUME ShellTypeOK, NEW s \in Streams, NEW text \in Texts
    PROVE  Stored(s, text) \in Seq(Texts \ {NoText})
BY DEF ShellTypeOK, Stored

LEMMA DetectedTyped ==
    ASSUME NEW lines
    PROVE  Detected(lines).kind \in {"error", "env"}
BY DEF Detected, DetectedBelow, Error, Environment

\* The fields that a step reads and writes have their types
\* (CompilerConfigDetector.cpp:24-149, 338-418).
THEOREM Typing == Spec => []TypeOK
<1>1. Init => TypeOK
  BY ShellAssumption DEF Init, ShellInit, TypeOK, ShellTypeOK, NoResult, Streams
<1>2. TypeOK /\ [Next]_vars => TypeOK'
  <2> SUFFICES ASSUME TypeOK, [Next]_vars PROVE TypeOK' OBVIOUS
  <2> USE DEF TypeOK
  <2>1. CASE UNCHANGED vars BY <2>1 DEF vars, shellVars, ShellTypeOK
  <2>2. ASSUME NEW kind, Fail(kind) PROVE TypeOK' BY <2>2 DEF Fail, Error, ShellTypeOK
  <2>3. CASE Locate BY <2>3 DEF Locate, ShellTypeOK
  <2>4. CASE SpawnThrows BY <2>4 DEF SpawnThrows, ShellTypeOK
  <2>5. CASE Parse BY <2>5, DetectedTyped DEF Parse, ShellTypeOK
  <2>6. CASE ChildWrites /\ UNCHANGED result
    <3> DEFINE w == script[written + 1]
    <3>1. script \in Seq(Writes) BY ShellAssumption DEF ShellTypeOK
    <3>2. written + 1 \in 1..Len(script) BY <2>6, <3>1 DEF ChildWrites, ShellTypeOK
    <3>3. w \in Writes BY <3>1, <3>2
    <3>4. Pipe(w.to) \in Streams BY <3>3 DEF Pipe, Writes, Streams
    <3>5. /\ Len(pipes[Pipe(w.to)]) < Capacity
          /\ pipes' = [pipes EXCEPT ![Pipe(w.to)] = Append(pipes[Pipe(w.to)], w)]
      BY <2>6 DEF ChildWrites, HasRoom
    <3> HIDE DEF w
    <3>6. pipes' \in [Streams -> Seq(Writes)] BY <3>3, <3>4, <3>5 DEF ShellTypeOK
    <3>7. \A s \in Streams : Len(pipes'[s]) <= Capacity
      <4>1. Capacity \in Nat BY ShellAssumption
      <4>2. Len(Append(pipes[Pipe(w.to)], w)) <= Capacity
        BY <3>3, <3>4, <3>5, <4>1 DEF ShellTypeOK
      <4> QED BY <3>4, <3>5, <4>2 DEF ShellTypeOK
    <3>8. written' \in 0..Len(script) BY <2>6, <3>2 DEF ChildWrites
    <3> QED BY <2>6, <3>6, <3>7, <3>8 DEF ChildWrites, ShellTypeOK
  <2>7. CASE ChildCloses /\ UNCHANGED result BY <2>7 DEF ChildCloses, ShellTypeOK
  <2>8. CASE ChildExits /\ UNCHANGED result BY <2>8 DEF ChildExits, ShellTypeOK
  <2>9. CASE Spawn /\ UNCHANGED result BY <2>9 DEF Spawn, ShellTypeOK
  <2>10. CASE ReadErr /\ UNCHANGED result
    <3>1. "err" \in Streams BY DEF Streams
    <3> QED BY <2>10, <3>1, GetLineTyped DEF ReadErr, ShellTypeOK
  <2>11. CASE ReadOut /\ UNCHANGED result
    <3>1. "out" \in Streams BY DEF Streams
    <3> QED BY <2>11, <3>1, GetLineTyped DEF ReadOut, ShellTypeOK
  <2>12. CASE StoreLines /\ UNCHANGED result
    <3>1. \A s \in Streams : line[s] \in Texts BY DEF ShellTypeOK
    <3>2. response' \in [Streams -> Seq(Texts \ {NoText})]
      BY <2>12, <3>1, StoredTyped DEF StoreLines
    <3> QED BY <2>12, <3>2 DEF StoreLines, ShellTypeOK
  <2>13. CASE TestRunning /\ UNCHANGED result BY <2>13 DEF TestRunning, ShellTypeOK
  <2>14. CASE ReadMerged /\ UNCHANGED result
    <3>1. "out" \in Streams /\ GetLine("out") BY <2>14 DEF Streams, ReadMerged
    <3>2. line'["out"] \in Texts BY <3>1, GetLineTyped
    <3>3. response' \in [Streams -> Seq(Texts \ {NoText})]
      BY <2>14, <3>1, <3>2, StoredTyped DEF ReadMerged, ShellTypeOK
    <3> QED BY <2>14, <3>1, <3>3, GetLineTyped DEF ReadMerged, ShellTypeOK
  <2>15. CASE Wait /\ UNCHANGED result BY <2>15 DEF Wait, ShellTypeOK
  <2> QED
    BY <2>1, <2>2, <2>3, <2>4, <2>5, <2>6, <2>7, <2>8, <2>9, <2>10, <2>11, <2>12, <2>13, <2>14, <2>15
       DEF Next, NoPaths, NoCompiler, ShellStep, ChildStep, ReaderStep
<1> QED BY <1>1, <1>2, PTL DEF Spec

-----------------------------------------------------------------------------
(* Lines *)

LEMMA LinesTyped ==
    ASSUME NEW c \in Seq(Writes)
    PROVE  Lines(c) \in Seq(Texts \ {NoText})
<1> DEFINE wanted == {w \in Writes : w.text # NoText}
<1> DEFINE kept == Kept(c, wanted)
<1>1. kept \in Seq(Writes \cap wanted) BY KeptTyped
<1> HIDE DEF kept
<1>2. \A i \in 1..Len(kept) : kept[i].text \in Texts \ {NoText} BY <1>1 DEF Writes
<1>3. DOMAIN kept = 1..Len(kept) /\ Len(kept) \in Nat BY <1>1
<1>4. [i \in DOMAIN kept |-> kept[i].text] \in Seq(Texts \ {NoText}) BY <1>2, <1>3, IsASeq
<1> QED BY <1>4 DEF Lines, kept

LEMMA WritesAssociative == \A a, b, c \in Seq(Writes) : (a \o b) \o c = a \o (b \o c)
BY ConcatAssociative

LEMMA WritesAppend ==
    ASSUME NEW a \in Seq(Writes), NEW b \in Seq(Writes), NEW w \in Writes
    PROVE  Append(a \o b, w) = a \o Append(b, w)
<1>1. PICK c : c = <<w>> OBVIOUS
<1>2. Append(a \o b, w) = (a \o b) \o c /\ Append(b, w) = b \o c
  BY <1>1, AppendIsConcat, ConcatProperties
<1>3. c \in Seq(Writes) BY <1>1
<1>4. (a \o b) \o c = a \o (b \o c) BY <1>3, WritesAssociative
<1> QED BY <1>2, <1>4

LEMMA LinesOfEmpty == Lines(<<>>) = <<>>
BY KeptOfEmpty DEF Lines

\* A line adds what is on it.
LEMMA LinesOfAppend ==
    ASSUME NEW c \in Seq(Writes), NEW w \in Writes
    PROVE  Lines(Append(c, w)) = IF w.text = NoText THEN Lines(c) ELSE Append(Lines(c), w.text)
<1> DEFINE wanted == {x \in Writes : x.text # NoText}
<1> DEFINE kept == Kept(c, wanted)
<1> DEFINE more == Kept(Append(c, w), wanted)
<1>1. kept \in Seq(Writes \cap wanted) BY KeptTyped
<1>2. more = IF w \in wanted THEN Append(kept, w) ELSE kept BY KeptOfAppend
<1>3. Lines(c) = [i \in DOMAIN kept |-> kept[i].text] BY DEF Lines
<1>4. Lines(Append(c, w)) = [i \in DOMAIN more |-> more[i].text] BY DEF Lines
<1>5. w \in wanted <=> w.text # NoText OBVIOUS
<1> HIDE DEF more, kept, wanted
<1>6. CASE w.text = NoText BY <1>2, <1>3, <1>4, <1>5, <1>6
<1>7. CASE w.text # NoText
  <2>1. more = Append(kept, w) BY <1>2, <1>5, <1>7
  <2>2. Lines(Append(c, w)) = [i \in 1..(Len(kept) + 1) |-> Append(kept, w)[i].text]
    BY <1>1, <1>4, <2>1
  <2>3. Lines(c) = [i \in 1..Len(kept) |-> kept[i].text] BY <1>1, <1>3
  <2>4. Lines(c) \in Seq(Texts \ {NoText}) /\ w.text \in Texts \ {NoText}
    BY <1>7, LinesTyped DEF Writes
  <2>5. Len(Lines(c)) = Len(kept) BY <1>1, <2>3, <2>4
  <2>6. Append(Lines(c), w.text) = [i \in 1..(Len(kept) + 1) |->
                                      IF i <= Len(kept) THEN Lines(c)[i] ELSE w.text]
    BY <2>4, <2>5
  <2>7. \A i \in 1..(Len(kept) + 1) : Append(kept, w)[i].text =
                                        IF i <= Len(kept) THEN Lines(c)[i] ELSE w.text
    BY <1>1, <2>3
  <2> HIDE DEF Lines
  <2>8. [i \in 1..(Len(kept) + 1) |-> Append(kept, w)[i].text] =
        [i \in 1..(Len(kept) + 1) |-> IF i <= Len(kept) THEN Lines(c)[i] ELSE w.text]
    BY <2>7
  <2> QED BY <1>7, <2>2, <2>6, <2>8
<1> QED BY <1>6, <1>7

LEMMA ExtendsItself == ASSUME NEW T, NEW lines \in Seq(T) PROVE Extends(lines, lines)
BY DEF Extends

\* The last line may be stored again.
LEMMA ExtendsRepeated ==
    ASSUME NEW T, NEW lines \in Seq(T), NEW longer \in Seq(T), lines # <<>>, Extends(longer, lines)
    PROVE  Extends(Append(longer, lines[Len(lines)]), lines)
<1>1. Len(lines) \in Nat \ {0} /\ Len(longer) \in Nat /\ Len(longer) >= Len(lines)
  BY DEF Extends
<1>2. lines[Len(lines)] \in T BY <1>1
<1>3. Len(Append(longer, lines[Len(lines)])) = Len(longer) + 1 BY <1>2
<1>4. ASSUME NEW i \in 1..(Len(longer) + 1)
      PROVE  Append(longer, lines[Len(lines)])[i] = lines[IF i <= Len(lines) THEN i ELSE Len(lines)]
  BY <1>1, <1>2 DEF Extends
<1> QED BY <1>1, <1>3, <1>4 DEF Extends

-----------------------------------------------------------------------------
(* The pipes *)

LEMMA IntoTyped ==
    ASSUME TypeOK, NEW s \in Streams
    PROVE  Into(s) \in Seq(Writes)
<1>1. script \in Seq(Writes) /\ written \in 0..Len(script) BY ShellAssumption DEF TypeOK, ShellTypeOK
<1>2. SubSeq(script, 1, written) \in Seq(Writes) BY <1>1
<1>3. Kept(SubSeq(script, 1, written), To(s)) \in Seq(Writes \cap To(s)) BY <1>2, KeptTyped
<1>4. Kept(SubSeq(script, 1, written), To(s)) \in Seq(Writes) BY <1>3
<1> QED BY <1>2, <1>4 DEF Into

\* A line that is written comes last into its pipe.
LEMMA IntoAfterWrite ==
    ASSUME TypeOK, ChildWrites, NEW s \in Streams
    PROVE  /\ script[written + 1] \in Writes
           /\ Into(s)' = IF Pipe(script[written + 1].to) = s
                            THEN Append(Into(s), script[written + 1]) ELSE Into(s)
<1> DEFINE w == script[written + 1]
<1> DEFINE before == SubSeq(script, 1, written)
<1>1. script \in Seq(Writes) /\ written \in 0..Len(script) BY ShellAssumption DEF TypeOK, ShellTypeOK
<1>2. written + 1 \in 1..Len(script) BY <1>1 DEF ChildWrites
<1>3. w \in Writes /\ before \in Seq(Writes) BY <1>1, <1>2
<1>4. SubSeq(script, 1, written + 1) = Append(before, w) BY <1>1, <1>2
<1>5. written' = written + 1 /\ script' = script /\ platform' = platform BY DEF ChildWrites
<1> HIDE DEF w, before
<1>6. CASE OnePipe
  <2>1. Into(s)' = IF s = "out" THEN Append(before, w) ELSE <<>> BY <1>4, <1>5, <1>6 DEF Into, OnePipe
  <2> QED BY <1>3, <1>6, <2>1 DEF Into, Pipe, before, w
<1>7. CASE ~OnePipe
  <2>1. Into(s)' = Kept(Append(before, w), To(s)) BY <1>4, <1>5, <1>7 DEF Into, OnePipe
  <2>2. Kept(Append(before, w), To(s)) = IF w \in To(s) THEN Append(Kept(before, To(s)), w)
                                         ELSE Kept(before, To(s))
    BY <1>3, KeptOfAppend
  <2>3. w \in To(s) <=> w.to = s BY <1>3 DEF To
  <2> QED BY <1>3, <1>7, <2>1, <2>2, <2>3 DEF Into, Pipe, before, w
<1> QED BY <1>6, <1>7

\* Once all is written, a line without newline is the last in its pipe.
LEMMA UnendedIsLast ==
    ASSUME TypeOK, ~OnePipe, written = Len(script), NEW s \in Streams, NEW taken \in Seq(Writes),
           Into(s) = taken \o pipes[s], pipes[s] # <<>>, ~Head(pipes[s]).ended
    PROVE  Tail(pipes[s]) = <<>>
<1>1. script \in Scripts /\ script \in Seq(Writes) /\ pipes[s] \in Seq(Writes)
  BY ShellAssumption DEF TypeOK, ShellTypeOK
<1>2. SubSeq(script, 1, written) = script BY <1>1
<1> DEFINE all == Kept(script, To(s))
<1>3. all = taken \o pipes[s] BY <1>2 DEF Into
<1>4. \A i \in 1..(Len(all) - 1) : all[i].ended BY <1>1, LinesAssumption
<1> HIDE DEF all
<1> DEFINE i == Len(taken) + 1
<1>5. Len(all) = Len(taken) + Len(pipes[s]) /\ all[i] = Head(pipes[s]) BY <1>1, <1>3
<1>6. i \notin 1..(Len(all) - 1)
  <2> HIDE DEF i
  <2> QED BY <1>4, <1>5
<1>7. Len(taken) \in Nat /\ Len(pipes[s]) \in Nat \ {0} BY <1>1
<1>8. Len(pipes[s]) = 1
  <2>1. ASSUME NEW a \in Nat, NEW b \in Nat \ {0}, a + 1 \notin 1..((a + b) - 1) PROVE b = 1
    BY <2>1
  <2> QED BY <1>5, <1>6, <1>7, <2>1
<1>9. Tail(pipes[s]) \in Seq(Writes) /\ Len(Tail(pipes[s])) = 0 BY <1>1, <1>8
<1> QED BY <1>9, EmptySeq

\* A line that is read moves from the pipe to the lines taken, and at the end of
\* a stream its last line stays where the next one would be.
LEMMA GetLineTakes ==
    ASSUME TypeOK, ~OnePipe, EndOfFile => written = Len(script),
           NEW s \in Streams, NEW taken \in Seq(Writes), Into(s) = taken \o pipes[s],
           HasTaken(s, taken), ~Pending(s), GetLine(s), Pending(s)',
           UNCHANGED <<platform, script, child, written, response>>
    PROVE  \E more \in Seq(Writes) : (Into(s) = more \o pipes[s] /\ HasTaken(s, more))'
<1>1. response[s] = WithPending(s) /\ WithPending(s)' = Stored(s, line'[s])
  BY DEF WithPending, Stored
<1>2. EndOfFile' = EndOfFile /\ Into(s)' = Into(s) BY DEF EndOfFile, Into, OnePipe
<1>3. Lines(taken) \in Seq(Texts \ {NoText}) BY LinesTyped
<1>4. /\ pipes \in [Streams -> Seq(Writes)] /\ state \in [Streams -> {"good", "eof", "fail"}]
      /\ line \in [Streams -> Texts] /\ got \in [Streams -> BOOLEAN]
      /\ response[s] \in Seq(Texts \ {NoText})
  BY DEF TypeOK, ShellTypeOK
<1>5. CASE state[s] # "good"
  <2>1. /\ line' = line /\ pipes' = pipes /\ state'[s] # "good"
        /\ EndOfFile /\ pipes[s] = <<>> /\ Extends(response[s], Lines(taken))
        /\ \/ line[s] = NoText
           \/ Lines(taken) # <<>> /\ line[s] = Lines(taken)[Len(Lines(taken))]
    BY <1>1, <1>4, <1>5 DEF GetLine, HasTaken
  <2>2. Extends(Stored(s, line'[s]), Lines(taken))
    BY <1>3, <1>4, <2>1, ExtendsRepeated DEF Stored
  <2> QED BY <1>1, <1>2, <2>1, <2>2 DEF HasTaken
<1>6. CASE state[s] = "good" /\ pipes[s] # <<>>
  <2>0. PICK w : w = Head(pipes[s]) OBVIOUS
  <2>1. /\ w.ended \/ EndOfFile
        /\ line' = [line EXCEPT ![s] = w.text]
        /\ pipes' = [pipes EXCEPT ![s] = Tail(pipes[s])]
        /\ got' = [got EXCEPT ![s] = TRUE]
        /\ state' = [state EXCEPT ![s] = IF w.ended THEN "good" ELSE "eof"]
    BY <1>6, <2>0 DEF GetLine
  <2>2. w \in Writes /\ pipes[s] = <<w>> \o Tail(pipes[s]) /\ Tail(pipes[s]) \in Seq(Writes)
    BY <1>4, <1>6, <2>0
  <2>3. ~w.ended => EndOfFile /\ Tail(pipes[s]) = <<>>
    BY <1>6, <2>0, <2>1, UnendedIsLast
  <2>4. Append(taken, w) \in Seq(Writes) BY <2>2
  <2>5. Into(s)' = Append(taken, w) \o pipes'[s]
    <3>1. Into(s)' = taken \o (<<w>> \o Tail(pipes[s])) BY <1>2, <2>2
    <3>2. <<w>> \in Seq(Writes) /\ Append(taken, w) = taken \o <<w>> BY <2>2, AppendIsConcat
    <3>3. taken \o (<<w>> \o Tail(pipes[s])) = (taken \o <<w>>) \o Tail(pipes[s])
      <4>1. taken \in Seq(Writes) /\ <<w>> \in Seq(Writes) /\ Tail(pipes[s]) \in Seq(Writes)
        BY <2>2, <3>2
      <4>2. \A a, b, c \in Seq(Writes) : (a \o b) \o c = a \o (b \o c) BY WritesAssociative
      <4> QED BY <4>1, <4>2, Zenon
    <3>4. pipes'[s] = Tail(pipes[s]) BY <1>4, <2>1
    <3> QED BY <3>1, <3>2, <3>3, <3>4
  <2>6. response[s] = Lines(taken) BY <1>1, <1>6 DEF HasTaken
  <2>7. line'[s] = w.text /\ got'[s] = TRUE /\ pipes'[s] = Tail(pipes[s])
        /\ state'[s] = IF w.ended THEN "good" ELSE "eof"
    BY <1>4, <2>1
  <2>8. Lines(Append(taken, w)) = IF w.text = NoText THEN Lines(taken) ELSE Append(Lines(taken), w.text)
    BY <2>2, LinesOfAppend
  <2>9. Stored(s, line'[s]) = Lines(Append(taken, w)) BY <2>6, <2>7, <2>8 DEF Stored
  <2>10. Lines(Append(taken, w)) \in Seq(Texts \ {NoText}) BY <2>4, LinesTyped
  <2>11. \/ line'[s] = NoText
         \/ /\ Lines(Append(taken, w)) # <<>>
            /\ line'[s] = Lines(Append(taken, w))[Len(Lines(Append(taken, w)))]
    <3>1. CASE w.text = NoText BY <3>1, <2>7
    <3>2. CASE w.text # NoText
      <4>1. Lines(Append(taken, w)) = Append(Lines(taken), w.text) BY <2>8, <3>2
      <4>2. w.text \in Texts \ {NoText} BY <2>2, <3>2 DEF Writes
      <4>3. Append(Lines(taken), w.text)[Len(Append(Lines(taken), w.text))] = w.text
            /\ Append(Lines(taken), w.text) # <<>>
        BY <1>3, <4>2
      <4> QED BY <2>7, <4>1, <4>3
    <3> QED BY <3>1, <3>2
  <2>12. Extends(Lines(Append(taken, w)), Lines(Append(taken, w))) BY <2>10, ExtendsItself
  <2>13. HasTaken(s, Append(taken, w))'
    <3>1. WithPending(s)' = Lines(Append(taken, w)) BY <1>1, <2>9
    <3>2. CASE w.ended
      <4>1. state'[s] = "good" BY <2>7, <3>2
      <4> QED BY <2>7, <3>1, <4>1 DEF HasTaken
    <3>3. CASE ~w.ended
      <4>1. state'[s] # "good" /\ EndOfFile' /\ pipes'[s] = <<>> BY <1>2, <2>3, <2>7, <3>3
      <4>2. Extends(WithPending(s)', Lines(Append(taken, w))) BY <2>12, <3>1
      <4> QED BY <2>11, <4>1, <4>2 DEF HasTaken
    <3> QED BY <3>2, <3>3
  <2> QED BY <2>4, <2>5, <2>13
<1>7. CASE state[s] = "good" /\ pipes[s] = <<>>
  <2>1. /\ EndOfFile /\ pipes' = pipes
        /\ line' = [line EXCEPT ![s] = NoText] /\ state' = [state EXCEPT ![s] = "fail"]
    BY <1>7 DEF GetLine
  <2>2. line'[s] = NoText /\ state'[s] = "fail" BY <1>4, <2>1
  <2>3. Stored(s, line'[s]) = Lines(taken) BY <1>1, <1>7, <2>2 DEF HasTaken, Stored
  <2>4. Extends(Lines(taken), Lines(taken)) BY <1>3, ExtendsItself
  <2>5. HasTaken(s, taken)' BY <1>1, <1>2, <1>7, <2>1, <2>2, <2>3, <2>4 DEF HasTaken
  <2> QED BY <1>2, <2>1, <2>5
<1> QED BY <1>4, <1>5, <1>6, <1>7

\* The other streams are left as they are.
LEMMA OthersTaken ==
    ASSUME TypeOK, NEW s \in Streams, NEW r \in Streams, s # r, GetLine(s),
           UNCHANGED <<platform, script, child, written, response>>, Pending(r)' = Pending(r)
    PROVE  /\ Into(r)' = Into(r) /\ pipes'[r] = pipes[r] /\ state'[r] = state[r]
           /\ \A taken \in Seq(Writes) : HasTaken(r, taken)' = HasTaken(r, taken)
<1>1. /\ pipes'[r] = pipes[r] /\ state'[r] = state[r] /\ line'[r] = line[r] /\ got'[r] = got[r]
  BY DEF GetLine, TypeOK, ShellTypeOK
<1>2. Into(r)' = Into(r) /\ EndOfFile' = EndOfFile BY DEF EndOfFile, Into, OnePipe
<1>3. WithPending(r)' = WithPending(r) BY <1>1 DEF WithPending, Stored
<1> QED BY <1>1, <1>2, <1>3 DEF HasTaken

-----------------------------------------------------------------------------
(* The response *)

\* One step of reading a stream of its own.
LEMMA TwoStreamsRead ==
    ASSUME TypeOK, ReadInOrder, ~OnePipe, NEW s \in Streams, ~Pending(s), GetLine(s), Pending(s)',
           UNCHANGED <<platform, script, child, written, response>>,
           \A r \in Streams \ {s} : Pending(r)' = Pending(r),
           pc' \notin {"wait", "parse", "test", "getline"}
    PROVE  TwoStreams'
<1>1. TwoStreams /\ (EndOfFile => written = Len(script)) BY DEF ReadInOrder
<1>2. ASSUME NEW r \in Streams
      PROVE  \E taken \in Seq(Writes) : (Into(r) = taken \o pipes[r] /\ HasTaken(r, taken))'
  <2>1. PICK taken \in Seq(Writes) : Into(r) = taken \o pipes[r] /\ HasTaken(r, taken)
    BY <1>1 DEF TwoStreams
  <2>2. CASE r = s BY <1>1, <2>1, <2>2, GetLineTakes
  <2>3. CASE r # s
    <3>1. (Into(r) = taken \o pipes[r] /\ HasTaken(r, taken))' BY <2>1, <2>3, OthersTaken
    <3> QED BY <3>1
  <2> QED BY <2>2, <2>3
<1> QED BY <1>2 DEF TwoStreams

\* The lines of every stream reach the response in their order, whatever the
\* reader and the child do to each other.
LEMMA ReadInOrderInductive ==
    TypeOK /\ TypeOK' /\ ReadInOrder /\ [Next]_vars => ReadInOrder'
<1> SUFFICES ASSUME TypeOK, TypeOK', ReadInOrder, [Next]_vars PROVE ReadInOrder' OBVIOUS
<1> DEFINE Quiet == UNCHANGED <<platform, script, written, pipes, state, line, got, response>>
<1>1. ASSUME Quiet, EndOfFile => EndOfFile', EndOfFile' => written = Len(script),
             \A s \in Streams : Pending(s)' = Pending(s),
             ~OnePipe /\ pc' \in {"wait", "parse"} => pc \in {"wait", "parse"},
             IF OnePipe THEN pc' \notin {"readErr", "readOut", "store"} ELSE pc' \notin {"test", "getline"},
             pc' \in {"locate", "spawn"} => child' = "none"
      PROVE  ReadInOrder'
  <2>1. \A s \in Streams : Into(s)' = Into(s) /\ WithPending(s)' = WithPending(s)
    BY <1>1 DEF Into, OnePipe, WithPending, Stored
  <2>2. OnePipe' = OnePipe BY <1>1 DEF OnePipe
  <2>3. CASE OnePipe
    <3>1. "out" \in Streams BY DEF Streams
    <3>2. Into("out")' = Into("out") BY <2>1, <3>1
    <3> QED BY <1>1, <2>2, <2>3, <3>2 DEF ReadInOrder, OneStream
  <2>4. CASE ~OnePipe
    <3>1. \A s \in Streams, taken \in Seq(Writes) : HasTaken(s, taken) => HasTaken(s, taken)'
      BY <1>1, <2>1 DEF HasTaken
    <3> QED BY <1>1, <2>1, <2>2, <2>4, <3>1 DEF ReadInOrder, TwoStreams
  <2> QED BY <2>3, <2>4
<1>2. CASE UNCHANGED vars BY <1>1, <1>2 DEF vars, shellVars, EndOfFile, Pending, ReadInOrder, OneStream, TwoStreams
<1>3. ASSUME NEW kind, Fail(kind), pc = "locate" PROVE ReadInOrder'
  BY <1>1, <1>3 DEF Fail, EndOfFile, Pending, ReadInOrder
<1>4. CASE Locate BY <1>1, <1>4 DEF Locate, EndOfFile, Pending, ReadInOrder
<1>5. CASE SpawnThrows BY <1>1, <1>5 DEF SpawnThrows, EndOfFile, Pending, ReadInOrder
<1>6. CASE Parse BY <1>1, <1>6 DEF Parse, EndOfFile, Pending, ReadInOrder
<1>7. CASE ChildWrites /\ UNCHANGED result
  <2>1. PICK w : w = script[written + 1] OBVIOUS
  <2>2. w \in Writes /\ \A s \in Streams :
           Into(s)' = IF Pipe(w.to) = s THEN Append(Into(s), w) ELSE Into(s)
    BY <1>7, <2>1, IntoAfterWrite DEF Streams
  <2>3. /\ pipes' = [pipes EXCEPT ![Pipe(w.to)] = Append(pipes[Pipe(w.to)], w)]
        /\ UNCHANGED <<platform, child, state, line, got, response, pc>>
        /\ ~EndOfFile /\ ~EndOfFile'
    BY <1>7, <2>1 DEF ChildWrites, EndOfFile
  <2>4. /\ pipes \in [Streams -> Seq(Writes)] BY DEF TypeOK, ShellTypeOK
  <2>5. ASSUME NEW s \in Streams, NEW taken \in Seq(Writes), Into(s) = taken \o pipes[s]
        PROVE  (Into(s) = taken \o pipes[s])'
    <3>1. CASE Pipe(w.to) = s
      <4>1. pipes'[s] = Append(pipes[s], w) /\ pipes[s] \in Seq(Writes) BY <2>3, <2>4, <3>1
      <4>2. Append(taken \o pipes[s], w) = taken \o Append(pipes[s], w)
        BY <2>2, <4>1, WritesAppend
      <4> QED BY <2>2, <2>5, <3>1, <4>1, <4>2
    <3>2. CASE Pipe(w.to) # s BY <2>2, <2>3, <2>4, <2>5, <3>2
    <3> QED BY <3>1, <3>2
  <2>6. CASE OnePipe
    <3>1. PICK taken \in Seq(Writes) :
             Into("out") = taken \o pipes["out"] /\ response["out"] = Lines(taken)
      BY <2>6 DEF ReadInOrder, OneStream
    <3>2. (Into("out") = taken \o pipes["out"])' BY <2>5, <3>1 DEF Streams
    <3>3. OneStream' BY <2>3, <2>6, <3>1, <3>2 DEF ReadInOrder, OneStream
    <3> QED BY <2>3, <2>6, <3>3 DEF ReadInOrder, OnePipe
  <2>7. CASE ~OnePipe
    <3>1. \A s \in Streams, taken \in Seq(Writes) : HasTaken(s, taken) => HasTaken(s, taken)'
      BY <2>3 DEF HasTaken, WithPending, Pending, Stored
    <3>2. ASSUME NEW s \in Streams
          PROVE  \E taken \in Seq(Writes) : (Into(s) = taken \o pipes[s] /\ HasTaken(s, taken))'
      <4>1. PICK taken \in Seq(Writes) : Into(s) = taken \o pipes[s] /\ HasTaken(s, taken)
        BY <2>7 DEF ReadInOrder, TwoStreams
      <4>2. (Into(s) = taken \o pipes[s])' BY <2>5, <4>1
      <4> QED BY <3>1, <4>1, <4>2
    <3>3. TwoStreams' BY <2>3, <2>7, <3>2 DEF ReadInOrder, TwoStreams
    <3> QED BY <2>3, <2>7, <3>3 DEF ReadInOrder, OnePipe
  <2> QED BY <2>6, <2>7
<1>8. CASE ChildCloses /\ UNCHANGED result
  BY <1>1, <1>8 DEF ChildCloses, EndOfFile, Pending, ReadInOrder, OneStream, TwoStreams
<1>9. CASE ChildExits /\ UNCHANGED result
  BY <1>1, <1>9 DEF ChildExits, EndOfFile, Pending, ReadInOrder, OneStream, TwoStreams
<1>10. CASE Spawn /\ UNCHANGED result
  <2>1. ~EndOfFile' /\ pc' = IF OnePipe THEN "test" ELSE "readErr" BY <1>10 DEF Spawn, EndOfFile
  <2>2. ~EndOfFile BY <1>10 DEF Spawn, ReadInOrder, EndOfFile
  <2> QED BY <1>1, <1>10, <2>1, <2>2 DEF Spawn, Pending, ReadInOrder, OneStream, TwoStreams
<1>11. CASE ReadErr /\ UNCHANGED result
  <2>1. ~OnePipe BY <1>11 DEF ReadErr, ReadInOrder, OneStream
  <2>2. "err" \in Streams /\ \A r \in Streams \ {"err"} : r = "out" BY DEF Streams
  <2>3. TwoStreams' BY <1>11, <2>1, <2>2, TwoStreamsRead DEF ReadErr, Pending
  <2> QED BY <1>11, <2>1, <2>3 DEF ReadErr, ReadInOrder, OnePipe, EndOfFile
<1>12. CASE ReadOut /\ UNCHANGED result
  <2>1. ~OnePipe BY <1>12 DEF ReadOut, ReadInOrder, OneStream
  <2>2. "out" \in Streams /\ \A r \in Streams \ {"out"} : r = "err" BY DEF Streams
  <2>3. TwoStreams' BY <1>12, <2>1, <2>2, TwoStreamsRead DEF ReadOut, Pending
  <2> QED BY <1>12, <2>1, <2>3 DEF ReadOut, ReadInOrder, OnePipe, EndOfFile
<1>13. CASE StoreLines /\ UNCHANGED result
  <2>1. ~OnePipe BY <1>13 DEF StoreLines, ReadInOrder, OneStream
  <2>2. /\ pc = "store" /\ pc' = IF CanRead THEN "readErr" ELSE "wait"
        /\ response' = [s \in Streams |-> Stored(s, line[s])]
        /\ UNCHANGED <<platform, script, child, written, pipes, state, line, got>>
    BY <1>13 DEF StoreLines
  <2>3. \A s \in Streams : Into(s)' = Into(s) BY <2>2 DEF Into, OnePipe
  <2>4. \A s \in Streams : WithPending(s) = Stored(s, line[s]) /\ WithPending(s)' = Stored(s, line[s])
                           /\ Pending(s) /\ ~Pending(s)'
    BY <2>2 DEF WithPending, Pending
  <2>5. \A s \in Streams, taken \in Seq(Writes) : HasTaken(s, taken) => HasTaken(s, taken)'
    BY <2>2, <2>4 DEF HasTaken, EndOfFile
  <2>6. TwoStreams BY <2>1 DEF ReadInOrder
  <2>7. pc' = "wait" => \A s \in Streams : state'[s] # "good"
    <3>1. pc' = "wait" => ~CanRead BY <2>2
    <3>2. pc' = "wait" => \A s \in Streams : ~got[s] BY <3>1 DEF CanRead, Streams
    <3>3. \A s \in Streams : state[s] = "good" => got[s] BY <2>4, <2>6 DEF TwoStreams, HasTaken
    <3> QED BY <2>2, <3>2, <3>3
  <2>8. TwoStreams' BY <2>2, <2>3, <2>5, <2>6, <2>7 DEF TwoStreams
  <2> QED BY <2>1, <2>2, <2>8 DEF ReadInOrder, OnePipe, EndOfFile
<1>14. CASE TestRunning /\ UNCHANGED result
  BY <1>1, <1>14 DEF TestRunning, EndOfFile, Pending, ReadInOrder, OneStream, TwoStreams
<1>15. CASE ReadMerged /\ UNCHANGED result
  <2>1. OnePipe /\ OneStream BY <1>15 DEF ReadMerged, ReadInOrder, TwoStreams
  <2>2. /\ GetLine("out") /\ UNCHANGED <<platform, script, child, written>>
        /\ response' = IF got'["out"]
                          THEN [response EXCEPT !["out"] = Stored("out", line'["out"])] ELSE response
        /\ pc' \in {"test", "wait"}
    BY <1>15 DEF ReadMerged
  <2>3. PICK taken \in Seq(Writes) :
           Into("out") = taken \o pipes["out"] /\ response["out"] = Lines(taken)
    BY <2>1 DEF OneStream
  <2>4. "out" \in Streams /\ Into("out")' = Into("out") BY <2>2 DEF Streams, Into, OnePipe
  <2>5. /\ pipes \in [Streams -> Seq(Writes)] /\ line \in [Streams -> Texts]
        /\ got \in [Streams -> BOOLEAN] /\ response \in [Streams -> Seq(Texts \ {NoText})]
    BY DEF TypeOK, ShellTypeOK
  <2>6. CASE ~got'["out"]
    <3>1. pipes' = pipes /\ response' = response BY <2>2, <2>4, <2>5, <2>6 DEF GetLine
    <3>2. OneStream' BY <2>1, <2>2, <2>3, <2>4, <3>1 DEF OneStream
    <3> QED BY <2>1, <2>2, <3>2 DEF ReadInOrder, OnePipe, EndOfFile
  <2>7. CASE got'["out"]
    <3>1. PICK w : w = Head(pipes["out"]) OBVIOUS
    <3>2. /\ pipes["out"] # <<>> /\ pipes' = [pipes EXCEPT !["out"] = Tail(pipes["out"])]
          /\ line' = [line EXCEPT !["out"] = w.text]
      BY <2>2, <2>4, <2>5, <2>7, <3>1 DEF GetLine
    <3>3. w \in Writes /\ pipes["out"] = <<w>> \o Tail(pipes["out"])
          /\ Tail(pipes["out"]) \in Seq(Writes)
      BY <2>4, <2>5, <3>1, <3>2
    <3>4. Append(taken, w) \in Seq(Writes) BY <3>3
    <3>5. Into("out")' = Append(taken, w) \o pipes'["out"]
      <4>1. <<w>> \in Seq(Writes) /\ Append(taken, w) = taken \o <<w>> BY <3>3, AppendIsConcat
      <4>2. \A a, b, c \in Seq(Writes) : (a \o b) \o c = a \o (b \o c) BY WritesAssociative
      <4>3. taken \o (<<w>> \o Tail(pipes["out"])) = (taken \o <<w>>) \o Tail(pipes["out"])
        BY <3>3, <4>1, <4>2, Zenon
      <4>4. pipes'["out"] = Tail(pipes["out"]) BY <2>4, <2>5, <3>2
      <4> QED BY <2>3, <2>4, <3>3, <4>1, <4>3, <4>4
    <3>6. Lines(Append(taken, w)) = IF w.text = NoText THEN Lines(taken) ELSE Append(Lines(taken), w.text)
      BY <3>3, LinesOfAppend
    <3>7. response'["out"] = Lines(Append(taken, w)) /\ response'["err"] = <<>>
      <4>1. line'["out"] = w.text BY <2>4, <2>5, <3>2
      <4>2. Stored("out", line'["out"]) = Lines(Append(taken, w)) BY <2>3, <3>6, <4>1 DEF Stored
      <4> QED BY <2>1, <2>2, <2>4, <2>5, <2>7, <4>2 DEF OneStream, Streams
    <3>8. OneStream' BY <2>2, <3>4, <3>5, <3>7 DEF OneStream
    <3> QED BY <2>1, <2>2, <3>8 DEF ReadInOrder, OnePipe, EndOfFile
  <2> QED BY <2>6, <2>7
<1>16. CASE Wait /\ UNCHANGED result
  BY <1>1, <1>16 DEF Wait, EndOfFile, Pending, ReadInOrder, OneStream, TwoStreams
<1> QED
  BY <1>2, <1>3, <1>4, <1>5, <1>6, <1>7, <1>8, <1>9, <1>10, <1>11, <1>12, <1>13, <1>14, <1>15, <1>16
     DEF Next, NoPaths, NoCompiler, ShellStep, ChildStep, ReaderStep

LEMMA ReadInOrderInitially == Init => ReadInOrder
<1> SUFFICES ASSUME Init PROVE ReadInOrder OBVIOUS
<1>1. script \in Seq(Writes) BY ShellAssumption DEF Init, ShellInit
<1>2. SubSeq(script, 1, written) = <<>> BY <1>1 DEF Init, ShellInit
<1>3. \A s \in Streams : Into(s) = <<>> BY <1>2, KeptOfEmpty DEF Into
<1>4. <<>> \in Seq(Writes) /\ <<>> = <<>> \o <<>> OBVIOUS
<1>5. \A s \in Streams : Into(s) = <<>> \o pipes[s] /\ response[s] = <<>> BY <1>3, <1>4 DEF Init, ShellInit
<1>6. \A s \in Streams : HasTaken(s, <<>>)
  BY <1>5, LinesOfEmpty DEF HasTaken, WithPending, Pending, Init, ShellInit
<1>7. OneStream BY <1>4, <1>5, LinesOfEmpty DEF OneStream, Init, ShellInit, Streams
<1>8. TwoStreams BY <1>4, <1>5, <1>6 DEF TwoStreams, Init, ShellInit
<1>9. ~EndOfFile BY DEF EndOfFile, Init, ShellInit
<1>10. pc = "locate" /\ child = "none" BY DEF Init, ShellInit
<1> QED BY <1>7, <1>8, <1>9, <1>10 DEF ReadInOrder

LEMMA ReadInOrderAlways == Spec => []ReadInOrder
BY Typing, ReadInOrderInitially, ReadInOrderInductive, PTL DEF Spec

\* The reader leaves only when both streams are at their end.
LEMMA ResponseExtends ==
    ASSUME TypeOK, ReadInOrder, pc = "parse", ~OnePipe, NEW s \in Streams
    PROVE  Extends(response[s], Printed(s))
<1>1. PICK taken \in Seq(Writes) : Into(s) = taken \o pipes[s] /\ HasTaken(s, taken)
  BY DEF ReadInOrder, TwoStreams
<1>2. state[s] # "good" BY DEF ReadInOrder, TwoStreams
<1>3. written = Len(script) /\ pipes[s] = <<>> /\ Extends(response[s], Lines(taken))
  BY <1>1, <1>2 DEF ReadInOrder, HasTaken, WithPending, Pending
<1>4. Into(s) = Kept(script, To(s))
  <2>1. script \in Seq(Writes) BY ShellAssumption DEF TypeOK, ShellTypeOK
  <2>2. SubSeq(script, 1, written) = script BY <1>3, <2>1
  <2> QED BY <2>2 DEF Into
<1>5. Into(s) = taken BY <1>1, <1>3
<1> QED BY <1>3, <1>4, <1>5 DEF Printed

\* With a pipe for each stream the response has every line of a stream, in order,
\* whichever stream ends first and whenever the child is seen to be gone
\* (CompilerConfigDetector.cpp:72-97, 116-141).
THEOREM AllLinesReturned == Spec => []NoLineLost
<1>1. TypeOK /\ ReadInOrder => NoLineLost BY ResponseExtends DEF NoLineLost, Extends
<1> QED BY <1>1, Typing, ReadInOrderAlways, PTL

-----------------------------------------------------------------------------
(* The list of directories *)

LEMMA FirstIs ==
    ASSUME NEW S, NEW m \in S, S \subseteq Int, \A j \in S : m <= j
    PROVE  First(S) = m
<1>1. \A i \in S : (\A j \in S : i <= j) => i = m OBVIOUS
<1>2. First(S) \in S /\ \A j \in S : First(S) <= j BY DEF First
<1> QED BY <1>1, <1>2

\* Lines are the texts of the writes they come from.
LEMMA LinesFrom ==
    ASSUME NEW X \in SUBSET Writes, NEW c \in Seq(X)
    PROVE  Lines(c) \in Seq({w.text : w \in X} \ {NoText})
<1> DEFINE wanted == {w \in Writes : w.text # NoText}
<1> DEFINE kept == Kept(c, wanted)
<1>1. kept \in Seq(X \cap wanted) BY KeptTyped
<1> HIDE DEF kept
<1>2. \A i \in 1..Len(kept) : kept[i].text \in {w.text : w \in X} \ {NoText} BY <1>1
<1>3. DOMAIN kept = 1..Len(kept) /\ Len(kept) \in Nat BY <1>1
<1>4. [i \in DOMAIN kept |-> kept[i].text] \in Seq({w.text : w \in X} \ {NoText}) BY <1>2, <1>3, IsASeq
<1> QED BY <1>4 DEF Lines, kept

LEMMA LinesOfConcat ==
    ASSUME NEW c \in Seq(Writes), NEW d \in Seq(Writes)
    PROVE  Lines(c \o d) = Lines(c) \o Lines(d)
<1> DEFINE wanted == {w \in Writes : w.text # NoText}
<1> DEFINE kc == Kept(c, wanted)
<1> DEFINE kd == Kept(d, wanted)
<1>1. kc \in Seq(Writes) /\ kd \in Seq(Writes) BY KeptIn
<1>2. Kept(c \o d, wanted) = kc \o kd BY KeptOfConcat
<1>3. Lines(c \o d) = [i \in DOMAIN (kc \o kd) |-> (kc \o kd)[i].text] BY <1>2 DEF Lines
<1>4. Lines(c) = [i \in DOMAIN kc |-> kc[i].text] /\ Lines(d) = [i \in DOMAIN kd |-> kd[i].text] BY DEF Lines
<1>5. Lines(c) \in Seq(Texts \ {NoText}) /\ Lines(d) \in Seq(Texts \ {NoText}) BY LinesTyped
<1> HIDE DEF kc, kd, Lines, wanted
<1>6. Len(Lines(c)) = Len(kc) /\ Len(Lines(d)) = Len(kd) /\ Len(kc) \in Nat /\ Len(kd) \in Nat
  BY <1>1, <1>4, <1>5
<1>7. DOMAIN (kc \o kd) = 1..(Len(kc) + Len(kd)) BY <1>1
<1>8. ASSUME NEW i \in 1..(Len(kc) + Len(kd)) PROVE (kc \o kd)[i].text = (Lines(c) \o Lines(d))[i]
  <2>1. CASE i <= Len(kc)
    <3>1. (kc \o kd)[i] = kc[i] BY <1>1, <2>1
    <3>2. (Lines(c) \o Lines(d))[i] = Lines(c)[i] BY <1>5, <1>6, <2>1
    <3>3. Lines(c)[i] = kc[i].text BY <1>1, <1>4, <1>6, <2>1
    <3> QED BY <3>1, <3>2, <3>3
  <2>2. CASE i > Len(kc)
    <3>1. (kc \o kd)[i] = kd[i - Len(kc)] BY <1>1, <2>2
    <3>2. (Lines(c) \o Lines(d))[i] = Lines(d)[i - Len(kc)] BY <1>5, <1>6, <2>2
    <3>3. i - Len(kc) \in DOMAIN kd BY <1>1, <1>6, <2>2
    <3>4. Lines(d)[i - Len(kc)] = kd[i - Len(kc)].text BY <1>4, <3>3
    <3> QED BY <3>1, <3>2, <3>4
  <2> QED BY <1>6, <2>1, <2>2
<1>9. Lines(c) \o Lines(d) = [i \in 1..(Len(kc) + Len(kd)) |-> (Lines(c) \o Lines(d))[i]]
  <2> DEFINE both == Lines(c) \o Lines(d)
  <2>1. both \in Seq(Texts \ {NoText}) /\ Len(both) = Len(kc) + Len(kd)
    <3>1. \A a, b \in Seq(Texts \ {NoText}) :
             a \o b \in Seq(Texts \ {NoText}) /\ Len(a \o b) = Len(a) + Len(b)
      OBVIOUS
    <3> QED BY <1>5, <1>6, <3>1
  <2> HIDE DEF both
  <2>2. both = [i \in 1..(Len(kc) + Len(kd)) |-> both[i]] BY <2>1
  <2> QED BY <2>2 DEF both
<1> QED BY <1>3, <1>7, <1>8, <1>9

\* The list of what is printed on stderr is in a response, some lines further.
ListAt(lines, err, k, start, end) ==
    /\ lines \in Seq(Texts) /\ err \in Seq(Texts) /\ k \in Int
    /\ start \in 1..Len(err) /\ end \in 1..Len(err) /\ start + 1 < end
    /\ k + start >= 1 /\ k + end <= Len(lines)
    /\ \A i \in start..end : lines[k + i] = err[i]
    /\ err[start] = SearchStarts /\ err[end] = EndOfList
    /\ \A i \in 1..(k + start - 1) : lines[i] # SearchStarts
    /\ \A i \in 1..(end - 1) : err[i] # EndOfList

LEMMA IncludesAre ==
    ASSUME NEW lines, NEW err, NEW k, NEW start, NEW end, ListAt(lines, err, k, start, end)
    PROVE  Includes(lines) = Kept(SubSeq(err, start + 1, end - 1), Texts \ {Spaces})
<1> USE DEF ListAt
<1>1. StartOfList(lines) = k + start
  <2>1. k + start \in Positions(lines, SearchStarts) BY DEF Positions
  <2>2. \A j \in Positions(lines, SearchStarts) : j \in Int /\ k + start <= j BY DEF Positions
  <2> QED BY <2>1, <2>2, FirstIs DEF StartOfList
<1>2. First(EndsOfList(lines) \cup {Len(lines) + 1}) = k + end
  <2> DEFINE S == EndsOfList(lines) \cup {Len(lines) + 1}
  <2>1. k + end \in S BY <1>1 DEF EndsOfList, Positions
  <2>2. ASSUME NEW j \in S PROVE j \in Int /\ k + end <= j
    <3>1. CASE j = Len(lines) + 1 BY <3>1
    <3>2. CASE j \in EndsOfList(lines)
      <4>1. j \in 1..Len(lines) /\ lines[j] = EndOfList /\ j > k + start
        BY <1>1, <3>2 DEF EndsOfList, Positions
      <4>2. ~(j < k + end)
        <5>1. ASSUME j < k + end PROVE FALSE
          <6>1. j - k \in start..(end - 1) /\ j - k \in start..end BY <4>1, <5>1
          <6>2. lines[k + (j - k)] = err[j - k] /\ k + (j - k) = j BY <4>1, <6>1
          <6> QED BY <4>1, <6>1, <6>2
        <5> QED BY <5>1
      <4> QED BY <4>1, <4>2
    <3> QED BY <3>1, <3>2
  <2> HIDE DEF S
  <2>3. S \subseteq Int BY <2>2
  <2>4. First(S) = k + end BY <2>1, <2>2, <2>3, FirstIs
  <2> QED BY <2>4 DEF S
<1>3. List(lines) = SubSeq(lines, k + start + 1, k + end - 1)
  <2>1. k + end # k + start + 1 OBVIOUS
  <2> DEFINE first == First(EndsOfList(lines) \cup {Len(lines) + 1})
  <2>2. List(lines) = SubSeq(lines, StartOfList(lines) + 1,
                             IF first = StartOfList(lines) + 1 THEN Len(lines) ELSE first - 1)
    BY DEF List
  <2> HIDE DEF first
  <2>3. first = k + end BY <1>2 DEF first
  <2> QED BY <1>1, <2>1, <2>2, <2>3
<1>4. SubSeq(lines, k + start + 1, k + end - 1) = SubSeq(err, start + 1, end - 1)
  <2>1. SubSeq(lines, k + start + 1, k + end - 1) =
           [i \in 1..(end - 1 - start) |-> lines[k + start + i]]
    OBVIOUS
  <2>2. SubSeq(err, start + 1, end - 1) = [i \in 1..(end - 1 - start) |-> err[start + i]]
    OBVIOUS
  <2>3. \A i \in 1..(end - 1 - start) : lines[k + start + i] = err[start + i]
    <3> TAKE i \in 1..(end - 1 - start)
    <3>1. start + i \in start..end /\ k + (start + i) = k + start + i OBVIOUS
    <3> QED BY <3>1
  <2> QED BY <2>1, <2>2, <2>3
<1> QED BY <1>3, <1>4 DEF Includes

\* What the compiler listed is between the first start marker and the end marker.
LEMMA ListedIs ==
    ASSUME NEW e \in DOMAIN Printed("err"), Printed("err")[e] = EndOfList, Listed # <<>>,
           Printed("err") \in Seq(Texts)
    PROVE  \E start, end \in 1..Len(Printed("err")) :
              /\ start + 1 < end
              /\ Printed("err")[start] = SearchStarts /\ Printed("err")[end] = EndOfList
              /\ \A i \in 1..(start - 1) : Printed("err")[i] # SearchStarts
              /\ \A i \in 1..(end - 1) : Printed("err")[i] # EndOfList
              /\ Listed = Kept(SubSeq(Printed("err"), start + 1, end - 1), Texts \ {Spaces})
<1> DEFINE err == Printed("err")
<1> DEFINE before == {i \in DOMAIN err : \E j \in 1..(i - 1) : err[j] = EndOfList}
<1> DEFINE after == {i \in DOMAIN err : \E j \in 1..(i - 1) : err[j] = SearchStarts}
<1> DEFINE marked == [i \in DOMAIN err |-> IF i \in after \ before THEN err[i] ELSE EndOfList]
<1> DEFINE wanted == Texts \ {EndOfList, Spaces}
<1>1. Listed = Kept(marked, wanted) BY DEF Listed
<1>2. err \in Seq(Texts) /\ DOMAIN err = 1..Len(err) /\ Len(err) \in Nat /\ EndOfList \in Texts
  BY DetectorAssumption
<1>3. e \in 1..Len(err) /\ err[e] = EndOfList BY <1>2
<1>4. Listed # <<>> OBVIOUS
<1> HIDE DEF err
<1>5. marked \in Seq(Texts) /\ Len(marked) = Len(err)
  <2>1. \A i \in 1..Len(err) : (IF i \in after \ before THEN err[i] ELSE EndOfList) \in Texts BY <1>2
  <2>2. marked = [i \in 1..Len(err) |-> IF i \in after \ before THEN err[i] ELSE EndOfList] BY <1>2
  <2> HIDE DEF marked, after, before
  <2> QED BY <1>2, <2>1, <2>2, IsASeq
<1>6. PICK x \in after : x \notin before
  <2>1. ASSUME \A x \in after : x \in before PROVE FALSE
    <3>1. \A i \in 1..Len(marked) : marked[i] = EndOfList BY <1>2, <1>5, <2>1
    <3> HIDE DEF marked
    <3>2. marked \in Seq({EndOfList})  BY <1>5, <3>1
    <3>3. Kept(marked, wanted) = <<>> BY <3>2, KeptNone
    <3> QED BY <1>1, <1>4, <3>3
  <2> QED BY <2>1
<1>7. PICK start \in 1..Len(err) : err[start] = SearchStarts /\ \A i \in 1..(start - 1) : err[i] # SearchStarts
  <2> DEFINE S == {i \in 1..Len(err) : err[i] = SearchStarts}
  <2>1. S # {} BY <1>2, <1>6
  <2>2. PICK i \in S : \A j \in S : i <= j
    <3> HIDE DEF S
    <3>1. S \subseteq 1..Len(err) BY DEF S
    <3> QED BY <1>2, <2>1, <3>1, SmallestIndex
  <2> QED BY <1>2, <2>2
<1>8. PICK end \in 1..Len(err) : err[end] = EndOfList /\ \A i \in 1..(end - 1) : err[i] # EndOfList
  <2> DEFINE S == {i \in 1..Len(err) : err[i] = EndOfList}
  <2>1. S # {} BY <1>3
  <2>2. PICK i \in S : \A j \in S : i <= j
    <3> HIDE DEF S
    <3>1. S \subseteq 1..Len(err) BY DEF S
    <3> QED BY <1>2, <2>1, <3>1, SmallestIndex
  <2> QED BY <1>2, <2>2
<1>9. start < x /\ x <= end
  <2>1. PICK j \in 1..(x - 1) : err[j] = SearchStarts BY <1>6
  <2>2. start <= j BY <1>2, <1>6, <1>7, <2>1
  <2>3. ~(end < x) BY <1>2, <1>6, <1>8
  <2> QED BY <1>2, <1>6, <2>1, <2>2, <2>3
<1>10. start < end BY <1>2, <1>6, <1>9
<1>11. \A i \in 1..Len(err) : marked[i] = IF start < i /\ i < end THEN err[i] ELSE EndOfList
  <2> TAKE i \in 1..Len(err)
  <2>1. i \in after <=> start < i BY <1>2, <1>7
  <2>2. i \in before <=> end < i BY <1>2, <1>8
  <2>3. marked[i] = IF i \in after \ before THEN err[i] ELSE EndOfList BY <1>2
  <2> HIDE DEF marked, after, before
  <2> QED BY <1>2, <1>8, <2>1, <2>2, <2>3
<1> HIDE DEF marked
<1> DEFINE head == SubSeq(marked, 1, start)
<1> DEFINE middle == SubSeq(marked, start + 1, end - 1)
<1> DEFINE rest == SubSeq(marked, end, Len(err))
<1>12. marked = (head \o middle) \o rest
  <2>1. head \o middle = SubSeq(marked, 1, end - 1)
    BY <1>2, <1>5, <1>10
  <2>2. SubSeq(marked, 1, end - 1) \o rest = SubSeq(marked, 1, Len(err))
    <3>1. 1 \in 1..(Len(marked) + 1) /\ end - 1 \in (1 - 1)..Len(marked)
          /\ Len(err) \in (end - 1)..Len(marked) /\ (end - 1) + 1 = end
      BY <1>2, <1>5
    <3> QED BY <1>5, <3>1, ConcatAdjacentSubSeq
  <2>3. SubSeq(marked, 1, Len(err)) = marked BY <1>2, <1>5
  <2> QED BY <2>1, <2>2, <2>3
<1>13. head \in Seq({EndOfList}) /\ rest \in Seq({EndOfList})
  <2>1. \A i \in 1..start : marked[i] = EndOfList BY <1>2, <1>11
  <2>2. \A i \in end..Len(err) : marked[i] = EndOfList BY <1>2, <1>11
  <2>3. 1 \in Nat \ {0} /\ end \in Nat \ {0} /\ start \in 0..Len(marked) /\ Len(err) \in 0..Len(marked)
    BY <1>2, <1>5
  <2>4. \A i \in 1..start : marked[i] \in {EndOfList} BY <2>1
  <2>5. \A i \in end..Len(err) : marked[i] \in {EndOfList} BY <2>2
  <2> QED BY <1>5, <2>3, <2>4, <2>5, PartIn
<1>14. middle = SubSeq(err, start + 1, end - 1)
  <2>1. \A i \in (start + 1)..(end - 1) : marked[i] = err[i] BY <1>2, <1>11
  <2>2. start + 1 \in Nat \ {0} /\ end - 1 \in Nat /\ end - 1 <= Len(marked) /\ end - 1 <= Len(err)
    BY <1>2, <1>5
  <2> QED BY <1>2, <1>5, <2>1, <2>2, SamePart
<1>15. middle \in Seq(Texts \ {EndOfList})
  <2>1. \A i \in (start + 1)..(end - 1) : err[i] \in Texts \ {EndOfList} BY <1>2, <1>8
  <2>2. SubSeq(err, start + 1, end - 1) \in Seq(Texts \ {EndOfList}) BY <1>2, <1>10, <2>1
  <2> QED BY <1>14, <2>2
<1> HIDE DEF head, middle, rest
<1>16. Kept(marked, wanted) = Kept(middle, wanted)
  <2>1. head \in Seq(Texts) /\ middle \in Seq(Texts) /\ rest \in Seq(Texts)
        /\ head \o middle \in Seq(Texts)
    BY <1>2, <1>13, <1>15
  <2>2. Kept(marked, wanted) = (Kept(head, wanted) \o Kept(middle, wanted)) \o Kept(rest, wanted)
    <3>1. ASSUME NEW a \in Seq(Texts), NEW b \in Seq(Texts)
          PROVE  Kept(a \o b, wanted) = Kept(a, wanted) \o Kept(b, wanted)
      <4> HIDE DEF wanted
      <4> QED BY KeptOfConcat, SMTT(30)
    <3>2. Kept((head \o middle) \o rest, wanted) = Kept(head \o middle, wanted) \o Kept(rest, wanted)
      BY <2>1, <3>1, Zenon
    <3>3. Kept(head \o middle, wanted) = Kept(head, wanted) \o Kept(middle, wanted)
      BY <2>1, <3>1, Zenon
    <3> QED BY <1>12, <3>2, <3>3
  <2>3. Kept(head, wanted) = <<>> /\ Kept(rest, wanted) = <<>> BY <1>13, KeptNone
  <2>4. Kept(middle, wanted) \in Seq(Texts) BY <2>1, KeptIn
  <2>5. (<<>> \o Kept(middle, wanted)) \o <<>> = Kept(middle, wanted) BY <2>4, ConcatEmptySeq
  <2> QED BY <2>2, <2>3, <2>5
<1>17. Kept(middle, wanted) = Kept(middle, Texts \ {Spaces}) BY <1>15, KeptSame
<1>18. start + 1 < end
  <2>1. ASSUME end = start + 1 PROVE FALSE
    <3>1. middle = <<>> BY <1>2, <1>14, <2>1
    <3>2. Kept(middle, wanted) = <<>> BY <3>1, KeptOfEmpty
    <3> QED BY <1>1, <1>4, <1>16, <3>2
  <2> QED BY <1>10, <2>1
<1>19. Listed = Kept(SubSeq(err, start + 1, end - 1), Texts \ {Spaces}) BY <1>1, <1>14, <1>16, <1>17
<1> QED BY <1>7, <1>8, <1>18, <1>19 DEF err

-----------------------------------------------------------------------------
(* What is detected *)

LEMMA PrintedTyped ==
    ASSUME TypeOK, NEW s \in Streams
    PROVE  Printed(s) \in Seq(Texts \ {NoText})
<1>1. script \in Seq(Writes) BY ShellAssumption DEF TypeOK, ShellTypeOK
<1>2. Kept(script, To(s)) \in Seq(Writes) BY <1>1, KeptIn
<1> QED BY <1>2, LinesTyped DEF Printed

Markers == {SearchStarts, EndOfList} \cup SysrootLines

LEMMA NoMarkerOnOut ==
    ASSUME TypeOK
    PROVE  Printed("out") \in Seq(Texts \ Markers)
<1> DEFINE X == {script[i] : i \in 1..Len(script)}
<1> DEFINE Y == X \cap To("out")
<1>1. script \in Seq(Writes) /\ script \in Scripts BY ShellAssumption DEF TypeOK, ShellTypeOK
<1>2. script \in Seq(X) /\ X \subseteq Writes BY <1>1
<1>3. \A w \in Y : w.text \in Texts \ Markers
  <2>1. ASSUME NEW i \in 1..Len(script), script[i] \in To("out") PROVE script[i].text \notin Markers
    <3>1. DOMAIN script = 1..Len(script) BY <1>1
    <3>2. script[i].text \in Markers => script[i].to = "err"
      BY <1>1, <3>1, OutputAssumption DEF Markers
    <3> QED BY <2>1, <3>2 DEF To
  <2> QED BY <1>2, <2>1 DEF Writes
<1> HIDE DEF X
<1>4. Kept(script, To("out")) \in Seq(Y) BY <1>2, KeptTyped
<1>5. Y \in SUBSET Writes BY <1>2
<1>6. Printed("out") \in Seq({w.text : w \in Y} \ {NoText})
  <2> HIDE DEF Y
  <2> QED BY <1>4, <1>5, LinesFrom DEF Printed
<1>7. {w.text : w \in Y} \ {NoText} \subseteq Texts \ Markers BY <1>3
<1> QED BY <1>6, <1>7

\* A response of two streams has what was printed on stderr behind a part
\* without markers, and after it only repeats of the last line.
LEMMA TwoStreamsResponse ==
    ASSUME TypeOK, ReadInOrder, pc = "parse", ~OnePipe
    PROVE  LET k == Len(response["out"])
               err == Printed("err")
           IN  /\ Response \in Seq(Texts) /\ k \in Nat /\ k + Len(err) <= Len(Response)
               /\ \A i \in 1..k : Response[i] \notin Markers
               /\ \A i \in 1..Len(err) : Response[k + i] = err[i]
               /\ \A i \in (k + 1)..Len(Response) : \E j \in 1..Len(err) : j <= i - k /\ Response[i] = err[j]
<1> DEFINE k == Len(response["out"])
<1> DEFINE err == Printed("err")
<1> DEFINE out == Printed("out")
<1>1. "err" \in Streams /\ "out" \in Streams BY DEF Streams
<1>2. Extends(response["out"], out) /\ Extends(response["err"], err) BY <1>1, ResponseExtends
<1>3. out \in Seq(Texts \ Markers) BY NoMarkerOnOut
<1>4. err \in Seq(Texts \ {NoText}) BY <1>1, PrintedTyped
<1>5. response["out"] \in Seq(Texts \ {NoText}) /\ response["err"] \in Seq(Texts \ {NoText})
  BY <1>1 DEF TypeOK, ShellTypeOK
<1> HIDE DEF out, err
<1>6. /\ Response \in Seq(Texts) /\ Len(Response) = k + Len(response["err"]) /\ k \in Nat
      /\ \A i \in 1..k : Response[i] = response["out"][i]
      /\ \A i \in 1..Len(response["err"]) : Response[k + i] = response["err"][i]
  <2>1. \A a, b \in Seq(Texts \ {NoText}) :
           /\ a \o b \in Seq(Texts) /\ Len(a \o b) = Len(a) + Len(b) /\ Len(a) \in Nat
           /\ \A i \in 1..Len(a) : (a \o b)[i] = a[i]
           /\ \A i \in 1..Len(b) : (a \o b)[Len(a) + i] = b[i]
    OBVIOUS
  <2> QED BY <1>5, <2>1 DEF Response
<1>7. \A i \in 1..k : Response[i] \notin Markers
  <2> TAKE i \in 1..k
  <2>1. out # <<>>
    <3>1. response["out"] # <<>> BY <1>5
    <3> QED BY <1>2, <3>1 DEF Extends
  <2>2. response["out"][i] = out[IF i <= Len(out) THEN i ELSE Len(out)] BY <1>2 DEF Extends
  <2>3. (IF i <= Len(out) THEN i ELSE Len(out)) \in 1..Len(out) BY <1>3, <1>6, <2>1
  <2>4. out[IF i <= Len(out) THEN i ELSE Len(out)] \in Texts \ Markers BY <1>3, <2>3
  <2> QED BY <1>6, <2>2, <2>4
<1>8. Len(err) \in Nat /\ Len(err) <= Len(response["err"]) /\ Len(response["err"]) \in Nat
  BY <1>2, <1>4, <1>5 DEF Extends
<1>9. \A i \in 1..Len(err) : Response[k + i] = err[i]
  <2> TAKE i \in 1..Len(err)
  <2>1. i \in 1..Len(response["err"]) /\ i <= Len(err) BY <1>8
  <2>2. response["err"][i] = err[i] BY <1>2, <2>1 DEF Extends
  <2> QED BY <1>6, <2>1, <2>2
<1>10. ASSUME NEW i \in (k + 1)..Len(Response)
       PROVE  \E j \in 1..Len(err) : j <= i - k /\ Response[i] = err[j]
  <2> HIDE DEF k
  <2>1. i - k \in 1..Len(response["err"]) /\ k + (i - k) = i BY <1>6, <1>8
  <2>2. response["err"][i - k] = err[IF i - k <= Len(err) THEN i - k ELSE Len(err)]
    BY <1>2, <2>1 DEF Extends
  <2>3. err # <<>>
    <3>1. response["err"] # <<>> BY <1>5, <2>1
    <3> QED BY <1>2, <3>1 DEF Extends
  <2>4. (IF i - k <= Len(err) THEN i - k ELSE Len(err)) \in 1..Len(err)
        /\ (IF i - k <= Len(err) THEN i - k ELSE Len(err)) <= i - k
    BY <1>4, <1>8, <2>1, <2>3
  <2>5. Response[i] = response["err"][i - k] BY <1>6, <2>1
  <2> QED BY <2>2, <2>4, <2>5
<1>11. k + Len(err) <= Len(Response)
  <2> HIDE DEF k
  <2> QED BY <1>6, <1>8
<1> QED BY <1>6, <1>7, <1>9, <1>10, <1>11 DEF err

\* So the list is whole, if its end is there.
LEMMA TwoStreamsWhole ==
    ASSUME TypeOK, ReadInOrder, pc = "parse", ~OnePipe, HasList(Response), Listed # <<>>
    PROVE  Includes(Response) = Listed
<1> DEFINE k == Len(response["out"])
<1> DEFINE err == Printed("err")
<1>1. /\ Response \in Seq(Texts) /\ k \in Nat /\ k + Len(err) <= Len(Response)
      /\ \A i \in 1..k : Response[i] \notin Markers
      /\ \A i \in 1..Len(err) : Response[k + i] = err[i]
      /\ \A i \in (k + 1)..Len(Response) : \E j \in 1..Len(err) : j <= i - k /\ Response[i] = err[j]
  BY TwoStreamsResponse
<1>2. err \in Seq(Texts) /\ Len(err) \in Nat /\ DOMAIN err = 1..Len(err)
  <2>1. err \in Seq(Texts \ {NoText}) BY PrintedTyped DEF Streams
  <2> HIDE DEF err
  <2> QED BY <2>1
<1> HIDE DEF k
<1>3. PICK e \in 1..Len(Response) : Response[e] = EndOfList
  BY <1>1 DEF HasList, EndsOfList, Positions
<1>4. e > k BY <1>1, <1>3 DEF Markers
<1>5. \E j \in 1..Len(err) : err[j] = EndOfList
  <2> HIDE DEF err
  <2>1. e \in (k + 1)..Len(Response) BY <1>1, <1>3, <1>4
  <2> QED BY <1>1, <1>3, <2>1
<1>6. PICK start, end \in 1..Len(err) :
          /\ start + 1 < end /\ err[start] = SearchStarts /\ err[end] = EndOfList
          /\ \A i \in 1..(start - 1) : err[i] # SearchStarts
          /\ \A i \in 1..(end - 1) : err[i] # EndOfList
          /\ Listed = Kept(SubSeq(err, start + 1, end - 1), Texts \ {Spaces})
  BY <1>2, <1>5, ListedIs
<1> HIDE DEF err
<1>7. \A i \in 1..(k + start - 1) : Response[i] # SearchStarts
  <2> TAKE i \in 1..(k + start - 1)
  <2>1. CASE i <= k BY <1>1, <2>1 DEF Markers
  <2>2. CASE i > k
    <3>1. i - k \in 1..(start - 1) /\ i - k \in 1..Len(err) /\ k + (i - k) = i BY <1>1, <1>2, <2>2
    <3>2. Response[i] = err[i - k] BY <1>1, <3>1
    <3> QED BY <1>6, <3>1, <3>2
  <2> QED BY <1>1, <2>1, <2>2
<1>8. ListAt(Response, err, k, start, end)
  <2>1. k \in Int /\ k + start >= 1 /\ k + end <= Len(Response) BY <1>1, <1>2
  <2>2. \A i \in start..end : Response[k + i] = err[i]
    <3>1. \A i \in start..end : i \in 1..Len(err) BY <1>2
    <3> QED BY <1>1, <3>1
  <2> QED BY <1>1, <1>2, <1>6, <1>7, <2>1, <2>2 DEF ListAt
<1>9. Includes(Response) = Kept(SubSeq(err, start + 1, end - 1), Texts \ {Spaces})
  BY <1>8, IncludesAre
<1> QED BY <1>6, <1>9

\* The first sysroot of a response is the first that the compiler named.
LEMMA SysrootFound ==
    ASSUME TypeOK, ReadInOrder, pc = "parse", ~OnePipe, Sysroots(Response) # {}
    PROVE  SysrootsNamed # {} /\ Response[FirstSysroot(Response)] = Printed("err")[First(SysrootsNamed)]
<1> DEFINE k == Len(response["out"])
<1> DEFINE err == Printed("err")
<1>1. /\ Response \in Seq(Texts) /\ k \in Nat /\ k + Len(err) <= Len(Response)
      /\ \A i \in 1..k : Response[i] \notin Markers
      /\ \A i \in 1..Len(err) : Response[k + i] = err[i]
      /\ \A i \in (k + 1)..Len(Response) : \E j \in 1..Len(err) : j <= i - k /\ Response[i] = err[j]
  BY TwoStreamsResponse
<1>2. err \in Seq(Texts) /\ Len(err) \in Nat /\ DOMAIN err = 1..Len(err)
  <2>1. err \in Seq(Texts \ {NoText}) BY PrintedTyped DEF Streams
  <2> HIDE DEF err
  <2> QED BY <2>1
<1>3. SysrootsNamed = {i \in 1..Len(err) : err[i] \in SysrootLines} BY <1>2 DEF SysrootsNamed
<1> HIDE DEF k, err
<1>4. \A i \in Sysroots(Response) : i \in (k + 1)..Len(Response) BY <1>1 DEF Sysroots, Markers
<1>5. SysrootsNamed # {}
  <2>1. PICK i \in Sysroots(Response) : TRUE OBVIOUS
  <2>2. Response[i] \in SysrootLines BY <2>1 DEF Sysroots
  <2> QED BY <1>1, <1>3, <1>4, <2>1, <2>2
<1>6. PICK a \in SysrootsNamed : \A j \in SysrootsNamed : a <= j
  <2>1. SysrootsNamed \subseteq 1..Len(err) BY <1>3
  <2> QED BY <1>2, <1>5, <2>1, SmallestIndex
<1>7. First(SysrootsNamed) = a
  <2>1. SysrootsNamed \subseteq Int BY <1>3
  <2> QED BY <1>6, <2>1, FirstIs
<1>8. a \in 1..Len(err) /\ err[a] \in SysrootLines /\ Response[k + a] = err[a] BY <1>1, <1>3
<1>9. FirstSysroot(Response) = k + a
  <2>1. k + a \in Sysroots(Response) BY <1>1, <1>2, <1>8 DEF Sysroots
  <2>2. ASSUME NEW j \in Sysroots(Response) PROVE k + a <= j
    <3>1. j \in (k + 1)..Len(Response) /\ Response[j] \in SysrootLines BY <1>4 DEF Sysroots
    <3>2. PICK i \in 1..Len(err) : i <= j - k /\ Response[j] = err[i] BY <1>1, <3>1
    <3>3. a <= i BY <1>3, <1>6, <3>1, <3>2
    <3> QED BY <1>1, <1>2, <1>8, <3>1, <3>2, <3>3
  <2>3. Sysroots(Response) \subseteq Int BY <1>1, <1>4
  <2> QED BY <2>1, <2>2, <2>3, FirstIs DEF FirstSysroot
<1> QED BY <1>5, <1>7, <1>8, <1>9 DEF err

\* With one pipe the response is what was read first of all that was printed.
LEMMA OneStreamResponse ==
    ASSUME TypeOK, ReadInOrder, OnePipe
    PROVE  \E n \in 0..Len(script) : Response = Lines(SubSeq(script, 1, n))
<1>1. PICK taken \in Seq(Writes) :
         SubSeq(script, 1, written) = taken \o pipes["out"] /\ response["out"] = Lines(taken)
  BY DEF ReadInOrder, OneStream, Into
<1>2. response["err"] = <<>> BY DEF ReadInOrder, OneStream
<1>3. /\ script \in Seq(Writes) /\ written \in 0..Len(script) /\ pipes["out"] \in Seq(Writes)
      /\ response["out"] \in Seq(Texts \ {NoText})
  BY ShellAssumption DEF TypeOK, ShellTypeOK, Streams
<1>4. Response = Lines(taken)
  <2>1. response["out"] \o <<>> = response["out"] BY <1>3
  <2> QED BY <1>1, <1>2, <2>1 DEF Response
<1>5. PICK before : before = SubSeq(script, 1, written) OBVIOUS
<1>6. IsConcat(before, taken, pipes["out"], Writes) BY <1>1, <1>3, <1>5, ElementsOfConcat
<1>7. Len(before) = written /\ \A i \in 1..written : before[i] = script[i] BY <1>3, <1>5
<1>8. Len(taken) \in 0..Len(script) BY <1>3, <1>6, <1>7 DEF IsConcat
<1>9. taken = SubSeq(script, 1, Len(taken))
  <2>1. \A i \in 1..Len(taken) : script[i] = taken[i] BY <1>3, <1>6, <1>7 DEF IsConcat
  <2>2. SubSeq(taken, 1, Len(taken)) = SubSeq(script, 1, Len(taken))
    BY <1>3, <1>8, <2>1, SamePart
  <2> QED BY <2>2
<1> QED BY <1>4, <1>8, <1>9

LEMMA LinesOfOne ==
    ASSUME NEW w \in Writes, w.text # NoText
    PROVE  Lines(<<w>>) = <<w.text>>
<1>1. <<>> \in Seq(Writes) /\ Append(<<>>, w) = <<w>> OBVIOUS
<1>2. Lines(Append(<<>>, w)) = Append(Lines(<<>>), w.text) BY <1>1, LinesOfAppend
<1>3. Append(<<>>, w.text) = <<w.text>> OBVIOUS
<1> QED BY <1>1, <1>2, <1>3, LinesOfEmpty

\* One sequence, then another, where only that matters of them.
Then(a, b) == a \o b
LEMMA LinesOfBoth ==
    \A a, b \in Seq(Writes) :
        Then(a, b) \in Seq(Writes) /\ Lines(Then(a, b)) = Then(Lines(a), Lines(b))
<1> SUFFICES ASSUME NEW a \in Seq(Writes), NEW b \in Seq(Writes)
             PROVE  a \o b \in Seq(Writes) /\ Lines(a \o b) = Lines(a) \o Lines(b)
  BY DEF Then
<1>1. a \o b \in Seq(Writes) OBVIOUS
<1>2. Lines(a \o b) = Lines(a) \o Lines(b) BY LinesOfConcat, SMTT(30)
<1> QED BY <1>1, <1>2

\* The lines of a sequence that is cut at two of its elements.
LEMMA LinesOfCut ==
    ASSUME NEW x \in Seq(Writes), NEW m \in Seq(Writes), NEW y \in Seq(Writes),
           NEW v \in Writes, NEW w \in Writes, v.text # NoText, w.text # NoText
    PROVE  Lines(Cut(x, v, m, w, y)) = Cut(Lines(x), v.text, Lines(m), w.text, Lines(y))
<1> HIDE DEF Lines
<1>1. PICK a, b : a = <<v>> /\ b = <<w>> OBVIOUS
<1>2. a \in Seq(Writes) /\ b \in Seq(Writes) BY <1>1
<1>3. Lines(a) = <<v.text>> /\ Lines(b) = <<w.text>> BY <1>1, LinesOfOne
<1>4. Lines(Then(Then(Then(Then(x, a), m), b), y))
         = Then(Then(Then(Then(Lines(x), Lines(a)), Lines(m)), Lines(b)), Lines(y))
  <2>1. Then(x, a) \in Seq(Writes) BY <1>2, LinesOfBoth
  <2>2. Then(Then(x, a), m) \in Seq(Writes) BY <2>1, LinesOfBoth
  <2>3. Then(Then(Then(x, a), m), b) \in Seq(Writes) BY <1>2, <2>2, LinesOfBoth
  <2> QED BY <1>2, <2>1, <2>2, <2>3, LinesOfBoth
<1>5. Cut(x, v, m, w, y) = Then(Then(Then(Then(x, a), m), b), y) BY <1>1, Zenon DEF Cut, Then
<1>6. Cut(Lines(x), v.text, Lines(m), w.text, Lines(y))
         = Then(Then(Then(Then(Lines(x), Lines(a)), Lines(m)), Lines(b)), Lines(y))
  BY <1>3, Zenon DEF Cut, Then
<1> QED BY <1>4, <1>5, <1>6

\* And what goes to one stream of it, if the two elements and all between them do.
LEMMA KeptOfCut ==
    ASSUME NEW s, NEW x \in Seq(Writes), NEW m \in Seq(Writes \cap To(s)), NEW y \in Seq(Writes),
           NEW v \in Writes \cap To(s), NEW w \in Writes \cap To(s)
    PROVE  Kept(Cut(x, v, m, w, y), To(s)) = Cut(Kept(x, To(s)), v, m, w, Kept(y, To(s)))
<1> DEFINE K(q) == Kept(q, To(s))
<1>1. PICK a, b : a = <<v>> /\ b = <<w>> OBVIOUS
<1>2. a \in Seq(Writes \cap To(s)) /\ b \in Seq(Writes \cap To(s)) BY <1>1
<1>3. \A q \in Seq(Writes \cap To(s)) : K(q) = q /\ q \in Seq(Writes) BY KeptAll
<1>4. \A p, q \in Seq(Writes) : Then(p, q) \in Seq(Writes) /\ K(Then(p, q)) = Then(K(p), K(q))
  <2> SUFFICES ASSUME NEW p \in Seq(Writes), NEW q \in Seq(Writes)
               PROVE  p \o q \in Seq(Writes) /\ K(p \o q) = K(p) \o K(q)
    BY DEF Then
  <2>1. p \o q \in Seq(Writes) OBVIOUS
  <2>2. K(p \o q) = K(p) \o K(q) BY KeptOfConcat, SMTT(30)
  <2> QED BY <2>1, <2>2
<1> HIDE DEF K
<1>5. /\ K(a) = a /\ K(m) = m /\ K(b) = b
      /\ a \in Seq(Writes) /\ m \in Seq(Writes) /\ b \in Seq(Writes)
  BY <1>2, <1>3, Zenon
<1>6. K(Then(Then(Then(Then(x, a), m), b), y)) = Then(Then(Then(Then(K(x), a), m), b), K(y))
  <2>1. Then(x, a) \in Seq(Writes) BY <1>4, <1>5
  <2>2. Then(Then(x, a), m) \in Seq(Writes) BY <1>4, <1>5, <2>1
  <2>3. Then(Then(Then(x, a), m), b) \in Seq(Writes) BY <1>4, <1>5, <2>2
  <2> QED BY <1>4, <1>5, <2>1, <2>2, <2>3
<1>7. Cut(x, v, m, w, y) = Then(Then(Then(Then(x, a), m), b), y) BY <1>1, Zenon DEF Cut, Then
<1>8. Cut(K(x), v, m, w, K(y)) = Then(Then(Then(Then(K(x), a), m), b), K(y))
  BY <1>1, Zenon DEF Cut, Then
<1>9. K(Cut(x, v, m, w, y)) = Cut(K(x), v, m, w, K(y)) BY <1>6, <1>7, <1>8
<1> QED BY <1>9 DEF K

\* A line that is found in the lines of a sequence was in the sequence.
LEMMA LineFrom ==
    ASSUME NEW c \in Seq(Writes), NEW i \in 1..Len(Lines(c))
    PROVE  \E u \in 1..Len(c) : c[u].text = Lines(c)[i]
<1> DEFINE X == {c[u] : u \in 1..Len(c)}
<1>1. X \in SUBSET Writes /\ c \in Seq(X) OBVIOUS
<1> HIDE DEF X
<1>2. Lines(c) \in Seq({w.text : w \in X} \ {NoText}) BY <1>1, LinesFrom
<1>3. Lines(c)[i] \in {w.text : w \in X}
  <2> HIDE DEF Lines
  <2> QED BY <1>2
<1> QED BY <1>3 DEF X

\* The lines of what comes before the first of its kind have none of that kind.
LEMMA NoneBefore ==
    ASSUME NEW c \in Seq(Writes), NEW i \in Nat \ {0}, NEW n \in 0..Len(c), NEW text,
           \A j \in i..n : c[j].text # text
    PROVE  /\ SubSeq(c, i, n) \in Seq(Writes)
           /\ \A j \in 1..Len(Lines(SubSeq(c, i, n))) : Lines(SubSeq(c, i, n))[j] # text
<1> DEFINE X == {w \in Writes : w.text # text}
<1>1. \A j \in i..n : c[j] \in X OBVIOUS
<1>2. SubSeq(c, i, n) \in Seq(X) /\ SubSeq(c, i, n) \in Seq(Writes)
  <2> HIDE DEF X
  <2>1. SubSeq(c, i, n) \in Seq(X) BY <1>1, PartIn
  <2>2. X \subseteq Writes BY DEF X
  <2> QED BY <2>1, <2>2, SeqMonotonic
<1>3. PICK s : s = SubSeq(c, i, n) OBVIOUS
<1>4. Lines(s) \in Seq({w.text : w \in X} \ {NoText})
  <2>1. X \in SUBSET Writes OBVIOUS
  <2> HIDE DEF X
  <2> QED BY <1>2, <1>3, <2>1, LinesFrom
<1>5. \A j \in 1..Len(Lines(s)) : Lines(s)[j] \in {w.text : w \in X}
  <2> HIDE DEF Lines, X
  <2> QED BY <1>4
<1>6. \A j \in 1..Len(Lines(s)) : Lines(s)[j] # text BY <1>5
<1> QED BY <1>2, <1>3, <1>6

LEMMA NoneKept ==
    ASSUME NEW c \in Seq(Writes), NEW wanted, NEW text, \A j \in 1..Len(c) : c[j].text # text
    PROVE  /\ Kept(c, wanted) \in Seq(Writes)
           /\ \A j \in 1..Len(Lines(Kept(c, wanted))) : Lines(Kept(c, wanted))[j] # text
<1> DEFINE X == {w \in Writes : w.text # text}
<1>1. c \in Seq(X) /\ X \in SUBSET Writes OBVIOUS
<1> HIDE DEF X
<1>2. PICK s : s = Kept(c, wanted) OBVIOUS
<1>3. s \in Seq(X) BY <1>1, <1>2, KeptIn
<1>4. Lines(s) \in Seq({w.text : w \in X} \ {NoText}) BY <1>1, <1>3, LinesFrom
<1>5. \A j \in 1..Len(Lines(s)) : Lines(s)[j] \in {w.text : w \in X}
  <2> HIDE DEF Lines
  <2> QED BY <1>4
<1>6. \A j \in 1..Len(Lines(s)) : Lines(s)[j] # text BY <1>5 DEF X
<1>7. s \in Seq(Writes) BY <1>1, <1>3, SeqMonotonic
<1> QED BY <1>2, <1>6, <1>7

\* Two texts with the same list between the first markers.
LEMMA SameList ==
    ASSUME NEW lx \in Seq(Texts), NEW lx2 \in Seq(Texts), NEW lm \in Seq(Texts),
           NEW ly \in Seq(Texts), NEW lz2 \in Seq(Texts), NEW lines, NEW err,
           lines = Cut(lx, SearchStarts, lm, EndOfList, ly),
           err = Cut(lx2, SearchStarts, lm, EndOfList, lz2),
           \A i \in 1..Len(lx) : lx[i] # SearchStarts,
           \A i \in 1..Len(lx2) : lx2[i] # SearchStarts,
           \A i \in 1..Len(lm) : lm[i] # EndOfList,
           err = Printed("err"), Listed # <<>>
    PROVE  Includes(lines) = Listed
<1>1. SearchStarts \in Texts /\ EndOfList \in Texts BY DetectorAssumption
<1>2. PICK p, q, r, l, l2 : p = Len(lx) /\ q = Len(lx2) /\ r = Len(lm) /\ l = Len(ly) /\ l2 = Len(lz2)
  OBVIOUS
<1>a. IsCut(lines, lx, SearchStarts, lm, EndOfList, ly, Texts) BY <1>1, ElementsOfCut
<1>b. IsCut(err, lx2, SearchStarts, lm, EndOfList, lz2, Texts) BY <1>1, ElementsOfCut
<1>3. p \in Nat /\ q \in Nat /\ r \in Nat /\ l \in Nat /\ l2 \in Nat BY <1>2
<1>4. lines \in Seq(Texts) /\ Len(lines) = p + r + l + 2 BY <1>2, <1>a DEF IsCut
<1>5. \A i \in 1..p : lines[i] # SearchStarts BY <1>2, <1>a DEF IsCut
<1>6. lines[p + 1] = SearchStarts /\ lines[p + r + 2] = EndOfList BY <1>2, <1>a DEF IsCut
<1>7. \A i \in 1..r : lines[p + 1 + i] = lm[i] BY <1>2, <1>a DEF IsCut
<1>8. err \in Seq(Texts) /\ Len(err) = q + r + l2 + 2 BY <1>2, <1>b DEF IsCut
<1>9. \A i \in 1..q : err[i] # SearchStarts BY <1>2, <1>b DEF IsCut
<1>10. err[q + 1] = SearchStarts /\ err[q + r + 2] = EndOfList BY <1>2, <1>b DEF IsCut
<1>11. \A i \in 1..r : err[q + 1 + i] = lm[i] /\ lm[i] # EndOfList BY <1>2, <1>b DEF IsCut
<1>12. q + r + 2 \in DOMAIN err BY <1>3, <1>8
<1>13. PICK start, end \in 1..Len(err) :
          /\ start + 1 < end /\ err[start] = SearchStarts /\ err[end] = EndOfList
          /\ \A i \in 1..(start - 1) : err[i] # SearchStarts
          /\ \A i \in 1..(end - 1) : err[i] # EndOfList
          /\ Listed = Kept(SubSeq(err, start + 1, end - 1), Texts \ {Spaces})
  BY <1>8, <1>10, <1>12, ListedIs
<1>14. start \in 1..(q + r + l2 + 2) /\ end \in 1..(q + r + l2 + 2) BY <1>8
<1>15. start = q + 1
  <2>1. start \notin 1..q BY <1>9, <1>13
  <2>2. q + 1 \notin 1..(start - 1) BY <1>10, <1>13
  <2> QED BY <1>3, <1>14, <2>1, <2>2
<1>16. end = q + r + 2
  <2>1. q + r + 2 \notin 1..(end - 1) BY <1>10, <1>13
  <2>2. ASSUME end < q + r + 2 PROVE FALSE
    <3>1. end - q - 1 \in 1..r /\ q + 1 + (end - q - 1) = end BY <1>3, <1>13, <1>14, <1>15, <2>2
    <3>2. err[q + 1 + (end - q - 1)] # EndOfList BY <1>11, <3>1
    <3> QED BY <1>13, <3>1, <3>2
  <2> QED BY <1>3, <1>14, <2>1, <2>2
<1>17. PICK k \in Int : k = p - q BY <1>3
<1>18. k + start = p + 1 /\ k + end = p + r + 2 BY <1>3, <1>15, <1>16, <1>17
<1>19. \A i \in start..end : lines[k + i] = err[i]
  <2> TAKE i \in start..end
  <2>1. CASE i = start BY <1>6, <1>13, <1>18, <2>1
  <2>2. CASE i = end BY <1>6, <1>13, <1>18, <2>2
  <2>3. CASE i # start /\ i # end
    <3>1. i - q - 1 \in 1..r BY <1>3, <1>15, <1>16, <2>3
    <3>2. q + 1 + (i - q - 1) = i /\ p + 1 + (i - q - 1) = k + i BY <1>3, <1>15, <1>16, <1>17
    <3>3. lines[p + 1 + (i - q - 1)] = lm[i - q - 1] /\ err[q + 1 + (i - q - 1)] = lm[i - q - 1]
      BY <1>7, <1>11, <3>1
    <3> QED BY <3>2, <3>3
  <2> QED BY <2>1, <2>2, <2>3
<1>20. \A i \in 1..(k + start - 1) : lines[i] # SearchStarts
  <2>1. k + start - 1 = p BY <1>3, <1>18
  <2> QED BY <1>5, <2>1
<1>21. k + start >= 1 /\ k + end <= Len(lines) BY <1>3, <1>4, <1>18
<1>22. ListAt(lines, err, k, start, end) BY <1>4, <1>8, <1>13, <1>19, <1>20, <1>21 DEF ListAt
<1>23. Includes(lines) = Kept(SubSeq(err, start + 1, end - 1), Texts \ {Spaces})
  BY <1>22, IncludesAre, Zenon
<1> QED BY <1>13, <1>23

\* With one pipe, too, the list is whole if its end is there: nothing else is
\* printed between its lines.
LEMMA OneStreamWhole ==
    ASSUME TypeOK, NEW n \in 0..Len(script), HasList(Lines(SubSeq(script, 1, n))), Listed # <<>>
    PROVE  Includes(Lines(SubSeq(script, 1, n))) = Listed
<1>1. script \in Seq(Writes) /\ script \in Scripts /\ Len(script) \in Nat /\ DOMAIN script = 1..Len(script)
  BY ShellAssumption DEF TypeOK, ShellTypeOK
<1>2. PICK c : c = SubSeq(script, 1, n) OBVIOUS
<1>3. c \in Seq(Writes) /\ Len(c) = n /\ \A i \in 1..n : c[i] = script[i] BY <1>1, <1>2
<1>4. PICK lines : lines = Lines(c) OBVIOUS
<1>5. lines \in Seq(Texts \ {NoText}) BY <1>3, <1>4, LinesTyped
<1>6. HasList(lines) BY <1>2, <1>4
<1>7. DOMAIN lines = 1..Len(lines) /\ Len(lines) \in Nat BY <1>5
\* Where the child starts the list.
<1>8. PICK u \in 1..n : script[u].text = SearchStarts
                        /\ \A i \in 1..(u - 1) : script[i].text # SearchStarts
  <2> DEFINE S == {i \in 1..n : script[i].text = SearchStarts}
  <2>1. PICK i \in 1..Len(lines) : lines[i] = SearchStarts BY <1>6, <1>7 DEF HasList, Positions
  <2>2. PICK j \in 1..Len(c) : c[j].text = lines[i] BY <1>3, <1>4, <2>1, LineFrom
  <2>3. j \in S BY <1>3, <2>1, <2>2
  <2>4. PICK k \in S : \A l \in S : k <= l
    <3>1. S \subseteq 1..n /\ n \in Nat /\ S # {} BY <1>1, <2>3
    <3> HIDE DEF S
    <3> QED BY <3>1, SmallestIndex
  <2>5. \A l \in 1..(k - 1) : script[l].text # SearchStarts BY <1>1, <2>4
  <2> QED BY <2>4, <2>5
<1>9. NoText \notin {SearchStarts, EndOfList} /\ SearchStarts # EndOfList
      /\ SearchStarts \in Texts /\ EndOfList \in Texts
  BY DetectorAssumption
\* What is printed before has no start marker.
<1>10. PICK x : x = SubSeq(script, 1, u - 1) OBVIOUS
<1>11. x \in Seq(Writes) /\ \A i \in 1..Len(Lines(x)) : Lines(x)[i] # SearchStarts
  <2>1. u - 1 \in 0..Len(script) /\ 1 \in Nat \ {0} BY <1>1
  <2> QED BY <1>1, <1>8, <1>10, <2>1, NoneBefore
<1>12. Lines(x) \in Seq(Texts) /\ Len(Lines(x)) \in Nat
  <2>1. Lines(x) \in Seq(Texts \ {NoText}) BY <1>11, LinesTyped
  <2> HIDE DEF Lines
  <2> QED BY <2>1
\* The end marker comes after it.
<1>13. PICK v \in (u + 1)..n : script[v].text = EndOfList
                               /\ \A i \in (u + 1)..(v - 1) : script[i].text # EndOfList
  <2> DEFINE S == {i \in (u + 1)..n : script[i].text = EndOfList}
  <2>1. PICK y : y = SubSeq(script, u + 1, n) OBVIOUS
  <2>2. ASSUME S = {} PROVE FALSE
    <3>1. \A i \in (u + 1)..n : script[i].text # EndOfList BY <2>2
    <3>2. u + 1 \in Nat \ {0} /\ n \in 0..Len(script) OBVIOUS
    <3>3. y \in Seq(Writes) /\ \A i \in 1..Len(Lines(y)) : Lines(y)[i] # EndOfList
      BY <1>1, <2>1, <3>1, <3>2, NoneBefore
    <3>4. PICK w : w = script[u] OBVIOUS
    <3>5. w \in Writes /\ w.text = SearchStarts BY <1>1, <1>8, <3>4
    <3>6. <<w>> \in Seq(Writes) /\ Lines(<<w>>) = <<SearchStarts>> BY <1>9, <3>5, LinesOfOne
    <3>7. c = (x \o <<w>>) \o y
      <4>1. SubSeq(script, u, u) = <<w>> BY <1>1, <3>4, PartOfOne
      <4>2. SubSeq(script, 1, u - 1) \o SubSeq(script, (u - 1) + 1, u) = SubSeq(script, 1, u)
        BY <1>1, ConcatAdjacentSubSeq
      <4>3. SubSeq(script, 1, u) \o SubSeq(script, u + 1, n) = SubSeq(script, 1, n)
        BY <1>1, ConcatAdjacentSubSeq
      <4>4. (u - 1) + 1 = u OBVIOUS
      <4>5. x \o <<w>> = SubSeq(script, 1, u) BY <1>10, <4>1, <4>2, <4>4
      <4> QED BY <1>2, <2>1, <4>3, <4>5
    <3>8. PICK z : z = x \o <<w>> OBVIOUS
    <3>9. z \in Seq(Writes) /\ Lines(z) = Lines(x) \o <<SearchStarts>>
      <4>1. z \in Seq(Writes) BY <1>11, <3>6, <3>8, ConcatProperties
      <4> QED BY <1>11, <3>6, <3>8, <4>1, LinesOfConcat
    <3>10. lines = Lines(z) \o Lines(y) BY <1>4, <3>3, <3>7, <3>8, <3>9, LinesOfConcat
    <3>11. Lines(y) \in Seq(Texts)
      <4>1. Lines(y) \in Seq(Texts \ {NoText}) BY <3>3, LinesTyped
      <4> HIDE DEF Lines
      <4> QED BY <4>1
    <3>12. <<SearchStarts>> \in Seq(Texts) /\ Len(<<SearchStarts>>) = 1 /\ <<SearchStarts>>[1] = SearchStarts
      BY <1>9
    <3>13. IsConcat(Lines(z), Lines(x), <<SearchStarts>>, Texts)
      BY <1>12, <3>9, <3>12, ElementsOfConcat
    <3>14. Lines(z) \in Seq(Texts) BY <3>13 DEF IsConcat
    <3>15. IsConcat(lines, Lines(z), Lines(y), Texts) BY <3>10, <3>11, <3>14, ElementsOfConcat
    <3> HIDE DEF Lines
    <3>16. /\ Len(Lines(z)) = Len(Lines(x)) + 1 /\ Lines(z)[Len(Lines(x)) + 1] = SearchStarts
           /\ \A i \in 1..Len(Lines(x)) : Lines(z)[i] = Lines(x)[i]
      BY <3>12, <3>13 DEF IsConcat
    <3>17. /\ Len(lines) = Len(Lines(z)) + Len(Lines(y)) /\ Len(Lines(y)) \in Nat
           /\ \A i \in 1..Len(Lines(z)) : lines[i] = Lines(z)[i]
           /\ \A i \in 1..Len(Lines(y)) : lines[Len(Lines(z)) + i] = Lines(y)[i]
      BY <3>15 DEF IsConcat
    <3>18. StartOfList(lines) = Len(Lines(x)) + 1
      <4>1. Len(Lines(x)) + 1 \in Positions(lines, SearchStarts)
        BY <1>7, <1>12, <3>16, <3>17 DEF Positions
      <4>2. ASSUME NEW j \in Positions(lines, SearchStarts) PROVE Len(Lines(x)) + 1 <= j
        <5>1. j \in 1..Len(lines) /\ lines[j] = SearchStarts BY <1>7 DEF Positions
        <5>2. ASSUME j \in 1..Len(Lines(x)) PROVE FALSE
          <6>1. j \in 1..Len(Lines(z)) BY <1>12, <3>16, <5>2
          <6>2. lines[j] = Lines(x)[j] BY <3>16, <3>17, <5>2, <6>1
          <6> QED BY <1>11, <5>1, <5>2, <6>2
        <5> QED BY <1>7, <1>12, <5>1, <5>2
      <4>3. Positions(lines, SearchStarts) \subseteq Int BY <1>7 DEF Positions
      <4> QED BY <4>1, <4>2, <4>3, FirstIs DEF StartOfList
    <3>19. PICK e \in 1..Len(lines) : lines[e] = EndOfList /\ e > Len(Lines(x)) + 1
      BY <1>6, <1>7, <3>18 DEF HasList, EndsOfList, Positions
    <3>20. e - Len(Lines(z)) \in 1..Len(Lines(y)) BY <1>7, <1>12, <3>16, <3>17, <3>19
    <3>21. lines[Len(Lines(z)) + (e - Len(Lines(z)))] = Lines(y)[e - Len(Lines(z))]
           /\ Len(Lines(z)) + (e - Len(Lines(z))) = e
      BY <1>12, <3>16, <3>17, <3>20
    <3> QED BY <3>3, <3>19, <3>20, <3>21
  <2>3. PICK k \in S : \A l \in S : k <= l
    <3>1. S \subseteq 1..n /\ n \in Nat BY <1>1
    <3> HIDE DEF S
    <3> QED BY <2>2, <3>1, SmallestIndex
  <2>4. \A l \in (u + 1)..(k - 1) : script[l].text # EndOfList BY <1>1, <2>3
  <2> QED BY <2>3, <2>4
<1>14. PICK m : m = SubSeq(script, u + 1, v - 1) OBVIOUS
<1>15. PICK y : y = SubSeq(script, v + 1, n) OBVIOUS
<1>16. PICK z : z = SubSeq(script, v + 1, Len(script)) OBVIOUS
<1>17. PICK a, b : a = script[u] /\ b = script[v] OBVIOUS
<1>18. a \in Writes \cap To("err") /\ b \in Writes \cap To("err")
       /\ a.text = SearchStarts /\ b.text = EndOfList
  <2>1. u \in DOMAIN script /\ v \in DOMAIN script /\ a \in Writes /\ b \in Writes
        /\ a.text = SearchStarts /\ b.text = EndOfList
    BY <1>1, <1>8, <1>13, <1>17
  <2>2. a.to = "err" /\ b.to = "err" BY <1>1, <1>17, <2>1, OutputAssumption
  <2> QED BY <2>1, <2>2 DEF To
<1>19. m \in Seq(Writes \cap To("err")) /\ m \in Seq(Writes)
       /\ \A i \in 1..Len(Lines(m)) : Lines(m)[i] # EndOfList
  <2>1. u + 1 \in Nat \ {0} /\ v - 1 \in 0..Len(script) BY <1>1
  <2>2. ASSUME NEW i \in (u + 1)..(v - 1) PROVE script[i] \in Writes \cap To("err")
    <3>1. u \in DOMAIN script /\ v \in DOMAIN script /\ i \in DOMAIN script /\ u < i /\ i < v BY <1>1
    <3>2. script[i].to = "err" BY <1>1, <1>8, <1>13, <3>1, OutputAssumption
    <3>3. script[i] \in Writes BY <1>1, <3>1
    <3> QED BY <3>2, <3>3 DEF To
  <2>3. m \in Seq(Writes \cap To("err")) BY <1>1, <1>14, <2>1, <2>2, PartIn
  <2>4. /\ SubSeq(script, u + 1, v - 1) \in Seq(Writes)
        /\ \A i \in 1..Len(Lines(SubSeq(script, u + 1, v - 1))) :
              Lines(SubSeq(script, u + 1, v - 1))[i] # EndOfList
    BY <1>1, <1>13, <2>1, NoneBefore
  <2>5. m \in Seq(Writes) /\ \A i \in 1..Len(Lines(m)) : Lines(m)[i] # EndOfList
    BY <1>14, <2>4
  <2> QED BY <2>3, <2>5
<1>20. y \in Seq(Writes) /\ z \in Seq(Writes) BY <1>1, <1>15, <1>16
<1>21. c = Cut(x, a, m, b, y)
  <2>1. u \in 1..n /\ v \in 1..n /\ u < v BY <1>1
  <2> QED BY <1>1, <1>2, <1>10, <1>14, <1>15, <1>17, <2>1, CutAtTwo
<1>22. script = Cut(x, a, m, b, z)
  <2>1. u \in 1..Len(script) /\ v \in 1..Len(script) /\ u < v /\ Len(script) \in 0..Len(script) BY <1>1
  <2>2. script = SubSeq(script, 1, Len(script)) BY <1>1
  <2> QED BY <1>1, <1>10, <1>14, <1>16, <1>17, <2>1, <2>2, CutAtTwo
<1>23. PICK x2, z2 : x2 = Kept(x, To("err")) /\ z2 = Kept(z, To("err")) OBVIOUS
<1>24. x2 \in Seq(Writes) /\ z2 \in Seq(Writes)
       /\ \A i \in 1..Len(Lines(x2)) : Lines(x2)[i] # SearchStarts
  <2>1. \A j \in 1..Len(x) : x[j].text # SearchStarts BY <1>1, <1>8, <1>10
  <2> QED BY <1>11, <1>20, <1>23, <2>1, NoneKept, KeptIn
<1>25. PICK err : err = Printed("err") OBVIOUS
<1>26. err = Cut(Lines(x2), SearchStarts, Lines(m), EndOfList, Lines(z2))
  <2>1. Kept(script, To("err")) = Cut(x2, a, m, b, z2)
    BY <1>11, <1>18, <1>19, <1>20, <1>22, <1>23, KeptOfCut
  <2>2. Lines(Cut(x2, a, m, b, z2)) = Cut(Lines(x2), a.text, Lines(m), b.text, Lines(z2))
    BY <1>9, <1>18, <1>19, <1>24, LinesOfCut
  <2> QED BY <1>18, <1>25, <2>1, <2>2 DEF Printed
<1>27. lines = Cut(Lines(x), SearchStarts, Lines(m), EndOfList, Lines(y))
  <2>1. Lines(Cut(x, a, m, b, y)) = Cut(Lines(x), a.text, Lines(m), b.text, Lines(y))
    BY <1>9, <1>11, <1>18, <1>19, <1>20, LinesOfCut
  <2> QED BY <1>4, <1>18, <1>21, <2>1
<1>28. \A q \in Seq(Writes) : Lines(q) \in Seq(Texts)
  <2> TAKE q \in Seq(Writes)
  <2>1. Lines(q) \in Seq(Texts \ {NoText}) BY LinesTyped
  <2> HIDE DEF Lines
  <2> QED BY <2>1
<1>29. PICK lx, lx2, lm, ly, lz2 : lx = Lines(x) /\ lx2 = Lines(x2) /\ lm = Lines(m)
                                   /\ ly = Lines(y) /\ lz2 = Lines(z2)
  OBVIOUS
<1>30. lx \in Seq(Texts) /\ lx2 \in Seq(Texts) /\ lm \in Seq(Texts) /\ ly \in Seq(Texts) /\ lz2 \in Seq(Texts)
  BY <1>11, <1>19, <1>20, <1>24, <1>28, <1>29
<1>31. lines = Cut(lx, SearchStarts, lm, EndOfList, ly) /\ err = Cut(lx2, SearchStarts, lm, EndOfList, lz2)
  BY <1>26, <1>27, <1>29
<1>32. /\ \A i \in 1..Len(lx) : lx[i] # SearchStarts
       /\ \A i \in 1..Len(lx2) : lx2[i] # SearchStarts
       /\ \A i \in 1..Len(lm) : lm[i] # EndOfList
  BY <1>11, <1>19, <1>24, <1>29
<1>33. Includes(lines) = Listed BY <1>25, <1>30, <1>31, <1>32, SameList, SMTT(30)
<1> QED BY <1>2, <1>4, <1>33

\* What is detected is what the compiler lists, or nothing.
LEMMA DetectedWhole ==
    ASSUME TypeOK, ReadInOrder, pc = "parse", Detected(Response).kind = "env"
    PROVE  IF platform = "apple"
              THEN /\ SysrootsNamed # {}
                   /\ Detected(Response).includes = Below(Printed("err")[First(SysrootsNamed)])
              ELSE Listed # <<>> => Detected(Response).includes = Listed
<1>1. CASE platform = "apple"
  <2>1. ~OnePipe BY <1>1 DEF OnePipe
  <2>2. Sysroots(Response) # {} BY <1>1 DEF Detected, DetectedBelow, Error
  <2>3. Detected(Response).includes = Below(Response[FirstSysroot(Response)])
    BY <1>1, <2>2 DEF Detected, DetectedBelow, Environment
  <2> QED BY <1>1, <2>1, <2>2, <2>3, SysrootFound
<1>2. CASE platform # "apple"
  <2>1. HasList(Response) BY <1>2 DEF Detected, Error
  <2>2. Detected(Response).includes = Includes(Response) BY <1>2 DEF Detected, Error, Environment
  <2>3. ASSUME Listed # <<>> PROVE Includes(Response) = Listed
    <3>1. CASE ~OnePipe BY <2>1, <2>3, <3>1, TwoStreamsWhole
    <3>2. CASE OnePipe
      <4>1. PICK n \in 0..Len(script) : Response = Lines(SubSeq(script, 1, n))
        BY <3>2, OneStreamResponse
      <4> QED BY <2>1, <2>3, <4>1, OneStreamWhole
    <3> QED BY <3>1, <3>2
  <2> QED BY <1>2, <2>2, <2>3
<1> QED BY <1>1, <1>2

\* An environment always has the whole list of directories the compiler printed,
\* or the sysroot it named first, on every platform
\* (CompilerConfigDetector.cpp:36-48, 162-172, 395-413).
THEOREM EnvironmentComplete == Spec => []EnvironmentWhole
<1>1. Init => EnvironmentWhole BY DEF Init, EnvironmentWhole, NoResult
<1>2. TypeOK /\ ReadInOrder /\ EnvironmentWhole /\ [Next]_vars => EnvironmentWhole'
  <2> SUFFICES ASSUME TypeOK, ReadInOrder, EnvironmentWhole, [Next]_vars PROVE EnvironmentWhole'
    OBVIOUS
  <2>1. Listed' = Listed /\ SysrootsNamed' = SysrootsNamed /\ Printed("err")' = Printed("err")
        /\ platform' = platform
    <3>1. script' = script /\ platform' = platform
      BY DEF Next, vars, shellVars, NoPaths, NoCompiler, Locate, SpawnThrows, Parse, Fail, ShellStep,
             ChildStep, ReaderStep, ChildWrites, ChildCloses, ChildExits, Spawn, ReadErr, ReadOut,
             StoreLines, TestRunning, ReadMerged, Wait
    <3>2. Printed("err")' = Printed("err") BY <3>1 DEF Printed
    <3> QED BY <3>1, <3>2 DEF Listed, SysrootsNamed
  <2>2. CASE Parse
    <3>1. pc = "parse" /\ result' = Detected(Response) BY <2>2 DEF Parse
    <3> QED BY <2>1, <3>1, DetectedWhole DEF EnvironmentWhole
  <2>3. CASE result'.kind # "env" BY <2>3 DEF EnvironmentWhole
  <2>4. CASE result' = result BY <2>1, <2>4 DEF EnvironmentWhole
  <2>5. result' = result \/ result'.kind # "env" \/ Parse
    BY DEF Next, vars, NoPaths, NoCompiler, Locate, SpawnThrows, Fail, Error
  <2> QED BY <2>2, <2>3, <2>4, <2>5
<1> QED BY <1>1, <1>2, Typing, ReadInOrderAlways, PTL DEF Spec
=============================================================================
