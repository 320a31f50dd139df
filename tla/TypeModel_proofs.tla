-------------------------- MODULE TypeModel_proofs --------------------------
(***************************************************************************)
(* Proofs about TypeModel, for comments and types of any length: which     *)
(* comments end the reading of tags, and that the comparison of types,     *)
(* where it answers, agrees with their hash and does not depend on which   *)
(* type is asked.  The tags of a type are what the last tags of the        *)
(* comment say and what is added to them.                                  *)
(***************************************************************************)
EXTENDS TypeModel, Filtering_proofs

-----------------------------------------------------------------------------
(* Reading *)

\* A text that reading passes over, for it is empty or it fits.
Fits(t) == t.empty \/ "range" \notin {t.integer, t.float}

\* Everything before the text that is read next was passed over, and a reading that
\* ended has met a text that does not fit.
ReadSoFar ==
    /\ given \in Cases
    /\ tag \in 1..(Len(Comment) + 2)
    /\ text \in Nat \ {0}
    /\ \A i \in DOMAIN Comment, k \in Nat :
          i < tag /\ k \in DOMAIN Comment[i].texts => Fits(Comment[i].texts[k])
    /\ ~raised /\ tag <= Len(Comment) =>
          \A k \in DOMAIN Comment[tag].texts : k < text => Fits(Comment[tag].texts[k])
    /\ raised => \E i \in DOMAIN Comment : \E k \in DOMAIN Comment[i].texts :
                    ~Fits(Comment[i].texts[k])

\* The comment of a case is a sequence of tags with sequences of texts.
LEMMA CommentTyped ==
    ASSUME given \in Cases
    PROVE  /\ Len(Comment) \in Nat /\ DOMAIN Comment = 1..Len(Comment)
           /\ \A i \in DOMAIN Comment :
                 /\ Len(Comment[i].texts) \in Nat
                 /\ DOMAIN Comment[i].texts = 1..Len(Comment[i].texts)
                 /\ \A k \in DOMAIN Comment[i].texts : Comment[i].texts[k] \in Texts
<1>1. Comment \in Seq(Written) BY ModelAssumption DEF Comment
<1>2. \A i \in DOMAIN Comment : Comment[i] \in Written BY <1>1
<1>3. \A w \in Written : w.texts \in Seq(Texts) BY DEF Written
<1>4. \A i \in DOMAIN Comment : Comment[i].texts \in Seq(Texts) BY <1>2, <1>3
<1> QED BY <1>1, <1>4

\* Of a text that may be written, out_of_range is thrown just if it does not fit:
\* what is all an integer is never too large for a float.
LEMMA RaisesUnlessFits ==
    ASSUME NEW t \in Texts
    PROVE  OutOfRange(t) <=> ~Fits(t)
BY DEF Texts, Readings, OutOfRange, Raises, Fits

\* ReadSoFar holds in every reachable state.
THEOREM Reading == Spec => []ReadSoFar
<1>1. Init => ReadSoFar
  <2> SUFFICES ASSUME Init PROVE ReadSoFar OBVIOUS
  <2>1. given \in Cases /\ tag = 1 /\ text = 1 /\ raised = FALSE BY DEF Init
  <2> QED BY <2>1, CommentTyped DEF ReadSoFar
<1>2. ReadSoFar /\ [Next]_vars => ReadSoFar'
  <2> SUFFICES ASSUME ReadSoFar, [Next]_vars PROVE ReadSoFar' OBVIOUS
  <2> USE CommentTyped
  <2>1. CASE ReadText
    <3> DEFINE t == Comment[tag].texts[text]
    <3>1. /\ ~raised /\ tag \in DOMAIN Comment /\ text \in DOMAIN Comment[tag].texts
          /\ t \in Texts /\ raised' = OutOfRange(t)
          /\ text' = text + 1 /\ tag' = tag /\ given' = given /\ Comment' = Comment
      BY <2>1 DEF ReadText, ReadSoFar, Comment
    <3>2. CASE Fits(t)
      <4>1. ~raised' BY <3>1, <3>2, RaisesUnlessFits
      <4>2. \A k \in DOMAIN Comment[tag].texts : k < text + 1 => Fits(Comment[tag].texts[k])
        BY <3>1, <3>2 DEF ReadSoFar
      <4> QED BY <3>1, <4>1, <4>2 DEF ReadSoFar
    <3>3. CASE ~Fits(t)
      <4>1. raised' BY <3>1, <3>3, RaisesUnlessFits
      <4> QED BY <3>1, <3>3, <4>1 DEF ReadSoFar
    <3> QED BY <3>2, <3>3
  <2>2. CASE FinishTag
    <3>1. /\ ~raised /\ tag \in DOMAIN Comment /\ text > Len(Comment[tag].texts)
          /\ raised' = raised /\ text' = 1 /\ tag' = tag + 1 /\ given' = given /\ Comment' = Comment
      BY <2>2 DEF FinishTag, ReadSoFar, Comment
    <3>2. \A k \in DOMAIN Comment[tag].texts : Fits(Comment[tag].texts[k])
      BY <3>1 DEF ReadSoFar
    <3> QED BY <3>1, <3>2 DEF ReadSoFar
  <2>3. CASE FinishComment
    <3>1. /\ ~raised /\ tag = Len(Comment) + 1 /\ raised' = raised /\ text' = text
          /\ tag' = tag + 1 /\ given' = given /\ Comment' = Comment
      BY <2>3 DEF FinishComment, Comment
    <3> QED BY <3>1 DEF ReadSoFar
  <2>4. CASE UNCHANGED <<given, reading>>
    BY <2>4 DEF ReadSoFar, reading, Comment
  <2> QED BY <2>1, <2>2, <2>3, <2>4 DEF Next, vars, Compare, AreSame, DoAreSame
<1> QED BY <1>1, <1>2, PTL DEF Spec

\* The texts that do not fit are the ones that TooLarge collects.
LEMMA TooLargeIsUnfit ==
    ASSUME given \in Cases
    PROVE  TooLarge = {} <=>
              \A i \in DOMAIN Comment : \A k \in DOMAIN Comment[i].texts : Fits(Comment[i].texts[k])
BY CommentTyped DEF TooLarge, Fits, Range

\* Reading ends early for a number that does not fit, and for nothing else, and
\* passes over no such number, whatever a comment holds (Tag.cpp:112-137).
THEOREM NumbersOnly == Spec => []RaisedByNumbersOnly
<1>1. ReadSoFar => RaisedByNumbersOnly
  <2> SUFFICES ASSUME ReadSoFar PROVE RaisedByNumbersOnly OBVIOUS
  <2>1. given \in Cases BY DEF ReadSoFar
  <2>2. raised => TooLarge # {} BY <2>1, TooLargeIsUnfit DEF ReadSoFar
  <2>3. ASSUME Collected PROVE TooLarge = {}
    <3>1. \A i \in DOMAIN Comment : i < tag BY <2>1, <2>3, CommentTyped DEF Collected
    <3>2. \A i \in DOMAIN Comment : \A k \in DOMAIN Comment[i].texts : Fits(Comment[i].texts[k])
      BY <2>1, <3>1, CommentTyped DEF ReadSoFar
    <3> QED BY <2>1, <3>2, TooLargeIsUnfit
  <2> QED BY <2>2, <2>3 DEF RaisedByNumbersOnly
<1> QED BY <1>1, Reading, PTL

-----------------------------------------------------------------------------
(* What the tags are *)

\* One argument for each text, of the type the text has.
IsReading(arguments, texts) ==
    /\ arguments \in Seq(Arguments)
    /\ Len(arguments) = Len(texts)
    /\ \A k \in DOMAIN texts : arguments[k] = Argument(TypeOfText(texts[k]), texts[k])

\* The tags that were read up to m, of a name the last.
IsMerged(m) ==
    /\ DOMAIN read = {Comment[i].name : i \in 1..m}
    /\ \A i \in 1..m :
          (\A j \in 1..m : Comment[j].name = Comment[i].name => j <= i) =>
             IsReading(read[Comment[i].name], Meant(Comment[i].texts))

Typed(some, names) == DOMAIN some \subseteq names /\ \A n \in DOMAIN some : some[n] \in Seq(Arguments)
Own == STRING \cup {"runtime", "property"}

\* The arguments of the tag that is read are those of the texts before the next one,
\* and the tags before it are merged; once the comment is read, the tags are whole.
TagsInv ==
    /\ values \in Seq(Arguments) /\ Typed(read, STRING) /\ Typed(tags, Own)
    /\ ~raised /\ tag <= Len(Comment) =>
          /\ text <= Len(Comment[tag].texts) + 1
          /\ IsReading(values, Meant(SubSeq(Comment[tag].texts, 1, text - 1)))
    /\ tag <= Len(Comment) + 1 => IsMerged(tag - 1)
    /\ TagsAsWritten

\* A text adds one argument.
LEMMA AddedOne ==
    ASSUME NEW t \in Texts
    PROVE  Argument(TypeOfText(t), t) \in Arguments /\ Added(t) = <<Argument(TypeOfText(t), t)>>
BY DEF Texts, Arguments, Argument, ArgumentTypes, TypeOfText, Word, Added

\* An argument more for a text more.
LEMMA ReadingGrows ==
    ASSUME NEW texts \in Seq(Texts), NEW arguments, IsReading(arguments, texts), NEW t \in Texts,
           NEW both, both = arguments \o Added(t)
    PROVE  IsReading(both, Append(texts, t))
<1>1. PICK a, one : a = Argument(TypeOfText(t), t) /\ one = Added(t) OBVIOUS
<1>2. a \in Arguments /\ one = <<a>> BY <1>1, AddedOne
<1>3. one \in Seq(Arguments) /\ Len(one) = 1 /\ one[1] = a BY <1>2
<1>4. IsConcat(both, arguments, one, Arguments) BY <1>1, <1>3, ElementsOfConcat DEF IsReading
<1>5. Len(texts) \in Nat /\ DOMAIN texts = 1..Len(texts) /\ Len(arguments) = Len(texts)
  BY DEF IsReading
<1>6. both \in Seq(Arguments) /\ Len(both) = Len(texts) + 1
  BY <1>3, <1>4, <1>5 DEF IsConcat
<1>7. both[Len(texts) + 1] = a
  <2>1. 1 \in 1..Len(one) BY <1>3
  <2> QED BY <1>3, <1>4, <1>5, <2>1 DEF IsConcat
<1>8. \A k \in 1..Len(texts) : both[k] = Argument(TypeOfText(texts[k]), texts[k])
  BY <1>4, <1>5 DEF IsConcat, IsReading
<1>9. PICK longer : longer = Append(texts, t) OBVIOUS
<1>10. /\ Len(longer) = Len(texts) + 1 /\ DOMAIN longer = 1..(Len(texts) + 1)
       /\ longer[Len(texts) + 1] = t /\ \A k \in 1..Len(texts) : longer[k] = texts[k]
  BY <1>9
<1>11. ASSUME NEW k \in DOMAIN longer PROVE both[k] = Argument(TypeOfText(longer[k]), longer[k])
  <2>1. CASE k \in 1..Len(texts) BY <1>8, <1>10, <2>1
  <2>2. CASE k = Len(texts) + 1 BY <1>1, <1>7, <1>10, <2>2
  <2>3. k \in 1..(Len(texts) + 1) BY <1>10
  <2>4. k \in 1..Len(texts) \/ k = Len(texts) + 1 BY <1>5, <2>3
  <2> QED BY <2>1, <2>2, <2>4
<1>12. IsReading(both, longer) BY <1>6, <1>10, <1>11 DEF IsReading
<1> QED BY <1>9, <1>12

\* What is meant by one text more.
LEMMA MeantByMore ==
    ASSUME NEW texts \in Seq(Texts), NEW n \in 1..Len(texts)
    PROVE  /\ Meant(SubSeq(texts, 1, n - 1)) \in Seq(Texts)
           /\ Meant(SubSeq(texts, 1, n)) =
                IF texts[n].empty THEN Meant(SubSeq(texts, 1, n - 1))
                ELSE Append(Meant(SubSeq(texts, 1, n - 1)), texts[n])
<1>1. PICK before : before = SubSeq(texts, 1, n - 1) OBVIOUS
<1>2. before \in Seq(Texts) /\ texts[n] \in Texts BY <1>1
<1>3. SubSeq(texts, 1, n) = Append(before, texts[n])
  <2>1. SubSeq(texts, n, n) = <<texts[n]>> BY PartOfOne
  <2>2. SubSeq(texts, 1, n - 1) \o SubSeq(texts, (n - 1) + 1, n) = SubSeq(texts, 1, n) BY ConcatAdjacentSubSeq
  <2>3. (n - 1) + 1 = n OBVIOUS
  <2>4. before \o <<texts[n]>> = Append(before, texts[n]) BY <1>2
  <2> QED BY <1>1, <2>1, <2>2, <2>3, <2>4
<1>4. Kept(Append(before, texts[n]), Full) =
         IF texts[n] \in Full THEN Append(Kept(before, Full), texts[n]) ELSE Kept(before, Full)
  BY <1>2, KeptOfAppend
<1>5. texts[n] \in Full <=> ~texts[n].empty BY <1>2 DEF Full
<1>6. Kept(before, Full) \in Seq(Texts) BY <1>2, KeptIn
<1> QED BY <1>1, <1>3, <1>4, <1>5, <1>6 DEF Meant

\* Before the first text nothing is read.
LEMMA NothingRead == ASSUME NEW texts PROVE IsReading(<<>>, Meant(SubSeq(texts, 1, 0)))
<1>1. SubSeq(texts, 1, 0) = <<>> OBVIOUS
<1>2. Meant(<<>>) = <<>> BY KeptOfEmpty DEF Meant
<1>3. <<>> \in Seq(Arguments) /\ Len(<<>>) = 0 /\ DOMAIN <<>> = {} OBVIOUS
<1>4. IsReading(<<>>, <<>>) BY <1>3 DEF IsReading
<1> QED BY <1>1, <1>2, <1>4

\* The comment of a case, and what is added to it.
LEMMA GivenTyped ==
    ASSUME given \in Cases
    PROVE  /\ \A i \in DOMAIN Comment : Comment[i].name \in STRING /\ Comment[i].texts \in Seq(Texts)
           /\ Typed(Extra, Own)
           /\ given.route = "registered" =>
                \A n \in DOMAIN given.additional : n \in DOMAIN Extra /\ Extra[n] = given.additional[n]
<1>1. \A i \in DOMAIN Comment : Comment[i].name \in STRING /\ Comment[i].texts \in Seq(Texts)
  <2>1. Comment \in Seq(Written) BY ModelAssumption DEF Comment
  <2>2. \A i \in DOMAIN Comment : Comment[i] \in Written BY <2>1
  <2> QED BY <2>2 DEF Written
<1>2. /\ given.route \in Routes /\ DOMAIN given.additional \subseteq STRING
      /\ \A n \in DOMAIN given.additional : given.additional[n] \in Seq(Arguments)
  BY ModelAssumption
<1>3. <<>> \in Seq(Arguments) OBVIOUS
<1>4. CASE given.route = "declared"
  <2>1. Extra = NoTags BY <1>4 DEF Extra
  <2> QED BY <1>1, <1>4, <2>1 DEF Typed, NoTags
<1>5. CASE given.route = "field"
  <2>1. Extra = [n \in {"property"} |-> <<>>] BY <1>5 DEF Extra, Tag, OneTag
  <2> QED BY <1>1, <1>3, <1>5, <2>1 DEF Typed, Own
<1>6. CASE given.route = "registered"
  <2>1. Extra = Earlier(given.additional, [n \in {"runtime"} |-> <<>>])
    BY <1>6 DEF Extra, AddedTo, Runtime, Tag, OneTag
  <2>2. DOMAIN Extra = DOMAIN given.additional \cup {"runtime"} BY <2>1 DEF Earlier
  <2>3. \A n \in DOMAIN given.additional : n \in DOMAIN Extra /\ Extra[n] = given.additional[n]
    BY <2>1 DEF Earlier
  <2>4. "runtime" \notin DOMAIN given.additional => Extra["runtime"] = <<>> BY <2>1 DEF Earlier
  <2>5. Typed(Extra, Own) BY <1>2, <1>3, <2>2, <2>3, <2>4 DEF Typed, Own
  <2> QED BY <1>1, <2>3, <2>5
<1> QED BY <1>2, <1>4, <1>5, <1>6 DEF Routes

\* Of the tags that have a name, one is the last.
LEMMA LastOne ==
    ASSUME given \in Cases, NEW i \in DOMAIN Comment
    PROVE  LET l == LastOf(Comment[i].name)
           IN  /\ l \in DOMAIN Comment /\ Comment[l].name = Comment[i].name
               /\ \A j \in DOMAIN Comment : Comment[j].name = Comment[i].name => j <= l
<1>1. PICK n : n = Len(Comment) OBVIOUS
<1>2. n \in Nat /\ DOMAIN Comment = 1..n BY <1>1, CommentTyped
<1> DEFINE S == {k \in 1..n : Comment[n + 1 - k].name = Comment[i].name}
<1>3. S # {} /\ S \in SUBSET (1..n)
  <2>1. n + 1 - i \in 1..n /\ n + 1 - (n + 1 - i) = i BY <1>2
  <2> QED BY <2>1
<1>4. PICK k \in S : \A m \in S : k <= m
  <2> HIDE DEF S
  <2> QED BY <1>2, <1>3, SmallestIndex
<1>5. PICK l : l = n + 1 - k OBVIOUS
<1>6. l \in 1..n /\ Comment[l].name = Comment[i].name BY <1>2, <1>4, <1>5
<1>7. ASSUME NEW j \in 1..n, Comment[j].name = Comment[i].name PROVE j <= l
  <2>1. n + 1 - j \in 1..n /\ n + 1 - (n + 1 - j) = j BY <1>2
  <2>2. k <= n + 1 - j BY <1>4, <1>7, <2>1
  <2> QED BY <1>2, <1>4, <1>5, <2>2
<1> HIDE DEF S
<1> QED BY <1>2, <1>6, <1>7 DEF LastOf

\* The tags once all are merged and the rest is added.
LEMMA TagsWhole ==
    ASSUME given \in Cases, IsMerged(Len(Comment)), NEW all, all = AddedTo(read, Extra)
    PROVE  /\ DOMAIN all = {Comment[i].name : i \in DOMAIN Comment} \cup DOMAIN Extra
           /\ \A i \in DOMAIN Comment :
                IsReading(all[Comment[i].name], Meant(Comment[LastOf(Comment[i].name)].texts))
           /\ given.route = "registered" =>
                \A n \in DOMAIN given.additional \ {Comment[i].name : i \in DOMAIN Comment} :
                   all[n] = given.additional[n]
<1>1. /\ DOMAIN all = DOMAIN read \cup DOMAIN Extra
      /\ \A n \in DOMAIN read : all[n] = read[n]
      /\ \A n \in DOMAIN Extra \ DOMAIN read : all[n] = Extra[n]
  BY DEF AddedTo, Earlier
<1>2. DOMAIN read = {Comment[i].name : i \in DOMAIN Comment} BY CommentTyped DEF IsMerged
<1>3. ASSUME NEW i \in DOMAIN Comment
      PROVE  IsReading(all[Comment[i].name], Meant(Comment[LastOf(Comment[i].name)].texts))
  <2>1. PICK l : l = LastOf(Comment[i].name) OBVIOUS
  <2>2. /\ l \in DOMAIN Comment /\ Comment[l].name = Comment[i].name
        /\ \A j \in DOMAIN Comment : Comment[j].name = Comment[i].name => j <= l
    BY <2>1, LastOne
  <2>3. IsReading(read[Comment[l].name], Meant(Comment[l].texts))
    <3>1. DOMAIN Comment = 1..Len(Comment) BY CommentTyped
    <3> QED BY <2>2, <3>1 DEF IsMerged
  <2>4. all[Comment[i].name] = read[Comment[l].name] BY <1>1, <1>2, <2>2
  <2> QED BY <2>1, <2>3, <2>4
<1>4. ASSUME given.route = "registered",
             NEW n \in DOMAIN given.additional \ {Comment[i].name : i \in DOMAIN Comment}
      PROVE  all[n] = given.additional[n]
  BY <1>1, <1>2, <1>4, GivenTyped
<1> QED BY <1>1, <1>2, <1>3, <1>4

\* One tag more is merged with those before it.
LEMMA MergedOneMore ==
    ASSUME given \in Cases, tag \in DOMAIN Comment, IsMerged(tag - 1),
           IsReading(values, Meant(Comment[tag].texts)), Typed(read, STRING), given' = given,
           read' = Overridden(read, OneTag(Comment[tag].name, values)), NEW n, n = tag
    PROVE  IsMerged(n)' /\ Typed(read, STRING)'
<1>1. PICK name : n = tag /\ name = Comment[tag].name OBVIOUS
<1>2. n \in Nat \ {0} /\ n \in DOMAIN Comment /\ 1..n = 1..(n - 1) \cup {n} BY <1>1, CommentTyped
<1>3. /\ DOMAIN read' = DOMAIN read \cup {name}
      /\ read'[name] = values
      /\ \A m \in DOMAIN read \ {name} : read'[m] = read[m]
  BY <1>1 DEF Overridden, Later, OneTag
<1>4. Typed(read', STRING)
  <2>1. values \in Seq(Arguments) BY DEF IsReading
  <2>2. name \in STRING BY <1>1, GivenTyped
  <2> QED BY <1>3, <2>1, <2>2 DEF Typed
<1>5. Comment' = Comment BY DEF Comment
<1>6. DOMAIN read' = {Comment[i].name : i \in 1..n} BY <1>1, <1>2, <1>3 DEF IsMerged
<1>7. ASSUME NEW i \in 1..n, \A j \in 1..n : Comment[j].name = Comment[i].name => j <= i
      PROVE  IsReading(read'[Comment[i].name], Meant(Comment[i].texts))
  <2>1. CASE i = n BY <1>1, <1>3, <2>1
  <2>2. CASE i # n
    <3>1. i \in 1..(n - 1) /\ i < n BY <1>2, <2>2
    <3>2. Comment[i].name # name BY <1>1, <1>2, <1>7, <3>1
    <3>3. \A j \in 1..(n - 1) : Comment[j].name = Comment[i].name => j <= i BY <1>2, <1>7
    <3>4. IsReading(read[Comment[i].name], Meant(Comment[i].texts)) BY <1>1, <3>1, <3>3 DEF IsMerged
    <3>5. Comment[i].name \in DOMAIN read BY <1>1, <3>1 DEF IsMerged
    <3> QED BY <1>3, <3>2, <3>4, <3>5
  <2> QED BY <2>1, <2>2
<1>8. IsMerged(n)' BY <1>5, <1>6, <1>7 DEF IsMerged
<1> QED BY <1>4, <1>8

\* TagsInv holds in every reachable state.
THEOREM Tagging == Spec => []TagsInv
<1>1. Init => TagsInv
  <2> SUFFICES ASSUME Init PROVE TagsInv OBVIOUS
  <2>1. /\ given \in Cases /\ tag = 1 /\ text = 1 /\ values = <<>> /\ read = NoTags /\ tags = NoTags
    BY DEF Init
  <2>2. Len(Comment) \in Nat BY <2>1, CommentTyped
  <2>3. \A names : Typed(NoTags, names) BY DEF Typed, NoTags
  <2>4. IsReading(values, Meant(SubSeq(Comment[tag].texts, 1, text - 1)))
    <3>1. text - 1 = 0 BY <2>1
    <3> QED BY <2>1, <3>1, NothingRead
  <2>5. tag <= Len(Comment) => text <= Len(Comment[tag].texts) + 1
    BY <2>1, <2>2, CommentTyped
  <2>6. IsMerged(0)
    <3>1. 1..0 = {} OBVIOUS
    <3>2. DOMAIN read = {} BY <2>1 DEF NoTags
    <3> QED BY <3>1, <3>2 DEF IsMerged
  <2>7. tag - 1 = 0 BY <2>1
  <2>8. ~Collected BY <2>1, <2>2 DEF Collected
  <2>9. values \in Seq(Arguments) BY <2>1
  <2> QED BY <2>1, <2>3, <2>4, <2>5, <2>6, <2>7, <2>8, <2>9 DEF TagsInv, TagsAsWritten
<1>2. ReadSoFar /\ TagsInv /\ [Next]_vars => TagsInv'
  <2> SUFFICES ASSUME ReadSoFar, TagsInv, [Next]_vars PROVE TagsInv' OBVIOUS
  <2>t. /\ given \in Cases /\ tag \in 1..(Len(Comment) + 2) /\ text \in Nat \ {0}
        /\ Len(Comment) \in Nat /\ DOMAIN Comment = 1..Len(Comment)
        /\ \A i \in DOMAIN Comment : Len(Comment[i].texts) \in Nat
    BY CommentTyped DEF ReadSoFar
  <2>g. /\ values \in Seq(Arguments) /\ Typed(read, STRING) /\ Typed(tags, Own)
        /\ ~raised /\ tag <= Len(Comment) =>
              /\ text <= Len(Comment[tag].texts) + 1
              /\ IsReading(values, Meant(SubSeq(Comment[tag].texts, 1, text - 1)))
        /\ tag <= Len(Comment) + 1 => IsMerged(tag - 1)
        /\ TagsAsWritten
    BY DEF TagsInv
  <2>1. CASE ReadText
    <3>1. PICK t, n, list, before : t = Comment[tag].texts[text] /\ n = text /\ list = Comment[tag].texts
                                    /\ before = SubSeq(list, 1, n - 1)
      OBVIOUS
    <3>2. /\ ~raised /\ tag \in DOMAIN Comment /\ n \in 1..Len(list) /\ raised' = OutOfRange(t)
          /\ values' = IF t.empty \/ OutOfRange(t) THEN values ELSE values \o Added(t)
          /\ text' = n + 1 /\ tag' = tag /\ given' = given /\ read' = read /\ tags' = tags
          /\ Comment' = Comment
      BY <2>1, <2>t, <3>1 DEF ReadText, Comment
    <3>3. list \in Seq(Texts) /\ t \in Texts /\ t = list[n] BY <2>t, <3>1, <3>2, GivenTyped
    <3>4. /\ Meant(before) \in Seq(Texts)
          /\ Meant(SubSeq(list, 1, n)) = IF t.empty THEN Meant(before) ELSE Append(Meant(before), t)
      BY <3>1, <3>2, <3>3, MeantByMore
    <3>5. IsReading(values, Meant(before)) BY <2>g, <2>t, <3>1, <3>2
    <3>6. PICK v, both : v = values /\ both = v \o Added(t) OBVIOUS
    <3>7. ~t.empty => IsReading(both, Append(Meant(before), t))
      <4>1. PICK m : m = Meant(before) OBVIOUS
      <4>2. m \in Seq(Texts) /\ IsReading(v, m) BY <3>4, <3>5, <3>6, <4>1
      <4>3. IsReading(both, Append(m, t)) BY <3>3, <3>6, <4>2, ReadingGrows
      <4> QED BY <4>1, <4>3
    <3>8. both \in Seq(Arguments)
      <4>1. PICK a, one : a = Argument(TypeOfText(t), t) /\ one = Added(t) OBVIOUS
      <4>a. a \in Arguments /\ one = <<a>> BY <3>3, <4>1, AddedOne
      <4>2. one \in Seq(Arguments) /\ v \in Seq(Arguments) BY <2>g, <3>6, <4>a
      <4> QED BY <3>6, <4>1, <4>2, ElementsOfConcat DEF IsConcat
    <3>9. values' \in Seq(Arguments) BY <2>g, <3>2, <3>6, <3>8
    <3>10. ~raised' => IsReading(values', Meant(SubSeq(list, 1, n)))
      BY <3>2, <3>4, <3>5, <3>6, <3>7
    <3>11. ~raised' =>
              /\ text' <= Len(list) + 1
              /\ IsReading(values', Meant(SubSeq(list, 1, text' - 1)))
      <4>1. text' - 1 = n /\ text' <= Len(list) + 1 BY <2>t, <3>1, <3>2
      <4> QED BY <3>10, <4>1
    <3>12. IsMerged(tag - 1)' <=> IsMerged(tag - 1) BY <3>2 DEF IsMerged
    <3>13. TagsAsWritten'
      <4>1. ~Collected' BY <2>t, <3>2 DEF Collected
      <4> QED BY <4>1 DEF TagsAsWritten
    <3> QED BY <2>g, <2>t, <3>1, <3>2, <3>9, <3>11, <3>12, <3>13 DEF TagsInv
  <2>2. CASE FinishTag
    <3>1. PICK n, list : n = tag /\ list = Comment[n].texts OBVIOUS
    <3>2. /\ ~raised /\ n \in DOMAIN Comment /\ text = Len(list) + 1 /\ raised' = raised
          /\ read' = Overridden(read, OneTag(Comment[tag].name, values))
          /\ text' = 1 /\ tag' = n + 1 /\ values' = <<>> /\ given' = given /\ tags' = tags
          /\ Comment' = Comment
      BY <2>2, <2>g, <2>t, <3>1, SMTT(20) DEF FinishTag, Comment
    <3>3. list \in Seq(Texts) BY <2>t, <3>1, <3>2, GivenTyped
    <3>4. IsReading(values, Meant(list))
      <4>1. text - 1 = Len(list) /\ SubSeq(list, 1, Len(list)) = list BY <3>2, <3>3
      <4>2. IsReading(values, Meant(SubSeq(list, 1, text - 1))) BY <2>g, <2>t, <3>1, <3>2
      <4> QED BY <4>1, <4>2
    <3>5. IsMerged(n)' /\ Typed(read, STRING)'
      <4>1. IsMerged(tag - 1) BY <2>g, <2>t, <3>1, <3>2
      <4> QED BY <2>g, <2>t, <3>1, <3>2, <3>4, <4>1, MergedOneMore
    <3>6. IsMerged(tag - 1)'
      <4>1. tag' - 1 = n BY <2>t, <3>1, <3>2
      <4> QED BY <3>5, <4>1 DEF IsMerged
    <3>7. values' \in Seq(Arguments) BY <3>2
    <3>8. ASSUME tag' <= Len(Comment)
          PROVE  /\ text' <= Len(Comment[tag'].texts) + 1
                 /\ IsReading(values', Meant(SubSeq(Comment[tag'].texts, 1, text' - 1)))
      <4>1. text' - 1 = 0 /\ tag' \in DOMAIN Comment BY <2>t, <3>1, <3>2, <3>8
      <4>2. Len(Comment[tag'].texts) \in Nat BY <2>t, <4>1
      <4> QED BY <3>2, <4>1, <4>2, NothingRead
    <3>9. TagsAsWritten'
      <4>1. ~Collected' BY <2>t, <3>1, <3>2 DEF Collected
      <4> QED BY <4>1 DEF TagsAsWritten
    <3> QED BY <2>g, <3>2, <3>5, <3>6, <3>7, <3>8, <3>9 DEF TagsInv
  <2>3. CASE FinishComment
    <3>1. /\ tag = Len(Comment) + 1 /\ tag' = tag + 1 /\ tags' = AddedTo(read, Extra)
          /\ UNCHANGED <<given, text, values, read, raised>> /\ Comment' = Comment /\ Extra' = Extra
      BY <2>3 DEF FinishComment, Comment, Extra
    <3>2. IsMerged(Len(Comment))
      <4>1. tag - 1 = Len(Comment) /\ tag <= Len(Comment) + 1 BY <2>t, <3>1
      <4> QED BY <2>g, <4>1
    <3>3. PICK all : all = AddedTo(read, Extra) OBVIOUS
    <3>4. /\ DOMAIN all = {Comment[i].name : i \in DOMAIN Comment} \cup DOMAIN Extra
          /\ \A i \in DOMAIN Comment :
               IsReading(all[Comment[i].name], Meant(Comment[LastOf(Comment[i].name)].texts))
          /\ given.route = "registered" =>
               \A n \in DOMAIN given.additional \ {Comment[i].name : i \in DOMAIN Comment} :
                  all[n] = given.additional[n]
      BY <2>t, <3>2, <3>3, TagsWhole
    <3>5. \A n : LastOf(n)' = LastOf(n) BY <3>1 DEF LastOf
    <3>6. TagsAsWritten'
      <4>1. tags' = all BY <3>1, <3>3
      <4> QED BY <3>1, <3>4, <3>5, <4>1 DEF TagsAsWritten, IsReading
    <3>7. Typed(tags', Own)
      <4>1. Typed(Extra, Own) BY <2>t, GivenTyped
      <4> QED BY <2>g, <3>1, <4>1 DEF Typed, Own, AddedTo, Earlier
    <3>8. ~(tag' <= Len(Comment')) /\ ~(tag' <= Len(Comment') + 1) BY <2>t, <3>1
    <3> QED BY <2>g, <3>1, <3>6, <3>7, <3>8 DEF TagsInv
  <2>4. CASE UNCHANGED <<given, reading>>
    <3>1. /\ UNCHANGED <<given, tag, text, values, read, raised, tags>>
          /\ Comment' = Comment /\ Extra' = Extra
      BY <2>4 DEF reading, Comment, Extra
    <3>2. \A n : LastOf(n)' = LastOf(n) BY <3>1 DEF LastOf
    <3>3. IsMerged(tag - 1)' <=> IsMerged(tag - 1) BY <3>1 DEF IsMerged
    <3>4. TagsAsWritten' BY <2>g, <3>1, <3>2 DEF TagsAsWritten, Collected
    <3> QED BY <2>g, <3>1, <3>3, <3>4 DEF TagsInv
  <2> QED BY <2>1, <2>2, <2>3, <2>4 DEF Next, vars, Compare, AreSame, DoAreSame
<1> QED BY <1>1, <1>2, Reading, PTL DEF Spec

\* The tags of a type are what the last tag of each name in its comment says, an
\* argument for each text that is not empty, and what is added to them without
\* replacing one, for every comment (Tag.cpp:93-155, 163-169, 198-219).
THEOREM TagsWritten == Spec => []TagsAsWritten
<1>1. TagsInv => TagsAsWritten BY DEF TagsInv
<1> QED BY <1>1, Tagging, PTL

-----------------------------------------------------------------------------
(* Comparing *)

\* What the data of a trivial type and the members of another one are compared for.
DataAgree(one, other) ==
    one.kind = other.kind /\ one.name = other.name /\ one.path = other.path /\ one.angled = other.angled
MembersAgree(one, other) ==
    one.kind = other.kind /\ one.flag = other.flag /\ one.members = other.members

\* Why a comparison gave its answer.
Justified(one, other, answer) ==
    IF answer THEN one.kind = "TK_TRIVIAL" /\ DataAgree(one, other)
    ELSE IF one.kind = "TK_TRIVIAL" THEN ~DataAgree(one, other)
    ELSE ~MembersAgree(one, other)

\* Every call of a comparison is about the two types it was started with, and every
\* answer has its reason.
Compared == DOMAIN given.types
Calls == [function : {"areSame", "doAreSame"}, one : Compared, other : Compared]
ComparedSoFar ==
    /\ stack \in Seq(Calls) /\ Len(stack) <= MaxDepth
    /\ \A k \in DOMAIN stack : stack[k].one = stack[1].one /\ stack[k].other = stack[1].other
    /\ \A a \in answers :
          /\ a \in Compared \X Compared \X BOOLEAN
          /\ Justified(given.types[a[1]], given.types[a[2]], a[3])

\* A call that is entered is about the two types of the call it is entered from.
LEMMA EnterKeeps ==
    ASSUME ComparedSoFar, NEW call \in Calls,
           given' = given, Enter(call),
           stack # <<>> => call.one = Top.one /\ call.other = Top.other
    PROVE  ComparedSoFar'
<1>1. stack' = Append(stack, call) /\ answers' = answers BY DEF Enter
<1>2. stack' \in Seq(Calls) /\ Len(stack') <= MaxDepth
  BY <1>1, ModelAssumption DEF ComparedSoFar, Enter
<1>3. \A k \in DOMAIN stack' : stack'[k].one = stack'[1].one /\ stack'[k].other = stack'[1].other
  BY <1>1, <1>2 DEF ComparedSoFar, Top
<1> QED BY <1>1, <1>2, <1>3 DEF ComparedSoFar, Compared, Calls

\* The innermost call is about the two types of the outermost one.
LEMMA TopIsFirst ==
    ASSUME ComparedSoFar, stack # <<>>
    PROVE  /\ Top \in Calls
           /\ Top.one = stack[1].one /\ Top.other = stack[1].other
<1>1. Len(stack) \in DOMAIN stack BY DEF ComparedSoFar
<1>2. Top \in Calls BY <1>1 DEF ComparedSoFar, Top
<1>3. Top.one = stack[1].one /\ Top.other = stack[1].other BY <1>1 DEF ComparedSoFar, Top
<1> QED BY <1>2, <1>3

\* ComparedSoFar holds in every reachable state.
THEOREM Comparing == Spec => []ComparedSoFar
<1>1. Init => ComparedSoFar BY ModelAssumption DEF Init, ComparedSoFar
<1>2. ComparedSoFar /\ [Next]_vars => ComparedSoFar'
  <2> SUFFICES ASSUME ComparedSoFar, [Next]_vars PROVE ComparedSoFar' OBVIOUS
  <2>1. ASSUME UNCHANGED <<given, stack, answers>> PROVE ComparedSoFar'
    BY <2>1 DEF ComparedSoFar, Compared, Calls
  <2>2. ASSUME NEW i \in DOMAIN given.types, NEW j \in DOMAIN given.types, Compare(i, j)
        PROVE  ComparedSoFar'
    BY <2>2, EnterKeeps DEF Compare, Call, Compared, Calls
  <2>3. CASE AreSame BY <2>3, EnterKeeps, TopIsFirst DEF AreSame, Call, Calls
  <2>4. CASE DoAreSame
    <3>1. stack # <<>> /\ given' = given BY <2>4 DEF DoAreSame
    <3>2. CASE One.kind # "TK_TRIVIAL" /\ SameMembers
      BY <2>4, <3>1, <3>2, EnterKeeps, TopIsFirst DEF DoAreSame, Call, Calls
    <3>3. ASSUME NEW answer \in BOOLEAN, Return(answer), Justified(One, Other, answer)
          PROVE  ComparedSoFar'
      <4>1. stack' = <<>> /\ answers' = answers \cup {<<Top.one, Top.other, answer>>}
        BY <3>1, <3>3, TopIsFirst DEF Return
      <4>2. Top.one \in Compared /\ Top.other \in Compared BY <3>1, TopIsFirst DEF Calls
      <4>3. Justified(given.types[Top.one], given.types[Top.other], answer) BY <3>3 DEF One, Other
      <4>4. Len(<<>>) <= MaxDepth BY ModelAssumption
      <4> QED BY <3>1, <4>1, <4>2, <4>3, <4>4 DEF ComparedSoFar, Compared, Calls
    <3>4. CASE One.kind = "TK_TRIVIAL"
      <4>1. SameData <=> DataAgree(One, Other) BY DEF SameData, SameNames, DataAgree
      <4>2. Return(SameData) BY <2>4, <3>4 DEF DoAreSame
      <4>3. SameData \in BOOLEAN BY DEF SameData, SameNames
      <4>4. Justified(One, Other, SameData) BY <3>4, <4>1 DEF Justified
      <4> QED BY <3>3, <4>2, <4>3, <4>4
    <3>5. CASE One.kind # "TK_TRIVIAL" /\ ~SameMembers
      <4>1. Return(FALSE) BY <2>4, <3>5 DEF DoAreSame
      <4>2. Justified(One, Other, FALSE) BY <3>5 DEF Justified, SameMembers, MembersAgree
      <4> QED BY <3>3, <4>1, <4>2
    <3> QED BY <3>2, <3>4, <3>5
  <2> QED BY <2>1, <2>2, <2>3, <2>4 DEF Next, vars, ReadText, FinishTag, FinishComment
<1> QED BY <1>1, <1>2, PTL DEF Spec

\* Where comparing two types answers, equal types have the same hash, and the answer
\* does not depend on which one is asked (PyTypeBase.cpp:53-72, TypeBase.cpp:41-46).
THEOREM HashAlike == Spec => []EqualTypesHashAlike
<1>1. ComparedSoFar => EqualTypesHashAlike
  <2> SUFFICES ASSUME ComparedSoFar, NEW a \in answers
               PROVE  /\ a[3] => Id(given.types[a[1]]) = Id(given.types[a[2]])
                      /\ <<a[2], a[1], ~a[3]>> \notin answers
    BY DEF EqualTypesHashAlike
  <2>1. a \in Compared \X Compared \X BOOLEAN /\ Justified(given.types[a[1]], given.types[a[2]], a[3])
    BY DEF ComparedSoFar
  <2>2. a[3] => Id(given.types[a[1]]) = Id(given.types[a[2]])
    BY <2>1 DEF Justified, DataAgree, Id
  <2>3. ASSUME <<a[2], a[1], ~a[3]>> \in answers PROVE FALSE
    <3>1. Justified(given.types[a[2]], given.types[a[1]], ~a[3]) BY <2>3 DEF ComparedSoFar
    <3> QED BY <2>1, <3>1 DEF Justified, DataAgree, MembersAgree
  <2> QED BY <2>2, <2>3
<1> QED BY <1>1, Comparing, PTL

RaisedTyped == raised \in BOOLEAN

\* Every variable keeps its type, for all comments and types.
THEOREM TypeCorrectness == Spec => []TypeOK
<1>1. ReadSoFar /\ TagsInv /\ ComparedSoFar /\ RaisedTyped => TypeOK
  <2> SUFFICES ASSUME ReadSoFar, TagsInv, ComparedSoFar, RaisedTyped PROVE TypeOK
    OBVIOUS
  <2>1. tag \in 1..(Len(Comment) + 2) /\ text \in Nat BY DEF ReadSoFar
  <2>2. /\ values \in Seq(Arguments)
        /\ DOMAIN read \subseteq STRING /\ \A n \in DOMAIN read : read[n] \in Seq(Arguments)
        /\ DOMAIN tags \subseteq STRING \cup {"runtime", "property"}
        /\ \A n \in DOMAIN tags : tags[n] \in Seq(Arguments)
    BY DEF TagsInv, Typed, Own
  <2>3. Len(stack) <= MaxDepth BY DEF ComparedSoFar
  <2>4. answers \subseteq (DOMAIN given.types) \X (DOMAIN given.types) \X BOOLEAN
    BY DEF ComparedSoFar, Compared
  <2> QED BY <2>1, <2>2, <2>3, <2>4 DEF TypeOK, RaisedTyped
<1>2. Init => RaisedTyped BY DEF Init, RaisedTyped
<1>3. ReadSoFar /\ RaisedTyped /\ [Next]_vars => RaisedTyped'
  <2>1. \A t : OutOfRange(t) \in BOOLEAN BY DEF OutOfRange, Raises
  <2> QED BY <2>1 DEF RaisedTyped, Next, vars, reading, ReadText, FinishTag, FinishComment, Compare, AreSame, DoAreSame
<1> QED BY <1>1, <1>2, <1>3, Reading, Tagging, Comparing, PTL DEF Spec
=============================================================================
