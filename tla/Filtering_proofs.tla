-------------------------- MODULE Filtering_proofs --------------------------
(***************************************************************************)
(* What Kept returns, for every sequence and set: lemmas for the modules   *)
(* that filter what they print, define or report.  The provers cannot      *)
(* instantiate the induction theorems of the library, which are about an   *)
(* operator; the two inductions here are about a set, and they can.        *)
(***************************************************************************)
EXTENDS Filtering, SequenceTheorems, WellFoundedInduction, TLAPS

-----------------------------------------------------------------------------
(* Induction *)

\* A set that has 0, and with a number the next one, has all up to a bound.
LEMMA NumberInduction ==
    ASSUME NEW n \in Nat, NEW G, 0 \in G, \A k \in 0..(n - 1) : k \in G => k + 1 \in G
    PROVE  \A k \in 0..n : k \in G
<1> DEFINE Bad == {k \in 0..n : k \notin G}
<1> DEFINE R == OpToRel(<, Nat)
<1>1. ASSUME Bad # {} PROVE FALSE
  <2>1. Bad \subseteq Nat OBVIOUS
  <2>2. IsWellFoundedOn(R, Nat) BY NatLessThanWellFounded
  <2>3. \A x, y \in Nat : x < y => <<x, y>> \in R BY DEF OpToRel
  <2>4. PICK k \in Bad : \A m \in Bad : ~(<<m, k>> \in R)
    <3> HIDE DEF R, Bad
    <3> QED BY <1>1, <2>1, <2>2, WFMin
  <2>5. k \in 0..n /\ k # 0 BY <2>4
  <2>6. k - 1 \in 0..(n - 1) /\ k - 1 < k BY <2>5
  <2>7. k - 1 \notin Bad
    <3> HIDE DEF R
    <3> QED BY <2>1, <2>3, <2>4, <2>6
  <2>8. k \in G BY <2>5, <2>6, <2>7
  <2> QED BY <2>4, <2>8
<1> QED BY <1>1

\* A set of indexes that is not empty has a smallest element.
LEMMA SmallestIndex ==
    ASSUME NEW n \in Nat, NEW S \in SUBSET (1..n), S # {}
    PROVE  \E i \in S : \A j \in S : i <= j
<1> DEFINE R == OpToRel(<, Nat)
<1>1. IsWellFoundedOn(R, Nat) BY NatLessThanWellFounded
<1>2. S \subseteq Nat OBVIOUS
<1>3. \A x, y \in Nat : x < y => <<x, y>> \in R BY DEF OpToRel
<1> HIDE DEF R
<1>4. PICK x \in S : \A y \in S : ~(<<y, x>> \in R) BY <1>1, <1>2, WFMin
<1>5. \A y \in S : ~(y < x) BY <1>2, <1>3, <1>4
<1> QED BY <1>2, <1>5

\* A set of numbers up to a bound that is not empty has a largest element.
LEMMA LargestNumber ==
    ASSUME NEW n \in Nat, NEW S \in SUBSET (0..n), S # {}
    PROVE  \E i \in S : \A j \in S : j <= i
<1> DEFINE M == {n + 1 - i : i \in S}
<1>1. M \in SUBSET (1..(n + 1)) /\ M # {} /\ n + 1 \in Nat
  <2>1. \A i \in S : n + 1 - i \in 1..(n + 1) OBVIOUS
  <2>2. PICK i \in S : TRUE OBVIOUS
  <2>3. n + 1 - i \in M BY <2>2
  <2> QED BY <2>1, <2>3
<1>2. PICK m \in M : \A j \in M : m <= j
  <2> HIDE DEF M
  <2> QED BY <1>1, SmallestIndex
<1>3. PICK i \in S : m = n + 1 - i OBVIOUS
<1>4. ASSUME NEW j \in S PROVE j <= i
  <2>1. n + 1 - j \in M OBVIOUS
  <2> QED BY <1>2, <1>3, <2>1
<1> QED BY <1>4

\* A rule that says what a function has for a number, from what it has for
\* smaller ones: step gives for a number and a function what the rule says.
IsRule(step, n, T) ==
    /\ step \in [0..n -> [[0..n -> T] -> T]]
    /\ \A i \in 0..n : \A f, g \in [0..n -> T] :
           (\A j \in 0..(i - 1) : f[j] = g[j]) => step[i][f] = step[i][g]

\* Such a rule defines a function.
LEMMA Recursion ==
    ASSUME NEW n \in Nat, NEW T, NEW step, T # {}, IsRule(step, n, T)
    PROVE  \E f \in [0..n -> T] : \A i \in 0..n : f[i] = step[i][f]
<1> DEFINE IsUpto(f, m) == f \in [0..n -> T] /\ \A i \in 0..m : f[i] = step[i][f]
<1> DEFINE With(f, m) == [i \in 0..n |-> IF i = m THEN step[m][f] ELSE f[i]]
<1> DEFINE G == {m \in 0..n : \E f : IsUpto(f, m)}
<1> USE DEF IsRule
<1>0. 0 \in 0..n /\ n \in 0..n OBVIOUS
<1>1. ASSUME NEW f \in [0..n -> T], NEW m \in 0..n, \A i \in 0..(m - 1) : f[i] = step[i][f]
      PROVE  IsUpto(With(f, m), m)
  <2> DEFINE g == With(f, m)
  <2>1. step[m][f] \in T OBVIOUS
  <2>2. g \in [0..n -> T] BY <2>1
  <2>3. \A j \in 0..(m - 1) : g[j] = f[j] OBVIOUS
  <2>4. g[m] = step[m][f] OBVIOUS
  <2> HIDE DEF g
  <2>5. \A i \in 0..m : \A j \in 0..(i - 1) : g[j] = f[j] BY <2>3
  <2>6. ASSUME NEW i \in 0..m PROVE g[i] = step[i][g]
    <3>1. i \in 0..n OBVIOUS
    <3>2. step[i][g] = step[i][f] BY <2>2, <2>5, <3>1
    <3>3. CASE i = m BY <2>4, <3>2, <3>3
    <3>4. CASE i # m
      <4>1. i \in 0..(m - 1) BY <3>4
      <4> QED BY <1>1, <2>3, <3>2, <4>1
    <3> QED BY <3>3, <3>4
  <2>7. IsUpto(g, m) BY <2>2, <2>6
  <2> QED BY <2>7 DEF g
<1>2. 0 \in G
  <2>0. PICK t \in T : TRUE OBVIOUS
  <2>1. [i \in 0..n |-> t] \in [0..n -> T] OBVIOUS
  <2>2. \A i \in 0..(0 - 1) : [j \in 0..n |-> t][i] = step[i][[j \in 0..n |-> t]] OBVIOUS
  <2> HIDE DEF IsUpto, With
  <2>3. IsUpto(With([i \in 0..n |-> t], 0), 0) BY <1>0, <1>1, <2>1, <2>2
  <2> QED BY <1>0, <2>3
<1>3. ASSUME NEW m \in 0..(n - 1), m \in G PROVE m + 1 \in G
  <2>1. PICK f : IsUpto(f, m) BY <1>3
  <2>2. m + 1 \in 0..n /\ \A i \in 0..((m + 1) - 1) : i \in 0..m OBVIOUS
  <2>3. f \in [0..n -> T] /\ \A i \in 0..((m + 1) - 1) : f[i] = step[i][f] BY <2>1, <2>2
  <2> HIDE DEF IsUpto, With
  <2>4. IsUpto(With(f, m + 1), m + 1) BY <1>1, <2>2, <2>3
  <2> QED BY <2>2, <2>4
<1>4. n \in G
  <2> HIDE DEF G
  <2> QED BY <1>0, <1>2, <1>3, NumberInduction
<1> QED BY <1>4

\* A set that has the empty sequence, and with a sequence all that are one
\* element longer, has all sequences.
LEMMA SequenceInduction ==
    ASSUME NEW T, NEW G, <<>> \in G, \A s \in Seq(T), x \in T : s \in G => Append(s, x) \in G
    PROVE  \A s \in Seq(T) : s \in G
<1> SUFFICES ASSUME NEW s \in Seq(T) PROVE s \in G OBVIOUS
<1> DEFINE Upto == {n \in 0..Len(s) : SubSeq(s, 1, n) \in G}
<1>1. 0 \in Upto
  <2>1. SubSeq(s, 1, 0) = <<>> /\ 0 \in 0..Len(s) OBVIOUS
  <2> QED BY <2>1
<1>2. ASSUME NEW k \in 0..(Len(s) - 1), k \in Upto PROVE k + 1 \in Upto
  <2>1. k + 1 \in 1..Len(s) /\ s[k + 1] \in T OBVIOUS
  <2>2. SubSeq(s, 1, k + 1) = Append(SubSeq(s, 1, k), s[k + 1]) OBVIOUS
  <2>3. SubSeq(s, 1, k) \in Seq(T) OBVIOUS
  <2>4. SubSeq(s, 1, k + 1) \in G BY <1>2, <2>1, <2>2, <2>3
  <2> QED BY <2>1, <2>4
<1>3. Len(s) \in Nat /\ Len(s) \in 0..Len(s) OBVIOUS
<1>4. Len(s) \in Upto
  <2> HIDE DEF Upto
  <2> QED BY <1>1, <1>2, <1>3, NumberInduction
<1>5. SubSeq(s, 1, Len(s)) = s OBVIOUS
<1> QED BY <1>4, <1>5

-----------------------------------------------------------------------------
(* Parts of sequences *)

LEMMA PartIn ==
    ASSUME NEW T, NEW U, NEW s \in Seq(T), NEW i \in Nat \ {0}, NEW j \in 0..Len(s),
           \A k \in i..j : s[k] \in U
    PROVE  SubSeq(s, i, j) \in Seq(U)
<1>1. CASE i <= j
  <2>1. SubSeq(s, i, j) = [k \in 1..(j - i + 1) |-> s[i + k - 1]] BY <1>1
  <2>2. \A k \in 1..(j - i + 1) : i + k - 1 \in i..j BY <1>1
  <2>3. \A k \in 1..(j - i + 1) : s[i + k - 1] \in U BY <2>2
  <2> QED BY <1>1, <2>1, <2>3, IsASeq
<1>2. CASE i > j BY <1>2
<1> QED BY <1>1, <1>2

LEMMA SamePart ==
    ASSUME NEW T, NEW s \in Seq(T), NEW t \in Seq(T), NEW i \in Nat \ {0}, NEW j \in Nat,
           j <= Len(s), j <= Len(t), \A k \in i..j : s[k] = t[k]
    PROVE  SubSeq(s, i, j) = SubSeq(t, i, j)
<1>1. CASE i <= j
  <2>1. SubSeq(s, i, j) = [k \in 1..(j - i + 1) |-> s[i + k - 1]] BY <1>1
  <2>2. SubSeq(t, i, j) = [k \in 1..(j - i + 1) |-> t[i + k - 1]] BY <1>1
  <2>3. \A k \in 1..(j - i + 1) : i + k - 1 \in i..j BY <1>1
  <2>4. \A k \in 1..(j - i + 1) : s[i + k - 1] = t[i + k - 1] BY <2>3
  <2> QED BY <2>1, <2>2, <2>4
<1>2. CASE i > j BY <1>2
<1> QED BY <1>1, <1>2

LEMMA PartOfOne ==
    ASSUME NEW T, NEW s \in Seq(T), NEW i \in 1..Len(s)
    PROVE  SubSeq(s, i, i) = <<s[i]>>
<1>1. SubSeq(s, i, i) = [k \in 1..1 |-> s[i + k - 1]] OBVIOUS
<1>2. \A k \in 1..1 : i + k - 1 = i OBVIOUS
<1>3. <<s[i]>> = [k \in 1..1 |-> s[i]] OBVIOUS
<1> QED BY <1>1, <1>2, <1>3

\* Where the elements of a concatenation are.
IsConcat(c, a, b, T) ==
    /\ c \in Seq(T) /\ Len(c) = Len(a) + Len(b) /\ Len(a) \in Nat /\ Len(b) \in Nat
    /\ \A i \in 1..Len(a) : c[i] = a[i]
    /\ \A i \in 1..Len(b) : c[Len(a) + i] = b[i]

LEMMA ElementsOfConcat ==
    ASSUME NEW T, NEW a \in Seq(T), NEW b \in Seq(T)
    PROVE  IsConcat(a \o b, a, b, T)
BY DEF IsConcat

\* A sequence, cut at two of its elements.
Cut(x, a, m, b, y) == (((x \o <<a>>) \o m) \o <<b>>) \o y

LEMMA CutAtTwo ==
    ASSUME NEW T, NEW s \in Seq(T), NEW n \in 0..Len(s), NEW i \in 1..n, NEW j \in 1..n, i < j
    PROVE  SubSeq(s, 1, n) =
              Cut(SubSeq(s, 1, i - 1), s[i], SubSeq(s, i + 1, j - 1), s[j], SubSeq(s, j + 1, n))
<1>1. SubSeq(s, 1, i - 1) \o <<s[i]>> = SubSeq(s, 1, i)
  <2>1. SubSeq(s, i, i) = <<s[i]>> BY PartOfOne
  <2>2. SubSeq(s, 1, i - 1) \o SubSeq(s, (i - 1) + 1, i) = SubSeq(s, 1, i)
    BY ConcatAdjacentSubSeq
  <2> QED BY <2>1, <2>2
<1>2. SubSeq(s, 1, i) \o SubSeq(s, i + 1, j - 1) = SubSeq(s, 1, j - 1) BY ConcatAdjacentSubSeq
<1>3. SubSeq(s, 1, j - 1) \o <<s[j]>> = SubSeq(s, 1, j)
  <2>1. SubSeq(s, j, j) = <<s[j]>> BY PartOfOne
  <2>2. SubSeq(s, 1, j - 1) \o SubSeq(s, (j - 1) + 1, j) = SubSeq(s, 1, j)
    BY ConcatAdjacentSubSeq
  <2> QED BY <2>1, <2>2
<1>4. SubSeq(s, 1, j) \o SubSeq(s, j + 1, n) = SubSeq(s, 1, n) BY ConcatAdjacentSubSeq
<1> QED BY <1>1, <1>2, <1>3, <1>4 DEF Cut

\* Where the elements of such a sequence are.
IsCut(s, x, a, m, b, y, T) ==
    /\ s \in Seq(T) /\ Len(s) = Len(x) + Len(m) + Len(y) + 2
    /\ Len(x) \in Nat /\ Len(m) \in Nat /\ Len(y) \in Nat
    /\ \A i \in 1..Len(x) : s[i] = x[i]
    /\ s[Len(x) + 1] = a
    /\ \A i \in 1..Len(m) : s[Len(x) + 1 + i] = m[i]
    /\ s[Len(x) + Len(m) + 2] = b

LEMMA ElementsOfCut ==
    ASSUME NEW T, NEW x \in Seq(T), NEW m \in Seq(T), NEW y \in Seq(T), NEW a \in T, NEW b \in T,
           NEW s, s = Cut(x, a, m, b, y)
    PROVE  IsCut(s, x, a, m, b, y, T)
<1> USE DEF IsCut
<1>0. <<a>> \in Seq(T) /\ Len(<<a>>) = 1 /\ <<a>>[1] = a /\ 1 \in 1..1
      /\ <<b>> \in Seq(T) /\ Len(<<b>>) = 1 /\ <<b>>[1] = b
  OBVIOUS
<1>a. PICK s1 : s1 = x \o <<a>> OBVIOUS
<1>b. PICK s2 : s2 = s1 \o m OBVIOUS
<1>c. PICK s3 : s3 = s2 \o <<b>> OBVIOUS
<1>1. s1 \in Seq(T) /\ Len(s1) = Len(x) + 1 /\ (\A i \in 1..Len(x) : s1[i] = x[i]) /\ s1[Len(x) + 1] = a
  <2>1. IsConcat(s1, x, <<a>>, T) BY <1>0, <1>a, ElementsOfConcat
  <2> QED BY <1>0, <2>1 DEF IsConcat
<1>2. s2 \in Seq(T) /\ Len(s2) = Len(s1) + Len(m) /\ (\A i \in 1..Len(s1) : s2[i] = s1[i])
      /\ \A i \in 1..Len(m) : s2[Len(s1) + i] = m[i]
  <2>1. IsConcat(s2, s1, m, T) BY <1>1, <1>b, ElementsOfConcat
  <2> QED BY <2>1 DEF IsConcat
<1>3. s3 \in Seq(T) /\ Len(s3) = Len(s2) + 1
      /\ (\A i \in 1..Len(s2) : s3[i] = s2[i]) /\ s3[Len(s2) + 1] = b
  <2>1. IsConcat(s3, s2, <<b>>, T) BY <1>0, <1>2, <1>c, ElementsOfConcat
  <2> QED BY <1>0, <2>1 DEF IsConcat
<1>4. s = s3 \o y BY <1>a, <1>b, <1>c DEF Cut
<1>5. s \in Seq(T) /\ Len(s) = Len(s3) + Len(y) /\ \A i \in 1..Len(s3) : s[i] = s3[i]
  <2>1. IsConcat(s, s3, y, T) BY <1>3, <1>4, ElementsOfConcat
  <2> QED BY <2>1 DEF IsConcat
<1>6. Len(x) \in Nat /\ Len(m) \in Nat /\ Len(y) \in Nat OBVIOUS
<1>7. Len(s1) = Len(x) + 1 /\ Len(s2) = Len(x) + 1 + Len(m) /\ Len(s3) = Len(x) + Len(m) + 2
      /\ Len(s) = Len(x) + Len(m) + Len(y) + 2
  BY <1>1, <1>2, <1>3, <1>5, <1>6
<1>8. \A i \in 1..(Len(x) + 1) : s[i] = s1[i]
  <2> TAKE i \in 1..(Len(x) + 1)
  <2>1. i \in 1..Len(s1) /\ i \in 1..Len(s2) /\ i \in 1..Len(s3) BY <1>6, <1>7
  <2> QED BY <1>2, <1>3, <1>5, <2>1
<1>9. \A i \in 1..Len(m) : s[Len(x) + 1 + i] = m[i]
  <2> TAKE i \in 1..Len(m)
  <2>1. Len(s1) + i \in 1..Len(s2) /\ Len(s1) + i \in 1..Len(s3) /\ Len(s1) + i = Len(x) + 1 + i
    BY <1>6, <1>7
  <2> QED BY <1>2, <1>3, <1>5, <2>1
<1>10. s[Len(x) + Len(m) + 2] = b
  <2>1. Len(s2) + 1 \in 1..Len(s3) /\ Len(s2) + 1 = Len(x) + Len(m) + 2 BY <1>6, <1>7
  <2> QED BY <1>3, <1>5, <2>1
<1>11. \A i \in 1..Len(x) : s[i] = x[i] BY <1>1, <1>6, <1>8
<1>12. s[Len(x) + 1] = a BY <1>1, <1>6, <1>8
<1> QED BY <1>5, <1>6, <1>7, <1>9, <1>10, <1>11, <1>12

-----------------------------------------------------------------------------
(* The recursion of Kept *)

\* What Kept has after an element, from what it had before.
AfterElement(seq, wanted, before, n) ==
    IF n = 0 THEN <<>>
    ELSE IF seq[n] \in wanted THEN Append(before[n - 1], seq[n]) ELSE before[n - 1]
IsKept(k, seq, wanted) == k = [n \in 0..Len(seq) |-> AfterElement(seq, wanted, k, n)]

\* There is such a function.
LEMMA KeptExists ==
    ASSUME NEW T, NEW seq \in Seq(T), NEW wanted
    PROVE  \E k \in [0..Len(seq) -> Seq(T)] : IsKept(k, seq, wanted)
<1> DEFINE IsUpto(k, m) == k \in [0..m -> Seq(T)]
                           /\ \A n \in 0..m : k[n] = AfterElement(seq, wanted, k, n)
<1> DEFINE G == {m \in 0..Len(seq) : \E k : IsUpto(k, m)}
<1>0. Len(seq) \in Nat /\ Len(seq) \in 0..Len(seq) /\ 0 \in 0..Len(seq) OBVIOUS
<1>1. 0 \in G
  <2>1. [n \in 0..0 |-> <<>>] \in [0..0 -> Seq(T)] OBVIOUS
  <2>2. \A n \in 0..0 : [i \in 0..0 |-> <<>>][n] = AfterElement(seq, wanted, [i \in 0..0 |-> <<>>], n) BY DEF AfterElement
  <2>3. IsUpto([n \in 0..0 |-> <<>>], 0) BY <2>1, <2>2
  <2> QED BY <1>0, <2>3
<1>2. ASSUME NEW m \in 0..(Len(seq) - 1), m \in G PROVE m + 1 \in G
  <2>1. PICK k : IsUpto(k, m) BY <1>2
  <2> DEFINE l == [n \in 0..(m + 1) |-> IF n <= m THEN k[n] ELSE AfterElement(seq, wanted, k, n)]
  <2>2. m + 1 \in 1..Len(seq) /\ m + 1 \in 0..Len(seq) /\ seq[m + 1] \in T OBVIOUS
  <2>3. AfterElement(seq, wanted, k, m + 1) \in Seq(T) BY <2>1, <2>2 DEF AfterElement
  <2>4. l \in [0..(m + 1) -> Seq(T)] BY <2>1, <2>3
  <2>5. ASSUME NEW n \in 0..(m + 1) PROVE l[n] = AfterElement(seq, wanted, l, n)
    <3>1. n # 0 => l[n - 1] = k[n - 1] OBVIOUS
    <3>2. AfterElement(seq, wanted, l, n) = AfterElement(seq, wanted, k, n)
      <4> HIDE DEF l
      <4> QED BY <3>1 DEF AfterElement
    <3> QED BY <2>1, <3>2
  <2>6. IsUpto(l, m + 1)
    <3> HIDE DEF l
    <3> QED BY <2>4, <2>5
  <2> HIDE DEF IsUpto, l
  <2> QED BY <2>2, <2>6
<1>3. Len(seq) \in G
  <2> HIDE DEF G
  <2> QED BY <1>0, <1>1, <1>2, NumberInduction
<1>4. PICK k : IsUpto(k, Len(seq)) BY <1>3
<1>5. k = [n \in 0..Len(seq) |-> AfterElement(seq, wanted, k, n)]
  <2>1. k = [n \in 0..Len(seq) |-> k[n]] BY <1>4
  <2> QED BY <1>4, <2>1
<1> QED BY <1>4, <1>5 DEF IsKept

\* Two of them, for sequences that begin alike, are alike so far.
LEMMA SameBeginning ==
    ASSUME NEW s, NEW t, NEW wanted, NEW k, NEW l, NEW n \in Nat,
           Len(s) \in Nat, Len(t) \in Nat, n <= Len(s), n <= Len(t), \A i \in 1..n : s[i] = t[i],
           IsKept(k, s, wanted), IsKept(l, t, wanted)
    PROVE  k[n] = l[n]
<1> DEFINE G == {m \in 0..n : k[m] = l[m]}
<1>1. \A m \in 0..n : /\ k[m] = AfterElement(s, wanted, k, m)
                      /\ l[m] = AfterElement(t, wanted, l, m)
  <2> SUFFICES ASSUME NEW m \in 0..n
               PROVE  /\ k[m] = AfterElement(s, wanted, k, m)
                      /\ l[m] = AfterElement(t, wanted, l, m)
    OBVIOUS
  <2>1. m \in 0..Len(s) /\ m \in 0..Len(t) OBVIOUS
  <2>2. [j \in 0..Len(s) |-> AfterElement(s, wanted, k, j)][m] = AfterElement(s, wanted, k, m) BY <2>1
  <2>3. [j \in 0..Len(t) |-> AfterElement(t, wanted, l, j)][m] = AfterElement(t, wanted, l, m) BY <2>1
  <2> QED BY <2>2, <2>3, Zenon DEF IsKept
<1>2. 0 \in G BY <1>1 DEF AfterElement
<1>3. ASSUME NEW m \in 0..(n - 1), m \in G PROVE m + 1 \in G
  <2>1. m + 1 \in 0..n /\ m + 1 \in 1..n /\ m + 1 # 0 /\ (m + 1) - 1 = m OBVIOUS
  <2>2. AfterElement(s, wanted, k, m + 1) = AfterElement(t, wanted, l, m + 1)
    BY <1>3, <2>1 DEF AfterElement
  <2> QED BY <1>1, <2>1, <2>2
<1>4. n \in 0..n OBVIOUS
<1>5. n \in G
  <2> HIDE DEF G
  <2> QED BY <1>2, <1>3, <1>4, NumberInduction
<1> QED BY <1>5

\* Kept is the last value of one, whichever it is.
LEMMA KeptIsLast ==
    ASSUME NEW T, NEW seq \in Seq(T), NEW wanted, NEW k, IsKept(k, seq, wanted)
    PROVE  Kept(seq, wanted) = k[Len(seq)]
<1> DEFINE l == CHOOSE f : IsKept(f, seq, wanted)
<1>1. IsKept(l, seq, wanted) BY KeptExists
<1>2. Kept(seq, wanted) = l[Len(seq)] BY DEF Kept, IsKept, AfterElement
<1>3. Len(seq) \in Nat OBVIOUS
<1> HIDE DEF l
<1>4. k[Len(seq)] = l[Len(seq)] BY <1>1, <1>3, SameBeginning
<1> QED BY <1>2, <1>4

-----------------------------------------------------------------------------
(* What Kept returns *)

LEMMA KeptOfEmpty == ASSUME NEW wanted PROVE Kept(<<>>, wanted) = <<>>
<1> DEFINE T == {}
<1>1. <<>> \in Seq(T) OBVIOUS
<1>2. PICK k : IsKept(k, <<>>, wanted) BY <1>1, KeptExists
<1>3. k[0] = <<>> BY <1>2 DEF IsKept, AfterElement
<1> HIDE DEF T
<1>4. Kept(<<>>, wanted) = k[Len(<<>>)] BY <1>1, <1>2, KeptIsLast
<1> QED BY <1>3, <1>4

LEMMA KeptOfAppend ==
    ASSUME NEW T, NEW seq \in Seq(T), NEW x \in T, NEW wanted
    PROVE  Kept(Append(seq, x), wanted) =
              IF x \in wanted THEN Append(Kept(seq, wanted), x) ELSE Kept(seq, wanted)
<1> DEFINE longer == Append(seq, x)
<1> DEFINE n == Len(seq)
<1>1. n \in Nat /\ longer \in Seq(T) /\ Len(longer) = n + 1 /\ longer[n + 1] = x
      /\ \A i \in 1..n : seq[i] = longer[i]
  OBVIOUS
<1>2. PICK k : IsKept(k, seq, wanted) BY KeptExists
<1>3. PICK l : IsKept(l, longer, wanted) BY <1>1, KeptExists
<1>4. Kept(seq, wanted) = k[n] BY <1>2, KeptIsLast
<1>5. Kept(longer, wanted) = l[n + 1]
  <2> HIDE DEF longer, n
  <2> QED BY <1>1, <1>3, KeptIsLast
<1>6. k[n] = l[n]
  <2>1. n <= Len(longer) /\ n <= Len(seq) BY <1>1
  <2>2. Len(seq) \in Nat /\ Len(longer) \in Nat BY <1>1
  <2>3. n \in Nat BY <1>1
  <2>4. \A i \in 1..n : seq[i] = longer[i] BY <1>1
  <2>5. IsKept(k, seq, wanted) BY <1>2
  <2>6. IsKept(l, longer, wanted) BY <1>3
  <2> HIDE DEF longer, n
  <2> QED BY <2>1, <2>2, <2>3, <2>4, <2>5, <2>6, SameBeginning
<1>7. l[n + 1] = AfterElement(longer, wanted, l, n + 1)
  <2> HIDE DEF longer, n
  <2>1. n + 1 \in 0..Len(longer) BY <1>1
  <2>2. [j \in 0..Len(longer) |-> AfterElement(longer, wanted, l, j)][n + 1]
           = AfterElement(longer, wanted, l, n + 1)
    BY <2>1
  <2> QED BY <1>3, <2>2, Zenon DEF IsKept
<1> HIDE DEF longer, n
<1>8. n + 1 # 0 /\ (n + 1) - 1 = n BY <1>1
<1>9. Kept(longer, wanted) = IF x \in wanted THEN Append(Kept(seq, wanted), x) ELSE Kept(seq, wanted)
  BY <1>1, <1>4, <1>5, <1>6, <1>7, <1>8 DEF AfterElement
<1> QED BY <1>9 DEF longer

\* It is a sequence of elements that are wanted.
LEMMA KeptTyped ==
    ASSUME NEW T, NEW seq \in Seq(T), NEW wanted
    PROVE  Kept(seq, wanted) \in Seq(T \cap wanted)
<1> DEFINE G == {s \in Seq(T) : Kept(s, wanted) \in Seq(T \cap wanted)}
<1>1. <<>> \in G
  <2>1. <<>> \in Seq(T) /\ <<>> \in Seq(T \cap wanted) OBVIOUS
  <2> QED BY <2>1, KeptOfEmpty, Zenon
<1>2. ASSUME NEW s \in Seq(T), NEW x \in T, s \in G PROVE Append(s, x) \in G
  <2>1. Kept(Append(s, x), wanted) = IF x \in wanted THEN Append(Kept(s, wanted), x) ELSE Kept(s, wanted)
    BY KeptOfAppend
  <2>2. Kept(s, wanted) \in Seq(T \cap wanted) BY <1>2
  <2>3. Kept(Append(s, x), wanted) \in Seq(T \cap wanted) BY <2>1, <2>2
  <2>4. Append(s, x) \in Seq(T) OBVIOUS
  <2> QED BY <2>3, <2>4
<1> HIDE DEF G
<1>3. \A s \in Seq(T) : s \in G BY <1>1, <1>2, SequenceInduction
<1> QED BY <1>3 DEF G

LEMMA KeptIn ==
    ASSUME NEW T, NEW seq \in Seq(T), NEW wanted
    PROVE  Kept(seq, wanted) \in Seq(T)
<1>1. Kept(seq, wanted) \in Seq(T \cap wanted) BY KeptTyped
<1> QED BY <1>1

\* It has all that are wanted.
LEMMA KeptHasAll ==
    ASSUME NEW T, NEW seq \in Seq(T), NEW wanted
    PROVE  \A i \in 1..Len(seq) : seq[i] \in wanted =>
              \E j \in 1..Len(Kept(seq, wanted)) : Kept(seq, wanted)[j] = seq[i]
<1> DEFINE Has(s) == \A i \in 1..Len(s) : s[i] \in wanted =>
                        \E j \in 1..Len(Kept(s, wanted)) : Kept(s, wanted)[j] = s[i]
<1> DEFINE G == {s \in Seq(T) : Has(s)}
<1>1. <<>> \in G OBVIOUS
<1>2. ASSUME NEW s \in Seq(T), NEW x \in T, s \in G PROVE Append(s, x) \in G
  <2> DEFINE k == Kept(s, wanted)
  <2>1. Kept(Append(s, x), wanted) = IF x \in wanted THEN Append(k, x) ELSE k
    BY KeptOfAppend
  <2>2. k \in Seq(T \cap wanted) BY KeptTyped
  <2>3. Has(s) BY <1>2
  <2>4. ASSUME NEW i \in 1..Len(Append(s, x)), Append(s, x)[i] \in wanted
        PROVE  \E j \in 1..Len(Kept(Append(s, x), wanted)) :
                  Kept(Append(s, x), wanted)[j] = Append(s, x)[i]
    <3> HIDE DEF k
    <3>1. CASE i \in 1..Len(s)
      <4>1. Append(s, x)[i] = s[i] BY <3>1
      <4>2. PICK j \in 1..Len(k) : k[j] = s[i] BY <2>3, <2>4, <3>1, <4>1 DEF k
      <4>3. Append(k, x)[j] = k[j] /\ j \in 1..Len(Append(k, x)) BY <2>2, <4>2
      <4> QED BY <2>1, <4>1, <4>2, <4>3
    <3>2. CASE i = Len(s) + 1
      <4>1. Append(s, x)[i] = x BY <3>2
      <4>2. Len(k) + 1 \in 1..Len(Append(k, x)) /\ Append(k, x)[Len(k) + 1] = x BY <2>2
      <4> QED BY <2>1, <2>4, <4>1, <4>2
    <3> QED BY <3>1, <3>2
  <2>5. Append(s, x) \in Seq(T) /\ Has(Append(s, x)) BY <2>4
  <2> HIDE DEF Has
  <2> QED BY <2>5
<1> HIDE DEF G
<1>3. \A s \in Seq(T) : s \in G BY <1>1, <1>2, SequenceInduction
<1>4. Has(seq) BY <1>3 DEF G
<1> QED BY <1>4

\* And none that the sequence has not.
LEMMA KeptComesFrom ==
    ASSUME NEW T, NEW seq \in Seq(T), NEW wanted, NEW k \in 1..Len(Kept(seq, wanted))
    PROVE  \E i \in 1..Len(seq) : seq[i] = Kept(seq, wanted)[k] /\ seq[i] \in wanted
<1> DEFINE Elements == {seq[i] : i \in 1..Len(seq)}
<1>1. seq \in Seq(Elements) BY Len(seq) \in Nat
<1> HIDE DEF Elements
<1>2. PICK kept : kept = Kept(seq, wanted) OBVIOUS
<1>3. kept \in Seq(Elements \cap wanted) BY <1>1, <1>2, KeptTyped
<1>4. kept[k] \in Elements /\ kept[k] \in wanted BY <1>2, <1>3
<1> QED BY <1>2, <1>4 DEF Elements

\* Numbers that ascend still do.
Ascends(s) == \A i, j \in 1..Len(s) : i < j => s[i] < s[j]

LEMMA KeptAscends ==
    ASSUME NEW T, T \subseteq Int, NEW wanted, NEW seq \in Seq(T), Ascends(seq)
    PROVE  Ascends(Kept(seq, wanted))
<1> DEFINE G == {s \in Seq(T) : Ascends(s) => Ascends(Kept(s, wanted))}
<1>1. <<>> \in G
  <2>1. <<>> \in Seq(T) /\ Len(<<>>) = 0 OBVIOUS
  <2>2. Ascends(<<>>) BY <2>1 DEF Ascends
  <2> QED BY <2>1, <2>2, KeptOfEmpty
<1>2. ASSUME NEW s \in Seq(T), NEW x \in T, s \in G PROVE Append(s, x) \in G
  <2>1. PICK n, t : n = Len(s) /\ t = Append(s, x) OBVIOUS
  <2>2. /\ t \in Seq(T) /\ Len(t) = n + 1 /\ n \in Nat /\ t[n + 1] = x
        /\ \A i \in 1..n : t[i] = s[i] /\ s[i] \in T
    BY <2>1
  <2> SUFFICES ASSUME Ascends(t) PROVE Ascends(Kept(t, wanted)) BY <2>1, <2>2
  <2>3. \A i \in 1..n : s[i] < x
    <3>1. \A i \in 1..n : i < n + 1 /\ i \in 1..(n + 1) /\ n + 1 \in 1..(n + 1) BY <2>2
    <3> QED BY <2>2, <3>1 DEF Ascends
  <2>4. Ascends(s)
    <3>1. \A i \in 1..n : i \in 1..(n + 1) BY <2>2
    <3> QED BY <2>1, <2>2, <3>1 DEF Ascends
  <2>5. PICK k : k = Kept(s, wanted) OBVIOUS
  <2>6. Ascends(k) BY <1>2, <2>4, <2>5
  <2>7. k \in Seq(T \cap wanted) BY <2>5, KeptTyped
  <2>8. PICK m : m = Len(k) OBVIOUS
  <2>9. m \in Nat /\ \A i \in 1..m : k[i] \in T BY <2>7, <2>8
  <2>10. \A i \in 1..m : k[i] < x
    <3> SUFFICES ASSUME NEW i \in 1..m PROVE k[i] < x OBVIOUS
    <3>1. i \in 1..Len(Kept(s, wanted)) BY <2>5, <2>8
    <3>2. PICK j \in 1..Len(s) : s[j] = Kept(s, wanted)[i] BY <3>1, KeptComesFrom
    <3> QED BY <2>1, <2>3, <2>5, <3>2
  <2>11. Kept(t, wanted) = IF x \in wanted THEN Append(k, x) ELSE k BY <2>1, <2>5, KeptOfAppend
  <2>12. CASE x \in wanted
    <3>1. PICK l : l = Append(k, x) OBVIOUS
    <3>2. Len(l) = m + 1 /\ l[m + 1] = x /\ \A i \in 1..m : l[i] = k[i]
      BY <2>7, <2>8, <2>12, <3>1
    <3>3. Ascends(l)
      <4> SUFFICES ASSUME NEW i \in 1..(m + 1), NEW j \in 1..(m + 1), i < j PROVE l[i] < l[j]
        BY <3>2 DEF Ascends
      <4>1. i \in 1..m BY <2>9
      <4>2. CASE j = m + 1 BY <2>10, <3>2, <4>1, <4>2
      <4>3. CASE j # m + 1
        <5>1. j \in 1..m BY <2>9, <4>3
        <5>2. k[i] < k[j] BY <2>6, <2>8, <4>1, <5>1 DEF Ascends
        <5> QED BY <3>2, <4>1, <5>1, <5>2
      <4> QED BY <4>2, <4>3
    <3> QED BY <2>11, <2>12, <3>1, <3>3
  <2>13. CASE x \notin wanted BY <2>6, <2>11, <2>13
  <2> QED BY <2>12, <2>13
<1> HIDE DEF G
<1>3. \A s \in Seq(T) : s \in G BY <1>1, <1>2, SequenceInduction
<1> QED BY <1>3 DEF G

LEMMA KeptOfConcat ==
    ASSUME NEW T, NEW s \in Seq(T), NEW t \in Seq(T), NEW wanted
    PROVE  Kept(s \o t, wanted) = Kept(s, wanted) \o Kept(t, wanted)
<1> DEFINE G == {u \in Seq(T) : Kept(s \o u, wanted) = Kept(s, wanted) \o Kept(u, wanted)}
<1>1. <<>> \in G
  <2>1. s \o <<>> = s OBVIOUS
  <2>2. Kept(s, wanted) \in Seq(T) BY KeptIn
  <2>3. Kept(s, wanted) \o <<>> = Kept(s, wanted) BY <2>2
  <2>4. <<>> \in Seq(T) OBVIOUS
  <2> QED BY <2>1, <2>3, <2>4, KeptOfEmpty
<1>2. ASSUME NEW u \in Seq(T), NEW x \in T, u \in G PROVE Append(u, x) \in G
  <2>1. s \o Append(u, x) = Append(s \o u, x) /\ s \o u \in Seq(T) /\ Append(u, x) \in Seq(T) OBVIOUS
  <2>2. Kept(Append(s \o u, x), wanted) =
           IF x \in wanted THEN Append(Kept(s \o u, wanted), x) ELSE Kept(s \o u, wanted)
    BY <2>1, KeptOfAppend
  <2>3. Kept(Append(u, x), wanted) = IF x \in wanted THEN Append(Kept(u, wanted), x) ELSE Kept(u, wanted)
    BY KeptOfAppend
  <2>4. Kept(s, wanted) \in Seq(T) /\ Kept(u, wanted) \in Seq(T) BY KeptIn
  <2>5. x \in wanted => Append(Kept(s, wanted) \o Kept(u, wanted), x)
                           = Kept(s, wanted) \o Append(Kept(u, wanted), x)
    <3> DEFINE a == Kept(s, wanted)
    <3> DEFINE b == Kept(u, wanted)
    <3> DEFINE c == <<x>>
    <3>1. a \in Seq(T) /\ b \in Seq(T) /\ c \in Seq(T) BY <2>4
    <3>2. Append(a \o b, x) = (a \o b) \o c /\ Append(b, x) = b \o c
      BY <2>4, AppendIsConcat, ConcatProperties
    <3> HIDE DEF a, b, c
    <3>3. (a \o b) \o c = a \o (b \o c) BY <3>1, ConcatAssociative, SMTT(30)
    <3>4. Append(a \o b, x) = a \o Append(b, x) BY <3>2, <3>3
    <3> QED BY <3>4 DEF a, b
  <2>6. Kept(s \o u, wanted) = Kept(s, wanted) \o Kept(u, wanted) BY <1>2
  <2>7. Kept(s \o Append(u, x), wanted) = Kept(s, wanted) \o Kept(Append(u, x), wanted)
    BY <2>1, <2>2, <2>3, <2>5, <2>6
  <2> QED BY <2>1, <2>7
<1> HIDE DEF G
<1>3. \A u \in Seq(T) : u \in G BY <1>1, <1>2, SequenceInduction
<1> QED BY <1>3 DEF G

\* Only what the elements are matters of the set.
LEMMA KeptSame ==
    ASSUME NEW T, NEW seq \in Seq(T), NEW A, NEW B, \A x \in T : x \in A <=> x \in B
    PROVE  Kept(seq, A) = Kept(seq, B)
<1> DEFINE G == {s \in Seq(T) : Kept(s, A) = Kept(s, B)}
<1>1. <<>> \in G
  <2>1. <<>> \in Seq(T) OBVIOUS
  <2> QED BY <2>1, KeptOfEmpty
<1>2. ASSUME NEW s \in Seq(T), NEW x \in T, s \in G PROVE Append(s, x) \in G
  <2>1. Kept(Append(s, x), A) = IF x \in A THEN Append(Kept(s, A), x) ELSE Kept(s, A)
    BY KeptOfAppend
  <2>2. Kept(Append(s, x), B) = IF x \in B THEN Append(Kept(s, B), x) ELSE Kept(s, B)
    BY KeptOfAppend
  <2>3. Kept(s, A) = Kept(s, B) /\ (x \in A <=> x \in B) BY <1>2
  <2>4. Kept(Append(s, x), A) = Kept(Append(s, x), B) BY <2>1, <2>2, <2>3, Zenon
  <2>5. Append(s, x) \in Seq(T) OBVIOUS
  <2> QED BY <2>4, <2>5
<1> HIDE DEF G
<1>3. \A s \in Seq(T) : s \in G BY <1>1, <1>2, SequenceInduction
<1> QED BY <1>3 DEF G

LEMMA KeptAll ==
    ASSUME NEW T, NEW seq \in Seq(T), NEW wanted, T \subseteq wanted
    PROVE  Kept(seq, wanted) = seq
<1> DEFINE G == {s \in Seq(T) : Kept(s, wanted) = s}
<1>1. <<>> \in G
  <2>1. <<>> \in Seq(T) OBVIOUS
  <2> QED BY <2>1, KeptOfEmpty
<1>2. ASSUME NEW s \in Seq(T), NEW x \in T, s \in G PROVE Append(s, x) \in G
  <2>1. Kept(Append(s, x), wanted) = Append(Kept(s, wanted), x) BY KeptOfAppend
  <2>2. Append(s, x) \in Seq(T) OBVIOUS
  <2> QED BY <1>2, <2>1, <2>2
<1> HIDE DEF G
<1>3. \A s \in Seq(T) : s \in G BY <1>1, <1>2, SequenceInduction
<1> QED BY <1>3 DEF G

LEMMA KeptNone ==
    ASSUME NEW T, NEW seq \in Seq(T), NEW wanted, T \cap wanted = {}
    PROVE  Kept(seq, wanted) = <<>>
<1>1. Kept(seq, wanted) \in Seq({}) BY KeptTyped
<1> QED BY <1>1, EmptySeq

\* The last element that is kept is the last one wanted.
LEMMA LastKept ==
    ASSUME NEW T, NEW seq \in Seq(T), NEW wanted, NEW i \in 1..Len(seq), seq[i] \in wanted,
           \A j \in (i + 1)..Len(seq) : seq[j] \notin wanted
    PROVE  /\ Kept(seq, wanted) \in Seq(T) /\ Kept(seq, wanted) # <<>>
           /\ Kept(seq, wanted)[Len(Kept(seq, wanted))] = seq[i]
<1>1. PICK a, b, c, n : a = SubSeq(seq, 1, i - 1) /\ b = SubSeq(seq, i + 1, n) /\ c = SubSeq(seq, 1, i)
                        /\ n = Len(seq)
  OBVIOUS
<1>2. a \in Seq(T) /\ c \in Seq(T) /\ n \in Nat BY <1>1
<1>3. c = Append(a, seq[i])
  <2>1. SubSeq(seq, i, i) = <<seq[i]>> BY PartOfOne
  <2>2. SubSeq(seq, 1, i - 1) \o SubSeq(seq, (i - 1) + 1, i) = SubSeq(seq, 1, i) BY ConcatAdjacentSubSeq
  <2>3. (i - 1) + 1 = i OBVIOUS
  <2>4. a \o <<seq[i]>> = Append(a, seq[i]) BY <1>2
  <2> QED BY <1>1, <2>1, <2>2, <2>3, <2>4
<1>4. Kept(c, wanted) = Append(Kept(a, wanted), seq[i]) BY <1>2, <1>3, KeptOfAppend
<1>5. b \in Seq(T) /\ Kept(b, wanted) = <<>>
  <2>1. b \in Seq(T \ wanted)
    <3>1. i + 1 \in Nat \ {0} /\ n \in 0..Len(seq) BY <1>1, <1>2
    <3>2. \A k \in (i + 1)..n : seq[k] \in T \ wanted BY <1>1, <1>2
    <3> QED BY <1>1, <3>1, <3>2, PartIn
  <2>2. (T \ wanted) \cap wanted = {} /\ T \ wanted \subseteq T OBVIOUS
  <2> QED BY <2>1, <2>2, KeptNone, SeqMonotonic
<1>6. seq = c \o b
  <2>1. SubSeq(seq, 1, i) \o SubSeq(seq, i + 1, Len(seq)) = SubSeq(seq, 1, Len(seq)) BY ConcatAdjacentSubSeq
  <2>2. SubSeq(seq, 1, Len(seq)) = seq OBVIOUS
  <2> QED BY <1>1, <2>1, <2>2
<1>7. PICK k, l : k = Kept(a, wanted) /\ l = Kept(c, wanted) OBVIOUS
<1>8. k \in Seq(T) /\ l = Append(k, seq[i]) BY <1>2, <1>4, <1>7, KeptIn
<1>9. Kept(seq, wanted) = l
  <2>a. \A p, q \in Seq(T) : Kept(p \o q, wanted) = Kept(p, wanted) \o Kept(q, wanted) BY KeptOfConcat
  <2>1. Kept(c \o b, wanted) = Kept(c, wanted) \o Kept(b, wanted) BY <1>2, <1>5, <2>a
  <2>2. l \o <<>> = l BY <1>8
  <2> QED BY <1>5, <1>6, <1>7, <2>1, <2>2
<1>10. l \in Seq(T) /\ l # <<>> /\ l[Len(l)] = seq[i] BY <1>8
<1> QED BY <1>9, <1>10
=============================================================================
