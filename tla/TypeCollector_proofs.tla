------------------------ MODULE TypeCollector_proofs ------------------------
(***************************************************************************)
(* Proofs about TypeCollector, for translation units of any length and     *)
(* nesting: which declarations are below one and how names grow with it,   *)
(* what the walk of a visitor may have taken, that everything asked for    *)
(* is reported and nothing else.                                           *)
(***************************************************************************)
EXTENDS TypeCollector, Filtering_proofs, FiniteSetTheorems

-----------------------------------------------------------------------------
(* The tree of declarations *)

IsUnit == unit \in Units /\ nonRuntime \in NonRuntime

\* What the assumption says of the unit that is read.
LEMMA UnitTyped ==
    ASSUME IsUnit
    PROVE  /\ Len(unit) \in Nat /\ DOMAIN unit = 1..Len(unit)
           /\ nonRuntime \in BOOLEAN
           /\ \A d \in 1..Len(unit) :
                 /\ unit[d].kind \in Kinds /\ unit[d].name \in STRING /\ unit[d].depth \in Nat
                 /\ unit[d].tagged \in BOOLEAN /\ unit[d].complete \in BOOLEAN
                 /\ unit[d].type \in Types /\ unit[d].params \in Seq(Types)
                 /\ unit[d].target \in Int /\ unit[d].known \in SUBSET STRING
                 /\ unit[d].names \in Seq(STRING)
                 /\ unit[d].arguments \in Seq(Types \cup {Value})
                 /\ IsLegal(unit, d)
<1>1. unit \in Seq(Decls) /\ nonRuntime \in BOOLEAN
      /\ \A d \in DOMAIN unit : IsLegal(unit, d)
  BY CollectorAssumption DEF IsUnit
<1>2. Len(unit) \in Nat /\ DOMAIN unit = 1..Len(unit) /\ \A d \in 1..Len(unit) : unit[d] \in Decls
  BY <1>1
<1>3. ASSUME NEW d \in Decls
      PROVE  /\ d.kind \in Kinds /\ d.name \in STRING /\ d.depth \in Nat
             /\ d.tagged \in BOOLEAN /\ d.complete \in BOOLEAN
             /\ d.type \in Types /\ d.params \in Seq(Types)
             /\ d.target \in Int /\ d.known \in SUBSET STRING
             /\ d.names \in Seq(STRING)
             /\ d.arguments \in Seq(Types \cup {Value})
  BY DEF Decls
<1> QED BY <1>1, <1>2, <1>3

LEMMA SmallestOf ==
    ASSUME NEW n \in Nat, NEW S \in SUBSET (1..n), S # {}
    PROVE  Smallest(S) \in S /\ \A i \in S : Smallest(S) <= i
BY SmallestIndex DEF Smallest

LEMMA LargestOf ==
    ASSUME NEW n \in Nat, NEW S \in SUBSET (0..n), S # {}
    PROVE  Largest(S) \in S /\ \A i \in S : i <= Largest(S)
BY LargestNumber DEF Largest

\* All declarations below one are deeper, and the one behind them is not.
LEMMA EndOf ==
    ASSUME IsUnit, NEW d \in 1..Len(unit)
    PROVE  /\ End(d) \in d..Len(unit)
           /\ \A i \in Below(d) : i \in 1..Len(unit) /\ unit[d].depth < unit[i].depth
           /\ End(d) < Len(unit) => unit[End(d) + 1].depth <= unit[d].depth
<1> DEFINE S == {j \in (d + 1)..Len(unit) : unit[j].depth <= unit[d].depth} \cup {Len(unit) + 1}
<1>1. Len(unit) \in Nat /\ Len(unit) + 1 \in Nat /\ \A i \in 1..Len(unit) : unit[i].depth \in Nat
  BY UnitTyped
<1>2. S \in SUBSET (1..(Len(unit) + 1)) /\ S # {} BY <1>1
<1>3. End(d) = Smallest(S) - 1 BY DEF End
<1>4. Smallest(S) \in S /\ \A i \in S : Smallest(S) <= i
  <2> HIDE DEF S
  <2> QED BY <1>1, <1>2, SmallestOf
<1>5. PICK e : e = Smallest(S) OBVIOUS
<1>6. e \in S /\ (\A i \in S : e <= i) /\ End(d) = e - 1 BY <1>3, <1>4, <1>5
<1>7. e \in (d + 1)..(Len(unit) + 1) BY <1>1, <1>6
<1>8. \A i \in (d + 1)..(e - 1) : i \in 1..Len(unit) /\ unit[d].depth < unit[i].depth
  BY <1>1, <1>6, <1>7
<1>9. e - 1 < Len(unit) => unit[(e - 1) + 1].depth <= unit[d].depth
  <2>1. (e - 1) + 1 = e BY <1>7
  <2> QED BY <1>1, <1>6, <1>7, <2>1
<1> QED BY <1>1, <1>6, <1>7, <1>8, <1>9 DEF Below

\* The declaration around one is the last before it that is less deep.
LEMMA UpOf ==
    ASSUME IsUnit, NEW d \in 1..Len(unit)
    PROVE  /\ Up(d) \in 0..(d - 1)
           /\ Up(d) # 0 => Up(d) \in 1..Len(unit) /\ unit[Up(d)].depth < unit[d].depth
           /\ \A i \in (Up(d) + 1)..(d - 1) : unit[d].depth <= unit[i].depth
<1> DEFINE S == {i \in 1..(d - 1) : unit[i].depth < unit[d].depth} \cup {0}
<1>1. Len(unit) \in Nat /\ \A i \in 1..Len(unit) : unit[i].depth \in Nat BY UnitTyped
<1>2. S \in SUBSET (0..(d - 1)) /\ S # {} /\ d - 1 \in Nat BY <1>1
<1>3. Up(d) = Largest(S) BY DEF Up
<1>4. Largest(S) \in S /\ \A i \in S : i <= Largest(S)
  <2> HIDE DEF S
  <2> QED BY <1>2, LargestOf
<1>5. PICK u : u = Up(d) OBVIOUS
<1>6. u \in S /\ \A i \in S : i <= u BY <1>3, <1>4, <1>5
<1>7. \A i \in (u + 1)..(d - 1) : unit[d].depth <= unit[i].depth BY <1>1, <1>2, <1>6, SMTT(20)
<1> QED BY <1>1, <1>2, <1>5, <1>6, <1>7

LEMMA UpBelow ==
    ASSUME IsUnit, NEW d \in 1..Len(unit), NEW m \in Below(d)
    PROVE  Up(m) = d \/ Up(m) \in Below(d)
<1>1. m \in (d + 1)..End(d) BY DEF Below
<1>2. m \in 1..Len(unit) /\ unit[d].depth < unit[m].depth BY EndOf
<1>3. Up(m) \in 0..(m - 1) /\ \A i \in (Up(m) + 1)..(m - 1) : unit[m].depth <= unit[i].depth
  BY <1>2, UpOf
<1>4. unit[d].depth \in Nat /\ unit[m].depth \in Nat /\ Len(unit) \in Nat BY <1>2, UnitTyped
<1>5. PICK u : u = Up(m) OBVIOUS
<1>6. d \notin (u + 1)..(m - 1) BY <1>2, <1>3, <1>4, <1>5
<1>7. End(d) \in Nat BY EndOf, <1>4
<1> QED BY <1>1, <1>3, <1>5, <1>6, <1>7 DEF Below

\* A member is declared in the definition of a class or template, as is a type in
\* another declaration.
LEMMA ParentOfMember ==
    ASSUME IsUnit, NEW m \in 1..Len(unit),
           IsMember(m) \/ (unit[m].kind \in Definable /\ unit[m].depth # 0)
    PROVE  /\ Up(m) \in 1..(m - 1) /\ Up(m) \in 1..Len(unit)
           /\ unit[Up(m)].kind \in Containers /\ unit[Up(m)].complete
<1>1. PICK c \in 1..(m - 1) : IsMemberOf(unit, c, m) BY UnitTyped DEF IsMember, IsLegal
<1>2. Len(unit) \in Nat /\ \A i \in 1..Len(unit) : unit[i].depth \in Nat BY UnitTyped
<1>3. PICK u : u = Up(m) OBVIOUS
<1>4. /\ u \in 0..(m - 1)
      /\ u # 0 => u \in 1..Len(unit) /\ unit[u].depth < unit[m].depth
      /\ \A i \in (u + 1)..(m - 1) : unit[m].depth <= unit[i].depth
  BY <1>3, UpOf
<1>5. unit[c].depth < unit[m].depth /\ c \in 1..Len(unit) BY <1>1, <1>2 DEF IsMemberOf
<1>6. c \notin (u + 1)..(m - 1) BY <1>2, <1>4, <1>5
<1>7. u \notin (c + 1)..(m - 1) BY <1>1, <1>2, <1>4 DEF IsMemberOf
<1>8. u = c BY <1>4, <1>6, <1>7
<1> QED BY <1>1, <1>3, <1>5, <1>8 DEF IsMemberOf

\* A declaration is one deeper than the one around it.
LEMMA DepthOf ==
    ASSUME IsUnit, NEW d \in 1..Len(unit)
    PROVE  unit[d].depth = IF Up(d) = 0 THEN 0 ELSE unit[Up(d)].depth + 1
<1>1. Len(unit) \in Nat /\ \A i \in 1..Len(unit) : unit[i].depth \in Nat BY UnitTyped
<1>2. \A i \in 1..Len(unit) : unit[i].depth <= IF i = 1 THEN 0 ELSE unit[i - 1].depth + 1
  BY UnitTyped DEF IsLegal
<1>3. PICK u : u = Up(d) OBVIOUS
<1>4. /\ u \in 0..(d - 1)
      /\ u # 0 => u \in 1..Len(unit) /\ unit[u].depth < unit[d].depth
      /\ \A i \in (u + 1)..(d - 1) : unit[d].depth <= unit[i].depth
  BY <1>3, UpOf
<1>5. unit[d].depth <= unit[u + 1].depth
  <2>1. u + 1 = d \/ u + 1 \in (u + 1)..(d - 1) BY <1>4
  <2> QED BY <1>1, <1>4, <2>1
<1>6. u + 1 \in 1..Len(unit) /\ (u + 1) - 1 = u /\ (u + 1 = 1 <=> u = 0) BY <1>1, <1>4
<1>7. unit[u + 1].depth <= IF u = 0 THEN 0 ELSE unit[u].depth + 1 BY <1>2, <1>6
<1>8. unit[u + 1].depth \in Nat /\ unit[d].depth \in Nat BY <1>1, <1>6
<1>9. CASE u = 0 BY <1>3, <1>5, <1>7, <1>8, <1>9
<1>10. CASE u # 0
  <2>1. unit[u].depth \in Nat /\ unit[u].depth < unit[d].depth BY <1>1, <1>4, <1>10
  <2> QED BY <1>3, <1>5, <1>7, <1>8, <1>10, <2>1
<1> QED BY <1>9, <1>10

\* There is no type in a class that is only declared.
LEMMA EmptyBelow ==
    ASSUME IsUnit, NEW d \in 1..Len(unit), ~unit[d].complete
    PROVE  \A m \in Below(d) : unit[m].kind \notin Definable
<1> SUFFICES ASSUME NEW m \in Below(d), unit[m].kind \in Definable PROVE FALSE
  OBVIOUS
<1>1. PICK S : S = {i \in Below(d) : unit[i].kind \in Definable} OBVIOUS
<1>2. S \in SUBSET (1..Len(unit)) /\ S # {} /\ Len(unit) \in Nat BY <1>1, EndOf, UnitTyped
<1>3. PICK i : i = Smallest(S) OBVIOUS
<1>4. i \in S /\ \A j \in S : i <= j BY <1>2, <1>3, SmallestOf
<1>5. i \in Below(d) /\ i \in 1..Len(unit) /\ unit[i].kind \in Definable BY <1>1, <1>2, <1>4
<1>6. unit[i].depth # 0
  <2>1. unit[d].depth < unit[i].depth BY <1>5, EndOf
  <2>2. unit[d].depth \in Nat /\ unit[i].depth \in Nat BY <1>5, UnitTyped
  <2> QED BY <2>1, <2>2
<1>7. PICK u : u = Up(i) OBVIOUS
<1>8. u \in 1..(i - 1) /\ unit[u].kind \in Containers /\ unit[u].complete
  BY <1>5, <1>6, <1>7, ParentOfMember
<1>9. u = d \/ u \in Below(d) BY <1>5, <1>7, UpBelow
<1>10. u \in S BY <1>1, <1>8, <1>9 DEF Definable
<1> QED BY <1>4, <1>5, <1>8, <1>10

-----------------------------------------------------------------------------
(* Names *)

IsPath(p) ==
    p = [i \in 0..Len(unit) |-> IF i = 0 THEN <<>> ELSE Append(p[Up(i)], unit[i].name)]

LEMMA PathExists ==
    ASSUME IsUnit
    PROVE  \E p \in [0..Len(unit) -> Seq(STRING)] : IsPath(p)
<1> DEFINE N == 0..Len(unit)
<1> DEFINE After(f, i) == IF i = 0 THEN <<>> ELSE Append(f[Up(i)], unit[i].name)
<1> DEFINE step == [i \in N |-> [f \in [N -> Seq(STRING)] |-> After(f, i)]]
<1>1. Len(unit) \in Nat BY UnitTyped
<1>2. \A i \in N : i # 0 => Up(i) \in N /\ Up(i) \in 0..(i - 1) /\ unit[i].name \in STRING
  BY <1>1, UpOf, UnitTyped
<1>3. ASSUME NEW i \in N, NEW f \in [N -> Seq(STRING)] PROVE After(f, i) \in Seq(STRING)
  <2>1. CASE i = 0 BY <2>1
  <2>2. CASE i # 0
    <3>1. f[Up(i)] \in Seq(STRING) BY <1>2, <2>2
    <3> QED BY <1>2, <2>2, <3>1
  <2> QED BY <2>1, <2>2
<1>4. step \in [N -> [[N -> Seq(STRING)] -> Seq(STRING)]] BY <1>3
<1>5. ASSUME NEW i \in N, NEW f \in [N -> Seq(STRING)], NEW g \in [N -> Seq(STRING)],
             \A j \in 0..(i - 1) : f[j] = g[j]
      PROVE  step[i][f] = step[i][g]
  <2>1. step[i][f] = After(f, i) /\ step[i][g] = After(g, i) OBVIOUS
  <2> QED BY <1>2, <1>5, <2>1
<1>6. Seq(STRING) # {}
  <2>1. <<>> \in Seq(STRING) OBVIOUS
  <2> QED BY <2>1
<1>7. PICK f \in [N -> Seq(STRING)] : \A i \in N : f[i] = step[i][f]
  <2>1. \A i \in N : \A f, g \in [N -> Seq(STRING)] :
            (\A j \in 0..(i - 1) : f[j] = g[j]) => step[i][f] = step[i][g]
    <3> HIDE DEF step
    <3> QED BY <1>5
  <2> HIDE DEF step
  <2>2. IsRule(step, Len(unit), Seq(STRING)) BY <1>4, <2>1 DEF IsRule
  <2> QED BY <1>1, <1>6, <2>2, Recursion
<1>8. \A i \in N : step[i][f] = After(f, i) OBVIOUS
<1>9. f = [i \in N |-> After(f, i)]
  <2>1. f = [i \in N |-> f[i]] OBVIOUS
  <2> HIDE DEF step, After
  <2> QED BY <1>7, <1>8, <2>1
<1> QED BY <1>9 DEF IsPath

\* A name is that of what is around it and its own.
LEMMA PathOf ==
    ASSUME IsUnit
    PROVE  /\ Path(0) = <<>>
           /\ \A d \in 1..Len(unit) : /\ Path(d) = Append(Path(Up(d)), unit[d].name)
                                      /\ Path(d) \in Seq(STRING)
                                      /\ Len(Path(d)) = Len(Path(Up(d))) + 1
                                      /\ Path(Up(d)) \in Seq(STRING)
<1> DEFINE p == CHOOSE q : IsPath(q)
<1>1. IsPath(p) BY PathExists
<1>2. \A d : Path(d) = p[d] BY DEF Path, IsPath
<1> HIDE DEF p
<1>3. Len(unit) \in Nat BY UnitTyped
<1>4. \A i \in 0..Len(unit) : p[i] = IF i = 0 THEN <<>> ELSE Append(p[Up(i)], unit[i].name)
  <2> DEFINE F(i) == IF i = 0 THEN <<>> ELSE Append(p[Up(i)], unit[i].name)
  <2>1. p = [i \in 0..Len(unit) |-> F(i)] BY <1>1 DEF IsPath
  <2> HIDE DEF F
  <2>2. \A i \in 0..Len(unit) : p[i] = F(i) BY <2>1
  <2> QED BY <2>2 DEF F
<1>5. \A i \in 1..Len(unit) : Up(i) \in 0..(i - 1) /\ unit[i].name \in STRING BY UpOf, UnitTyped
<1>6. p[0] = <<>> /\ \A i \in 1..Len(unit) : p[i] = Append(p[Up(i)], unit[i].name)
  <2>1. 0 \in 0..Len(unit) /\ \A i \in 1..Len(unit) : i \in 0..Len(unit) /\ i # 0 BY <1>3
  <2> QED BY <1>4, <2>1
<1> DEFINE G == {k \in 0..Len(unit) : \A i \in 0..k : p[i] \in Seq(STRING)}
<1>7. 0 \in G
  <2>1. 0 \in 0..Len(unit) /\ <<>> \in Seq(STRING) /\ \A i \in 0..0 : i = 0 BY <1>3
  <2> QED BY <1>6, <2>1
<1>8. ASSUME NEW k \in 0..(Len(unit) - 1), k \in G PROVE k + 1 \in G
  <2>1. k + 1 \in 1..Len(unit) /\ k + 1 \in 0..Len(unit) BY <1>3
  <2>2. Up(k + 1) \in 0..((k + 1) - 1) BY <1>5, <2>1
  <2>3. Up(k + 1) \in 0..k BY <2>2
  <2>4. p[Up(k + 1)] \in Seq(STRING) BY <1>8, <2>3
  <2>5. p[k + 1] = Append(p[Up(k + 1)], unit[k + 1].name) /\ unit[k + 1].name \in STRING
    BY <1>5, <1>6, <2>1
  <2>6. p[k + 1] \in Seq(STRING) BY <2>4, <2>5
  <2> QED BY <1>8, <2>1, <2>6
<1>9. \A k \in 0..Len(unit) : p[k] \in Seq(STRING)
  <2>1. \A k \in 0..Len(unit) : k \in G
    <3> HIDE DEF G
    <3> QED BY <1>3, <1>7, <1>8, NumberInduction
  <2> QED BY <2>1
<1>10. ASSUME NEW d \in 1..Len(unit)
       PROVE  /\ Path(d) = Append(Path(Up(d)), unit[d].name) /\ Path(d) \in Seq(STRING)
              /\ Len(Path(d)) = Len(Path(Up(d))) + 1 /\ Path(Up(d)) \in Seq(STRING)
  <2>1. p[d] = Append(p[Up(d)], unit[d].name) BY <1>6
  <2>2. Up(d) \in 0..Len(unit) /\ d \in 0..Len(unit) BY <1>3, <1>5
  <2>3. p[Up(d)] \in Seq(STRING) /\ p[d] \in Seq(STRING) /\ unit[d].name \in STRING
    BY <1>5, <1>9, <2>2
  <2>4. Len(p[d]) = Len(p[Up(d)]) + 1 BY <2>1, <2>3
  <2>5. Path(d) = p[d] /\ Path(Up(d)) = p[Up(d)] BY <1>2
  <2> HIDE DEF G
  <2> QED BY <2>1, <2>3, <2>4, <2>5, Zenon
<1> QED BY <1>2, <1>6, <1>10

\* What is declared below a declaration has a longer name.
LEMMA LongerBelow ==
    ASSUME IsUnit, NEW d \in 1..Len(unit)
    PROVE  \A m \in Below(d) : Len(Path(d)) < Len(Path(m))
<1>0. Len(unit) \in Nat /\ Len(Path(d)) \in Nat BY UnitTyped, PathOf
<1> DEFINE G == {k \in 0..Len(unit) : \A m \in 0..k : m \in Below(d) => Len(Path(d)) < Len(Path(m))}
<1>1. 0 \in G BY <1>0 DEF Below
<1>2. ASSUME NEW k \in 0..(Len(unit) - 1), k \in G PROVE k + 1 \in G
  <2>1. k + 1 \in 1..Len(unit) /\ k + 1 \in 0..Len(unit) BY <1>0
  <2>2. ASSUME k + 1 \in Below(d) PROVE Len(Path(d)) < Len(Path(k + 1))
    <3>1. PICK u : u = Up(k + 1) OBVIOUS
    <3>2. u = d \/ u \in Below(d) BY <2>2, <3>1, UpBelow
    <3>3. u \in 0..((k + 1) - 1) BY <2>1, <3>1, UpOf
    <3>4. u \in 0..k BY <3>3
    <3>5. Len(Path(k + 1)) = Len(Path(u)) + 1 /\ Path(u) \in Seq(STRING) BY <2>1, <3>1, PathOf
    <3>6. u \in Below(d) => Len(Path(d)) < Len(Path(u)) BY <1>2, <3>4
    <3>7. Len(Path(u)) \in Nat BY <3>5
    <3> QED BY <1>0, <3>2, <3>5, <3>6, <3>7
  <2> QED BY <1>2, <2>1, <2>2
<1>3. \A k \in 0..Len(unit) : k \in G
  <2> HIDE DEF G
  <2> QED BY <1>0, <1>1, <1>2, NumberInduction
<1>4. \A m \in Below(d) : m \in 0..Len(unit) BY EndOf
<1> QED BY <1>3, <1>4

\* A name of one part is that of a declaration in no other.
LEMMA AtTop ==
    ASSUME IsUnit, NEW d \in 1..Len(unit)
    PROVE  /\ Len(Path(d)) \in Nat \ {0}
           /\ (Len(Path(d)) = 1 <=> Up(d) = 0) /\ (Up(d) = 0 <=> unit[d].depth = 0)
<1>1. PICK u, n : u = Up(d) /\ n = Len(Path(u)) OBVIOUS
<1>2. Len(Path(d)) = n + 1 /\ Path(u) \in Seq(STRING) BY <1>1, PathOf
<1>3. n \in Nat BY <1>1, <1>2
<1>4. u \in 0..(d - 1) /\ (u # 0 => u \in 1..Len(unit) /\ unit[u].depth < unit[d].depth)
  BY <1>1, UpOf
<1>5. u = 0 => n = 0 BY <1>1, PathOf
<1>6. u # 0 => n # 0
  <2> SUFFICES ASSUME u # 0 PROVE n # 0 OBVIOUS
  <2>1. u \in 1..Len(unit) BY <1>4
  <2>2. PICK k : k = Len(Path(Up(u))) OBVIOUS
  <2>3. n = k + 1 /\ Path(Up(u)) \in Seq(STRING) BY <1>1, <2>1, <2>2, PathOf
  <2>4. k \in Nat BY <2>2, <2>3
  <2> QED BY <2>3, <2>4
<1>7. u # 0 => unit[d].depth # 0 BY <1>4, UnitTyped
<1>8. u = 0 => unit[d].depth = 0 BY <1>1, DepthOf
<1> QED BY <1>1, <1>2, <1>3, <1>5, <1>6, <1>7, <1>8

\* Two declarations that are called the same in the same place.
LEMMA Beside ==
    ASSUME IsUnit, NEW c \in 1..Len(unit), NEW d \in 1..Len(unit), c # d,
           {unit[c].kind, unit[d].kind} \subseteq Definable,
           Path(c) = Path(d), Up(c) = Up(d)
    PROVE  unit[c].kind = unit[d].kind /\ ~(unit[c].complete /\ unit[d].complete)
<1>0. Len(unit) \in Nat BY UnitTyped
<1>1. ASSUME NEW i \in 1..Len(unit), NEW j \in 1..Len(unit), i < j,
             {unit[i].kind, unit[j].kind} \subseteq Definable, Path(i) = Path(j), Up(i) = Up(j)
      PROVE  unit[i].kind = unit[j].kind /\ ~(unit[i].complete /\ unit[j].complete)
  <2>1. PICK u : u = Up(i) OBVIOUS
  <2>2. u \in 0..(i - 1) /\ \A k \in (u + 1)..(j - 1) : unit[j].depth <= unit[k].depth
    BY <1>1, <2>1, UpOf
  <2>3. unit[i].depth = unit[j].depth BY <1>1, DepthOf
  <2>4. \A k \in i..(j - 1) : unit[k].depth >= unit[j].depth BY <2>2, <1>0, <1>1, UnitTyped
  <2>5. IsBeside(unit, i, j) BY <2>3, <2>4 DEF IsBeside
  <2>6. unit[i].name = unit[j].name
    <3>1. PICK p : p = Path(u) OBVIOUS
    <3>2. Append(p, unit[i].name) = Append(p, unit[j].name) /\ p \in Seq(STRING)
      BY <1>1, <2>1, <3>1, PathOf
    <3>3. Append(p, unit[i].name)[Len(p) + 1] = unit[i].name BY <3>2
    <3>4. Append(p, unit[j].name)[Len(p) + 1] = unit[j].name BY <3>2
    <3> QED BY <3>2, <3>3, <3>4
  <2>7. i \in 1..(j - 1) BY <1>0, <1>1
  <2> QED BY <1>1, <2>5, <2>6, <2>7, UnitTyped DEF IsLegal
<1>2. c < d \/ d < c BY <1>0
<1> QED BY <1>1, <1>2

\* What is around two declarations of one name has one name, too.
LEMMA AroundOne ==
    ASSUME IsUnit, NEW c \in 1..Len(unit), NEW d \in 1..Len(unit), Path(c) = Path(d)
    PROVE  Path(Up(c)) = Path(Up(d)) /\ (Up(c) = 0 <=> Up(d) = 0)
<1>1. PICK p, q : p = Path(Up(c)) /\ q = Path(Up(d)) OBVIOUS
<1>2. /\ p \in Seq(STRING) /\ q \in Seq(STRING)
      /\ Append(p, unit[c].name) = Append(q, unit[d].name)
      /\ unit[c].name \in STRING /\ unit[d].name \in STRING
  BY <1>1, PathOf, UnitTyped
<1>3. p = q
  <2>1. Len(p) = Len(q) /\ Len(p) \in Nat BY <1>2
  <2>2. \A i \in 1..Len(p) : p[i] = Append(p, unit[c].name)[i] /\ q[i] = Append(q, unit[d].name)[i]
    BY <1>2, <2>1
  <2>3. p = [i \in 1..Len(p) |-> p[i]] /\ q = [i \in 1..Len(q) |-> q[i]] BY <1>2
  <2> QED BY <1>2, <2>1, <2>2, <2>3
<1> QED BY <1>1, <1>3, AtTop

\* A name has one definition.
LEMMA OneDefinition ==
    ASSUME IsUnit
    PROVE  \A c, d \in 1..Len(unit) :
               /\ {unit[c].kind, unit[d].kind} \subseteq Definable
               /\ unit[c].complete /\ unit[d].complete /\ Path(c) = Path(d)
               => c = d
<1>0. Len(unit) \in Nat BY UnitTyped
<1> DEFINE Defines(i) == unit[i].kind \in Definable /\ unit[i].complete
<1> DEFINE G == {k \in 0..Len(unit) : \A c, d \in 1..k :
                     Defines(c) /\ Defines(d) /\ Path(c) = Path(d) => c = d}
<1>1. 0 \in G BY <1>0
<1>2. ASSUME NEW k \in 0..(Len(unit) - 1), k \in G PROVE k + 1 \in G
  <2>1. k + 1 \in 0..Len(unit) /\ k \in Nat BY <1>0
  <2> SUFFICES ASSUME NEW c \in 1..(k + 1), NEW d \in 1..(k + 1), Defines(c), Defines(d),
                      Path(c) = Path(d), c # d
               PROVE  FALSE
    BY <2>1
  <2>2. c \in 1..Len(unit) /\ d \in 1..Len(unit) BY <1>0, <2>1
  <2>3. PICK a, b : a = Up(c) /\ b = Up(d) OBVIOUS
  <2>4. Path(a) = Path(b) /\ (a = 0 <=> b = 0) BY <2>2, <2>3, AroundOne
  <2>5. CASE a # 0
    <3>1. unit[c].depth # 0 /\ unit[d].depth # 0 BY <2>2, <2>3, <2>4, <2>5, AtTop
    <3>2. a \in 1..(c - 1) /\ unit[a].kind \in Containers /\ unit[a].complete
      BY <2>2, <2>3, <3>1, ParentOfMember
    <3>3. b \in 1..(d - 1) /\ unit[b].kind \in Containers /\ unit[b].complete
      BY <2>2, <2>3, <3>1, ParentOfMember
    <3>4. a \in 1..k /\ b \in 1..k /\ Defines(a) /\ Defines(b)
      BY <2>1, <3>2, <3>3 DEF Definable
    <3>5. a = b BY <1>2, <2>4, <3>4
    <3> QED BY <2>2, <2>3, <3>5, Beside
  <2>6. CASE a = 0 BY <2>2, <2>3, <2>4, <2>6, Beside
  <2> QED BY <2>5, <2>6
<1>3. \A k \in 0..Len(unit) : k \in G
  <2> HIDE DEF G
  <2> QED BY <1>0, <1>1, <1>2, NumberInduction
<1>4. Len(unit) \in G BY <1>0, <1>3
<1> QED BY <1>4

\* And its declarations are of one kind.
LEMMA OneKind ==
    ASSUME IsUnit, NEW c \in 1..Len(unit), NEW d \in 1..Len(unit),
           {unit[c].kind, unit[d].kind} \subseteq Definable, Path(c) = Path(d)
    PROVE  unit[c].kind = unit[d].kind
<1>1. PICK a, b : a = Up(c) /\ b = Up(d) OBVIOUS
<1>2. Path(a) = Path(b) /\ (a = 0 <=> b = 0) BY <1>1, AroundOne
<1>3. a = b
  <2> SUFFICES ASSUME a # 0 PROVE a = b BY <1>2
  <2>1. unit[c].depth # 0 /\ unit[d].depth # 0 BY <1>1, <1>2, AtTop
  <2>2. a \in 1..Len(unit) /\ unit[a].kind \in Containers /\ unit[a].complete
    BY <1>1, <2>1, ParentOfMember
  <2>3. b \in 1..Len(unit) /\ unit[b].kind \in Containers /\ unit[b].complete
    BY <1>1, <2>1, ParentOfMember
  <2> QED BY <1>2, <2>2, <2>3, OneDefinition DEF Definable
<1> QED BY <1>1, <1>3, Beside

-----------------------------------------------------------------------------
(* Aliases and what they name *)

IsBehind(b) ==
    b = [i \in 0..Len(unit) |->
            IF i # Builtin /\ unit[i].kind = "alias" THEN b[unit[i].target] ELSE i]
TypeKinds == Containers \cup {"enum", "alias"}

\* What an alias or registration names is declared before it.
LEMMA TargetOf ==
    ASSUME IsUnit, NEW d \in 1..Len(unit), unit[d].kind \in {"alias", "registration"}
    PROVE  /\ unit[d].kind = "alias" => unit[d].target \in 0..(d - 1)
           /\ unit[d].target # NoTarget => unit[d].target \in 0..(d - 1)
           /\ unit[d].target \in 0..(d - 1) /\ unit[d].target # 0 =>
                 unit[d].target \in 1..(d - 1) /\ unit[unit[d].target].kind \in TypeKinds
BY UnitTyped DEF IsLegal, Builtin, NoTarget, TypeKinds, Definable

LEMMA BehindExists ==
    ASSUME IsUnit
    PROVE  \E b \in [0..Len(unit) -> 0..Len(unit)] : IsBehind(b)
<1> DEFINE N == 0..Len(unit)
<1> DEFINE After(f, i) == IF i # Builtin /\ unit[i].kind = "alias" THEN f[unit[i].target] ELSE i
<1> DEFINE step == [i \in N |-> [f \in [N -> N] |-> After(f, i)]]
<1>1. Len(unit) \in Nat BY UnitTyped
<1>2. \A i \in N : i # Builtin /\ unit[i].kind = "alias" =>
                        unit[i].target \in N /\ unit[i].target \in 0..(i - 1)
  BY <1>1, TargetOf DEF Builtin
<1>3. ASSUME NEW i \in N, NEW f \in [N -> N] PROVE After(f, i) \in N
  <2>1. CASE i # Builtin /\ unit[i].kind = "alias"
    <3>1. f[unit[i].target] \in N BY <1>2, <2>1
    <3> QED BY <2>1, <3>1
  <2> QED BY <2>1
<1>4. step \in [N -> [[N -> N] -> N]] BY <1>3
<1>5. ASSUME NEW i \in N, NEW f \in [N -> N], NEW g \in [N -> N],
             \A j \in 0..(i - 1) : f[j] = g[j]
      PROVE  step[i][f] = step[i][g]
  <2>1. step[i][f] = After(f, i) /\ step[i][g] = After(g, i) OBVIOUS
  <2> QED BY <1>2, <1>5, <2>1
<1>6. \A i \in N : \A f \in [N -> N] : step[i][f] = After(f, i) OBVIOUS
<1>7. PICK f \in [N -> N] : \A i \in N : f[i] = step[i][f]
  <2>1. \A i \in N : \A f, g \in [N -> N] :
            (\A j \in 0..(i - 1) : f[j] = g[j]) => step[i][f] = step[i][g]
    <3> HIDE DEF step
    <3> QED BY <1>5
  <2> HIDE DEF step
  <2>2. PICK n \in Nat : n = Len(unit) BY <1>1
  <2>3. PICK T : T = N OBVIOUS
  <2>4. IsRule(step, n, T)
    <3>1. IsRule(step, Len(unit), N) BY <1>4, <2>1 DEF IsRule
    <3> QED BY <2>2, <2>3, <3>1
  <2>5. T # {} BY <1>1, <2>3
  <2>6. \E f \in [0..n -> T] : \A i \in 0..n : f[i] = step[i][f] BY <2>4, <2>5, Recursion
  <2> QED BY <2>2, <2>3, <2>6
<1>8. f = [i \in N |-> After(f, i)]
  <2>1. f = [i \in N |-> f[i]] OBVIOUS
  <2> HIDE DEF step, After
  <2> QED BY <1>6, <1>7, <2>1
<1> QED BY <1>8 DEF IsBehind

LEMMA CanonicalOf ==
    ASSUME IsUnit
    PROVE  /\ Canonical(0) = 0
           /\ \A i \in 1..Len(unit) :
                 Canonical(i) = IF unit[i].kind = "alias" THEN Canonical(unit[i].target) ELSE i
<1> DEFINE b == CHOOSE q : IsBehind(q)
<1>1. IsBehind(b) BY BehindExists
<1>2. \A d : Canonical(d) = b[d] BY DEF Canonical, IsBehind
<1> HIDE DEF b
<1>3. Len(unit) \in Nat BY UnitTyped
<1>4. \A i \in 0..Len(unit) :
          b[i] = IF i # Builtin /\ unit[i].kind = "alias" THEN b[unit[i].target] ELSE i
  <2> DEFINE F(i) == IF i # Builtin /\ unit[i].kind = "alias" THEN b[unit[i].target] ELSE i
  <2>1. b = [i \in 0..Len(unit) |-> F(i)] BY <1>1 DEF IsBehind
  <2> HIDE DEF F
  <2>2. \A i \in 0..Len(unit) : b[i] = F(i) BY <2>1
  <2> QED BY <2>2 DEF F
<1>5. 0 \in 0..Len(unit) /\ \A i \in 1..Len(unit) : i \in 0..Len(unit) /\ i # 0 BY <1>3
<1> QED BY <1>2, <1>4, <1>5 DEF Builtin

\* A chain of aliases ends at a builtin type, a class, a template or an enum.
LEMMA CanonicalIs ==
    ASSUME IsUnit
    PROVE  \A t \in 0..Len(unit) : t = 0 \/ unit[t].kind \in TypeKinds =>
              Canonical(t) = 0 \/ (/\ Canonical(t) \in 1..Len(unit)
                                   /\ unit[Canonical(t)].kind \in Containers \cup {"enum"})
<1> DEFINE Names(t) == t = 0 \/ unit[t].kind \in TypeKinds
<1> DEFINE Ends(t) == Canonical(t) = 0 \/ (/\ Canonical(t) \in 1..Len(unit)
                                           /\ unit[Canonical(t)].kind \in Containers \cup {"enum"})
<1> DEFINE G == {k \in 0..Len(unit) : \A t \in 0..k : Names(t) => Ends(t)}
<1>1. Len(unit) \in Nat BY UnitTyped
<1>2. 0 \in G
  <2>1. Ends(0) BY CanonicalOf
  <2>2. \A t \in 0..0 : t = 0 OBVIOUS
  <2> HIDE DEF Ends, Names
  <2> QED BY <1>1, <2>1, <2>2
<1>3. ASSUME NEW k \in 0..(Len(unit) - 1), k \in G PROVE k + 1 \in G
  <2>1. k + 1 \in 1..Len(unit) /\ k + 1 \in 0..Len(unit) /\ k + 1 # 0 BY <1>1
  <2>2. ASSUME Names(k + 1) PROVE Ends(k + 1)
    <3>1. CASE unit[k + 1].kind = "alias"
      <4>1. PICK t : t = unit[k + 1].target OBVIOUS
      <4>2. t \in 0..((k + 1) - 1) /\ (t # 0 => unit[t].kind \in TypeKinds)
        BY <2>1, <3>1, <4>1, TargetOf
      <4>3. Canonical(k + 1) = Canonical(t) BY <2>1, <3>1, <4>1, CanonicalOf
      <4>4. t \in 0..k BY <4>2
      <4>5. Ends(t)
        <5>1. Names(t) BY <4>2
        <5> HIDE DEF Names, Ends
        <5> QED BY <1>3, <4>4, <5>1
      <4> QED BY <4>3, <4>5
    <3>2. CASE unit[k + 1].kind # "alias"
      <4>1. Canonical(k + 1) = k + 1 BY <2>1, <3>2, CanonicalOf
      <4> QED BY <2>1, <2>2, <3>2, <4>1 DEF TypeKinds
    <3> QED BY <3>1, <3>2
  <2>3. \A t \in 0..(k + 1) : t \in 0..k \/ t = k + 1 OBVIOUS
  <2> HIDE DEF Names, Ends
  <2> QED BY <1>3, <2>1, <2>2, <2>3
<1>4. \A k \in 0..Len(unit) : k \in G
  <2> HIDE DEF G
  <2> QED BY <1>1, <1>2, <1>3, NumberInduction
<1> QED BY <1>1, <1>4

\* The definition is of the kind and the name of what it defines.
LEMMA DefinitionOf ==
    ASSUME IsUnit, NEW t \in 1..Len(unit)
    PROVE  /\ Definition(t) \in 1..Len(unit) /\ unit[Definition(t)].kind = unit[t].kind
           /\ Path(Definition(t)) = Path(t)
<1>1. Len(unit) \in Nat /\ DOMAIN unit = 1..Len(unit) BY UnitTyped
<1>2. Definitions(t) \in SUBSET (1..Len(unit)) BY <1>1 DEF Definitions
<1>3. CASE Definitions(t) = {} BY <1>3 DEF Definition
<1>4. CASE Definitions(t) # {}
  <2>1. Smallest(Definitions(t)) \in Definitions(t) BY <1>1, <1>2, <1>4, SmallestOf
  <2>2. Definition(t) = Smallest(Definitions(t)) BY <1>4 DEF Definition, Builtin
  <2>3. Definition(t) \in Definitions(t) BY <2>1, <2>2
  <2> QED BY <1>2, <2>3 DEF Definitions
<1> QED BY <1>3, <1>4

\* What an alias or registration with a target is read as.
LEMMA TargetKindOf ==
    ASSUME IsUnit, at \in 1..Len(unit), unit[at].kind \in {"alias", "registration"},
           unit[at].target # NoTarget
    PROVE  \/ TargetKind = "builtin" /\ Target = 0
           \/ /\ Target \in 1..Len(unit) /\ unit[Target].kind = TargetKind
              /\ TargetKind \in Containers \cup {"enum"}
              /\ Canonical(unit[at].target) \in 1..Len(unit)
              /\ unit[Canonical(unit[at].target)].kind = TargetKind
<1>1. PICK t : t = unit[at].target OBVIOUS
<1>2. t \in 0..(at - 1) /\ (t # 0 => unit[t].kind \in TypeKinds) BY <1>1, TargetOf
<1>3. PICK c : c = Canonical(t) OBVIOUS
<1>4. Len(unit) \in Nat BY UnitTyped
<1>5. t \in 0..Len(unit) BY <1>2, <1>4
<1>6. c = 0 \/ (c \in 1..Len(unit) /\ unit[c].kind \in Containers \cup {"enum"})
  BY <1>2, <1>3, <1>5, CanonicalIs
<1>7. Target = Definition(c) BY <1>1, <1>3 DEF Target
<1>8. CASE c = 0
  <2>1. Target = Builtin BY <1>7, <1>8 DEF Definition, Builtin
  <2> QED BY <2>1 DEF TargetKind, Builtin
<1>9. CASE c # 0
  <2>1. Target \in 1..Len(unit) /\ unit[Target].kind = unit[c].kind
    BY <1>6, <1>7, <1>9, DefinitionOf
  <2>2. Target # Builtin BY <2>1, <1>4 DEF Builtin
  <2>3. TargetKind = unit[Target].kind BY <2>2 DEF TargetKind
  <2> QED BY <1>1, <1>3, <1>6, <1>9, <2>1, <2>3
<1> QED BY <1>8, <1>9

-----------------------------------------------------------------------------
(* The members of a class *)

\* What a member can be read as.
Readings ==
    {AsWritten(m) : m \in 1..Len(unit)} \cup
    UNION {{Specialized(m, Instantiated(d)) : m \in 1..Len(unit)} : d \in 1..Len(unit)}

LEMMA DeclOfReading ==
    ASSUME NEW m, NEW given
    PROVE  AsWritten(m).decl = m /\ Specialized(m, given).decl = m
BY DEF AsWritten, Specialized, Member

\* Nothing but members of the class, as they are written, none of them twice.
AreMembers(members, class) ==
    /\ members \in Seq(Readings)
    /\ \A i \in 1..Len(members) : /\ members[i].decl \in MembersOf(class)
                                  /\ members[i] = AsWritten(members[i].decl)
    /\ \A i, j \in 1..Len(members) : members[i].decl = members[j].decl => i = j

IsIn(m, class) == m \in Below(class) /\ IsMember(m) /\ Up(m) = class

\* Each of them is declared before any other of its name.
AreFirsts(members, class) ==
    \A i \in 1..Len(members) : \A n :
        IsIn(n, class) /\ unit[n].complete /\ SameName(n, members[i].decl) => members[i].decl <= n

\* One more visit of a member of the class.
LEMMA OneMoreMember ==
    ASSUME IsUnit, NEW class \in 1..Len(unit), NEW m, IsIn(m, class),
           NEW members, AreMembers(members, class)
    PROVE  /\ AreMembers(WithMember(class, members, m), class)
           /\ IsOurs(class, m) /\ unit[m].complete => Named(WithMember(class, members, m), m)
           /\ \A k : Named(members, k) => Named(WithMember(class, members, m), k)
<1>0. m \in 1..Len(unit) BY EndOf DEF IsIn
<1>1. members \in Seq(Readings) /\ DOMAIN members = 1..Len(members) /\ Len(members) \in Nat
  BY DEF AreMembers
<1>2. CASE IsOurs(class, m) /\ ~Named(members, m) /\ unit[m].complete
  <2>1. PICK a : a = AsWritten(m) OBVIOUS
  <2>2. a \in Readings /\ a.decl = m BY <1>0, <2>1, DeclOfReading DEF Readings
  <2>3. PICK more : more = Append(members, a) OBVIOUS
  <2>4. WithMember(class, members, m) = more BY <1>2, <2>1, <2>3 DEF WithMember
  <2>5. /\ more \in Seq(Readings) /\ Len(more) = Len(members) + 1
        /\ DOMAIN more = 1..(Len(members) + 1)
        /\ \A i \in 1..Len(members) : more[i] = members[i] /\ i \in 1..Len(more)
        /\ more[Len(members) + 1] = a /\ Len(members) + 1 \in 1..Len(more)
    BY <1>1, <2>2, <2>3
  <2>6. m \in MembersOf(class) BY <1>2 DEF IsIn, MembersOf
  <2>7. \A i \in 1..Len(more) : i \in 1..Len(members) \/ i = Len(members) + 1 BY <1>1, <2>5
  <2>8. \A i \in 1..Len(more) : more[i].decl \in MembersOf(class) /\ more[i] = AsWritten(more[i].decl)
    BY <2>1, <2>2, <2>5, <2>6, <2>7 DEF AreMembers
  <2>9. \A i \in 1..Len(members) : members[i].decl # m BY <1>1, <1>2 DEF Named
  <2>10. \A i, j \in 1..Len(more) : more[i].decl = more[j].decl => i = j
    BY <2>2, <2>5, <2>7, <2>9 DEF AreMembers
  <2>11. AreMembers(more, class) BY <2>5, <2>8, <2>10 DEF AreMembers
  <2>12. Named(more, m) BY <2>2, <2>5 DEF Named
  <2>13. ASSUME NEW k, Named(members, k) PROVE Named(more, k)
    BY <1>1, <2>5, <2>13 DEF Named
  <2> QED BY <2>4, <2>11, <2>12, <2>13
<1>3. CASE ~(IsOurs(class, m) /\ ~Named(members, m) /\ unit[m].complete)
  <2>1. WithMember(class, members, m) = members BY <1>3 DEF WithMember
  <2> QED BY <1>3, <2>1
<1> QED BY <1>2, <1>3

\* Its members are all a record visits, and what InOrder lists.
LEMMA ListedInOrder ==
    ASSUME IsUnit, NEW decls \in SUBSET (1..Len(unit))
    PROVE  /\ InOrder(decls) \in Seq(decls)
           /\ \A d \in decls : \E k \in 1..Len(InOrder(decls)) : InOrder(decls)[k] = d
           /\ Ascends(InOrder(decls))
<1> DEFINE all == [d \in DOMAIN unit |-> d]
<1>1. Len(unit) \in Nat /\ DOMAIN unit = 1..Len(unit) BY UnitTyped
<1>2. all \in Seq(1..Len(unit)) /\ Len(all) = Len(unit) /\ \A d \in 1..Len(unit) : all[d] = d BY <1>1
<1>3. InOrder(decls) = Kept(all, decls) BY DEF InOrder
<1> HIDE DEF all
<1>4. Kept(all, decls) \in Seq(1..Len(unit) \cap decls) BY <1>2, KeptTyped
<1>5. 1..Len(unit) \cap decls = decls OBVIOUS
<1>6. \A d \in decls : \E k \in 1..Len(Kept(all, decls)) : Kept(all, decls)[k] = d
  <2>1. \A i \in 1..Len(all) : all[i] \in decls =>
            \E j \in 1..Len(Kept(all, decls)) : Kept(all, decls)[j] = all[i]
    BY <1>2, KeptHasAll
  <2> QED BY <1>2, <2>1
<1>7. Ascends(Kept(all, decls))
  <2>1. Ascends(all) BY <1>2 DEF Ascends
  <2>2. PICK T : T = 1..Len(unit) OBVIOUS
  <2>3. T \subseteq Int /\ all \in Seq(T) BY <1>1, <1>2, <2>2
  <2> QED BY <2>1, <2>3, KeptAscends
<1> QED BY <1>3, <1>4, <1>5, <1>6, <1>7

VisitedBy(class) == ByKind(class, "field") \o ByKind(class, "method")

\* Of two of one kind the one that is declared first comes first.
ByKindInOrder(v) ==
    \A i, j \in 1..Len(v) : unit[v[i]].kind = unit[v[j]].kind /\ v[i] < v[j] => i < j

LEMMA VisitedByRecord ==
    ASSUME IsUnit, NEW class \in 1..Len(unit)
    PROVE  /\ VisitedBy(class) \in Seq({m \in 1..Len(unit) : IsIn(m, class)})
           /\ \A m : IsIn(m, class) => \E k \in 1..Len(VisitedBy(class)) : VisitedBy(class)[k] = m
           /\ ByKindInOrder(VisitedBy(class))
<1> DEFINE S(kind) == {m \in Below(class) : unit[m].kind = kind /\ Up(m) = class}
<1> DEFINE T == {m \in 1..Len(unit) : IsIn(m, class)}
<1>1. \A m \in Below(class) : m \in 1..Len(unit) BY EndOf
<1>2. \A kind : S(kind) \in SUBSET (1..Len(unit)) BY <1>1
<1>3. PICK f : f = ByKind(class, "field") OBVIOUS
<1>4. PICK g : g = ByKind(class, "method") OBVIOUS
<1>5. PICK F : F = S("field") OBVIOUS
<1>6. PICK M : M = S("method") OBVIOUS
<1>7. f = InOrder(F) /\ g = InOrder(M) BY <1>3, <1>4, <1>5, <1>6 DEF ByKind
<1>8. F \in SUBSET (1..Len(unit)) /\ M \in SUBSET (1..Len(unit)) BY <1>2, <1>5, <1>6
<1>9. f \in Seq(F) /\ (\A d \in F : \E k \in 1..Len(f) : f[k] = d) /\ Ascends(f)
  BY <1>7, <1>8, ListedInOrder
<1>10. g \in Seq(M) /\ (\A d \in M : \E k \in 1..Len(g) : g[k] = d) /\ Ascends(g)
  BY <1>7, <1>8, ListedInOrder
<1>20. (\A m \in F : unit[m].kind = "field") /\ (\A m \in M : unit[m].kind = "method")
  BY <1>5, <1>6
<1>11. F \subseteq T /\ M \subseteq T BY <1>1, <1>5, <1>6 DEF IsIn, IsMember
<1>12. \A m : IsIn(m, class) => m \in F \/ m \in M BY <1>5, <1>6 DEF IsIn, IsMember
<1> HIDE DEF S, T
<1>13. f \in Seq(T) /\ g \in Seq(T) BY <1>9, <1>10, <1>11
<1>14. PICK c : c = f \o g OBVIOUS
<1>15. IsConcat(c, f, g, T) BY <1>13, <1>14, ElementsOfConcat
<1>16. VisitedBy(class) = c BY <1>3, <1>4, <1>14 DEF VisitedBy
<1>17. ASSUME NEW m, IsIn(m, class) PROVE \E k \in 1..Len(c) : c[k] = m
  <2>1. CASE m \in F
    <3>1. PICK k \in 1..Len(f) : f[k] = m BY <1>9, <2>1
    <3>2. k \in 1..Len(c) /\ c[k] = m BY <1>15, <3>1 DEF IsConcat
    <3> QED BY <3>2
  <2>2. CASE m \in M
    <3>1. PICK k \in 1..Len(g) : g[k] = m BY <1>10, <2>2
    <3>2. Len(f) + k \in 1..Len(c) /\ c[Len(f) + k] = m BY <1>15, <3>1 DEF IsConcat
    <3> QED BY <3>2
  <2> QED BY <1>12, <1>17, <2>1, <2>2
<1>18. c \in Seq(T) BY <1>15 DEF IsConcat
<1>19. ByKindInOrder(c)
  <2>1. PICK a, b : a = Len(f) /\ b = Len(g) OBVIOUS
  <2>2. /\ a \in Nat /\ b \in Nat /\ Len(c) = a + b
        /\ \A i \in 1..a : c[i] = f[i] /\ f[i] \in F /\ f[i] \in Int
        /\ \A i \in 1..b : c[a + i] = g[i] /\ g[i] \in M /\ g[i] \in Int
    <3>1. \A m \in 1..Len(unit) : m \in Int BY UnitTyped
    <3>2. /\ a \in Nat /\ \A i \in 1..a : f[i] \in F
          /\ b \in Nat /\ \A i \in 1..b : g[i] \in M
      BY <1>9, <1>10, <2>1
    <3>3. Len(c) = a + b /\ (\A i \in 1..a : c[i] = f[i]) /\ (\A i \in 1..b : c[a + i] = g[i])
      BY <1>15, <2>1 DEF IsConcat
    <3> QED BY <1>8, <3>1, <3>2, <3>3
  <2> SUFFICES ASSUME NEW i \in 1..(a + b), NEW j \in 1..(a + b),
                      unit[c[i]].kind = unit[c[j]].kind, c[i] < c[j]
               PROVE  i < j
    BY <2>2 DEF ByKindInOrder
  <2>3. CASE i \in 1..a /\ j \in 1..a
    <3>1. f[i] < f[j] /\ f[i] \in Int /\ f[j] \in Int BY <2>2, <2>3
    <3>2. j < i => f[j] < f[i] BY <1>9, <2>1, <2>3 DEF Ascends
    <3> QED BY <2>2, <3>1, <3>2
  <2>4. CASE i \notin 1..a /\ j \notin 1..a
    <3>1. PICK k, l : k = i - a /\ l = j - a OBVIOUS
    <3>2. k \in 1..b /\ l \in 1..b /\ i = a + k /\ j = a + l BY <2>2, <2>4, <3>1
    <3>3. g[k] < g[l] /\ g[k] \in Int /\ g[l] \in Int BY <2>2, <3>2
    <3>4. l < k => g[l] < g[k] BY <1>10, <2>1, <3>2 DEF Ascends
    <3> QED BY <2>2, <3>2, <3>3, <3>4
  <2>5. CASE i \in 1..a /\ j \notin 1..a BY <2>2, <2>5
  <2>6. CASE i \notin 1..a /\ j \in 1..a
    <3>1. PICK k : k = i - a OBVIOUS
    <3>2. k \in 1..b /\ i = a + k BY <2>2, <2>6, <3>1
    <3>3. unit[c[i]].kind = "method" BY <1>20, <2>2, <3>2
    <3>4. unit[c[j]].kind = "field" BY <1>20, <2>2, <2>6
    <3> QED BY <3>3, <3>4
  <2> QED BY <2>3, <2>4, <2>5, <2>6
<1> QED BY <1>16, <1>17, <1>18, <1>19 DEF T

IsOwn(f, class) ==
    f = [n \in 0..Len(VisitedBy(class)) |->
            IF n = 0 THEN <<>> ELSE WithMember(class, f[n - 1], VisitedBy(class)[n])]

LEMMA OwnExists ==
    ASSUME IsUnit, NEW class \in 1..Len(unit)
    PROVE  \E f \in [0..Len(VisitedBy(class)) -> Seq(Readings)] : IsOwn(f, class)
<1>1. PICK v : v = VisitedBy(class) OBVIOUS
<1>2. v \in Seq({m \in 1..Len(unit) : IsIn(m, class)}) BY <1>1, VisitedByRecord
<1>3. Len(v) \in Nat /\ \A n \in 1..Len(v) : v[n] \in 1..Len(unit) BY <1>2
<1> DEFINE N == 0..Len(v)
<1> DEFINE T == Seq(Readings)
<1> DEFINE After(f, n) == IF n = 0 THEN <<>> ELSE WithMember(class, f[n - 1], v[n])
<1> DEFINE step == [n \in N |-> [f \in [N -> T] |-> After(f, n)]]
<1>4. ASSUME NEW n \in N, NEW f \in [N -> T] PROVE After(f, n) \in T
  <2>1. CASE n = 0 BY <2>1
  <2>2. CASE n # 0
    <3>1. n \in 1..Len(v) /\ n - 1 \in N BY <1>3, <2>2
    <3>2. AsWritten(v[n]) \in Readings BY <1>3, <3>1 DEF Readings
    <3>3. f[n - 1] \in Seq(Readings) BY <3>1
    <3>4. WithMember(class, f[n - 1], v[n]) \in Seq(Readings) BY <3>2, <3>3 DEF WithMember
    <3> QED BY <2>2, <3>4
  <2> QED BY <2>1, <2>2
<1>5. step \in [N -> [[N -> T] -> T]] BY <1>4
<1>6. ASSUME NEW n \in N, NEW f \in [N -> T], NEW g \in [N -> T],
             \A j \in 0..(n - 1) : f[j] = g[j]
      PROVE  step[n][f] = step[n][g]
  <2>1. step[n][f] = After(f, n) /\ step[n][g] = After(g, n) OBVIOUS
  <2>2. n # 0 => f[n - 1] = g[n - 1] BY <1>3, <1>6
  <2> QED BY <2>1, <2>2
<1>7. \A n \in N : \A f \in [N -> T] : step[n][f] = After(f, n) OBVIOUS
<1>8. PICK f \in [N -> T] : \A n \in N : f[n] = step[n][f]
  <2>1. \A n \in N : \A f, g \in [N -> T] :
            (\A j \in 0..(n - 1) : f[j] = g[j]) => step[n][f] = step[n][g]
    <3> HIDE DEF step
    <3> QED BY <1>6
  <2> HIDE DEF step
  <2>2. PICK n \in Nat : n = Len(v) BY <1>3
  <2>3. PICK U : U = T OBVIOUS
  <2>4. IsRule(step, n, U)
    <3>1. IsRule(step, Len(v), T) BY <1>5, <2>1 DEF IsRule
    <3> QED BY <2>2, <2>3, <3>1
  <2>5. U # {}
    <3>1. <<>> \in T OBVIOUS
    <3> QED BY <2>3, <3>1
  <2>6. \E f \in [0..n -> U] : \A i \in 0..n : f[i] = step[i][f] BY <2>4, <2>5, Recursion
  <2> QED BY <2>2, <2>3, <2>6
<1>9. f = [n \in N |-> After(f, n)]
  <2>1. f = [n \in N |-> f[n]] OBVIOUS
  <2> HIDE DEF step, After
  <2> QED BY <1>7, <1>8, <2>1
<1> QED BY <1>1, <1>9 DEF IsOwn

\* What a record has when its walk begins: members of its own, of all names that
\* count as its own the first.
LEMMA OwnMembersOf ==
    ASSUME IsUnit, NEW class \in 1..Len(unit)
    PROVE  /\ AreMembers(OwnMembers(class), class) /\ AreFirsts(OwnMembers(class), class)
           /\ \A m : IsIn(m, class) /\ IsOurs(class, m) /\ unit[m].complete =>
                        Named(OwnMembers(class), m)
<1>1. PICK v : v = VisitedBy(class) OBVIOUS
<1>2. v \in Seq({m \in 1..Len(unit) : IsIn(m, class)})
      /\ \A m : IsIn(m, class) => \E k \in 1..Len(v) : v[k] = m
      /\ ByKindInOrder(v)
  BY <1>1, VisitedByRecord
<1>3. Len(v) \in Nat /\ \A n \in 1..Len(v) : IsIn(v[n], class) /\ v[n] \in Int
  <2>1. Len(v) \in Nat /\ \A n \in 1..Len(v) : IsIn(v[n], class) /\ v[n] \in 1..Len(unit)
    BY <1>2
  <2> QED BY <2>1, UnitTyped
<1> DEFINE own == CHOOSE f : IsOwn(f, class)
<1>4. IsOwn(own, class) BY OwnExists
<1>5. OwnMembers(class) = own[Len(v)] BY <1>1 DEF OwnMembers, IsOwn, VisitedBy
<1> HIDE DEF own
<1>6. \A n \in 0..Len(v) : own[n] = IF n = 0 THEN <<>> ELSE WithMember(class, own[n - 1], v[n])
  <2> DEFINE F(n) == IF n = 0 THEN <<>> ELSE WithMember(class, own[n - 1], v[n])
  <2>1. own = [n \in 0..Len(v) |-> F(n)] BY <1>1, <1>4 DEF IsOwn
  <2> HIDE DEF F
  <2>2. \A n \in 0..Len(v) : own[n] = F(n) BY <2>1
  <2> QED BY <2>2 DEF F
<1> DEFINE HasOwn(n) == /\ AreMembers(own[n], class) /\ AreFirsts(own[n], class)
                        /\ \A i \in 1..n : IsOurs(class, v[i]) /\ unit[v[i]].complete =>
                                               Named(own[n], v[i])
<1> DEFINE G == {n \in 0..Len(v) : HasOwn(n)}
<1>7. 0 \in G
  <2>1. 0 \in 0..Len(v) BY <1>3
  <2>2. own[0] = <<>> BY <1>6, <2>1
  <2>3. AreMembers(<<>>, class) /\ AreFirsts(<<>>, class) BY DEF AreMembers, AreFirsts
  <2> QED BY <2>1, <2>2, <2>3
<1>8. ASSUME NEW k \in 0..(Len(v) - 1), k \in G PROVE k + 1 \in G
  <2>1. k + 1 \in 1..Len(v) /\ k + 1 \in 0..Len(v) /\ k + 1 # 0 /\ (k + 1) - 1 = k BY <1>3
  <2>2. PICK before : before = own[k] OBVIOUS
  <2>3. PICK m : m = v[k + 1] OBVIOUS
  <2>4. own[k + 1] = WithMember(class, before, m) BY <1>6, <2>1, <2>2, <2>3
  <2>5. AreMembers(before, class) /\ IsIn(m, class) BY <1>3, <1>8, <2>1, <2>2, <2>3
  <2>6. /\ AreMembers(own[k + 1], class)
        /\ IsOurs(class, m) /\ unit[m].complete => Named(own[k + 1], m)
        /\ \A o : Named(before, o) => Named(own[k + 1], o)
    BY <2>4, <2>5, OneMoreMember
  <2>7. ASSUME NEW i \in 1..(k + 1), IsOurs(class, v[i]), unit[v[i]].complete
        PROVE  Named(own[k + 1], v[i])
    <3>1. CASE i = k + 1 BY <2>3, <2>6, <2>7, <3>1
    <3>2. CASE i # k + 1
      <4>1. i \in 1..k BY <3>2
      <4>2. Named(before, v[i]) BY <1>8, <2>2, <2>7, <4>1
      <4> QED BY <2>6, <4>2
    <3> QED BY <3>1, <3>2
  <2>9. AreFirsts(own[k + 1], class)
    <3>1. CASE ~(IsOurs(class, m) /\ ~Named(before, m) /\ unit[m].complete)
      BY <1>8, <2>2, <2>4, <3>1 DEF WithMember
    <3>2. CASE IsOurs(class, m) /\ ~Named(before, m) /\ unit[m].complete
      <4>1. PICK a : a = AsWritten(m) OBVIOUS
      <4>2. PICK more : more = Append(before, a) OBVIOUS
      <4>3. own[k + 1] = more BY <2>4, <3>2, <4>1, <4>2 DEF WithMember
      <4>4. before \in Seq(Readings) /\ a.decl = m
        BY <2>5, <4>1, DeclOfReading DEF AreMembers
      <4>5. /\ Len(more) = Len(before) + 1 /\ Len(before) \in Nat /\ more[Len(before) + 1] = a
            /\ \A i \in 1..Len(before) : more[i] = before[i]
        BY <4>2, <4>4
      <4>6. ASSUME NEW n, IsIn(n, class), unit[n].complete, SameName(n, m) PROVE m <= n
        <5>1. PICK i \in 1..Len(v) : v[i] = n BY <1>2, <4>6
        <5>2. n \in Int /\ m \in Int BY <1>3, <2>1, <2>3, <5>1
        <5> SUFFICES ASSUME n < m PROVE FALSE BY <5>2
        <5>3. i < k + 1 BY <1>2, <2>1, <2>3, <4>6, <5>1 DEF ByKindInOrder, SameName
        <5>4. i \in 1..k BY <5>3
        <5>5. IsOurs(class, n) BY <2>5, <3>2, <4>6 DEF IsOurs, IsIn
        <5>6. Named(before, n) BY <1>8, <2>2, <4>6, <5>1, <5>4, <5>5
        <5>7. Named(before, m) BY <4>6, <5>6 DEF Named, SameName
        <5> QED BY <3>2, <5>7
      <4>7. \A i \in 1..(Len(before) + 1) : i \in 1..Len(before) \/ i = Len(before) + 1
        BY <4>5
      <4>8. AreFirsts(before, class) BY <1>8, <2>2
      <4> QED BY <4>3, <4>4, <4>5, <4>6, <4>7, <4>8 DEF AreFirsts
    <3> QED BY <3>1, <3>2
  <2>8. HasOwn(k + 1) BY <2>6, <2>7, <2>9
  <2> QED BY <2>1, <2>8
<1>9. Len(v) \in G
  <2>1. Len(v) \in 0..Len(v) BY <1>3
  <2> HIDE DEF G
  <2> QED BY <1>3, <1>7, <1>8, <2>1, NumberInduction
<1>10. ASSUME NEW m, IsIn(m, class), IsOurs(class, m), unit[m].complete
       PROVE  Named(OwnMembers(class), m)
  <2>1. PICK k \in 1..Len(v) : v[k] = m BY <1>2, <1>10
  <2> QED BY <1>5, <1>9, <1>10, <2>1
<1> QED BY <1>5, <1>9, <1>10

\* To a class that is not nested belongs all that is declared in it.
LEMMA OursOf ==
    ASSUME IsUnit, NEW class \in 1..Len(unit), NEW m, Up(m) = class, Len(Path(class)) = 1
    PROVE  IsOurs(class, m)
<1>1. PICK p : p = Path(Up(class)) OBVIOUS
<1>2. /\ Path(class) = Append(p, unit[class].name) /\ p \in Seq(STRING)
      /\ Len(Path(class)) = Len(p) + 1
  BY <1>1, PathOf
<1>3. Len(p) = 0 BY <1>2
<1>4. p = <<>> BY <1>2, <1>3
<1>5. Path(class) = <<unit[class].name>> BY <1>2, <1>4
<1> QED BY <1>5 DEF IsOurs

-----------------------------------------------------------------------------
(* The walk of a visitor *)

Walks ==
    [by : Containers, root : 1..Len(unit), at : Nat, allow : BOOLEAN, filter : SUBSET STRING,
     taken : Nat, members : Seq(Readings)]

\* It goes through the root and what is below it, and has taken nothing that is
\* not wanted.
IsPlaced(v) ==
    /\ v \in Walks
    /\ unit[v.root].kind = v.by
    /\ v.at \in v.root..(End(v.root) + 1)
    /\ v.taken = 0 => v.members = <<>>
    /\ v.taken # 0 =>
          /\ v.taken \in v.root..End(v.root) /\ v.taken < v.at
          /\ unit[v.taken].kind \in Containers
          /\ v.by = "class" => Wanted(v.taken, v.allow)

\* If the root is wanted it is what is taken.
TakesRoot(v) ==
    /\ v.by = "template" => unit[v.root].complete
    /\ v.root < v.at /\ (v.by = "class" => Wanted(v.root, v.allow)) => v.taken = v.root

\* It ends with the next record behind the one that is taken.
NoRecordSince(v) ==
    v.taken # 0 /\ v.at <= End(v.root) =>
        \A i \in (v.taken + 1)..(v.at - 1) : unit[i].kind \notin Containers

\* A class has members of its own, and unless it is nested the first of every name.
HasMembers(members, class) ==
    /\ AreMembers(members, class)
    /\ Len(Path(class)) = 1 =>
          /\ AreFirsts(members, class)
          /\ \A m : IsIn(m, class) /\ unit[m].complete => Named(members, m)
ReadAsClass(v) == v.by = "class" /\ v.taken # 0 => HasMembers(v.members, v.taken)

\* A template has members that are asked for and can be read, and all of those that
\* the walk has seen, if there is no record in it.
IsRead(m, v, given) ==
    m \in Below(v.root) /\ IsMember(m) /\ unit[m].name \in v.filter /\ Readable(m, given)
ReadAsTemplate(v, given) ==
    v.by = "template" /\ v.taken # 0 =>
        /\ \A i \in 1..Len(v.members) :
              \E m \in 1..Len(unit) : IsRead(m, v, given) /\ v.members[i] = Specialized(m, given)
        /\ (\A b \in Below(v.root) : unit[b].kind \notin Containers) =>
              \A m \in 1..Len(unit) : m < v.at /\ IsRead(m, v, given) =>
                  \E i \in 1..Len(v.members) : v.members[i].decl = m

IsWalk(v, given) ==
    /\ IsPlaced(v) /\ TakesRoot(v) /\ NoRecordSince(v)
    /\ ReadAsClass(v) /\ ReadAsTemplate(v, given)

\* A visitor that has taken the same, further on.
LEMMA FurtherOn ==
    ASSUME NEW v, NEW w \in Walks, IsPlaced(v), w.by = v.by, w.root = v.root,
           w.allow = v.allow, w.taken = v.taken, w.taken = 0 => w.members = v.members,
           w.at \in v.root..(End(v.root) + 1), v.at \in Int, w.at \in Int, v.taken \in Int,
           v.at <= w.at
    PROVE  IsPlaced(w)
<1>1. unit[w.root].kind = w.by BY DEF IsPlaced
<1>2. w.at \in w.root..(End(w.root) + 1) OBVIOUS
<1>3. w.taken = 0 => w.members = <<>> BY DEF IsPlaced
<1>4. w.taken # 0 =>
          /\ w.taken \in w.root..End(w.root) /\ w.taken < w.at
          /\ unit[w.taken].kind \in Containers
  <2>1. CASE v.taken # 0
    <3>1. v.taken \in v.root..End(v.root) /\ v.taken < v.at /\ unit[v.taken].kind \in Containers
      BY <2>1 DEF IsPlaced
    <3>2. v.taken < w.at BY <3>1
    <3> QED BY <3>1, <3>2
  <2> QED BY <2>1
<1>5. w.taken # 0 /\ w.by = "class" => Wanted(w.taken, w.allow) BY DEF IsPlaced
<1> QED BY <1>1, <1>2, <1>3, <1>4, <1>5 DEF IsPlaced

\* What goes on without a change but of the place.
LEMMA GoesOn ==
    ASSUME IsUnit, NEW v, NEW given, IsWalk(v, given), v.at <= End(v.root),
           unit[v.at].kind \notin Containers,
           v.by = "template" => ~(v.taken # 0 /\ IsRead(v.at, v, given))
    PROVE  IsWalk(Past(v), given)
<1>1. v \in Walks /\ v.root \in 1..Len(unit) /\ Len(unit) \in Nat
  BY UnitTyped DEF IsWalk, IsPlaced, Walks
<1>2. PICK e : e = End(v.root) OBVIOUS
<1>3. e \in v.root..Len(unit) BY <1>1, <1>2, EndOf
<1>4. v.at \in v.root..e /\ e \in Nat BY <1>1, <1>2, <1>3 DEF IsWalk, IsPlaced
<1>5. PICK w : w = Past(v) OBVIOUS
<1>6. /\ w \in Walks /\ w.at = v.at + 1 /\ w.by = v.by /\ w.root = v.root /\ w.allow = v.allow
      /\ w.filter = v.filter /\ w.taken = v.taken /\ w.members = v.members
  BY <1>1, <1>5 DEF Past, Walks
<1>7. IsPlaced(w)
  <2>1. w.at \in v.root..(e + 1) /\ v.at <= w.at /\ v.at \in Int /\ w.at \in Int /\ v.taken \in Int
    BY <1>1, <1>2, <1>3, <1>4, <1>6 DEF Walks
  <2>2. IsPlaced(v) BY DEF IsWalk
  <2> QED BY <1>2, <1>6, <2>1, <2>2, FurtherOn
<1>8. v.at # v.root BY DEF IsWalk, IsPlaced, Containers, Walks
<1>9. TakesRoot(w)
  <2>1. v.root < v.at BY <1>1, <1>4, <1>8
  <2> QED BY <1>6, <2>1 DEF IsWalk, TakesRoot
<1>10. NoRecordSince(w)
  <2>1. \A i \in (v.taken + 1)..v.at : i = v.at \/ i \in (v.taken + 1)..(v.at - 1)
    BY <1>1 DEF Walks
  <2>2. (v.at + 1) - 1 = v.at BY <1>1 DEF Walks
  <2> QED BY <1>2, <1>4, <1>6, <2>1, <2>2 DEF IsWalk, NoRecordSince
<1>11. ReadAsClass(w) BY <1>6 DEF IsWalk, ReadAsClass
<1>12. ReadAsTemplate(w, given)
  <2>1. \A m : IsRead(m, w, given) <=> IsRead(m, v, given) BY <1>6 DEF IsRead
  <2>2. \A m \in 1..Len(unit) : m < v.at + 1 => m < v.at \/ m = v.at BY <1>1 DEF Walks
  <2> QED BY <1>6, <2>1, <2>2 DEF IsWalk, ReadAsTemplate
<1> QED BY <1>5, <1>7, <1>9, <1>10, <1>11, <1>12 DEF IsWalk

\* A record that is not taken.
LEMMA PassesRecord ==
    ASSUME IsUnit, NEW v, NEW given, IsWalk(v, given), v.at <= End(v.root), v.taken = 0,
           v.by = "class" => ~Wanted(v.at, v.allow),
           v.by = "template" => ~unit[v.at].complete
    PROVE  IsWalk(Past(v), given)
<1>1. v \in Walks /\ v.root \in 1..Len(unit) /\ Len(unit) \in Nat
  BY UnitTyped DEF IsWalk, IsPlaced, Walks
<1>2. PICK e : e = End(v.root) OBVIOUS
<1>3. e \in v.root..Len(unit) BY <1>1, <1>2, EndOf
<1>4. v.at \in v.root..e /\ e \in Nat BY <1>1, <1>2, <1>3 DEF IsWalk, IsPlaced
<1>5. PICK w : w = Past(v) OBVIOUS
<1>6. /\ w \in Walks /\ w.at = v.at + 1 /\ w.by = v.by /\ w.root = v.root /\ w.allow = v.allow
      /\ w.filter = v.filter /\ w.taken = 0 /\ w.members = v.members
  BY <1>1, <1>5 DEF Past, Walks
<1>7. IsPlaced(w)
  <2>1. w.at \in v.root..(e + 1) /\ v.at <= w.at /\ v.at \in Int /\ w.at \in Int /\ v.taken \in Int
    BY <1>1, <1>2, <1>3, <1>4, <1>6 DEF Walks
  <2>2. IsPlaced(v) BY DEF IsWalk
  <2> QED BY <1>2, <1>6, <2>1, <2>2, FurtherOn
<1>8. TakesRoot(w)
  <2>1. v.by \in {"class", "template"} BY <1>1 DEF Walks, Containers
  <2>2. ~(v.by = "class" => Wanted(v.root, v.allow))
    <3>1. CASE v.at = v.root BY <2>1, <3>1 DEF IsWalk, TakesRoot
    <3>2. CASE v.at # v.root
      <4>1. v.root < v.at /\ v.root # 0 BY <1>1, <1>4, <3>2
      <4> QED BY <4>1 DEF IsWalk, TakesRoot
    <3> QED BY <3>1, <3>2
  <2> QED BY <1>6, <2>2 DEF IsWalk, TakesRoot
<1>9. NoRecordSince(w) /\ ReadAsClass(w) /\ ReadAsTemplate(w, given)
  BY <1>6 DEF NoRecordSince, ReadAsClass, ReadAsTemplate
<1> QED BY <1>5, <1>7, <1>8, <1>9 DEF IsWalk

\* A record behind the one that is taken.
LEMMA StopsAtRecord ==
    ASSUME IsUnit, NEW v, NEW given, IsWalk(v, given), v.at <= End(v.root), v.taken # 0,
           unit[v.at].kind \in Containers
    PROVE  IsWalk(Stopped(v), given)
<1>1. v \in Walks /\ v.root \in 1..Len(unit) /\ Len(unit) \in Nat
  BY UnitTyped DEF IsWalk, IsPlaced, Walks
<1>2. PICK e : e = End(v.root) OBVIOUS
<1>3. e \in v.root..Len(unit) BY <1>1, <1>2, EndOf
<1>4. v.at \in v.root..e /\ e \in Nat BY <1>1, <1>2, <1>3 DEF IsWalk, IsPlaced
<1>5. PICK w : w = Stopped(v) OBVIOUS
<1>6. /\ w \in Walks /\ w.at = e + 1 /\ w.by = v.by /\ w.root = v.root /\ w.allow = v.allow
      /\ w.filter = v.filter /\ w.taken = v.taken /\ w.members = v.members
  <2>1. PICK n : n = e + 1 OBVIOUS
  <2>2. n \in Nat BY <1>4, <2>1
  <2>3. w = [v EXCEPT !.at = n] BY <1>2, <1>5, <2>1 DEF Stopped
  <2> QED BY <1>1, <2>1, <2>2, <2>3 DEF Walks
<1>7. IsPlaced(w)
  <2>1. w.at \in v.root..(e + 1) /\ v.at <= w.at /\ v.at \in Int /\ w.at \in Int /\ v.taken \in Int
    BY <1>1, <1>2, <1>3, <1>4, <1>6 DEF Walks
  <2>2. IsPlaced(v) BY DEF IsWalk
  <2> QED BY <1>2, <1>6, <2>1, <2>2, FurtherOn
<1>8. v.taken \in v.root..e /\ v.taken < v.at BY <1>2 DEF IsWalk, IsPlaced
<1>9. v.root < v.at BY <1>1, <1>4, <1>8
<1>10. TakesRoot(w) BY <1>6, <1>9 DEF IsWalk, TakesRoot
<1>11. NoRecordSince(w)
  <2>1. ~(w.at <= End(w.root)) BY <1>2, <1>4, <1>6
  <2> QED BY <2>1 DEF NoRecordSince
<1>12. ReadAsClass(w) BY <1>6 DEF IsWalk, ReadAsClass
<1>13. ReadAsTemplate(w, given)
  <2>1. \A m : IsRead(m, w, given) <=> IsRead(m, v, given) BY <1>6 DEF IsRead
  <2>2. v.at \in (v.root + 1)..End(v.root) BY <1>1, <1>2, <1>4, <1>9
  <2>3. v.at \in Below(v.root) BY <2>2 DEF Below
  <2> QED BY <1>6, <2>1, <2>3 DEF IsWalk, ReadAsTemplate
<1> QED BY <1>5, <1>7, <1>10, <1>11, <1>12, <1>13 DEF IsWalk

\* The record a class visitor takes.
LEMMA TakesClass ==
    ASSUME IsUnit, NEW v, NEW given, IsWalk(v, given), v.at <= End(v.root), v.taken = 0,
           v.by = "class", unit[v.at].kind \in Containers, Wanted(v.at, v.allow)
    PROVE  IsWalk([Past(v) EXCEPT !.taken = v.at, !.members = Collected(v.at)], given)
<1>1. v \in Walks /\ v.root \in 1..Len(unit) /\ Len(unit) \in Nat
  BY UnitTyped DEF IsWalk, IsPlaced, Walks
<1>2. PICK e : e = End(v.root) OBVIOUS
<1>3. e \in v.root..Len(unit) BY <1>1, <1>2, EndOf
<1>4. v.at \in v.root..e /\ e \in Nat /\ v.at \in 1..Len(unit)
  BY <1>1, <1>2, <1>3 DEF IsWalk, IsPlaced
<1>5. PICK own : own = Collected(v.at) OBVIOUS
<1>6. HasMembers(own, v.at)
  <2>1. /\ AreMembers(own, v.at) /\ AreFirsts(own, v.at)
        /\ \A m : IsIn(m, v.at) /\ IsOurs(v.at, m) /\ unit[m].complete => Named(own, m)
    BY <1>4, <1>5, OwnMembersOf DEF Collected
  <2>2. ASSUME NEW m, Len(Path(v.at)) = 1, IsIn(m, v.at), unit[m].complete PROVE Named(own, m)
    <3>1. Up(m) = v.at BY <2>2 DEF IsIn
    <3>2. IsOurs(v.at, m) BY <1>4, <2>2, <3>1, OursOf
    <3> QED BY <2>1, <2>2, <3>2
  <2> QED BY <2>1, <2>2 DEF HasMembers
<1>7. own \in Seq(Readings) BY <1>6 DEF HasMembers, AreMembers
<1>8. PICK w : w = [Past(v) EXCEPT !.taken = v.at, !.members = own] OBVIOUS
<1>9. /\ w \in Walks /\ w.at = v.at + 1 /\ w.by = v.by /\ w.root = v.root /\ w.allow = v.allow
      /\ w.filter = v.filter /\ w.taken = v.at /\ w.members = own
  <2>1. PICK p : p = Past(v) OBVIOUS
  <2>2. /\ p \in Walks /\ p.at = v.at + 1 /\ p.by = v.by /\ p.root = v.root /\ p.allow = v.allow
        /\ p.filter = v.filter
    BY <1>1, <2>1 DEF Past, Walks
  <2>3. w = [p EXCEPT !.taken = v.at, !.members = own] BY <1>8, <2>1
  <2>4. v.at \in Nat BY <1>1 DEF Walks
  <2> QED BY <1>7, <2>2, <2>3, <2>4 DEF Walks
<1>10. v.at # 0 BY <1>4
<1>11. IsPlaced(w)
  <2>1. unit[w.root].kind = w.by BY <1>9 DEF IsWalk, IsPlaced
  <2>2. w.at \in w.root..(End(w.root) + 1)
    <3>1. v.at + 1 \in v.root..(e + 1) BY <1>1, <1>4
    <3> QED BY <1>2, <1>9, <3>1
  <2>3. w.taken \in w.root..End(w.root) /\ w.taken < w.at BY <1>2, <1>4, <1>9
  <2>4. unit[w.taken].kind \in Containers /\ Wanted(w.taken, w.allow) BY <1>9
  <2> QED BY <1>9, <1>10, <2>1, <2>2, <2>3, <2>4 DEF IsPlaced
<1>12. TakesRoot(w)
  <2>1. CASE v.at = v.root BY <1>9, <2>1 DEF IsWalk, TakesRoot
  <2>2. CASE v.at # v.root
    <3>1. v.root < v.at /\ v.root # 0 BY <1>1, <1>4, <2>2
    <3>2. ~Wanted(v.root, v.allow) BY <3>1 DEF IsWalk, TakesRoot
    <3> QED BY <1>9, <3>2 DEF TakesRoot
  <2> QED BY <2>1, <2>2
<1>13. NoRecordSince(w)
  <2>1. (v.at + 1)..((v.at + 1) - 1) = {} BY <1>4
  <2> QED BY <1>9, <2>1 DEF NoRecordSince
<1>14. ReadAsClass(w) BY <1>6, <1>9 DEF ReadAsClass
<1>15. ReadAsTemplate(w, given) BY <1>9 DEF ReadAsTemplate
<1> QED BY <1>5, <1>8, <1>11, <1>12, <1>13, <1>14, <1>15 DEF IsWalk

\* What a class visitor has taken, a declaration is below before the next record.
LEMMA NearestRecord ==
    ASSUME IsUnit, NEW v, NEW given, IsWalk(v, given), v.at <= End(v.root), v.taken = v.root,
           IsMember(v.at)
    PROVE  IsIn(v.at, v.taken)
<1>1. v \in Walks /\ v.root \in 1..Len(unit) /\ Len(unit) \in Nat
  BY UnitTyped DEF IsWalk, IsPlaced, Walks
<1>2. PICK e : e = End(v.root) OBVIOUS
<1>3. e \in v.root..Len(unit) BY <1>1, <1>2, EndOf
<1>4. v.at \in v.root..e /\ e \in Nat /\ v.at \in 1..Len(unit)
  BY <1>1, <1>2, <1>3 DEF IsWalk, IsPlaced
<1>5. v.taken # 0 /\ v.taken < v.at BY <1>1 DEF IsWalk, IsPlaced
<1>6. v.at \in (v.root + 1)..End(v.root) BY <1>1, <1>2, <1>4, <1>5
<1>7. v.at \in Below(v.root) BY <1>6 DEF Below
<1>8. PICK u : u = Up(v.at) OBVIOUS
<1>9. u \in 1..(v.at - 1) /\ unit[u].kind \in Containers BY <1>4, <1>8, ParentOfMember
<1>10. u = v.root \/ u \in Below(v.root) BY <1>1, <1>7, <1>8, UpBelow
<1>11. u \in Below(v.root) => u \in (v.taken + 1)..(v.at - 1) BY <1>1, <1>9 DEF Below
<1>12. \A i \in (v.taken + 1)..(v.at - 1) : unit[i].kind \notin Containers
  BY <1>5 DEF IsWalk, NoRecordSince
<1>13. u = v.root BY <1>9, <1>10, <1>11, <1>12
<1> QED BY <1>7, <1>8, <1>13 DEF IsIn

\* A member a class visitor comes to.
LEMMA TakesMember ==
    ASSUME IsUnit, NEW v, NEW given, IsWalk(v, given), v.at <= End(v.root), v.taken # 0,
           v.by = "class", IsMember(v.at)
    PROVE  IsWalk([Past(v) EXCEPT !.members = WithMember(v.taken, @, v.at)], given)
<1>1. v \in Walks /\ v.root \in 1..Len(unit) /\ Len(unit) \in Nat
  BY UnitTyped DEF IsWalk, IsPlaced, Walks
<1>2. PICK e : e = End(v.root) OBVIOUS
<1>3. e \in v.root..Len(unit) BY <1>1, <1>2, EndOf
<1>4. v.at \in v.root..e /\ e \in Nat /\ v.at \in 1..Len(unit)
  BY <1>1, <1>2, <1>3 DEF IsWalk, IsPlaced
<1>5. unit[v.at].kind \notin Containers BY DEF IsMember, Containers
<1>6. v.taken \in v.root..e /\ v.taken < v.at /\ v.taken \in 1..Len(unit)
  BY <1>1, <1>2, <1>3 DEF IsWalk, IsPlaced
<1>7. PICK p : p = Past(v) OBVIOUS
<1>8. IsWalk(p, given) /\ p \in Walks /\ p.at = v.at + 1 /\ p.members = v.members
      /\ p.taken = v.taken /\ p.by = v.by /\ p.root = v.root /\ p.allow = v.allow
      /\ p.filter = v.filter
  <2>1. v.by = "template" => ~(v.taken # 0 /\ IsRead(v.at, v, given)) OBVIOUS
  <2>2. IsWalk(p, given) BY <1>5, <1>7, <2>1, GoesOn
  <2> QED BY <1>1, <1>7, <2>2 DEF Past, Walks
<1>9. PICK more : more = WithMember(v.taken, v.members, v.at) OBVIOUS
<1>10. HasMembers(v.members, v.taken) BY DEF IsWalk, ReadAsClass
<1>11. PICK w : w = [p EXCEPT !.members = more] OBVIOUS
<1>12. w = [Past(v) EXCEPT !.members = WithMember(v.taken, @, v.at)]
  BY <1>1, <1>7, <1>8, <1>9, <1>11 DEF Past, Walks
<1>13. HasMembers(more, v.taken)
  <2>1. CASE more = v.members BY <1>10, <2>1
  <2>2. CASE more # v.members
    <3>1. IsOurs(v.taken, v.at) BY <1>9, <2>2 DEF WithMember
    <3>2. Len(Path(v.taken)) = 1 BY <3>1 DEF IsOurs
    <3>3. v.taken = v.root
      <4>1. CASE v.taken \in Below(v.root)
        <5>1. PICK n : n = Len(Path(v.root)) OBVIOUS
        <5>2. n < 1 BY <1>1, <3>2, <4>1, <5>1, LongerBelow
        <5>3. n = Len(Path(Up(v.root))) + 1 /\ Path(Up(v.root)) \in Seq(STRING)
          BY <1>1, <5>1, PathOf
        <5>4. Len(Path(Up(v.root))) \in Nat BY <5>3
        <5> QED BY <5>2, <5>3, <5>4
      <4>2. CASE v.taken \notin Below(v.root) BY <1>1, <1>2, <1>6, <4>2 DEF Below
      <4> QED BY <4>1, <4>2
    <3>4. IsIn(v.at, v.taken) BY <3>3, NearestRecord
    <3>5. unit[v.at].complete /\ ~Named(v.members, v.at) BY <1>9, <2>2 DEF WithMember
    <3> QED BY <1>10, <3>2, <3>4, <3>5 DEF HasMembers
  <2> QED BY <2>1, <2>2
<1>14. more \in Seq(Readings) BY <1>13 DEF HasMembers, AreMembers
<1>15. /\ w \in Walks /\ w.at = p.at /\ w.by = p.by /\ w.root = p.root /\ w.allow = p.allow
       /\ w.filter = p.filter /\ w.taken = p.taken /\ w.members = more
  BY <1>8, <1>11, <1>14 DEF Walks
<1>16. IsPlaced(w)
  <2>1. w.at \in p.root..(End(p.root) + 1) /\ IsPlaced(p) BY <1>8, <1>15 DEF IsWalk, IsPlaced
  <2>2. p.at <= w.at /\ p.at \in Int /\ w.at \in Int /\ p.taken \in Int /\ w.taken # 0
    BY <1>4, <1>6, <1>8, <1>15
  <2> QED BY <1>15, <2>1, <2>2, FurtherOn
<1>17. TakesRoot(w) /\ NoRecordSince(w)
  BY <1>8, <1>15 DEF IsWalk, TakesRoot, NoRecordSince
<1>18. ReadAsClass(w) BY <1>8, <1>13, <1>15 DEF ReadAsClass
<1>19. ReadAsTemplate(w, given) BY <1>8, <1>15 DEF ReadAsTemplate
<1> QED BY <1>12, <1>16, <1>17, <1>18, <1>19 DEF IsWalk

\* The record a visitor of a template takes is the template.
LEMMA TakesTemplate ==
    ASSUME IsUnit, NEW v, NEW given, IsWalk(v, given), v.at <= End(v.root), v.taken = 0,
           v.by = "template"
    PROVE  IsWalk([Past(v) EXCEPT !.taken = v.at], given)
<1>1. v \in Walks /\ v.root \in 1..Len(unit) /\ Len(unit) \in Nat
  BY UnitTyped DEF IsWalk, IsPlaced, Walks
<1>2. PICK e : e = End(v.root) OBVIOUS
<1>3. e \in v.root..Len(unit) BY <1>1, <1>2, EndOf
<1>4. v.at \in v.root..e /\ e \in Nat /\ v.at \in 1..Len(unit)
  BY <1>1, <1>2, <1>3 DEF IsWalk, IsPlaced
<1>5. v.at = v.root
  <2>1. ~(v.root < v.at) BY <1>1 DEF IsWalk, TakesRoot
  <2> QED BY <1>1, <1>4, <2>1
<1>6. PICK p : p = Past(v) OBVIOUS
<1>7. /\ p \in Walks /\ p.at = v.at + 1 /\ p.by = v.by /\ p.root = v.root /\ p.allow = v.allow
      /\ p.filter = v.filter /\ p.members = v.members
  BY <1>1, <1>6 DEF Past, Walks
<1>8. PICK w : w = [p EXCEPT !.taken = v.at] OBVIOUS
<1>9. /\ w \in Walks /\ w.at = v.root + 1 /\ w.by = v.by /\ w.root = v.root /\ w.allow = v.allow
      /\ w.filter = v.filter /\ w.taken = v.root /\ w.members = <<>>
  <2>1. v.at \in Nat BY <1>4
  <2>2. v.members = <<>> BY DEF IsWalk, IsPlaced
  <2> QED BY <1>5, <1>7, <1>8, <2>1, <2>2 DEF Walks
<1>10. v.root # 0 BY <1>1
<1>11. IsPlaced(w)
  <2>1. unit[w.root].kind = w.by /\ w.by = "template" BY <1>9 DEF IsWalk, IsPlaced
  <2>2. w.at \in w.root..(End(w.root) + 1)
    <3>1. v.root + 1 \in v.root..(e + 1) BY <1>1, <1>3
    <3> QED BY <1>2, <1>9, <3>1
  <2>3. w.taken \in w.root..End(w.root) /\ w.taken < w.at BY <1>1, <1>2, <1>3, <1>9
  <2>4. unit[w.taken].kind \in Containers BY <1>9, <2>1 DEF Containers
  <2> QED BY <1>9, <1>10, <2>1, <2>2, <2>3, <2>4 DEF IsPlaced
<1>12. TakesRoot(w) BY <1>9 DEF IsWalk, TakesRoot
<1>13. NoRecordSince(w)
  <2>1. (v.root + 1)..((v.root + 1) - 1) = {} BY <1>1
  <2> QED BY <1>9, <2>1 DEF NoRecordSince
<1>14. ReadAsClass(w) BY <1>9 DEF ReadAsClass
<1>15. ReadAsTemplate(w, given)
  <2>1. \A m \in 1..Len(unit) : m < v.root + 1 => m \notin Below(v.root) BY <1>1 DEF Below
  <2> QED BY <1>9, <2>1 DEF ReadAsTemplate, IsRead
<1> QED BY <1>6, <1>8, <1>11, <1>12, <1>13, <1>14, <1>15 DEF IsWalk

\* A member of a template that is asked for and can be read.
LEMMA TakesTemplateMember ==
    ASSUME IsUnit, NEW v, NEW d \in 1..Len(unit), IsWalk(v, Instantiated(d)),
           v.at <= End(v.root), v.taken # 0, v.by = "template", IsMember(v.at),
           unit[v.at].name \in v.filter, Readable(v.at, Instantiated(d))
    PROVE  IsWalk([Past(v) EXCEPT !.members = Append(@, Specialized(v.at, Instantiated(d)))],
                  Instantiated(d))
<1> DEFINE given == Instantiated(d)
<1>1. v \in Walks /\ v.root \in 1..Len(unit) /\ Len(unit) \in Nat
  BY UnitTyped DEF IsWalk, IsPlaced, Walks
<1>2. PICK e : e = End(v.root) OBVIOUS
<1>3. e \in v.root..Len(unit) BY <1>1, <1>2, EndOf
<1>4. v.at \in v.root..e /\ e \in Nat /\ v.at \in 1..Len(unit)
  BY <1>1, <1>2, <1>3 DEF IsWalk, IsPlaced
<1>5. v.taken \in v.root..e /\ v.taken < v.at BY <1>2 DEF IsWalk, IsPlaced
<1>6. v.taken = v.root
  <2>1. v.root < v.at BY <1>1, <1>4, <1>5
  <2> QED BY <2>1 DEF IsWalk, TakesRoot
<1>7. PICK a : a = Specialized(v.at, given) OBVIOUS
<1>8. a \in Readings /\ a.decl = v.at
  <2>1. a \in {Specialized(m, given) : m \in 1..Len(unit)} BY <1>4, <1>7
  <2> QED BY <1>7, <2>1, DeclOfReading DEF Readings
<1>9. PICK p : p = Past(v) OBVIOUS
<1>10. /\ p \in Walks /\ p.at = v.at + 1 /\ p.by = v.by /\ p.root = v.root /\ p.allow = v.allow
       /\ p.filter = v.filter /\ p.members = v.members /\ p.taken = v.root
  BY <1>1, <1>6, <1>9, SMTT(20) DEF Past, Walks
<1>11. PICK more : more = Append(v.members, a) OBVIOUS
<1>12. v.members \in Seq(Readings) /\ Len(v.members) \in Nat BY <1>1 DEF Walks
<1>13. /\ more \in Seq(Readings) /\ Len(more) = Len(v.members) + 1
       /\ \A i \in 1..Len(v.members) : more[i] = v.members[i] /\ i \in 1..Len(more)
       /\ more[Len(v.members) + 1] = a /\ Len(v.members) + 1 \in 1..Len(more)
       /\ \A i \in 1..Len(more) : i \in 1..Len(v.members) \/ i = Len(v.members) + 1
  BY <1>8, <1>11, <1>12
<1>14. PICK w : w = [p EXCEPT !.members = more] OBVIOUS
<1>15. w = [Past(v) EXCEPT !.members = Append(@, Specialized(v.at, Instantiated(d)))]
  BY <1>7, <1>9, <1>10, <1>11, <1>14 DEF Walks
<1>16. /\ w \in Walks /\ w.at = v.at + 1 /\ w.by = v.by /\ w.root = v.root /\ w.allow = v.allow
       /\ w.filter = v.filter /\ w.taken = v.taken /\ w.members = more
  BY <1>6, <1>10, <1>13, <1>14 DEF Walks
<1>17. IsPlaced(w)
  <2>1. w.at \in v.root..(e + 1) /\ v.at <= w.at /\ v.at \in Int /\ w.at \in Int /\ v.taken \in Int
    BY <1>1, <1>2, <1>3, <1>4, <1>16 DEF Walks
  <2>2. IsPlaced(v) /\ w.taken # 0 BY <1>16 DEF IsWalk
  <2> QED BY <1>2, <1>16, <2>1, <2>2, FurtherOn
<1>18. TakesRoot(w) BY <1>6, <1>16 DEF IsWalk, TakesRoot
<1>19. NoRecordSince(w)
  <2>1. unit[v.at].kind \notin Containers BY DEF IsMember, Containers
  <2>2. \A i \in (v.taken + 1)..v.at : i = v.at \/ i \in (v.taken + 1)..(v.at - 1)
    BY <1>1 DEF Walks
  <2>3. (v.at + 1) - 1 = v.at BY <1>4
  <2> QED BY <1>2, <1>4, <1>16, <2>1, <2>2, <2>3 DEF IsWalk, NoRecordSince
<1>20. ReadAsClass(w) BY <1>16 DEF ReadAsClass
<1>21. ReadAsTemplate(w, given)
  <2>1. v.at \in (v.root + 1)..End(v.root) BY <1>1, <1>2, <1>4, <1>5, <1>6
  <2>2. IsRead(v.at, v, given) BY <2>1 DEF IsRead, Below
  <2>3. \A m : IsRead(m, w, given) <=> IsRead(m, v, given) BY <1>16 DEF IsRead
  <2>4. ASSUME NEW i \in 1..Len(more)
        PROVE  \E m \in 1..Len(unit) : IsRead(m, w, given) /\ more[i] = Specialized(m, given)
    <3>1. CASE i = Len(v.members) + 1 BY <1>4, <1>7, <1>13, <2>2, <2>3, <3>1
    <3>2. CASE i \in 1..Len(v.members)
      <4>1. more[i] = v.members[i] BY <1>13, <3>2
      <4>2. \E m \in 1..Len(unit) : IsRead(m, v, given) /\ v.members[i] = Specialized(m, given)
        BY <3>2 DEF IsWalk, ReadAsTemplate
      <4> QED BY <2>3, <4>1, <4>2
    <3> QED BY <1>13, <3>1, <3>2
  <2>5. ASSUME \A b \in Below(v.root) : unit[b].kind \notin Containers,
               NEW m \in 1..Len(unit), m < v.at + 1, IsRead(m, w, given)
        PROVE  \E i \in 1..Len(more) : more[i].decl = m
    <3>1. CASE m = v.at BY <1>8, <1>13, <3>1
    <3>2. CASE m # v.at
      <4>1. m < v.at BY <1>4, <2>5, <3>2
      <4>2. PICK i \in 1..Len(v.members) : v.members[i].decl = m
        BY <2>3, <2>5, <4>1 DEF IsWalk, ReadAsTemplate
      <4> QED BY <1>13, <4>2
    <3> QED BY <3>1, <3>2
  <2> QED BY <1>16, <2>4, <2>5 DEF ReadAsTemplate
<1> QED BY <1>15, <1>17, <1>18, <1>19, <1>20, <1>21 DEF IsWalk

\* A visit leads from walk to walk.
LEMMA VisitedWalk ==
    ASSUME IsUnit, at \in 1..Len(unit), NEW v, IsWalk(v, Instantiated(at)), v.at <= End(v.root)
    PROVE  IsWalk(Visited(v), Instantiated(at))
<1> DEFINE given == Instantiated(at)
<1>1. v.by \in {"class", "template"} BY DEF IsWalk, IsPlaced, Walks, Containers
<1>2. CASE v.by = "class" /\ unit[v.at].kind \in Containers
  <2>1. Visited(v) = TakeRecord(v) BY <1>2 DEF Visited, IsMember, Containers
  <2>2. CASE v.taken # 0 BY <1>2, <2>1, <2>2, StopsAtRecord DEF TakeRecord
  <2>3. CASE v.taken = 0 /\ ~Wanted(v.at, v.allow)
    BY <1>2, <2>1, <2>3, PassesRecord DEF TakeRecord
  <2>4. CASE v.taken = 0 /\ Wanted(v.at, v.allow)
    BY <1>2, <2>1, <2>4, TakesClass DEF TakeRecord
  <2> QED BY <2>2, <2>3, <2>4
<1>3. CASE v.by = "class" /\ IsMember(v.at)
  <2>1. Visited(v) = TakeMember(v) BY <1>3 DEF Visited, IsMember, Containers
  <2>2. CASE v.taken = 0
    <3>1. unit[v.at].kind \notin Containers BY <1>3 DEF IsMember, Containers
    <3> QED BY <1>3, <2>1, <2>2, <3>1, GoesOn DEF TakeMember
  <2>3. CASE v.taken # 0 BY <1>3, <2>1, <2>3, TakesMember DEF TakeMember
  <2> QED BY <2>2, <2>3
<1>4. CASE v.by = "template" /\ unit[v.at].kind \in Containers
  <2>1. Visited(v) = TakeTemplateRecord(v) BY <1>4 DEF Visited, IsMember, Containers
  <2>2. CASE v.taken # 0 BY <1>4, <2>1, <2>2, StopsAtRecord DEF TakeTemplateRecord
  <2>3. CASE v.taken = 0 /\ ~unit[v.at].complete
    BY <1>4, <2>1, <2>3, PassesRecord DEF TakeTemplateRecord
  <2>4. CASE v.taken = 0 /\ unit[v.at].complete
    BY <1>4, <2>1, <2>4, TakesTemplate DEF TakeTemplateRecord
  <2> QED BY <2>2, <2>3, <2>4
<1>5. CASE v.by = "template" /\ IsMember(v.at)
  <2>1. Visited(v) = TakeTemplateMember(v) BY <1>5 DEF Visited, IsMember, Containers
  <2>2. CASE v.taken # 0 /\ unit[v.at].name \in v.filter /\ Readable(v.at, Instantiated(at))
    BY <1>5, <2>1, <2>2, TakesTemplateMember DEF TakeTemplateMember
  <2>3. CASE ~(v.taken # 0 /\ unit[v.at].name \in v.filter /\ Readable(v.at, Instantiated(at)))
    <3>1. unit[v.at].kind \notin Containers BY <1>5 DEF IsMember, Containers
    <3>2. ~(v.taken # 0 /\ IsRead(v.at, v, given)) BY <2>3 DEF IsRead
    <3>3. Visited(v) = Past(v) BY <2>1, <2>3 DEF TakeTemplateMember
    <3> QED BY <3>1, <3>2, <3>3, GoesOn
  <2> QED BY <2>2, <2>3
<1>6. CASE unit[v.at].kind \notin Containers /\ ~IsMember(v.at)
  <2>1. Visited(v) = Past(v) BY <1>6 DEF Visited
  <2>2. ~IsRead(v.at, v, given) BY <1>6 DEF IsRead
  <2> QED BY <1>6, <2>1, <2>2, GoesOn
<1> QED BY <1>1, <1>2, <1>3, <1>4, <1>5, <1>6

-----------------------------------------------------------------------------
(* What a statement says *)

\* A type has its fields, and two with the same fields are one.
LEMMA TypeFields ==
    ASSUME NEW t \in Types
    PROVE  /\ t.layers \in Seq(Layers) /\ Len(t.layers) \in Nat /\ t.const \in BOOLEAN
           /\ t.kind \in BaseKinds /\ t.alias \in STRING \cup {NoAlias} /\ t.name \in STRING
           /\ ~Plain(t) => /\ Len(t.layers) \in 1..Len(t.layers)
                           /\ t.layers[Len(t.layers)] \in Layers
                           /\ Last(t.layers) = t.layers[Len(t.layers)]
BY DEF Types, Plain, Last

LEMMA SameType ==
    ASSUME NEW a \in Types, NEW b \in Types, a.alias = b.alias, a.kind = b.kind,
           a.name = b.name, a.const = b.const, a.layers = b.layers
    PROVE  a = b
BY DEF Types

LEMMA SameLayers ==
    ASSUME NEW k \in Seq(Layers), NEW l \in Seq(Layers), Len(k) = Len(l),
           \A i \in 1..Len(k) : k[i] = l[i]
    PROVE  k = l
OBVIOUS

\* Another const changes nothing else.
IsQualified(q, t, const) ==
    /\ q \in Types /\ q.alias = t.alias /\ q.kind = t.kind /\ q.name = t.name
    /\ Plain(q) <=> Plain(t)
    /\ Plain(t) => q.const = const /\ q.layers = t.layers
    /\ ~Plain(t) => /\ q.const = t.const /\ Len(q.layers) = Len(t.layers)
                    /\ \A i \in 1..(Len(t.layers) - 1) : q.layers[i] = t.layers[i]
                    /\ q.layers[Len(t.layers)] =
                          [kind |-> t.layers[Len(t.layers)].kind, const |-> const]

LEMMA Qualified ==
    ASSUME NEW t \in Types, NEW const \in BOOLEAN
    PROVE  IsQualified(WithConst(t, const), t, const)
<1>1. CASE Plain(t)
  <2>1. PICK q : q = [t EXCEPT !.const = const] OBVIOUS
  <2>2. q \in Types /\ q.alias = t.alias /\ q.kind = t.kind /\ q.name = t.name
        /\ q.const = const /\ q.layers = t.layers
    BY <2>1 DEF Types
  <2>3. Plain(q) BY <1>1, <2>2 DEF Plain
  <2> QED BY <1>1, <2>1, <2>2, <2>3 DEF WithConst, IsQualified
<1>2. CASE ~Plain(t)
  <2>1. PICK n : n = Len(t.layers) OBVIOUS
  <2>2. t.layers \in Seq(Layers) /\ n \in 1..Len(t.layers) /\ t.layers[n] \in Layers
    BY <1>2, <2>1, TypeFields
  <2>3. PICK x : x = [t.layers[n] EXCEPT !.const = const] OBVIOUS
  <2>4. x \in Layers /\ x = [kind |-> t.layers[n].kind, const |-> const]
    BY <2>2, <2>3 DEF Layers
  <2>5. PICK l : l = [t.layers EXCEPT ![n] = x] OBVIOUS
  <2>6. /\ l \in Seq(Layers) /\ Len(l) = Len(t.layers) /\ l[n] = x
        /\ \A i \in 1..(n - 1) : l[i] = t.layers[i]
    BY <2>1, <2>2, <2>4, <2>5
  <2>7. PICK q : q = [t EXCEPT !.layers = l] OBVIOUS
  <2>8. q \in Types /\ q.alias = t.alias /\ q.kind = t.kind /\ q.name = t.name
        /\ q.const = t.const /\ q.layers = l
    BY <2>6, <2>7 DEF Types
  <2>9. q = WithConst(t, const) BY <1>2, <2>1, <2>3, <2>5, <2>7 DEF WithConst
  <2>10. ~Plain(q) BY <2>1, <2>2, <2>6, <2>8 DEF Plain
  <2> QED BY <1>2, <2>1, <2>4, <2>6, <2>8, <2>9, <2>10 DEF IsQualified
<1> QED BY <1>1, <1>2

LEMMA ConstOfType ==
    ASSUME NEW t \in Types
    PROVE  IsConst(t) \in BOOLEAN
<1>1. \A l \in Layers : l.const \in BOOLEAN BY DEF Layers
<1> QED BY <1>1, TypeFields DEF IsConst

\* A type whose const is taken away and given back.
LEMMA Requalified ==
    ASSUME NEW t \in Types, NEW const \in BOOLEAN
    PROVE  WithConst(WithConst(t, const), IsConst(t)) = t
<1>1. PICK q : q = WithConst(t, const) OBVIOUS
<1>2. IsQualified(q, t, const) BY <1>1, Qualified
<1>3. q \in Types /\ IsConst(t) \in BOOLEAN BY <1>2, ConstOfType DEF IsQualified
<1>4. PICK r : r = WithConst(q, IsConst(t)) OBVIOUS
<1>5. IsQualified(r, q, IsConst(t)) BY <1>3, <1>4, Qualified
<1>6. CASE Plain(t) BY <1>1, <1>2, <1>4, <1>5, <1>6, SameType DEF IsQualified, IsConst
<1>7. CASE ~Plain(t)
  <2>1. PICK n : n = Len(t.layers) OBVIOUS
  <2>2. /\ t.layers \in Seq(Layers) /\ n \in 1..Len(t.layers) /\ t.layers[n] \in Layers
        /\ n \in Nat /\ Last(t.layers) = t.layers[n]
    BY <1>7, <2>1, TypeFields
  <2>3. r \in Types /\ r.layers \in Seq(Layers) /\ Len(r.layers) = n
    BY <1>2, <1>5, <1>7, <2>1, TypeFields DEF IsQualified
  <2>4. q.layers[n] = [kind |-> t.layers[n].kind, const |-> const] /\ Len(q.layers) = n /\ ~Plain(q)
    BY <1>2, <1>7, <2>1 DEF IsQualified
  <2>5. r.layers[n] = [kind |-> q.layers[n].kind, const |-> t.layers[n].const]
    BY <1>5, <1>7, <2>2, <2>4 DEF IsQualified, IsConst
  <2>6. r.layers[n] = t.layers[n] BY <2>2, <2>4, <2>5 DEF Layers
  <2>7. \A i \in 1..(n - 1) : r.layers[i] = t.layers[i]
    BY <1>2, <1>5, <1>7, <2>1, <2>4 DEF IsQualified
  <2>8. \A i \in 1..Len(r.layers) : r.layers[i] = t.layers[i]
    <3>1. \A i \in 1..n : i = n \/ i \in 1..(n - 1) BY <2>2
    <3> QED BY <2>3, <2>6, <2>7, <3>1
  <2>9. r.layers = t.layers BY <2>1, <2>2, <2>3, <2>8, SameLayers
  <2>10. r.alias = t.alias /\ r.kind = t.kind /\ r.name = t.name /\ r.const = t.const
    BY <1>2, <1>5, <1>7, <2>4 DEF IsQualified
  <2> QED BY <1>1, <1>4, <2>3, <2>9, <2>10, SameType
<1> QED BY <1>6, <1>7

\* What is behind the outermost pointer or reference, and put together again.
LEMMA PointeeOf ==
    ASSUME NEW t \in Types, ~Plain(t)
    PROVE  /\ Pointee(t) \in Types /\ Pointee(t).alias = NoAlias /\ Pointee(t).kind = t.kind
           /\ Pointee(t).name = t.name /\ Pointee(t).const = t.const
           /\ Append(Pointee(t).layers, t.layers[Len(t.layers)]) = t.layers
<1>1. PICK n : n = Len(t.layers) OBVIOUS
<1>2. t.layers \in Seq(Layers) /\ n \in 1..Len(t.layers) /\ n \in Nat BY <1>1, TypeFields
<1>3. PICK f : f = SubSeq(t.layers, 1, n - 1) OBVIOUS
<1>4. f \in Seq(Layers) /\ Len(f) = n - 1 /\ \A i \in 1..(n - 1) : f[i] = t.layers[i]
  BY <1>1, <1>2, <1>3
<1>5. PICK p : p = [t EXCEPT !.layers = f, !.alias = NoAlias] OBVIOUS
<1>6. p \in Types /\ p.alias = NoAlias /\ p.kind = t.kind /\ p.name = t.name
      /\ p.const = t.const /\ p.layers = f
  BY <1>4, <1>5 DEF Types
<1>7. p = Pointee(t) BY <1>1, <1>3, <1>5 DEF Pointee, Front
<1>8. Append(f, t.layers[n]) = t.layers
  <2>1. PICK a : a = Append(f, t.layers[n]) OBVIOUS
  <2>2. t.layers[n] \in Layers BY <1>2
  <2>3. a \in Seq(Layers) /\ Len(a) = n /\ \A i \in 1..n : a[i] = t.layers[i]
    BY <1>2, <1>4, <2>1, <2>2
  <2> QED BY <1>1, <1>2, <2>1, <2>3, SameLayers
<1> QED BY <1>1, <1>6, <1>7, <1>8

LEMMA QualifiedTwice ==
    ASSUME NEW t \in Types, Plain(t), NEW c \in BOOLEAN, NEW d \in BOOLEAN
    PROVE  WithConst(WithConst(t, c), d) = WithConst(t, d)
<1>1. PICK q : q = WithConst(t, c) OBVIOUS
<1>2. IsQualified(q, t, c) BY <1>1, Qualified
<1>3. PICK r : r = WithConst(q, d) OBVIOUS
<1>4. IsQualified(r, q, d)
  <2>1. q \in Types BY <1>2 DEF IsQualified
  <2>2. IsQualified(WithConst(q, d), q, d) BY <2>1, Qualified
  <2> QED BY <1>3, <2>2
<1>5. PICK s : s = WithConst(t, d) OBVIOUS
<1>6. IsQualified(s, t, d) BY <1>5, Qualified
<1>7. r = s BY <1>2, <1>4, <1>6, SameType DEF IsQualified
<1> QED BY <1>1, <1>3, <1>5, <1>7

\* What a statement with a flag for a pointer or reference is read as.
States(s, p, l) ==
    /\ WithConst(s.names, s.ptrConst) = p
    /\ s.pointer <=> l.kind = "pointer"
    /\ s.reference <=> l.kind = "reference"
    /\ s.const = l.const
LEMMA ReadBack ==
    ASSUME NEW p \in Types, NEW l \in Layers, NEW s, States(s, p, l)
    PROVE  Restored(s) = [p EXCEPT !.layers = Append(p.layers, l)]
<1> USE DEF States
<1>1. l.kind \in {"pointer", "reference"} BY DEF Layers
<1>2. [kind |-> IF s.pointer THEN "pointer" ELSE "reference", const |-> s.const] = l
  BY <1>1 DEF Layers
<1>3. s.pointer \/ s.reference BY <1>1
<1> QED BY <1>2, <1>3 DEF Restored, Types

\* The type of a statement is what it was filled from.
LEMMA FillSays ==
    ASSUME NEW t \in Types
    PROVE  Restored(Fill(t)) = Desugared(t)
<1>1. PICK s : s = Fill(t) OBVIOUS
<1>2. CASE Plain(t)
  <2>1. s.names = WithConst(t, FALSE) /\ s.const = IsConst(t)
        /\ ~s.pointer /\ ~s.reference
    BY <1>1, <1>2 DEF Fill, Unqualified, ConstOf, Is
  <2>2. Restored(s) = WithConst(WithConst(t, FALSE), IsConst(t)) BY <2>1 DEF Restored
  <2>3. Restored(s) = t BY <2>2, Requalified
  <2> QED BY <1>1, <1>2, <2>3 DEF Desugared
<1>3. CASE ~Plain(t)
  <2>1. PICK p : p = Pointee(t) OBVIOUS
  <2>2. PICK l : l = t.layers[Len(t.layers)] OBVIOUS
  <2>3. l \in Layers /\ Last(t.layers) = l BY <1>3, <2>2, TypeFields
  <2>4. /\ p \in Types /\ p.alias = NoAlias /\ p.kind = t.kind /\ p.name = t.name
        /\ p.const = t.const /\ Append(p.layers, l) = t.layers
    BY <1>3, <2>1, <2>2, PointeeOf
  <2>5. s.names = WithConst(p, FALSE) /\ s.const = l.const /\ s.ptrConst = IsConst(p)
        /\ (s.pointer <=> l.kind = "pointer") /\ (s.reference <=> l.kind = "reference")
    <3>1. s.names = WithConst(p, FALSE) BY <1>1, <1>3, <2>1 DEF Fill, Unqualified
    <3>2. s.const = l.const BY <1>1, <1>3, <2>3 DEF Fill, ConstOf, IsConst
    <3>3. s.ptrConst = IsConst(p)
      <4>1. s.ptrConst = (~Plain(t) /\ IsConst(Pointee(t))) BY <1>1 DEF Fill
      <4>2. IsConst(p) \in BOOLEAN BY <2>4, ConstOfType
      <4> QED BY <1>3, <2>1, <4>1, <4>2
    <3>4. (s.pointer <=> l.kind = "pointer") /\ (s.reference <=> l.kind = "reference")
      BY <1>1, <1>3, <2>3 DEF Fill, Is
    <3> QED BY <3>1, <3>2, <3>3, <3>4
  <2>6. WithConst(s.names, s.ptrConst) = p BY <2>4, <2>5, Requalified
  <2>7. Restored(s) = [p EXCEPT !.layers = Append(p.layers, l)]
    <3>1. States(s, p, l) BY <2>5, <2>6, Zenon DEF States
    <3> QED BY <2>3, <2>4, <3>1, ReadBack
  <2>8. PICK r : r = Restored(s) OBVIOUS
  <2>9. t.layers \in Seq(Layers) BY TypeFields
  <2>10. /\ r \in Types /\ r.alias = NoAlias /\ r.kind = t.kind /\ r.name = t.name
         /\ r.const = t.const /\ r.layers = t.layers
    BY <2>4, <2>7, <2>8, <2>9 DEF Types
  <2>11. PICK d : d = Desugared(t) OBVIOUS
  <2>12. d = [t EXCEPT !.alias = NoAlias] BY <1>3, <2>11 DEF Desugared
  <2>13. /\ d \in Types /\ d.alias = NoAlias /\ d.kind = t.kind /\ d.name = t.name
         /\ d.const = t.const /\ d.layers = t.layers
    BY <2>12 DEF Types
  <2>14. r = d BY <2>10, <2>13, SameType
  <2> QED BY <1>1, <2>8, <2>11, <2>14
<1> QED BY <1>2, <1>3

\* The outermost pointer or reference, with another const.
Around(t, l) == [t EXCEPT !.layers = Append(t.layers, l)]
Unnamed(t) == [t EXCEPT !.alias = NoAlias]
LEMMA OutermostConst ==
    ASSUME NEW a \in Types, ~Plain(a), NEW c \in BOOLEAN,
           NEW p, p = Pointee(a), NEW q, q = WithConst(a, c),
           NEW l \in Layers, l.kind = a.layers[Len(a.layers)].kind, l.const = c
    PROVE  Around(p, l) = Unnamed(q)
<1>1. PICK n : n = Len(a.layers) OBVIOUS
<1>2. a.layers \in Seq(Layers) /\ n \in 1..n /\ n \in Nat /\ a.layers[n] \in Layers
  BY <1>1, TypeFields
<1>3. l = [kind |-> a.layers[n].kind, const |-> c] BY <1>1 DEF Layers
<1>5. /\ p \in Types /\ p.alias = NoAlias /\ p.kind = a.kind /\ p.name = a.name
      /\ p.const = a.const /\ Append(p.layers, a.layers[n]) = a.layers
  BY <1>1, PointeeOf
<1>6. PICK f : f = p.layers OBVIOUS
<1>7. f \in Seq(Layers) BY <1>5, <1>6, TypeFields
<1>8. Len(f) = n - 1 /\ \A i \in 1..(n - 1) : f[i] = a.layers[i]
  <2>1. PICK x : x = a.layers[n] OBVIOUS
  <2>2. PICK b : b = Append(f, x) OBVIOUS
  <2>3. Len(b) = Len(f) + 1 /\ \A i \in 1..Len(f) : b[i] = f[i] BY <1>7, <2>2
  <2>4. b = a.layers BY <1>5, <1>6, <2>1, <2>2
  <2>5. Len(f) = n - 1 BY <1>1, <1>2, <1>7, <2>3, <2>4
  <2> QED BY <2>3, <2>4, <2>5
<1>9. PICK m : m = Append(f, l) OBVIOUS
<1>10. m \in Seq(Layers) /\ Len(m) = n /\ m[n] = l /\ \A i \in 1..(n - 1) : m[i] = a.layers[i]
  BY <1>2, <1>3, <1>7, <1>8, <1>9
<1>12. /\ q \in Types /\ q.kind = a.kind /\ q.name = a.name /\ q.const = a.const
       /\ Len(q.layers) = n /\ (\A i \in 1..(n - 1) : q.layers[i] = a.layers[i]) /\ q.layers[n] = l
  BY <1>1, <1>3, Qualified DEF IsQualified
<1>13. q.layers = m
  <2>1. q.layers \in Seq(Layers) BY <1>12, TypeFields
  <2>2. \A i \in 1..n : i = n \/ i \in 1..(n - 1) BY <1>2
  <2>3. \A i \in 1..Len(m) : m[i] = q.layers[i] BY <1>10, <1>12, <2>2
  <2> QED BY <1>10, <1>12, <2>1, <2>3, SameLayers
<1>14. PICK x : x = [p EXCEPT !.layers = m] OBVIOUS
<1>15. /\ x \in Types /\ x.alias = NoAlias /\ x.kind = a.kind /\ x.name = a.name
       /\ x.const = a.const /\ x.layers = m
  BY <1>5, <1>10, <1>14 DEF Types
<1>16. PICK y : y = [q EXCEPT !.alias = NoAlias] OBVIOUS
<1>17. /\ y \in Types /\ y.alias = NoAlias /\ y.kind = a.kind /\ y.name = a.name
       /\ y.const = a.const /\ y.layers = m
  BY <1>12, <1>13, <1>16 DEF Types
<1>18. x = y BY <1>15, <1>17, SameType
<1> QED BY <1>3, <1>6, <1>9, <1>14, <1>16, <1>18 DEF Around, Unnamed

\* A parameter that is resolved is what C++ replaces it by, unless a pointer of the
\* template meets one of the argument; member is the type the parameter's name is
\* taken from.
LEMMA ResolvedSays ==
    ASSUME NEW t \in Types, t.kind = "parameter", Len(t.layers) <= 1,
           NEW given, NEW a \in Types, a = given[t.name], a.alias = NoAlias,
           NEW member, BehindPointer(member).name = t.name, Simple(t, given)
    PROVE  Restored(Resolve(Fill(t), member, given)) = Desugared(Substituted(t, given))
<1>1. PICK r : r = Resolve(Fill(t), member, given) OBVIOUS
<1>2. PICK s : s = Fill(t) OBVIOUS
<1>3. PICK f : f = Fill(a) OBVIOUS
<1>4. r = [f EXCEPT !.const = @ \/ s.const, !.pointer = @ \/ s.pointer,
                    !.reference = @ \/ s.reference, !.ptrConst = @ \/ s.ptrConst,
                    !.specialization = @ \/ s.specialization]
  BY <1>1, <1>2, <1>3 DEF Resolve, Both
<1>5. /\ r.names = f.names /\ r.const = (f.const \/ s.const)
      /\ r.pointer = (f.pointer \/ s.pointer) /\ r.reference = (f.reference \/ s.reference)
      /\ r.ptrConst = (f.ptrConst \/ s.ptrConst)
  BY <1>3, <1>4 DEF Fill
<1>6. IsConst(a) \in BOOLEAN /\ IsConst(t) \in BOOLEAN /\ t.const \in BOOLEAN /\ a.const \in BOOLEAN
  BY ConstOfType, TypeFields
<1>7. PICK g : g = Substituted(t, given) OBVIOUS
<1>8. CASE Plain(t)
  <2>1. s.const = t.const /\ ~s.pointer /\ ~s.reference /\ ~s.ptrConst
    BY <1>2, <1>8 DEF Fill, ConstOf, IsConst, Is
  <2>2. PICK c \in BOOLEAN : c = (IsConst(a) \/ t.const) OBVIOUS
  <2>3. f.const = IsConst(a) BY <1>3 DEF Fill, ConstOf
  <2>4. r.const = c BY <1>5, <2>1, <2>2, <2>3
  <2>5. PICK q : q = WithConst(a, c) OBVIOUS
  <2>6. IsQualified(q, a, c) BY <2>5, Qualified
  <2>7. g = q
    <3>1. PICK inside : inside = IF Is(a, "reference") THEN a ELSE WithConst(a, IsConst(a) \/ t.const)
      OBVIOUS
    <3>2. t.layers = <<>> BY <1>8 DEF Plain
    <3>3. g = [inside EXCEPT !.layers = @ \o <<>>] BY <1>7, <1>8, <3>1, <3>2 DEF Substituted
    <3>4. inside = q
      <4>1. CASE Is(a, "reference")
        <5>1. ~t.const BY <1>8, <4>1 DEF Simple
        <5>2. c = IsConst(a) BY <1>6, <2>2, <5>1
        <5>3. WithConst(WithConst(a, c), IsConst(a)) = a BY Requalified
        <5>4. IsQualified(WithConst(q, c), q, c) BY <2>6, Qualified DEF IsQualified
        <5>5. a = WithConst(q, c) BY <2>5, <5>2, <5>3
        <5>6. a = q
          <6>1. CASE Plain(a) BY <2>6, <4>1, <6>1 DEF Is
          <6>2. CASE ~Plain(a)
            <7>1. PICK n : n = Len(a.layers) OBVIOUS
            <7>2. a.layers \in Seq(Layers) /\ q.layers \in Seq(Layers) /\ Len(q.layers) = n
                  /\ n \in Nat /\ n \in 1..n
              BY <2>6, <6>2, <7>1, TypeFields DEF IsQualified
            <7>3. a.layers[n] = [kind |-> q.layers[n].kind, const |-> c]
              BY <2>6, <5>4, <5>5, <6>2, <7>1, <7>2 DEF IsQualified
            <7>4. q.layers[n] = [kind |-> a.layers[n].kind, const |-> c]
              BY <2>6, <6>2, <7>1 DEF IsQualified
            <7>5. a.layers[n] = q.layers[n] BY <7>3, <7>4
            <7>6. \A i \in 1..(n - 1) : a.layers[i] = q.layers[i]
              BY <2>6, <6>2, <7>1 DEF IsQualified
            <7>7. \A i \in 1..Len(a.layers) : a.layers[i] = q.layers[i]
              <8>1. \A i \in 1..n : i = n \/ i \in 1..(n - 1) BY <7>2
              <8> QED BY <7>1, <7>5, <7>6, <8>1
            <7>8. a.layers = q.layers BY <7>1, <7>2, <7>7, SameLayers
            <7> QED BY <2>6, <6>2, <7>8, SameType DEF IsQualified
          <6> QED BY <6>1, <6>2
        <5> QED BY <3>1, <4>1, <5>6
      <4>2. CASE ~Is(a, "reference") BY <2>2, <2>5, <3>1, <4>2
      <4> QED BY <4>1, <4>2
    <3>5. q \in Types /\ q.layers \in Seq(Layers) BY <2>6, TypeFields DEF IsQualified
    <3>6. q.layers \o <<>> = q.layers BY <3>5
    <3>7. [q EXCEPT !.layers = q.layers] = q BY <3>5 DEF Types
    <3> QED BY <3>3, <3>4, <3>6, <3>7
  <2>8. CASE Plain(a)
    <3>1. f.names = WithConst(a, FALSE) /\ ~f.pointer /\ ~f.reference
      BY <1>3, <2>8 DEF Fill, Unqualified, Is
    <3>2. Restored(r) = WithConst(WithConst(a, FALSE), c) BY <1>5, <2>1, <2>4, <3>1 DEF Restored
    <3>3. Restored(r) = q BY <2>5, <2>8, <3>2, QualifiedTwice
    <3>4. Desugared(g) = q BY <2>6, <2>7, <2>8 DEF Desugared, IsQualified
    <3> QED BY <1>1, <1>7, <3>3, <3>4
  <2>9. CASE ~Plain(a)
    <3>1. PICK p : p = Pointee(a) OBVIOUS
    <3>2. PICK l : l = [kind |-> a.layers[Len(a.layers)].kind, const |-> c] OBVIOUS
    <3>3. p \in Types BY <2>9, <3>1, PointeeOf
    <3>4. /\ l \in Layers
          /\ [p EXCEPT !.layers = Append(p.layers, l)] = [q EXCEPT !.alias = NoAlias]
      <4>1. PICK n : n = Len(a.layers) OBVIOUS
      <4>2. a.layers[n] \in Layers BY <2>9, <4>1, TypeFields
      <4>3. l \in Layers BY <2>2, <3>2, <4>1, <4>2 DEF Layers
      <4>4. l.kind = a.layers[Len(a.layers)].kind /\ l.const = c BY <3>2
      <4>5. Around(p, l) = Unnamed(q)
        <5> HIDE DEF Types, Layers
        <5>1. \A b \in Types, d \in BOOLEAN, k \in Layers :
                 ~Plain(b) /\ k.kind = b.layers[Len(b.layers)].kind /\ k.const = d
                   => Around(Pointee(b), k) = Unnamed(WithConst(b, d))
          BY OutermostConst
        <5>2. ~Plain(a) => Around(Pointee(a), l) = Unnamed(WithConst(a, c))
          BY <2>2, <4>3, <4>4, <5>1
        <5> QED BY <2>5, <2>9, <3>1, <5>2
      <4> QED BY <4>3, <4>5 DEF Around, Unnamed
    <3>5. f.names = WithConst(p, FALSE) BY <1>3, <2>9, <3>1 DEF Fill, Unqualified
    <3>6. r.ptrConst = IsConst(p)
      <4>1. f.ptrConst = (~Plain(a) /\ IsConst(Pointee(a))) BY <1>3 DEF Fill
      <4>2. IsConst(p) \in BOOLEAN BY <3>3, ConstOfType
      <4> QED BY <1>5, <2>1, <2>9, <3>1, <4>1, <4>2
    <3>7. WithConst(r.names, r.ptrConst) = p BY <1>5, <3>3, <3>5, <3>6, Requalified
    <3>8. (r.pointer <=> l.kind = "pointer") /\ (r.reference <=> l.kind = "reference")
      <4>1. Last(a.layers) = a.layers[Len(a.layers)] BY <2>9, TypeFields
      <4>2. (f.pointer <=> l.kind = "pointer") /\ (f.reference <=> l.kind = "reference")
        BY <1>3, <2>9, <3>2, <4>1 DEF Fill, Is
      <4> QED BY <1>5, <2>1, <4>2
    <3>9. r.const = l.const BY <2>4, <3>2
    <3>10. Restored(r) = [p EXCEPT !.layers = Append(p.layers, l)]
      <4>1. l \in Layers BY <3>4
      <4>2. States(r, p, l) BY <3>7, <3>8, <3>9, Zenon DEF States
      <4> QED BY <3>3, <4>1, <4>2, ReadBack
    <3>11. Desugared(g) = [q EXCEPT !.alias = NoAlias]
      BY <2>6, <2>7, <2>9 DEF Desugared, IsQualified
    <3> QED BY <1>1, <1>7, <3>4, <3>10, <3>11
  <2> QED BY <2>8, <2>9
<1>9. CASE ~Plain(t)
  <2>1. Plain(a) /\ ~a.const BY <1>9 DEF Simple
  <2>2. t.layers \in Seq(Layers) /\ Len(t.layers) = 1
    <3>1. t.layers \in Seq(Layers) /\ Len(t.layers) \in Nat BY TypeFields
    <3>2. PICK k : k = t.layers OBVIOUS
    <3>3. Len(k) # 0 BY <1>9, <3>1, <3>2 DEF Plain
    <3>4. PICK n : n = Len(k) OBVIOUS
    <3>5. n \in Nat /\ n <= 1 BY <3>1, <3>2, <3>4
    <3>6. n = 1 BY <3>3, <3>4, <3>5
    <3> QED BY <3>1, <3>2, <3>4, <3>6
  <2>3. PICK l \in Layers : l = t.layers[1] BY <2>2
  <2>4. t.layers = <<l>> BY <2>2, <2>3
  <2>5. PICK p : p = Pointee(t) OBVIOUS
  <2>6. Plain(p) /\ p.const = t.const
    <3>1. p \in Types /\ p.const = t.const /\ Append(p.layers, l) = t.layers
      BY <1>9, <2>2, <2>3, <2>5, PointeeOf
    <3>2. p.layers \in Seq(Layers) /\ Len(p.layers) \in Nat BY <3>1, TypeFields
    <3>3. PICK k : k = p.layers OBVIOUS
    <3>4. Len(Append(k, l)) = Len(k) + 1 BY <3>2, <3>3
    <3>5. Len(k) = 0 BY <2>2, <3>1, <3>2, <3>3, <3>4
    <3> QED BY <3>1, <3>2, <3>3, <3>5 DEF Plain
  <2>7. Last(t.layers) = l BY <2>2, <2>3 DEF Last
  <2>8. /\ s.const = l.const /\ (s.pointer <=> l.kind = "pointer")
        /\ (s.reference <=> l.kind = "reference") /\ s.ptrConst = t.const
    <3>1. s.const = l.const BY <1>2, <1>9, <2>7 DEF Fill, ConstOf, IsConst
    <3>2. (s.pointer <=> l.kind = "pointer") /\ (s.reference <=> l.kind = "reference")
      BY <1>2, <1>9, <2>7 DEF Fill, Is
    <3>3. IsConst(p) = t.const BY <2>6 DEF IsConst
    <3>4. s.ptrConst = (~Plain(t) /\ IsConst(Pointee(t))) BY <1>2 DEF Fill
    <3>5. s.ptrConst = t.const BY <1>6, <1>9, <2>5, <3>3, <3>4
    <3> QED BY <3>1, <3>2, <3>5
  <2>9. /\ f.names = WithConst(a, FALSE) /\ ~f.const /\ ~f.pointer /\ ~f.reference /\ ~f.ptrConst
    BY <1>3, <2>1 DEF Fill, Unqualified, ConstOf, IsConst, Is
  <2>10. PICK q : q = WithConst(a, t.const) OBVIOUS
  <2>11. IsQualified(q, a, t.const) BY <1>6, <2>10, Qualified
  <2>12. q \in Types /\ q.alias = NoAlias /\ q.layers = <<>>
    BY <2>1, <2>11 DEF IsQualified, Plain
  <2>13. r.ptrConst = t.const /\ r.const = l.const
    <3>1. l.const \in BOOLEAN BY DEF Layers
    <3> QED BY <1>5, <1>6, <2>8, <2>9, <3>1
  <2>14. WithConst(r.names, r.ptrConst) = q
    <3>1. r.names = WithConst(a, FALSE) BY <1>5, <2>9
    <3>2. WithConst(r.names, r.ptrConst) = WithConst(WithConst(a, FALSE), t.const) BY <2>13, <3>1
    <3> QED BY <1>6, <2>1, <2>10, <3>2, QualifiedTwice
  <2>15. (r.pointer <=> l.kind = "pointer") /\ (r.reference <=> l.kind = "reference")
    BY <1>5, <2>8, <2>9
  <2>16. Restored(r) = [q EXCEPT !.layers = Append(q.layers, l)]
    <3>1. r.const = l.const BY <2>13
    <3>2. States(r, q, l) BY <2>14, <2>15, <3>1, Zenon DEF States
    <3> QED BY <2>12, <3>2, ReadBack
  <2>17. Append(q.layers, l) = t.layers BY <2>4, <2>12
  <2>18. g = [q EXCEPT !.layers = t.layers]
    <3>1. ~Is(a, "reference") BY <2>1 DEF Is
    <3>2. IsConst(a) = FALSE BY <2>1 DEF IsConst
    <3>3. (IsConst(a) \/ t.const) = t.const BY <1>6, <3>2
    <3>4. g = [q EXCEPT !.layers = @ \o t.layers]
      BY <1>7, <2>10, <3>1, <3>3 DEF Substituted
    <3>5. q.layers \o t.layers = t.layers BY <2>2, <2>12
    <3> QED BY <2>12, <3>4, <3>5
  <2>19. g \in Types /\ g.alias = NoAlias /\ g.layers = t.layers
    BY <2>2, <2>12, <2>18 DEF Types
  <2>20. ~Plain(g) BY <1>9, <2>19 DEF Plain
  <2>21. Desugared(g) = [g EXCEPT !.alias = NoAlias] BY <2>20 DEF Desugared
  <2>22. [g EXCEPT !.alias = NoAlias] = g BY <2>19 DEF Types
  <2> QED BY <1>1, <1>7, <2>16, <2>17, <2>18, <2>21, <2>22
<1> QED BY <1>8, <1>9

-----------------------------------------------------------------------------
(* The unit does not change: nor does anything that is defined by it. *)

LEMMA SameTree ==
    ASSUME unit' = unit
    PROVE  \A d : /\ End(d)' = End(d) /\ Up(d)' = Up(d)
                  /\ Below(d)' = Below(d) /\ Above(d)' = Above(d)
                  /\ IsMember(d)' <=> IsMember(d)
<1>1. \A d : End(d)' = End(d) BY DEF End, Smallest
<1>2. \A d : Up(d)' = Up(d) BY DEF Up, Largest
<1>3. \A d : Below(d)' = Below(d) BY <1>1 DEF Below
<1>4. \A d : Above(d)' = Above(d) BY <1>3 DEF Above
<1>5. \A d : IsMember(d)' <=> IsMember(d) BY DEF IsMember
<1> QED BY <1>1, <1>2, <1>3, <1>4, <1>5

LEMMA SameNames ==
    ASSUME unit' = unit
    PROVE  \A d : /\ Path(d)' = Path(d)
                  /\ Templated(d)' <=> Templated(d)
                  /\ Canonical(d)' = Canonical(d)
                  /\ Definition(d)' = Definition(d)
                  /\ Instantiated(d)' = Instantiated(d)
<1>1. \A d : Path(d)' = Path(d) BY DEF Path, Up, Largest
<1>2. \A d : Templated(d)' <=> Templated(d) BY SameTree DEF Templated
<1>3. \A d : Canonical(d)' = Canonical(d) BY DEF Canonical
<1>4. \A d : Definitions(d)' = Definitions(d) BY <1>1 DEF Definitions
<1>5. \A d : Definition(d)' = Definition(d) BY <1>4 DEF Definition
<1>6. \A d : Instantiated(d)' = Instantiated(d) BY DEF Instantiated
<1> QED BY <1>1, <1>2, <1>3, <1>5, <1>6

LEMMA SameReadings ==
    ASSUME unit' = unit
    PROVE  /\ \A m : AsWritten(m)' = AsWritten(m)
           /\ \A m, given : /\ Specialized(m, given)' = Specialized(m, given)
                            /\ Readable(m, given)' <=> Readable(m, given)
           /\ Readings' = Readings
<1>1. \A m : AsWritten(m)' = AsWritten(m) BY DEF AsWritten
<1>2. \A m : DependentMember(m)' <=> DependentMember(m) BY DEF DependentMember
<1>3. \A m, given : Specialized(m, given)' = Specialized(m, given)
  BY <1>1, <1>2 DEF Specialized, ArgumentOf
<1>4. \A m, given : Readable(m, given)' <=> Readable(m, given) BY <1>2 DEF Readable
<1>5. Readings' = Readings BY <1>1, <1>3, SameNames DEF Readings
<1> QED BY <1>1, <1>3, <1>4, <1>5

LEMMA SameMembers ==
    ASSUME unit' = unit
    PROVE  /\ \A class : MembersOf(class)' = MembersOf(class)
           /\ \A m, members : Named(members, m)' <=> Named(members, m)
           /\ \A m, class : IsIn(m, class)' <=> IsIn(m, class)
           /\ \A d, allow : Wanted(d, allow)' <=> Wanted(d, allow)
           /\ \A class, members : /\ AreMembers(members, class)' <=> AreMembers(members, class)
                                  /\ AreFirsts(members, class)' <=> AreFirsts(members, class)
<1>1. \A class : MembersOf(class)' = MembersOf(class) BY SameTree DEF MembersOf
<1>2. \A m, members : Named(members, m)' <=> Named(members, m) BY DEF Named
<1>3. \A m, class : IsIn(m, class)' <=> IsIn(m, class) BY SameTree DEF IsIn
<1>4. \A d, allow : Wanted(d, allow)' <=> Wanted(d, allow) BY DEF Wanted
<1>5. \A class, members : AreMembers(members, class)' <=> AreMembers(members, class)
  BY <1>1, SameReadings DEF AreMembers
<1>6. \A class, members : AreFirsts(members, class)' <=> AreFirsts(members, class)
  BY <1>3 DEF AreFirsts, SameName
<1> QED BY <1>1, <1>2, <1>3, <1>4, <1>5, <1>6

LEMMA SameWalk ==
    ASSUME unit' = unit
    PROVE  \A v, given : IsWalk(v, given)' <=> IsWalk(v, given)
<1>1. Walks' = Walks BY SameReadings DEF Walks
<1>2. \A v : IsPlaced(v)' <=> IsPlaced(v) BY <1>1, SameTree, SameMembers DEF IsPlaced
<1>3. \A v : TakesRoot(v)' <=> TakesRoot(v) BY SameMembers DEF TakesRoot
<1>4. \A v : NoRecordSince(v)' <=> NoRecordSince(v) BY SameTree DEF NoRecordSince
<1>5. \A v : ReadAsClass(v)' <=> ReadAsClass(v)
  BY SameMembers, SameNames DEF ReadAsClass, HasMembers
<1>6. \A m, v, given : IsRead(m, v, given)' <=> IsRead(m, v, given)
  BY SameTree, SameReadings DEF IsRead
<1>7. \A v, given : ReadAsTemplate(v, given)' <=> ReadAsTemplate(v, given)
  BY <1>6, SameTree, SameReadings DEF ReadAsTemplate
<1> QED BY <1>2, <1>3, <1>4, <1>5, <1>7 DEF IsWalk

-----------------------------------------------------------------------------
(* The inductive invariant *)

\* The declaration the router is at has asked for the walk that goes on.
IsStarted(v) ==
    /\ at \in 1..Len(unit)
    /\ \/ /\ unit[at].kind = "class" /\ ~Templated(at)
          /\ v.by = "class" /\ v.root = at /\ v.allow = nonRuntime
       \/ /\ unit[at].kind \in {"alias", "registration"} /\ unit[at].target # NoTarget
          /\ v.by = TargetKind /\ v.root = Target /\ v.allow = TRUE
          /\ unit[at].kind = "alias" => (unit[at].tagged \/ nonRuntime) /\ v.filter = {}
          /\ unit[at].kind = "registration" => v.filter = unit[at].known

Paths == Seq(STRING) \cup {<<"int">>}
Flags == SUBSET {"template", "alias", "nested"}
Reports ==
    [kind : {"class", "enum", "trivial"}, name : Paths, members : Seq(Readings \cup Nat),
     owner : Paths, flags : Flags, runtime : BOOLEAN, by : Nat]

\* It was asked for.
WasAsked(f) ==
    \/ nonRuntime \/ unit[f.by].tagged \/ unit[f.by].kind = "registration"
    \/ \E d \in Below(f.by) : unit[d].tagged /\ f.name = Path(d)

\* A class that is not nested has its members, of every name the first.
HasOwn(f) ==
    unit[f.by].kind = "class" /\ f.name = Path(f.by) /\ Len(f.name) = 1 =>
        /\ AreMembers(f.members, f.by) /\ AreFirsts(f.members, f.by)
        /\ \A m \in MembersOf(f.by) : Named(f.members, m)

\* Its members say their types.
SaysMember(m, given) ==
    /\ SaysType(m.type, unit[m.decl].type, given)
    /\ \A p \in DOMAIN m.params :
          SameParameter(m.decl, unit[m.decl].params[p]) =>
              SaysType(m.params[p].type, unit[m.decl].params[p], given)
Given(d) == IF unit[d].kind = "registration" THEN Instantiated(d) ELSE <<>>
SaysTypes(f) ==
    f.kind = "class" => \A i \in 1..Len(f.members) : SaysMember(f.members[i], Given(f.by))

\* A registration of a type that is defined gets what it asks for.
Demands(d) ==
    /\ unit[d].kind = "registration" /\ unit[d].target # NoTarget
    /\ LET t == Definition(Canonical(unit[d].target)) IN t = Builtin \/ unit[t].complete
HasAsked(f, named) ==
    f.kind = "class" =>
        /\ NamesOf(DeclsOf(f.members)) \subseteq unit[f.by].known
        /\ Len(Path(named)) = 1 /\ (\A b \in Below(named) : unit[b].kind \notin Containers) =>
              NamesOf(DeclsOf(f.members)) = unit[f.by].known \cap NamesOf(ReadableOf(named, f.by))
MatchesDemand(f, named) ==
    /\ f.runtime /\ (unit[f.by].target # Builtin => f.name = Path(unit[f.by].target))
    /\ f.kind = "class" => f.owner = f.name
    /\ HasAsked(f, named)
AsDemanded(f) == Demands(f.by) => MatchesDemand(f, Definition(Canonical(unit[f.by].target)))

\* Its name and flags are those of a type of the unit, for a class or an enum of the
\* declaration itself or, where that is not wanted, of one in it; or they are an alias's.
ComesFrom(f, t) ==
    /\ unit[t].kind \in Definable /\ f.name = Path(t)
    /\ f.flags = Nested(t) \/ (unit[t].kind = "template" /\ f.flags = {"template"})
    /\ unit[t].kind = "template" => f.flags # {}
IsOwnReport(f) ==
    unit[f.by].kind \in {"class", "enum"} =>
        \E t \in 1..Len(unit) :
            /\ ComesFrom(f, t) /\ unit[t].complete
            /\ t = f.by \/ (t \in Below(f.by) /\ ~Wanted(f.by, nonRuntime))
HasOrigin(f) ==
    f.kind # "trivial" /\ f.name # <<>> =>
        \/ \E t \in 1..Len(unit) : ComesFrom(f, t)
        \/ \E d \in 1..Len(unit) :
              unit[d].kind = "alias" /\ f.name = Path(d) /\ "alias" \in f.flags

IsRight(f) ==
    WasAsked(f) /\ HasOwn(f) /\ SaysTypes(f) /\ AsDemanded(f) /\ IsOwnReport(f) /\ HasOrigin(f)

\* What a declaration leaves when its turn is over.
HadItsTurn(d) ==
    /\ AskedFor(d) => \E i \in 1..Len(found) : found[i].by = d /\ found[i].name = Path(d)
    /\ Demands(d) => \E i \in 1..Len(found) : found[i].by = d

FoundInv ==
    /\ found \in Seq(Reports)
    /\ \A i \in 1..Len(found) : found[i].by \in 1..(at - 1) /\ IsRight(found[i])
    /\ \A i, j \in 1..Len(found) : found[i].by = found[j].by => i = j
    /\ \A d \in 1..(at - 1) : HadItsTurn(d)

CollectorInv ==
    /\ IsUnit /\ at \in 1..(Len(unit) + 1)
    /\ inner = NoVisitor \/ (IsWalk(inner, Instantiated(at)) /\ IsStarted(inner))
    /\ FoundInv

-----------------------------------------------------------------------------
(* A walk that starts, and what the parameters of its template stand for *)

LEMMA StartsWalk ==
    ASSUME IsUnit, NEW root \in 1..Len(unit), NEW by \in Containers, unit[root].kind = by,
           NEW allow \in BOOLEAN, NEW filter \in SUBSET STRING,
           by = "template" => unit[root].complete, NEW given
    PROVE  IsWalk(Visitor(by, root, allow, filter), given)
<1>1. PICK v : v = Visitor(by, root, allow, filter) OBVIOUS
<1>2. Len(unit) \in Nat BY UnitTyped
<1>3. PICK e : e = End(root) OBVIOUS
<1>4. e \in root..Len(unit) BY <1>3, EndOf
<1>5. /\ v.by = by /\ v.root = root /\ v.at = root /\ v.allow = allow /\ v.filter = filter
      /\ v.taken = 0 /\ v.members = <<>>
  BY <1>1 DEF Visitor
<1>6. v \in Walks BY <1>1, <1>2 DEF Visitor, Walks
<1>7. v.at \in root..(e + 1) BY <1>2, <1>4, <1>5
<1>8. IsPlaced(v) BY <1>3, <1>5, <1>6, <1>7 DEF IsPlaced
<1>9. TakesRoot(v) BY <1>5 DEF TakesRoot
<1>10. NoRecordSince(v) /\ ReadAsClass(v) /\ ReadAsTemplate(v, given)
  BY <1>5 DEF NoRecordSince, ReadAsClass, ReadAsTemplate
<1> QED BY <1>1, <1>8, <1>9, <1>10 DEF IsWalk

\* The last of a chain of aliases.
ToAlias(i) == unit[i].target \in 1..(i - 1) /\ unit[unit[i].target].kind = "alias"
IsLast(l) == l = [i \in 0..Len(unit) |-> IF ToAlias(i) THEN l[unit[i].target] ELSE i]

LEMMA LastExists ==
    ASSUME IsUnit
    PROVE  \E l \in [0..Len(unit) -> 0..Len(unit)] : IsLast(l)
<1> DEFINE N == 0..Len(unit)
<1> DEFINE After(f, i) == IF ToAlias(i) THEN f[unit[i].target] ELSE i
<1> DEFINE step == [i \in N |-> [f \in [N -> N] |-> After(f, i)]]
<1>1. Len(unit) \in Nat BY UnitTyped
<1>2. \A i \in N : ToAlias(i) => unit[i].target \in N /\ unit[i].target \in 0..(i - 1)
  BY <1>1 DEF ToAlias
<1>3. ASSUME NEW i \in N, NEW f \in [N -> N] PROVE After(f, i) \in N
  <2>1. CASE ToAlias(i)
    <3>1. f[unit[i].target] \in N BY <1>2, <2>1
    <3> QED BY <2>1, <3>1
  <2> QED BY <2>1
<1>4. step \in [N -> [[N -> N] -> N]] BY <1>3
<1>5. ASSUME NEW i \in N, NEW f \in [N -> N], NEW g \in [N -> N],
             \A j \in 0..(i - 1) : f[j] = g[j]
      PROVE  step[i][f] = step[i][g]
  <2>1. step[i][f] = After(f, i) /\ step[i][g] = After(g, i) OBVIOUS
  <2> QED BY <1>2, <1>5, <2>1
<1>6. \A i \in N : \A f \in [N -> N] : step[i][f] = After(f, i) OBVIOUS
<1>7. PICK f \in [N -> N] : \A i \in N : f[i] = step[i][f]
  <2>1. \A i \in N : \A f, g \in [N -> N] :
            (\A j \in 0..(i - 1) : f[j] = g[j]) => step[i][f] = step[i][g]
    <3> HIDE DEF step
    <3> QED BY <1>5
  <2> HIDE DEF step
  <2>2. PICK n \in Nat : n = Len(unit) BY <1>1
  <2>3. PICK T : T = N OBVIOUS
  <2>4. IsRule(step, n, T)
    <3>1. IsRule(step, Len(unit), N) BY <1>4, <2>1 DEF IsRule
    <3> QED BY <2>2, <2>3, <3>1
  <2>5. T # {} BY <1>1, <2>3
  <2>6. \E f \in [0..n -> T] : \A i \in 0..n : f[i] = step[i][f] BY <2>4, <2>5, Recursion
  <2> QED BY <2>2, <2>3, <2>6
<1>8. f = [i \in N |-> After(f, i)]
  <2>1. f = [i \in N |-> f[i]] OBVIOUS
  <2> HIDE DEF step, After
  <2> QED BY <1>6, <1>7, <2>1
<1> QED BY <1>8 DEF IsLast

\* What an alias or registration names is written with arguments at the last alias
\* before it.
WritesArguments(w, t) ==
    w \in 1..Len(unit) /\ unit[w].kind \in {"alias", "registration"} /\ unit[w].target = t

LEMMA LastAlias ==
    ASSUME IsUnit, NEW d \in 1..Len(unit), unit[d].kind \in {"alias", "registration"},
           unit[d].target # NoTarget
    PROVE  \E w : /\ WritesArguments(w, Canonical(unit[d].target))
                  /\ Instantiated(d) = InstantiatedTypes(unit[Canonical(unit[d].target)].names,
                                                         unit[w].arguments)
<1> DEFINE l == CHOOSE q : IsLast(q)
<1>1. IsLast(l) BY LastExists
<1>2. Instantiated(d) = InstantiatedTypes(unit[unit[l[d]].target].names, unit[l[d]].arguments)
  BY DEF Instantiated, IsLast, ToAlias
<1> HIDE DEF l
<1>3. Len(unit) \in Nat BY UnitTyped
<1>4. \A i \in 1..Len(unit) : l[i] = IF ToAlias(i) THEN l[unit[i].target] ELSE i
  <2> DEFINE F(i) == IF ToAlias(i) THEN l[unit[i].target] ELSE i
  <2>1. l = [i \in 0..Len(unit) |-> F(i)] BY <1>1 DEF IsLast
  <2> HIDE DEF F
  <2>2. \A i \in 0..Len(unit) : l[i] = F(i) BY <2>1
  <2> QED BY <1>3, <2>2 DEF F
<1> DEFINE Names(i) == i \in 1..Len(unit) /\ unit[i].kind \in {"alias", "registration"}
                         /\ unit[i].target # NoTarget
<1> DEFINE Ends(i) == WritesArguments(l[i], Canonical(unit[i].target))
<1> DEFINE G == {k \in 0..Len(unit) : \A i \in 1..k : Names(i) => Ends(i)}
<1>5. 0 \in G BY <1>3
<1>6. ASSUME NEW k \in 0..(Len(unit) - 1), k \in G PROVE k + 1 \in G
  <2>1. k + 1 \in 1..Len(unit) /\ k + 1 \in 0..Len(unit) BY <1>3
  <2>2. PICK i : i = k + 1 OBVIOUS
  <2>3. ASSUME Names(i) PROVE Ends(i)
    <3>1. PICK t : t = unit[i].target OBVIOUS
    <3>2. /\ t \in 0..(i - 1)
          /\ t # 0 => t \in 1..(i - 1) /\ unit[t].kind \in TypeKinds
      BY <2>1, <2>2, <2>3, <3>1, TargetOf
    <3>3. CASE ToAlias(i)
      <4>1. t \in 1..k /\ t \in 1..Len(unit) /\ unit[t].kind = "alias"
        BY <2>1, <2>2, <3>1, <3>3 DEF ToAlias
      <4>2. Names(t)
        <5>1. unit[t].target # NoTarget BY <4>1, TargetOf DEF NoTarget
        <5> QED BY <4>1, <5>1
      <4>3. Ends(t)
        <5> HIDE DEF Names, Ends
        <5> QED BY <1>6, <4>1, <4>2
      <4>4. l[i] = l[t] BY <1>4, <2>1, <2>2, <3>1, <3>3
      <4>5. Canonical(t) = Canonical(unit[t].target) BY <4>1, CanonicalOf
      <4> QED BY <3>1, <4>3, <4>4, <4>5
    <3>4. CASE ~ToAlias(i)
      <4>1. l[i] = i BY <1>4, <2>1, <2>2, <3>4
      <4>2. Canonical(t) = t
        <5>1. CASE t = 0 BY <5>1, CanonicalOf
        <5>2. CASE t # 0
          <6>1. t \in 1..Len(unit) BY <2>1, <2>2, <3>2, <5>2
          <6>2. unit[t].kind # "alias" BY <3>1, <3>2, <3>4, <5>2 DEF ToAlias
          <6> QED BY <6>1, <6>2, CanonicalOf
        <5> QED BY <5>1, <5>2
      <4> QED BY <2>3, <3>1, <4>1, <4>2 DEF WritesArguments
    <3> QED BY <3>3, <3>4
  <2>4. \A j \in 1..(k + 1) : j \in 1..k \/ j = i BY <2>2
  <2> HIDE DEF Names, Ends
  <2> QED BY <1>6, <2>1, <2>3, <2>4
<1>7. \A k \in 0..Len(unit) : k \in G
  <2> HIDE DEF G
  <2> QED BY <1>3, <1>5, <1>6, NumberInduction
<1>8. Ends(d)
  <2>1. Len(unit) \in G BY <1>3, <1>7
  <2>2. Names(d) OBVIOUS
  <2> HIDE DEF Names, Ends
  <2> QED BY <2>1, <2>2
<1>9. unit[l[d]].target = Canonical(unit[d].target) BY <1>8 DEF WritesArguments
<1> QED BY <1>2, <1>8, <1>9

\* A parameter stands for a type without the name of a typedef; what is not a
\* template has none.
LEMMA GivenOf ==
    ASSUME IsUnit, NEW d \in 1..Len(unit), unit[d].kind \in {"alias", "registration"},
           unit[d].target # NoTarget, NEW t, t = Canonical(unit[d].target), t # 0
    PROVE  /\ \A n \in DOMAIN Instantiated(d) :
                 Instantiated(d)[n] \in Types /\ Instantiated(d)[n].alias = NoAlias
           /\ unit[t].kind # "template" => DOMAIN Instantiated(d) = {}
<1>1. PICK w : /\ WritesArguments(w, t)
               /\ Instantiated(d) = InstantiatedTypes(unit[t].names, unit[w].arguments)
  BY LastAlias
<1>2. PICK g : g = Instantiated(d) OBVIOUS
<1>3. PICK names, arguments : names = unit[t].names /\ arguments = unit[w].arguments OBVIOUS
<1>4. w \in 1..Len(unit) /\ unit[w].target = t BY <1>1 DEF WritesArguments
<1>5. t \in 1..(w - 1) /\ unit[t].kind \in TypeKinds /\ t \in 1..Len(unit) /\ Len(unit) \in Nat
  <2>1. unit[w].target \in 0..(w - 1) /\ unit[t].kind \in TypeKinds
    <3>1. unit[w].target # NoTarget
      <4>1. t \in 0..Len(unit)
        <5>1. unit[d].target \in 0..Len(unit)
              /\ (unit[d].target = 0 \/ unit[unit[d].target].kind \in TypeKinds)
          BY TargetOf, UnitTyped
        <5> QED BY <5>1, CanonicalIs, UnitTyped
      <4> QED BY <1>4, <4>1 DEF NoTarget
    <3> QED BY <1>1, <1>4, <3>1, TargetOf DEF WritesArguments
  <2> QED BY <1>4, <2>1, UnitTyped
<1>6. unit[t].kind # "alias"
  <2>1. unit[d].target \in 0..Len(unit)
        /\ (unit[d].target = 0 \/ unit[unit[d].target].kind \in TypeKinds)
    BY TargetOf, UnitTyped
  <2>2. unit[t].kind \in Containers \cup {"enum"} BY <2>1, CanonicalIs
  <2> QED BY <2>2 DEF Containers
<1>7. /\ arguments \in Seq(Types \cup {Value}) /\ Len(arguments) <= Len(names)
      /\ \A i \in DOMAIN arguments : arguments[i] # Value => arguments[i].alias = NoAlias
      /\ unit[t].kind # "template" => names = <<>>
  <2>1. IsLegal(unit, w) /\ IsLegal(unit, t) /\ arguments \in Seq(Types \cup {Value})
    BY <1>3, <1>4, <1>5, UnitTyped
  <2>2. /\ unit[w].kind \in {"alias", "registration"} /\ unit[w].target # Builtin
        /\ unit[w].target # NoTarget
    BY <1>1, <1>4, <1>5 DEF WritesArguments, Builtin, NoTarget
  <2>3. Len(arguments) <= Len(names) BY <1>3, <1>4, <1>6, <2>1, <2>2 DEF IsLegal
  <2>4. \A i \in DOMAIN arguments : arguments[i] # Value => arguments[i].alias = NoAlias
    BY <1>3, <2>1 DEF IsLegal
  <2>5. unit[t].kind # "template" => names = <<>> BY <1>3, <2>1 DEF IsLegal
  <2> QED BY <2>1, <2>3, <2>4, <2>5
<1> DEFINE S == {i \in DOMAIN arguments : IsType(arguments[i])}
<1>8. g = [n \in {names[i] : i \in S} |-> arguments[CHOOSE i \in S : names[i] = n]]
  <2>1. g = InstantiatedTypes(names, arguments) BY <1>1, <1>2, <1>3
  <2> QED BY <2>1, Zenon DEF InstantiatedTypes
<1>9. \A n \in DOMAIN g : \E i \in S : g[n] = arguments[i]
  <2> SUFFICES ASSUME NEW n \in DOMAIN g PROVE \E i \in S : g[n] = arguments[i] OBVIOUS
  <2>1. \E i \in S : names[i] = n BY <1>8
  <2>2. (CHOOSE i \in S : names[i] = n) \in S BY <2>1
  <2>3. g[n] = arguments[CHOOSE i \in S : names[i] = n] BY <1>8
  <2> QED BY <2>2, <2>3
<1>10. \A i \in S : arguments[i] \in Types /\ arguments[i].alias = NoAlias
  BY <1>7 DEF IsType
<1>11. unit[t].kind # "template" => DOMAIN g = {}
  <2> SUFFICES ASSUME unit[t].kind # "template" PROVE DOMAIN g = {} OBVIOUS
  <2>1. Len(names) = 0 BY <1>7
  <2>2. Len(arguments) \in Nat /\ DOMAIN arguments = 1..Len(arguments) BY <1>7
  <2>3. DOMAIN arguments = {} BY <1>7, <2>1, <2>2
  <2>4. S = {} BY <2>3
  <2> QED BY <1>8, <2>4
<1> QED BY <1>2, <1>9, <1>10, <1>11

-----------------------------------------------------------------------------
(* Members say their types. *)

LEMMA SaysFilled ==
    ASSUME NEW t \in Types, NEW given, t.kind = "parameter" => DOMAIN given = {}
    PROVE  SaysType(Fill(t), t, given)
<1>1. CASE t.kind # "parameter"
  <2>1. Substituted(t, given) = t BY <1>1 DEF Substituted
  <2>2. Restored(Fill(t)) = Desugared(t) BY FillSays
  <2> QED BY <2>1, <2>2 DEF SaysType
<1>2. CASE t.kind = "parameter"
  <2>1. ~Simple(t, given) BY <1>2 DEF Simple
  <2> QED BY <2>1 DEF SaysType
<1> QED BY <1>1, <1>2

LEMMA WrittenSays ==
    ASSUME IsUnit, NEW m \in 1..Len(unit), NEW given,
           ~DependentMember(m) \/ DOMAIN given = {}
    PROVE  SaysMember(AsWritten(m), given)
<1>1. unit[m].type \in Types /\ unit[m].params \in Seq(Types) BY UnitTyped
<1>2. PICK w : w = AsWritten(m) OBVIOUS
<1>3. /\ w.decl = m /\ w.type = Fill(unit[m].type) /\ DOMAIN w.params = DOMAIN unit[m].params
      /\ \A p \in DOMAIN unit[m].params : w.params[p].type = Fill(unit[m].params[p])
  BY <1>2 DEF AsWritten, Member, Argument
<1>4. \A t \in {unit[m].type} \cup Range(unit[m].params) :
          t \in Types /\ (t.kind = "parameter" => DOMAIN given = {})
  <2> SUFFICES ASSUME NEW t \in {unit[m].type} \cup Range(unit[m].params)
               PROVE  t \in Types /\ (t.kind = "parameter" => DOMAIN given = {})
    OBVIOUS
  <2>1. t \in Types BY <1>1 DEF Range
  <2>2. ~DependentMember(m) => t.kind # "parameter" BY DEF DependentMember, Dependent
  <2> QED BY <2>1, <2>2
<1>5. SaysType(w.type, unit[m].type, given)
  <2>1. PICK t : t = unit[m].type OBVIOUS
  <2>2. t \in Types /\ (t.kind = "parameter" => DOMAIN given = {}) BY <1>4, <2>1
  <2>3. SaysType(Fill(t), t, given) BY <2>2, SaysFilled
  <2> QED BY <1>3, <2>1, <2>3
<1>6. ASSUME NEW p \in DOMAIN w.params
      PROVE  SaysType(w.params[p].type, unit[m].params[p], given)
  <2>1. PICK t : t = unit[m].params[p] OBVIOUS
  <2>2. t \in Range(unit[m].params) BY <1>3, <2>1 DEF Range
  <2>3. t \in Types /\ (t.kind = "parameter" => DOMAIN given = {}) BY <1>4, <2>2
  <2>4. SaysType(Fill(t), t, given) BY <2>3, SaysFilled
  <2> QED BY <1>3, <2>1, <2>4
<1> QED BY <1>2, <1>3, <1>5, <1>6 DEF SaysMember

\* What a member is resolved to is what C++ replaces its parameter by; so for an
\* argument of the same parameter.
LEMMA ResolvesTo ==
    ASSUME NEW given, \A n \in DOMAIN given : given[n] \in Types /\ given[n].alias = NoAlias,
           NEW member \in Types, Resolvable(member, given),
           NEW t \in Types, t.kind = "parameter", t.name = member.name, Len(t.layers) <= 1
    PROVE  SaysType(Resolve(Fill(t), member, given), t, given)
<1>1. BehindPointer(member).name = member.name
  <2>1. CASE member.alias = NoAlias /\ Is(member, "pointer")
    <3>1. ~Plain(member) BY <2>1 DEF Is
    <3> QED BY <2>1, <3>1, PointeeOf DEF BehindPointer
  <2> QED BY <2>1 DEF BehindPointer
<1>2. member.name \in DOMAIN given BY <1>1 DEF Resolvable
<1>3. PICK a : a = given[t.name] OBVIOUS
<1>4. a \in Types /\ a.alias = NoAlias BY <1>2, <1>3
<1>5. SUFFICES ASSUME Simple(t, given)
               PROVE  Restored(Resolve(Fill(t), member, given)) = Desugared(Substituted(t, given))
  BY DEF SaysType
<1> QED BY <1>1, <1>3, <1>4, <1>5, ResolvedSays

LEMMA ResolvableIs ==
    ASSUME NEW t \in Types, NEW given, Resolvable(t, given)
    PROVE  t.kind = "parameter" /\ Len(t.layers) <= 1
<1>1. PICK b : b = BehindPointer(t) OBVIOUS
<1>2. Plain(b) /\ b.kind = "parameter" BY <1>1 DEF Resolvable
<1>3. CASE t.alias = NoAlias /\ Is(t, "pointer")
  <2>1. ~Plain(t) BY <1>3 DEF Is
  <2>2. b = Pointee(t) BY <1>1, <1>3 DEF BehindPointer
  <2>3. PICK l : l = t.layers[Len(t.layers)] OBVIOUS
  <2>4. b.kind = t.kind /\ Append(b.layers, l) = t.layers BY <2>1, <2>2, <2>3, PointeeOf
  <2>5. b.layers = <<>> BY <1>2 DEF Plain
  <2>6. Append(<<>>, l) = <<l>> /\ Len(<<l>>) = 1 OBVIOUS
  <2>7. Len(t.layers) = 1 BY <2>4, <2>5, <2>6
  <2> QED BY <1>2, <2>4, <2>7
<1>4. CASE ~(t.alias = NoAlias /\ Is(t, "pointer"))
  <2>1. b = t BY <1>1, <1>4 DEF BehindPointer
  <2>2. t.layers = <<>> /\ Len(<<>>) = 0 BY <1>2, <2>1 DEF Plain
  <2> QED BY <1>2, <2>1, <2>2
<1> QED BY <1>3, <1>4

LEMMA SpecializedSays ==
    ASSUME IsUnit, NEW m \in 1..Len(unit), NEW given, Readable(m, given),
           \A n \in DOMAIN given : given[n] \in Types /\ given[n].alias = NoAlias
    PROVE  SaysMember(Specialized(m, given), given)
<1>1. CASE ~DependentMember(m) BY <1>1, WrittenSays DEF Specialized
<1>2. CASE DependentMember(m)
  <2>1. unit[m].type \in Types /\ unit[m].params \in Seq(Types) BY UnitTyped
  <2>2. PICK s : s = Specialized(m, given) OBVIOUS
  <2>3. PICK r : r = unit[m].type OBVIOUS
  <2>4. r \in Types /\ Resolvable(r, given) BY <1>2, <2>1, <2>3 DEF Readable
  <2>5. s = Member(m, Resolve(Fill(r), r, given),
                   [i \in DOMAIN unit[m].params |-> ArgumentOf(m, unit[m].params[i], given)])
    BY <1>2, <2>2, <2>3 DEF Specialized
  <2>6. /\ s.decl = m /\ s.type = Resolve(Fill(r), r, given)
        /\ DOMAIN s.params = DOMAIN unit[m].params
        /\ \A p \in DOMAIN unit[m].params : s.params[p] = ArgumentOf(m, unit[m].params[p], given)
    BY <2>5 DEF Member
  <2>7. SaysType(s.type, r, given)
    <3>1. r.kind = "parameter" /\ Len(r.layers) <= 1 BY <2>4, ResolvableIs
    <3>2. SaysType(Resolve(Fill(r), r, given), r, given) BY <2>4, <3>1, ResolvesTo
    <3> QED BY <2>6, <3>2
  <2>8. ASSUME NEW p \in DOMAIN s.params, SameParameter(m, unit[m].params[p])
        PROVE  SaysType(s.params[p].type, unit[m].params[p], given)
    <3>1. PICK t : t = unit[m].params[p] OBVIOUS
    <3>2. t \in Types BY <2>1, <2>6, <3>1
    <3>3. s.params[p] = ArgumentOf(m, t, given) BY <2>6, <3>1
    <3>4. CASE Dependent(t)
      <4>1. t.kind = "parameter" /\ t.name = r.name /\ Len(t.layers) <= 1
        BY <2>3, <2>8, <3>1, <3>4 DEF SameParameter
      <4>2. SaysType(Resolve(Fill(t), r, given), t, given) BY <2>4, <3>2, <4>1, ResolvesTo
      <4>3. s.params[p].type = Resolve(Fill(t), r, given)
        BY <2>3, <3>3, <3>4 DEF ArgumentOf, Argument
      <4> QED BY <3>1, <4>2, <4>3
    <3>5. CASE ~Dependent(t)
      <4>1. t.kind # "parameter" BY <3>5 DEF Dependent
      <4>2. SaysType(Fill(t), t, given) BY <3>2, <4>1, SaysFilled
      <4>3. s.params[p].type = Fill(t) BY <3>3, <3>5 DEF ArgumentOf, Argument
      <4> QED BY <3>1, <4>2, <4>3
    <3> QED BY <3>4, <3>5
  <2> QED BY <2>2, <2>3, <2>6, <2>7, <2>8 DEF SaysMember
<1> QED BY <1>1, <1>2

\* The unit does not change: what is right stays right.
LEMMA SameRight ==
    ASSUME unit' = unit, nonRuntime' = nonRuntime
    PROVE  /\ \A f : IsRight(f)' <=> IsRight(f)
           /\ Reports' = Reports
           /\ \A d : /\ AskedFor(d)' <=> AskedFor(d)
                     /\ Demands(d)' <=> Demands(d)
<1>1. \A f : WasAsked(f)' <=> WasAsked(f) BY SameTree, SameNames DEF WasAsked
<1>2. \A f : HasOwn(f)' <=> HasOwn(f) BY SameMembers, SameNames DEF HasOwn
<1>3. \A d : Given(d)' = Given(d) BY SameNames DEF Given
<1>4. \A m, t : SameParameter(m, t)' <=> SameParameter(m, t) BY DEF SameParameter
<1>5. \A m, given : SaysMember(m, given)' <=> SaysMember(m, given) BY <1>4 DEF SaysMember
<1>6. \A f : SaysTypes(f)' <=> SaysTypes(f) BY <1>3, <1>5 DEF SaysTypes
<1>7. \A d : Demands(d)' <=> Demands(d) BY SameNames DEF Demands
<1>8. \A decls : NamesOf(decls)' = NamesOf(decls) BY DEF NamesOf
<1>9. \A class, d : ReadableOf(class, d)' = ReadableOf(class, d)
  BY SameNames, SameMembers, SameReadings DEF ReadableOf
<1>19. \A f, named : HasAsked(f, named)' <=> HasAsked(f, named)
  BY <1>8, <1>9, SameTree, SameNames DEF HasAsked
<1>10. \A f, named : MatchesDemand(f, named)' <=> MatchesDemand(f, named)
  BY <1>19, SameNames DEF MatchesDemand
<1>11. \A f : AsDemanded(f)' <=> AsDemanded(f) BY <1>7, <1>10, SameNames DEF AsDemanded
<1>15. \A d : Nested(d)' = Nested(d) BY SameNames DEF Nested
<1>16. \A f, t : ComesFrom(f, t)' <=> ComesFrom(f, t) BY <1>15, SameNames DEF ComesFrom
<1>17. \A f : IsOwnReport(f)' <=> IsOwnReport(f)
  BY <1>16, SameTree, SameMembers DEF IsOwnReport
<1>18. \A f : HasOrigin(f)' <=> HasOrigin(f) BY <1>16, SameNames DEF HasOrigin
<1>12. \A f : IsRight(f)' <=> IsRight(f)
  BY <1>1, <1>2, <1>6, <1>11, <1>17, <1>18 DEF IsRight
<1>13. Reports' = Reports BY SameReadings DEF Reports
<1>14. \A d : AskedFor(d)' <=> AskedFor(d) BY SameNames, SameMembers DEF AskedFor
<1> QED BY <1>7, <1>12, <1>13, <1>14

-----------------------------------------------------------------------------
(* What the router adds to the types it has found *)

\* A declaration whose turn ends adds one type or none.
IsAnswer(types) ==
    /\ types = <<>> \/ \E f \in Reports : types = <<f>> /\ f.by = at /\ IsRight(f)
    /\ AskedFor(at) => \E f : types = <<f>> /\ f.name = Path(at)
    /\ Demands(at) => \E f : types = <<f>>

LEMMA Reported ==
    ASSUME CollectorInv, at \in 1..Len(unit), unit' = unit, nonRuntime' = nonRuntime,
           NEW types, Report(types), IsAnswer(types)
    PROVE  CollectorInv'
<1>1. /\ at' = at + 1 /\ inner' = NoVisitor /\ at \in Nat /\ Len(unit) \in Nat
  BY UnitTyped DEF Report, NextDecl, CollectorInv
<1>2. PICK g : g = found' OBVIOUS
<1>3. g = found \o types BY <1>2 DEF Report
<1>4. /\ found \in Seq(Reports) /\ Len(found) \in Nat
      /\ \A i \in 1..Len(found) : found[i].by \in 1..(at - 1) /\ IsRight(found[i])
      /\ \A i, j \in 1..Len(found) : found[i].by = found[j].by => i = j
      /\ \A d \in 1..(at - 1) : HadItsTurn(d)
  BY DEF CollectorInv, FoundInv
<1> DEFINE Turned(d) ==
      /\ AskedFor(d) => \E i \in 1..Len(g) : g[i].by = d /\ g[i].name = Path(d)
      /\ Demands(d) => \E i \in 1..Len(g) : g[i].by = d
<1>5. /\ g \in Seq(Reports)
      /\ \A i \in 1..Len(g) : g[i].by \in 1..at /\ IsRight(g[i])
      /\ \A i, j \in 1..Len(g) : g[i].by = g[j].by => i = j
      /\ \A d \in 1..at : Turned(d)
  <2>1. CASE types = <<>>
    <3>1. g = found BY <1>3, <1>4, <2>1
    <3>2. ~AskedFor(at) /\ ~Demands(at) BY <2>1 DEF IsAnswer
    <3>3. \A d \in 1..at : d \in 1..(at - 1) \/ d = at BY <1>1
    <3>4. \A d \in 1..(at - 1) : Turned(d) BY <1>4, <3>1 DEF HadItsTurn
    <3>5. \A d \in 1..at : Turned(d) BY <3>2, <3>3, <3>4
    <3>6. \A i \in 1..Len(g) : g[i].by \in 1..at BY <1>1, <1>4, <3>1
    <3> QED BY <1>4, <3>1, <3>5, <3>6
  <2>2. CASE types # <<>>
    <3>1. PICK f \in Reports : types = <<f>> /\ f.by = at /\ IsRight(f) BY <2>2 DEF IsAnswer
    <3>2. PICK n : n = Len(found) OBVIOUS
    <3>3. /\ g \in Seq(Reports) /\ Len(g) = n + 1 /\ g[n + 1] = f
          /\ \A i \in 1..n : g[i] = found[i]
      BY <1>3, <1>4, <3>1, <3>2
    <3>4. \A i \in 1..(n + 1) : i \in 1..n \/ i = n + 1 BY <1>4, <3>2
    <3>5. \A i \in 1..n : g[i].by \in 1..(at - 1) /\ g[i].by # at /\ g[i].by \in 1..at
      BY <1>1, <1>4, <3>2, <3>3
    <3>6. \A i \in 1..Len(g) : g[i].by \in 1..at /\ IsRight(g[i])
      BY <1>1, <1>4, <3>1, <3>2, <3>3, <3>4, <3>5
    <3>7. \A i, j \in 1..Len(g) : g[i].by = g[j].by => i = j
      <4> SUFFICES ASSUME NEW i \in 1..Len(g), NEW j \in 1..Len(g), g[i].by = g[j].by PROVE i = j
        OBVIOUS
      <4>1. CASE i \in 1..n /\ j \in 1..n BY <1>4, <3>2, <3>3, <4>1
      <4>2. CASE i = n + 1 \/ j = n + 1 BY <3>1, <3>3, <3>4, <3>5, <4>2
      <4> QED BY <3>3, <3>4, <4>1, <4>2
    <3>8. ASSUME NEW d \in 1..at PROVE Turned(d)
      <4>1. 1..n \subseteq 1..Len(g) /\ n + 1 \in 1..Len(g) BY <1>4, <3>2, <3>3
      <4>2. CASE d \in 1..(at - 1)
        <5>1. HadItsTurn(d) BY <1>4, <4>2
        <5> QED BY <3>2, <3>3, <4>1, <5>1 DEF HadItsTurn
      <4>3. CASE d = at
        <5>1. AskedFor(at) => f.name = Path(at)
          <6>1. \A h : <<f>> = <<h>> => f = h OBVIOUS
          <6> QED BY <3>1, <6>1 DEF IsAnswer
        <5> QED BY <3>1, <3>3, <4>1, <4>3, <5>1
      <4> QED BY <1>1, <4>2, <4>3
    <3> QED BY <3>3, <3>6, <3>7, <3>8
  <2> QED BY <2>1, <2>2
<1>6. FoundInv'
  <2>1. at' - 1 = at BY <1>1
  <2>2. \A d : Path(d)' = Path(d) BY SameNames
  <2>3. \A d \in 1..at : HadItsTurn(d)'
    BY <1>2, <1>5, <2>2, SameRight DEF HadItsTurn
  <2>4. \A i \in 1..Len(g) : IsRight(g[i])' BY <1>5, SameRight
  <2>5. Reports' = Reports BY SameRight
  <2> HIDE DEF Turned
  <2> QED BY <1>2, <1>5, <2>1, <2>3, <2>4, <2>5 DEF FoundInv
<1>7. IsUnit' BY DEF IsUnit, CollectorInv
<1>8. at' \in 1..(Len(unit') + 1) BY <1>1
<1> QED BY <1>1, <1>6, <1>7, <1>8 DEF CollectorInv

\* A declaration that asks for nothing adds nothing.
LEMMA NoAnswer ==
    ASSUME ~AskedFor(at), ~Demands(at)
    PROVE  IsAnswer(<<>>)
BY DEF IsAnswer

\* An enum that no registration asks for.
LEMMA EnumIsRight ==
    ASSUME IsUnit, at \in 1..Len(unit), NEW f, f.by = at, f.kind = "enum",
           unit[at].kind \notin {"class", "registration"}, nonRuntime \/ unit[at].tagged,
           IsOwnReport(f), HasOrigin(f)
    PROVE  IsRight(f)
<1>1. WasAsked(f) BY DEF WasAsked
<1>2. HasOwn(f) BY DEF HasOwn
<1>3. SaysTypes(f) BY DEF SaysTypes
<1>4. AsDemanded(f) BY DEF AsDemanded, Demands
<1> QED BY <1>1, <1>2, <1>3, <1>4 DEF IsRight

LEMMA FlagsTyped ==
    ASSUME NEW d, NEW v
    PROVE  /\ Nested(d) \in Flags /\ Nested(d) \cup FromAlias \in Flags
           /\ FlagsOf(v) \in Flags /\ FlagsOf(v) \cup FromAlias \in Flags
BY DEF FlagsOf, FromAlias, Nested, Flags

LEMMA PathTyped ==
    ASSUME IsUnit, NEW d \in 1..Len(unit)
    PROVE  Path(d) \in Paths
BY PathOf DEF Paths

LEMMA PathsTyped == <<>> \in Paths /\ <<"int">> \in Paths
<1>1. <<>> \in Seq(STRING) OBVIOUS
<1> QED BY <1>1, Zenon DEF Paths

\* A type that an alias adds says which alias it is of.
LEMMA AliasOrigin ==
    ASSUME IsUnit, at \in 1..Len(unit), unit[at].kind = "alias", NEW f, f.by = at,
           f.name = Path(at), "alias" \in f.flags
    PROVE  IsOwnReport(f) /\ HasOrigin(f)
BY DEF IsOwnReport, HasOrigin

\* An enum, with its constants, by its own name or by that of an alias.
LEMMA EnumReport ==
    ASSUME IsUnit, at \in 1..Len(unit), NEW e \in 1..Len(unit)
    PROVE  /\ Enum(e) \in Reports /\ Enum(e).by = at /\ Enum(e).kind = "enum"
           /\ Enum(e).name = Path(e) /\ Enum(e).flags = Nested(e)
           /\ EnumOfAlias(e) \in Reports /\ EnumOfAlias(e).by = at /\ EnumOfAlias(e).kind = "enum"
           /\ EnumOfAlias(e).name = Path(at) /\ "alias" \in EnumOfAlias(e).flags
<1>1. PICK members : members = Constants(e) OBVIOUS
<1>2. members \in Seq(Readings \cup Nat)
  <2>1. PICK S : S = {c \in Below(e) : unit[c].kind = "constant"} OBVIOUS
  <2>2. S \in SUBSET (1..Len(unit)) BY <2>1, EndOf
  <2>3. InOrder(S) \in Seq(S) BY <2>2, ListedInOrder
  <2>4. members = InOrder(S) BY <1>1, <2>1 DEF Constants
  <2>5. S \subseteq Readings \cup Nat BY <2>2, UnitTyped
  <2> QED BY <2>3, <2>4, <2>5
<1>3. PICK own, flags, more : own = Path(e) /\ flags = Nested(e) /\ more = flags \cup FromAlias OBVIOUS
<1>4. PICK name : name = Path(at) OBVIOUS
<1>5. own \in Paths /\ name \in Paths /\ <<>> \in Paths /\ flags \in Flags /\ more \in Flags
  <2>1. \A d \in 1..Len(unit) : Path(d) \in Paths BY PathTyped
  <2>2. flags \in Flags /\ more \in Flags BY <1>3, FlagsTyped
  <2> QED BY <1>3, <1>4, <2>1, <2>2, PathsTyped
<1>6. at \in Nat /\ unit[e].tagged \in BOOLEAN /\ unit[at].tagged \in BOOLEAN BY UnitTyped
<1>7. PICK f : f = Enum(e) OBVIOUS
<1>8. f = [kind |-> "enum", name |-> own, members |-> members, owner |-> <<>>, flags |-> flags,
           runtime |-> unit[e].tagged, by |-> at]
  BY <1>1, <1>3, <1>7 DEF Enum, Found
<1>9. f \in Reports BY <1>2, <1>5, <1>6, <1>8 DEF Reports
<1>10. PICK g : g = EnumOfAlias(e) OBVIOUS
<1>11. g = [kind |-> "enum", name |-> name, members |-> members, owner |-> <<>>, flags |-> more,
            runtime |-> unit[at].tagged, by |-> at]
  BY <1>1, <1>3, <1>4, <1>10 DEF EnumOfAlias, Found
<1>12. g \in Reports BY <1>2, <1>5, <1>6, <1>11 DEF Reports
<1>13. "alias" \in more BY <1>3 DEF FromAlias
<1> QED BY <1>3, <1>4, <1>7, <1>8, <1>9, <1>10, <1>11, <1>12, <1>13

\* Nothing but a type and its name.
LEMMA BareReport ==
    ASSUME IsUnit, at \in 1..Len(unit), NEW kind \in {"class", "trivial"}, NEW name \in Paths,
           NEW runtime \in BOOLEAN, NEW f, f = Found(kind, name, <<>>, <<>>, {}, runtime)
    PROVE  /\ f \in Reports /\ f.by = at /\ f.kind = kind /\ f.name = name /\ f.owner = <<>>
           /\ f.members = <<>> /\ f.flags = {} /\ f.runtime = runtime
<1>1. <<>> \in Paths /\ at \in Nat /\ <<>> \in Seq(Readings \cup Nat) /\ {} \in Flags
  BY UnitTyped DEF Paths, Flags
<1> QED BY <1>1 DEF Reports, Found

-----------------------------------------------------------------------------
(* What the aliases and the tag make of a registered type *)

\* What a registration that names no type to register at once leaves to the end.
IsRegistration == unit[at].kind = "registration" /\ unit[at].target # NoTarget

IsNaming(g, f) ==
    g = [i \in 0..Len(unit) |->
            IF i # Builtin /\ unit[i].kind = "alias" THEN RenamedBy(i, g[unit[i].target]) ELSE f]

LEMMA RenamedTyped ==
    ASSUME IsUnit, NEW i \in 1..Len(unit), NEW f \in Reports
    PROVE  /\ RenamedBy(i, f) \in Reports
           /\ RenamedBy(i, f).kind = f.kind /\ RenamedBy(i, f).members = f.members
           /\ RenamedBy(i, f).by = f.by /\ RenamedBy(i, f).runtime = f.runtime
           /\ RenamedBy(i, f).name = Path(i) /\ "alias" \in RenamedBy(i, f).flags
           /\ f.kind = "class" /\ f.owner = f.name => RenamedBy(i, f).owner = Path(i)
<1>1. PICK name : name = Path(i) OBVIOUS
<1>2. name \in Paths BY <1>1, PathTyped
<1>3. PICK flags : flags = f.flags \cup {"alias"} OBVIOUS
<1>4. flags \in Flags /\ "alias" \in flags BY <1>3 DEF Reports, Flags
<1>5. PICK owner : owner = IF f.kind = "class" /\ f.owner = f.name THEN name ELSE f.owner OBVIOUS
<1>6. owner \in Paths BY <1>2, <1>5 DEF Reports
<1>7. PICK g : g = RenamedBy(i, f) OBVIOUS
<1>8. g = [f EXCEPT !.name = name, !.flags = flags, !.owner = owner]
  BY <1>1, <1>3, <1>5, <1>7 DEF RenamedBy, FromAlias, Reports
<1>9. /\ g \in Reports /\ g.kind = f.kind /\ g.members = f.members /\ g.by = f.by
      /\ g.runtime = f.runtime /\ g.name = name /\ g.flags = flags /\ g.owner = owner
  BY <1>2, <1>4, <1>6, <1>8 DEF Reports
<1> QED BY <1>1, <1>4, <1>5, <1>7, <1>9

LEMMA NamingExists ==
    ASSUME IsUnit, NEW report \in Reports
    PROVE  \E g \in [0..Len(unit) -> Reports] : IsNaming(g, report)
<1> DEFINE N == 0..Len(unit)
<1> DEFINE After(f, i) ==
        IF i # Builtin /\ unit[i].kind = "alias" THEN RenamedBy(i, f[unit[i].target]) ELSE report
<1> DEFINE step == [i \in N |-> [f \in [N -> Reports] |-> After(f, i)]]
<1>1. Len(unit) \in Nat BY UnitTyped
<1>2. \A i \in N : i # Builtin /\ unit[i].kind = "alias" =>
                        /\ i \in 1..Len(unit)
                        /\ unit[i].target \in N /\ unit[i].target \in 0..(i - 1)
  BY <1>1, TargetOf DEF Builtin
<1>3. ASSUME NEW i \in N, NEW f \in [N -> Reports] PROVE After(f, i) \in Reports
  <2>1. CASE i # Builtin /\ unit[i].kind = "alias"
    <3>1. PICK before : before = f[unit[i].target] OBVIOUS
    <3>2. before \in Reports BY <1>2, <2>1, <3>1
    <3>3. RenamedBy(i, before) \in Reports BY <1>2, <2>1, <3>2, RenamedTyped
    <3> QED BY <2>1, <3>1, <3>3
  <2> QED BY <2>1
<1>4. step \in [N -> [[N -> Reports] -> Reports]] BY <1>3
<1>5. ASSUME NEW i \in N, NEW f \in [N -> Reports], NEW g \in [N -> Reports],
             \A j \in 0..(i - 1) : f[j] = g[j]
      PROVE  step[i][f] = step[i][g]
  <2>1. step[i][f] = After(f, i) /\ step[i][g] = After(g, i) OBVIOUS
  <2> QED BY <1>2, <1>5, <2>1
<1>6. \A i \in N : \A f \in [N -> Reports] : step[i][f] = After(f, i) OBVIOUS
<1>7. PICK f \in [N -> Reports] : \A i \in N : f[i] = step[i][f]
  <2>1. \A i \in N : \A f, g \in [N -> Reports] :
            (\A j \in 0..(i - 1) : f[j] = g[j]) => step[i][f] = step[i][g]
    <3> HIDE DEF step
    <3> QED BY <1>5
  <2> HIDE DEF step
  <2>2. PICK n \in Nat : n = Len(unit) BY <1>1
  <2>3. PICK T : T = Reports OBVIOUS
  <2>4. IsRule(step, n, T)
    <3>1. IsRule(step, Len(unit), Reports) BY <1>4, <2>1 DEF IsRule
    <3> QED BY <2>2, <2>3, <3>1
  <2>5. T # {} BY <2>3
  <2>6. \E f \in [0..n -> T] : \A i \in 0..n : f[i] = step[i][f] BY <2>4, <2>5, Recursion
  <2> QED BY <2>2, <2>3, <2>6
<1>8. f = [i \in N |-> After(f, i)]
  <2>1. f = [i \in N |-> f[i]] OBVIOUS
  <2> HIDE DEF step, After
  <2> QED BY <1>6, <1>7, <2>1
<1> QED BY <1>8 DEF IsNaming

\* The name, the owner of the functions and the flag are those of the alias the type
\* was registered with; without one the type stays as it was read.
IsNamed(h, f, t) ==
    /\ h \in Reports /\ h.kind = f.kind /\ h.members = f.members /\ h.by = f.by
    /\ h.runtime = f.runtime
    /\ f.kind = "class" /\ f.owner = f.name => h.owner = h.name
    /\ IF t # 0 /\ unit[t].kind = "alias" THEN h.name = Path(t) /\ "alias" \in h.flags ELSE h = f

LEMMA NamedByAllOf ==
    ASSUME IsUnit, at \in 1..Len(unit), IsRegistration, NEW f \in Reports
    PROVE  IsNamed(NamedByAll(f), f, unit[at].target)
<1> DEFINE g == CHOOSE q : IsNaming(q, f)
<1>1. IsNaming(g, f) BY NamingExists
<1>2. NamedByAll(f) = g[unit[at].target] BY DEF NamedByAll, IsNaming
<1> HIDE DEF g
<1>3. Len(unit) \in Nat BY UnitTyped
<1>4. \A i \in 0..Len(unit) :
          g[i] = IF i # Builtin /\ unit[i].kind = "alias" THEN RenamedBy(i, g[unit[i].target]) ELSE f
  <2> DEFINE F(i) == IF i # Builtin /\ unit[i].kind = "alias" THEN RenamedBy(i, g[unit[i].target])
                     ELSE f
  <2>1. g = [i \in 0..Len(unit) |-> F(i)] BY <1>1 DEF IsNaming
  <2> HIDE DEF F
  <2>2. \A i \in 0..Len(unit) : g[i] = F(i) BY <2>1
  <2> QED BY <2>2 DEF F
<1> DEFINE G == {k \in 0..Len(unit) : \A t \in 0..k : IsNamed(g[t], f, t)}
<1>5. 0 \in G
  <2>1. g[0] = f BY <1>3, <1>4 DEF Builtin
  <2>2. IsNamed(g[0], f, 0) BY <2>1 DEF IsNamed
  <2>3. \A t \in 0..0 : t = 0 OBVIOUS
  <2> QED BY <1>3, <2>2, <2>3
<1>6. ASSUME NEW k \in 0..(Len(unit) - 1), k \in G PROVE k + 1 \in G
  <2>1. PICK i : i = k + 1 OBVIOUS
  <2>2. i \in 1..Len(unit) /\ i \in 0..Len(unit) /\ i # 0 /\ i - 1 = k BY <1>3, <2>1
  <2>3. IsNamed(g[i], f, i)
    <3>1. CASE unit[i].kind = "alias"
      <4>1. PICK before : before = g[unit[i].target] OBVIOUS
      <4>2. unit[i].target \in 0..k BY <2>2, <3>1, TargetOf
      <4>3. /\ before \in Reports /\ before.kind = f.kind /\ before.members = f.members
            /\ before.by = f.by /\ before.runtime = f.runtime
            /\ f.kind = "class" /\ f.owner = f.name => before.owner = before.name
        BY <1>6, <4>1, <4>2 DEF IsNamed
      <4>4. g[i] = RenamedBy(i, before) BY <1>4, <2>2, <3>1, <4>1 DEF Builtin
      <4>5. PICK h : h = RenamedBy(i, before) OBVIOUS
      <4>6. /\ h \in Reports /\ h.kind = before.kind /\ h.members = before.members
            /\ h.by = before.by /\ h.runtime = before.runtime /\ h.name = Path(i)
            /\ "alias" \in h.flags
            /\ before.kind = "class" /\ before.owner = before.name => h.owner = Path(i)
        BY <2>2, <4>3, <4>5, RenamedTyped
      <4>7. IsNamed(h, f, i) BY <2>2, <3>1, <4>3, <4>6 DEF IsNamed
      <4> QED BY <4>4, <4>5, <4>7
    <3>2. CASE unit[i].kind # "alias"
      <4>1. g[i] = f BY <1>4, <2>2, <3>2
      <4> QED BY <3>2, <4>1 DEF IsNamed
    <3> QED BY <3>1, <3>2
  <2>4. \A t \in 0..(k + 1) : t \in 0..k \/ t = k + 1 OBVIOUS
  <2> QED BY <1>6, <2>1, <2>2, <2>3, <2>4
<1>7. \A k \in 0..Len(unit) : k \in G
  <2> HIDE DEF G
  <2> QED BY <1>3, <1>5, <1>6, NumberInduction
<1>8. unit[at].target \in 0..Len(unit) BY <1>3, TargetOf DEF IsRegistration
<1>9. IsNamed(g[unit[at].target], f, unit[at].target) BY <1>7, <1>8
<1> QED BY <1>2, <1>9

\* The index of the next type is that of the type that is added, and so is the end
\* of the list: the names and the tag go to it and to no other.
AsRegistered(f) == [NamedByAll(f) EXCEPT !.runtime = TRUE]
LEMMA RegistersOne ==
    ASSUME found \in Seq(Reports), NEW f \in Reports, NamedByAll(f) \in Reports, Register(f)
    PROVE  Report(<<AsRegistered(f)>>)
<1>1. PICK n : n = Len(found) OBVIOUS
<1>2. PICK types : types = Append(found, f) OBVIOUS
<1>3. /\ n \in Nat /\ types \in Seq(Reports) /\ Len(types) = n + 1 /\ types[n + 1] = f
      /\ \A i \in 1..n : types[i] = found[i]
  BY <1>1, <1>2
<1>4. PICK h : h = NamedByAll(f) OBVIOUS
<1>5. PICK named : named = WithNames(types) OBVIOUS
<1>6. named = [types EXCEPT ![n + 1] = h] BY <1>1, <1>3, <1>4, <1>5 DEF WithNames, NextType
<1>7. /\ named \in Seq(Reports) /\ Len(named) = n + 1 /\ named[n + 1] = h
      /\ \A i \in 1..n : named[i] = found[i]
  BY <1>3, <1>4, <1>6
<1>8. PICK r : r = AsRegistered(f) OBVIOUS
<1>9. r = [h EXCEPT !.runtime = TRUE] /\ r \in Reports BY <1>4, <1>8 DEF AsRegistered, Reports
<1>10. PICK all : all = WithTag(named) OBVIOUS
<1>11. all = [named EXCEPT ![n + 1] = r]
  BY <1>7, <1>9, <1>10 DEF WithTag
<1>12. /\ all \in Seq(Reports) /\ Len(all) = n + 1 /\ all[n + 1] = r
       /\ \A i \in 1..n : all[i] = found[i]
  BY <1>3, <1>7, <1>9, <1>11
<1>13. PICK one : one = found \o <<r>> OBVIOUS
<1>14. /\ one \in Seq(Reports) /\ Len(one) = n + 1 /\ one[n + 1] = r
       /\ \A i \in 1..n : one[i] = found[i]
  BY <1>1, <1>9, <1>13
<1>15. all = one
  <2>1. all = [i \in 1..(n + 1) |-> all[i]] /\ one = [i \in 1..(n + 1) |-> one[i]] BY <1>12, <1>14
  <2>2. \A i \in 1..(n + 1) : i \in 1..n \/ i = n + 1 BY <1>3
  <2>3. \A i \in 1..(n + 1) : all[i] = one[i] BY <1>12, <1>14, <2>2
  <2> QED BY <2>1, <2>3
<1>16. found' = all /\ at' = NextDecl /\ inner' = NoVisitor BY <1>2, <1>5, <1>10 DEF Register
<1> QED BY <1>8, <1>13, <1>15, <1>16 DEF Report

\* What a registration has read: a builtin type, one without a name, or what its
\* target is, with the members that were asked for.
IsReadFor(f) ==
    /\ f \in Reports /\ f.by = at /\ SaysTypes(f)
    /\ \/ f.kind = "trivial" /\ TargetKind = "builtin"
       \/ f.kind = "class" /\ f.name = <<>> /\ ~Demands(at)
       \/ /\ f.kind # "trivial" /\ Target \in 1..Len(unit) /\ ComesFrom(f, Target)
          /\ f.kind = "class" => f.owner = f.name
          /\ HasAsked(f, Target)

LEMMA RegisteredRight ==
    ASSUME IsUnit, at \in 1..Len(unit), IsRegistration, NEW f, IsReadFor(f)
    PROVE  /\ NamedByAll(f) \in Reports /\ AsRegistered(f) \in Reports
           /\ AsRegistered(f).by = at /\ IsRight(AsRegistered(f))
<1>1. PICK t : t = unit[at].target OBVIOUS
<1>2. PICK h : h = NamedByAll(f) OBVIOUS
<1>3. /\ h \in Reports /\ h.kind = f.kind /\ h.members = f.members /\ h.by = at
      /\ f.kind = "class" /\ f.owner = f.name => h.owner = h.name
      /\ IF t # 0 /\ unit[t].kind = "alias" THEN h.name = Path(t) /\ "alias" \in h.flags ELSE h = f
  BY <1>1, <1>2, NamedByAllOf DEF IsReadFor, IsNamed
<1>4. PICK r : r = AsRegistered(f) OBVIOUS
<1>5. r = [h EXCEPT !.runtime = TRUE] BY <1>2, <1>4 DEF AsRegistered
<1>6. /\ r \in Reports /\ r.kind = h.kind /\ r.members = h.members /\ r.by = h.by
      /\ r.owner = h.owner /\ r.name = h.name /\ r.flags = h.flags /\ r.runtime = TRUE
  BY <1>3, <1>5 DEF Reports
<1>7. unit[at].kind = "registration" BY DEF IsRegistration
<1>8. WasAsked(r) /\ HasOwn(r) /\ IsOwnReport(r)
  BY <1>3, <1>6, <1>7 DEF WasAsked, HasOwn, IsOwnReport
<1>9. SaysTypes(r) BY <1>3, <1>6 DEF IsReadFor, SaysTypes
<1>10. t \in 0..Len(unit) /\ (t # 0 => t \in 1..Len(unit) /\ unit[t].kind \in TypeKinds)
  BY <1>1, TargetOf, UnitTyped DEF IsRegistration
\* The type itself, where no alias is named.
<1>11. ASSUME t # 0, unit[t].kind # "alias" PROVE Target \in 1..Len(unit) /\ Path(Target) = Path(t)
  <2>1. Canonical(t) = t BY <1>10, <1>11, CanonicalOf
  <2> QED BY <1>1, <1>10, <1>11, <2>1, DefinitionOf DEF Target
<1>12. t = 0 => Target = 0 BY <1>1, CanonicalOf DEF Target, Definition, Builtin
<1>13. HasOrigin(r)
  <2>1. CASE t # 0 /\ unit[t].kind = "alias" BY <1>3, <1>6, <1>10, <2>1 DEF HasOrigin
  <2>2. CASE ~(t # 0 /\ unit[t].kind = "alias")
    <3>1. h = f BY <1>3, <2>2
    <3>2. f.kind = "trivial" \/ f.name = <<>> \/ (Target \in 1..Len(unit) /\ ComesFrom(f, Target))
      BY DEF IsReadFor
    <3>3. ComesFrom(f, Target) => ComesFrom(r, Target) BY <1>6, <3>1 DEF ComesFrom
    <3> QED BY <1>6, <3>1, <3>2, <3>3 DEF HasOrigin
  <2> QED BY <2>1, <2>2
<1>14. AsDemanded(r)
  <2> SUFFICES ASSUME Demands(at) PROVE MatchesDemand(r, Target)
    BY <1>3, <1>6 DEF AsDemanded, Target
  <2>1. CASE f.kind = "trivial" /\ TargetKind = "builtin"
    <3>1. Target = 0
      <4>1. TargetKind \notin Containers \cup {"enum"} BY <2>1 DEF Containers
      <4> QED BY <1>7, <4>1, TargetKindOf DEF IsRegistration
    <3>2. t # 0 => unit[t].kind = "alias" BY <1>11, <3>1
    <3>3. t # Builtin => r.name = Path(t) BY <1>3, <1>6, <3>2 DEF Builtin
    <3>4. HasAsked(r, Target) BY <1>3, <1>6, <2>1 DEF HasAsked
    <3> QED BY <1>1, <1>3, <1>6, <2>1, <3>3, <3>4 DEF MatchesDemand
  <2>2. CASE /\ f.kind # "trivial" /\ Target \in 1..Len(unit) /\ ComesFrom(f, Target)
             /\ f.kind = "class" => f.owner = f.name
             /\ HasAsked(f, Target)
    <3>1. r.name = Path(t)
      <4>1. CASE unit[t].kind = "alias" BY <1>3, <1>6, <1>10, <1>12, <2>2, <4>1
      <4>2. CASE unit[t].kind # "alias"
        <5>1. t # 0 BY <1>12, <2>2
        <5>2. h = f /\ Path(Target) = Path(t) BY <1>3, <1>11, <4>2, <5>1
        <5> QED BY <1>6, <2>2, <5>2 DEF ComesFrom
      <4> QED BY <4>1, <4>2
    <3>2. r.kind = "class" => r.owner = r.name BY <1>3, <1>6, <2>2
    <3>3. HasAsked(r, Target)
      <4>1. r.kind = f.kind /\ r.members = f.members /\ r.by = f.by BY <1>3, <1>6 DEF IsReadFor
      <4> QED BY <2>2, <4>1 DEF HasAsked
    <3> QED BY <1>1, <1>3, <1>6, <3>1, <3>2, <3>3 DEF MatchesDemand
  <2> QED BY <2>1, <2>2 DEF IsReadFor
<1> QED BY <1>2, <1>3, <1>4, <1>6, <1>8, <1>9, <1>13, <1>14 DEF IsRight

\* A registration adds the type that it has read.
LEMMA RegisterKeeps ==
    ASSUME CollectorInv, at \in 1..Len(unit), unit' = unit, nonRuntime' = nonRuntime,
           IsRegistration, NEW f, IsReadFor(f), Register(f)
    PROVE  CollectorInv'
<1>1. IsUnit /\ found \in Seq(Reports) BY DEF CollectorInv, FoundInv
<1>2. PICK r : r = AsRegistered(f) OBVIOUS
<1>3. r \in Reports /\ r.by = at /\ IsRight(r) /\ NamedByAll(f) \in Reports /\ f \in Reports
  BY <1>1, <1>2, RegisteredRight DEF IsReadFor
<1>4. PICK types : types = <<r>> OBVIOUS
<1>5. Report(types) BY <1>1, <1>2, <1>3, <1>4, RegistersOne
<1>6. ~AskedFor(at) BY DEF AskedFor, IsRegistration
<1>7. IsAnswer(types) BY <1>3, <1>4, <1>6 DEF IsAnswer
<1> QED BY <1>5, <1>7, Reported

-----------------------------------------------------------------------------
(* The type a walk ends with *)

LEMMA FinishedWalk ==
    ASSUME IsUnit, NEW v, NEW given, IsWalk(v, given), v.taken # 0
    PROVE  /\ v.root \in 1..Len(unit) /\ v.by \in Containers
           /\ v.taken = v.root \/ v.taken \in Below(v.root)
           /\ v.taken \in 1..Len(unit)
           /\ v.members \in Seq(Readings) /\ v.members \in Seq(Readings \cup Nat)
           /\ v.by = "class" => HasMembers(v.members, v.taken) /\ Wanted(v.taken, v.allow)
           /\ v.by = "template" => v.taken = v.root
<1>1. v \in Walks /\ v.root \in 1..Len(unit) /\ Len(unit) \in Nat /\ v.members \in Seq(Readings)
      /\ v.by \in Containers
  BY UnitTyped DEF IsWalk, IsPlaced, Walks
<1>2. PICK e : e = End(v.root) OBVIOUS
<1>3. e \in v.root..Len(unit) /\ e \in Nat BY <1>1, <1>2, EndOf
<1>4. v.taken \in v.root..e /\ v.taken < v.at BY <1>2 DEF IsWalk, IsPlaced
<1>5. v.taken \in 1..Len(unit) BY <1>1, <1>3, <1>4
<1>6. v.taken = v.root \/ v.taken \in (v.root + 1)..e BY <1>1, <1>3, <1>4
<1>7. v.by = "class" => HasMembers(v.members, v.taken) /\ Wanted(v.taken, v.allow)
  BY DEF IsWalk, IsPlaced, ReadAsClass
<1>8. v.by = "template" => v.taken = v.root
  <2>1. v.at \in Nat BY <1>1 DEF Walks
  <2>2. v.root < v.at BY <1>1, <1>3, <1>4, <2>1
  <2> QED BY <2>2 DEF IsWalk, TakesRoot
<1>9. v.members \in Seq(Readings \cup Nat) BY <1>1
<1> QED BY <1>1, <1>2, <1>5, <1>6, <1>7, <1>8, <1>9 DEF Below

\* A walk that is through has taken a root that is wanted.
LEMMA TakesWanted ==
    ASSUME IsUnit, NEW v, NEW given, IsWalk(v, given), v.at > End(v.root),
           v.by = "class" => Wanted(v.root, v.allow)
    PROVE  v.taken = v.root /\ v.taken # 0
<1>1. v \in Walks /\ v.root \in 1..Len(unit) /\ Len(unit) \in Nat
  BY UnitTyped DEF IsWalk, IsPlaced, Walks
<1>2. PICK e : e = End(v.root) OBVIOUS
<1>3. e \in v.root..Len(unit) BY <1>1, <1>2, EndOf
<1>4. v.at > e /\ v.at \in Nat BY <1>1, <1>2 DEF Walks
<1>5. v.root < v.at /\ v.root # 0 BY <1>1, <1>3, <1>4
<1> QED BY <1>5 DEF IsWalk, TakesRoot

\* Members as they are written say their types where no parameter is replaced.
LEMMA OwnSayTypes ==
    ASSUME IsUnit, NEW class \in 1..Len(unit), NEW members, AreMembers(members, class),
           NEW given, DOMAIN given = {}
    PROVE  \A i \in 1..Len(members) : SaysMember(members[i], given)
<1> SUFFICES ASSUME NEW i \in 1..Len(members) PROVE SaysMember(members[i], given) OBVIOUS
<1>1. PICK m : m = members[i].decl OBVIOUS
<1>2. m \in MembersOf(class) /\ members[i] = AsWritten(m) BY <1>1 DEF AreMembers
<1>3. m \in 1..Len(unit) BY <1>2, EndOf DEF MembersOf
<1> QED BY <1>2, <1>3, WrittenSays

LEMMA ClassReport ==
    ASSUME IsUnit, unit[at].kind = "class", NEW v, IsWalk(v, Instantiated(at)), IsStarted(v),
           v.taken # 0, NEW f, f = TypeOf(v)
    PROVE  f \in Reports /\ f.by = at /\ IsRight(f) /\ f.name = Path(v.taken)
<1>1. at \in 1..Len(unit) /\ v.by = "class" /\ v.root = at /\ v.allow = nonRuntime
  BY DEF IsStarted
<1>2. PICK t : t = v.taken OBVIOUS
<1>3. /\ t \in 1..Len(unit) /\ (t = at \/ t \in Below(at))
      /\ v.members \in Seq(Readings \cup Nat) /\ HasMembers(v.members, t) /\ Wanted(t, nonRuntime)
  BY <1>1, <1>2, FinishedWalk
<1>4. f = Found("class", Path(t), v.members, Path(t), Nested(t), unit[t].tagged)
  BY <1>1, <1>2 DEF TypeOf, FlagsOf
<1>5. /\ f.kind = "class" /\ f.name = Path(t) /\ f.members = v.members /\ f.by = at
      /\ f.owner = Path(t) /\ f.flags = Nested(t)
  BY <1>4 DEF Found
<1>6. f \in Reports
  <2>1. PICK name, flags, runtime :
            name = Path(t) /\ flags = Nested(t) /\ runtime = unit[t].tagged
    OBVIOUS
  <2>2. name \in Paths /\ flags \in Flags BY <1>3, <2>1, PathTyped, FlagsTyped
  <2>3. at \in Nat /\ runtime \in BOOLEAN BY <1>1, <1>3, <2>1, UnitTyped
  <2> QED BY <1>3, <1>4, <2>1, <2>2, <2>3 DEF Found, Reports
<1>7. WasAsked(f) BY <1>3, <1>5 DEF WasAsked, Wanted
<1>8. HasOwn(f)
  <2> SUFFICES ASSUME Path(t) = Path(at), Len(Path(at)) = 1
               PROVE  /\ AreMembers(v.members, at) /\ AreFirsts(v.members, at)
                      /\ \A m \in MembersOf(at) : Named(v.members, m)
    BY <1>5 DEF HasOwn
  <2>1. t = at
    <3>1. t \in Below(at) => Len(Path(at)) < Len(Path(t)) BY <1>1, LongerBelow
    <3>2. PICK n : n = Len(Path(at)) OBVIOUS
    <3> QED BY <1>3, <3>1, <3>2
  <2>2. \A m \in MembersOf(at) : IsIn(m, at) /\ unit[m].complete BY DEF MembersOf, IsIn
  <2> QED BY <1>3, <2>1, <2>2 DEF HasMembers
<1>9. SaysTypes(f)
  <2>1. Given(at) = <<>> BY DEF Given
  <2>2. PICK given : given = Given(at) OBVIOUS
  <2>3. DOMAIN given = {} BY <2>1, <2>2
  <2>4. \A i \in 1..Len(v.members) : SaysMember(v.members[i], given)
    BY <1>3, <2>3, OwnSayTypes DEF HasMembers
  <2> QED BY <1>5, <2>2, <2>4 DEF SaysTypes
<1>10. AsDemanded(f) BY <1>5 DEF AsDemanded, Demands
<1>11. ComesFrom(f, t)
  <2>1. unit[t].kind \in Containers BY <1>2 DEF IsWalk, IsPlaced
  <2>2. ASSUME unit[t].kind = "template" PROVE Nested(t) # {}
    <3>1. Len(Path(at)) < Len(Path(t)) BY <1>1, <1>3, <2>2, LongerBelow
    <3>2. PICK n, m : n = Len(Path(at)) /\ m = Len(Path(t)) OBVIOUS
    <3>3. n \in Nat \ {0} /\ m \in Nat BY <1>1, <1>3, <3>2, AtTop
    <3>4. Len(Path(t)) > 1 BY <3>1, <3>2, <3>3
    <3> QED BY <3>4 DEF Nested
  <2> QED BY <1>5, <2>1, <2>2 DEF ComesFrom, Definable
<1>12. t = at \/ (t \in Below(at) /\ ~Wanted(at, nonRuntime))
  <2>1. Wanted(at, nonRuntime) => t = at
    <3>1. v.at \in Nat /\ t \in v.root..End(v.root) /\ t < v.at
      BY <1>2, <1>3, UnitTyped DEF IsWalk, IsPlaced, Walks
    <3>2. at < v.at /\ End(v.root) \in Nat BY <1>1, <3>1, EndOf, UnitTyped
    <3> QED BY <1>1, <1>2, <3>2 DEF IsWalk, TakesRoot
  <2> QED BY <1>3, <2>1
<1>13. IsOwnReport(f) BY <1>3, <1>5, <1>11, <1>12 DEF IsOwnReport, Wanted
<1>14. HasOrigin(f) BY <1>3, <1>11 DEF HasOrigin
<1> QED BY <1>2, <1>5, <1>6, <1>7, <1>8, <1>9, <1>10, <1>13, <1>14 DEF IsRight

LEMMA AliasReport ==
    ASSUME IsUnit, unit[at].kind = "alias", NEW v, IsWalk(v, Instantiated(at)), IsStarted(v),
           v.taken # 0, NEW f, f = TypeOf(v)
    PROVE  f \in Reports /\ f.by = at /\ IsRight(f)
<1>1. at \in 1..Len(unit) /\ v.filter = {} /\ (unit[at].tagged \/ nonRuntime) BY DEF IsStarted
<1>2. PICK t : t = v.taken OBVIOUS
<1>3. /\ t \in 1..Len(unit) /\ v.members \in Seq(Readings \cup Nat) /\ v.by \in Containers
      /\ v.by = "class" => HasMembers(v.members, t)
  BY <1>2, FinishedWalk
<1>4. f = Found("class", Path(at), v.members, Path(t), FlagsOf(v) \cup FromAlias,
                unit[at].tagged)
  BY <1>2 DEF TypeOf
<1>5. /\ f.kind = "class" /\ f.members = v.members /\ f.by = at /\ f.name = Path(at)
      /\ "alias" \in f.flags
  BY <1>4 DEF Found, FromAlias
<1>6. f \in Reports
  <2>1. PICK name, owner, flags, runtime :
            /\ name = Path(at) /\ owner = Path(t) /\ flags = FlagsOf(v) \cup FromAlias
            /\ runtime = unit[at].tagged
    OBVIOUS
  <2>2. name \in Paths /\ owner \in Paths /\ flags \in Flags
    BY <1>1, <1>3, <2>1, PathTyped, FlagsTyped
  <2>3. at \in Nat /\ runtime \in BOOLEAN BY <1>1, <2>1, UnitTyped
  <2> QED BY <1>3, <1>4, <2>1, <2>2, <2>3 DEF Found, Reports
<1>7. WasAsked(f) BY <1>1, <1>5 DEF WasAsked
<1>8. HasOwn(f) BY <1>5 DEF HasOwn
<1>9. SaysTypes(f)
  <2>1. Given(at) = <<>> BY DEF Given
  <2>2. PICK given : given = Given(at) OBVIOUS
  <2>3. DOMAIN given = {} BY <2>1, <2>2
  <2>4. \A i \in 1..Len(v.members) : SaysMember(v.members[i], given)
    <3>1. CASE v.by = "class" BY <1>3, <2>3, <3>1, OwnSayTypes DEF HasMembers
    <3>2. CASE v.by = "template"
      <4>1. ASSUME NEW i \in 1..Len(v.members) PROVE FALSE
        <5>1. \E m : IsRead(m, v, Instantiated(at)) BY <3>2 DEF IsWalk, ReadAsTemplate
        <5> QED BY <1>1, <5>1 DEF IsRead
      <4> QED BY <4>1
    <3> QED BY <1>3, <3>1, <3>2 DEF Containers
  <2> QED BY <1>5, <2>2, <2>4 DEF SaysTypes
<1>10. AsDemanded(f) BY <1>5 DEF AsDemanded, Demands
<1>11. IsOwnReport(f) /\ HasOrigin(f) BY <1>1, <1>5, AliasOrigin
<1> QED BY <1>5, <1>6, <1>7, <1>8, <1>9, <1>10, <1>11 DEF IsRight

\* What is left of the members of a registered type.
IsFiltered(k, members, known) ==
    /\ k \in Seq(Readings)
    /\ \A i \in 1..Len(k) : \E j \in 1..Len(members) :
          k[i] = members[j] /\ unit[k[i].decl].name \in known
    /\ \A j \in 1..Len(members) : unit[members[j].decl].name \in known =>
          \E i \in 1..Len(k) : k[i] = members[j]
LEMMA FilteredOf ==
    ASSUME NEW members \in Seq(Readings), NEW known
    PROVE  IsFiltered(Filtered(members, known), members, known)
<1>0. PICK k : k = Filtered(members, known) OBVIOUS
<1>1. PICK wanted : wanted = {m \in Range(members) : unit[m.decl].name \in known} OBVIOUS
<1>2. k = Kept(members, wanted) BY <1>0, <1>1 DEF Filtered
<1>3. PICK T : T = Readings OBVIOUS
<1>4. members \in Seq(T) BY <1>3
<1>5. k \in Seq(T \cap wanted) BY <1>2, <1>4, KeptTyped
<1>6. \A i \in 1..Len(k) : k[i] \in wanted /\ k[i] \in T BY <1>5
<1>7. \A x \in wanted : unit[x.decl].name \in known /\ \E j \in 1..Len(members) : x = members[j]
  BY <1>1, <1>4 DEF Range
<1>8. \A j \in 1..Len(members) : unit[members[j].decl].name \in known => members[j] \in wanted
  BY <1>1, <1>4 DEF Range
<1>9. \A j \in 1..Len(members) : members[j] \in wanted => \E i \in 1..Len(k) : k[i] = members[j]
  <2>1. \A j \in 1..Len(members) : members[j] \in wanted =>
            \E i \in 1..Len(Kept(members, wanted)) : Kept(members, wanted)[i] = members[j]
    BY <1>4, KeptHasAll
  <2> QED BY <1>2, <2>1
<1>10. k \in Seq(Readings) BY <1>3, <1>5
<1> QED BY <1>0, <1>6, <1>7, <1>8, <1>9, <1>10 DEF IsFiltered

LEMMA RegistrationReport ==
    ASSUME IsUnit, unit[at].kind = "registration", NEW v, IsWalk(v, Instantiated(at)),
           IsStarted(v), v.taken # 0, v.at > End(v.root), NEW f, f = TypeOf(v)
    PROVE  IsReadFor(f)
<1>1. /\ at \in 1..Len(unit) /\ v.filter = unit[at].known /\ v.root = Target /\ v.by = TargetKind
      /\ unit[at].target # NoTarget /\ v.allow = TRUE
  BY DEF IsStarted
<1>2. PICK t, given, known : t = v.taken /\ given = Instantiated(at) /\ known = unit[at].known
  OBVIOUS
<1>3. PICK r : r = v.root OBVIOUS
<1>4. /\ t \in 1..Len(unit) /\ (t = r \/ t \in Below(r)) /\ v.by \in Containers
      /\ v.members \in Seq(Readings) /\ r \in 1..Len(unit)
      /\ v.by = "class" => HasMembers(v.members, t)
      /\ v.by = "template" => t = r
  BY <1>2, <1>3, FinishedWalk
<1>5. PICK c : c = Canonical(unit[at].target) OBVIOUS
<1>6. c \in 1..Len(unit) /\ unit[c].kind = v.by /\ unit[r].kind = v.by
  BY <1>1, <1>3, <1>4, <1>5, TargetKindOf DEF Containers
<1>7. /\ \A n \in DOMAIN given : given[n] \in Types /\ given[n].alias = NoAlias
      /\ v.by = "class" => DOMAIN given = {}
  <2>1. c # 0 BY <1>6
  <2> QED BY <1>1, <1>2, <1>5, <1>6, <2>1, GivenOf
<1>8. t = r
  <2>1. CASE unit[r].complete
    <3>1. Wanted(v.root, v.allow) BY <1>1, <1>3, <2>1 DEF Wanted
    <3> QED BY <1>2, <1>3, <3>1, TakesWanted
  <2>2. CASE ~unit[r].complete
    <3>1. unit[t].kind \in Definable BY <1>2 DEF IsWalk, IsPlaced, Definable
    <3> QED BY <1>4, <2>2, <3>1, EmptyBelow
  <2> QED BY <2>1, <2>2
<1>9. PICK k : k = Filtered(v.members, known) OBVIOUS
<1>10. /\ k \in Seq(Readings)
       /\ \A i \in 1..Len(k) : \E j \in 1..Len(v.members) :
             k[i] = v.members[j] /\ unit[k[i].decl].name \in known
       /\ \A j \in 1..Len(v.members) : unit[v.members[j].decl].name \in known =>
             \E i \in 1..Len(k) : k[i] = v.members[j]
  <2>1. IsFiltered(Filtered(v.members, known), v.members, known) BY <1>4, FilteredOf
  <2> QED BY <1>9, <2>1 DEF IsFiltered
<1>11. f = Found("class", Path(r), k, Path(r), FlagsOf(v), unit[r].tagged)
  BY <1>2, <1>8, <1>9 DEF TypeOf
<1>12. /\ f.kind = "class" /\ f.name = Path(r) /\ f.owner = f.name /\ f.members = k
       /\ f.by = at /\ f.flags = FlagsOf(v)
  BY <1>11 DEF Found
<1>13. f \in Reports
  <2>1. PICK name, flags, runtime :
            name = Path(r) /\ flags = FlagsOf(v) /\ runtime = unit[r].tagged
    OBVIOUS
  <2>2. name \in Paths /\ flags \in Flags BY <1>4, <2>1, PathTyped, FlagsTyped
  <2>3. at \in Nat /\ k \in Seq(Readings \cup Nat) /\ runtime \in BOOLEAN
    BY <1>1, <1>4, <1>10, <2>1, UnitTyped
  <2> QED BY <1>11, <2>1, <2>2, <2>3 DEF Found, Reports
<1>14. ComesFrom(f, r)
  <2>1. unit[r].kind \in Definable BY <1>4, <1>6 DEF Definable
  <2>2. CASE v.by = "class"
    <3>1. f.flags = Nested(r) BY <1>2, <1>8, <1>12, <2>2 DEF FlagsOf
    <3> QED BY <1>6, <1>12, <2>1, <2>2, <3>1 DEF ComesFrom
  <2>3. CASE v.by = "template"
    <3>1. f.flags = {"template"} BY <1>12, <2>3 DEF FlagsOf
    <3>2. f.flags # {} BY <3>1
    <3> QED BY <1>6, <1>12, <2>1, <2>3, <3>1, <3>2 DEF ComesFrom
  <2> QED BY <1>4, <2>2, <2>3 DEF Containers
<1>15. \A j \in 1..Len(v.members) : SaysMember(v.members[j], given)
  <2>1. CASE v.by = "class" BY <1>4, <1>7, <2>1, OwnSayTypes DEF HasMembers
  <2>2. CASE v.by = "template"
    <3> SUFFICES ASSUME NEW j \in 1..Len(v.members) PROVE SaysMember(v.members[j], given) OBVIOUS
    <3>1. PICK m \in 1..Len(unit) : IsRead(m, v, given) /\ v.members[j] = Specialized(m, given)
      BY <1>2, <2>2 DEF IsWalk, ReadAsTemplate
    <3>2. Readable(m, given) BY <3>1 DEF IsRead
    <3> QED BY <1>7, <3>1, <3>2, SpecializedSays
  <2> QED BY <1>4, <2>1, <2>2 DEF Containers
<1>16. SaysTypes(f)
  <2>1. Given(at) = given BY <1>2 DEF Given
  <2>2. \A i \in 1..Len(k) : SaysMember(k[i], given) BY <1>10, <1>15
  <2> QED BY <1>12, <2>1, <2>2 DEF SaysTypes
<1>17. HasAsked(f, r)
  <2>2. NamesOf(DeclsOf(k)) \subseteq known
    <3>1. DeclsOf(k) = {k[i].decl : i \in 1..Len(k)} BY <1>10 DEF DeclsOf
    <3> QED BY <1>10, <3>1 DEF NamesOf
  <2>3. ASSUME Len(Path(r)) = 1, \A b \in Below(r) : unit[b].kind \notin Containers
        PROVE  NamesOf(DeclsOf(k)) = known \cap NamesOf(ReadableOf(r, at))
    <3>1. t = r BY <1>8
    <3>2. \A j \in 1..Len(v.members) : v.members[j].decl \in ReadableOf(r, at)
      <4> SUFFICES ASSUME NEW j \in 1..Len(v.members)
                   PROVE  v.members[j].decl \in ReadableOf(r, at)
        OBVIOUS
      <4>1. CASE v.by = "class"
        <5>1. v.members[j].decl \in MembersOf(r) BY <1>4, <3>1, <4>1 DEF HasMembers, AreMembers
        <5>2. unit[r].kind # "template" BY <1>6, <4>1
        <5> QED BY <5>1, <5>2 DEF ReadableOf
      <4>2. CASE v.by = "template"
        <5>1. PICK m \in 1..Len(unit) :
                  IsRead(m, v, given) /\ v.members[j] = Specialized(m, given)
          BY <1>2, <4>2 DEF IsWalk, ReadAsTemplate
        <5>2. v.members[j].decl = m BY <5>1, DeclOfReading
        <5>3. m \in Below(r) /\ IsMember(m) /\ Readable(m, given) BY <1>3, <5>1 DEF IsRead
        <5>4. Up(m) = r
          <6>1. Up(m) = r \/ Up(m) \in Below(r) BY <1>4, <5>3, UpBelow
          <6>2. unit[Up(m)].kind \in Containers BY <5>3, ParentOfMember
          <6> QED BY <2>3, <6>1, <6>2
        <5>5. m \in MembersOf(r) BY <1>6, <4>2, <5>3, <5>4 DEF MembersOf
        <5> QED BY <1>2, <5>2, <5>3, <5>5 DEF ReadableOf
      <4> QED BY <1>4, <4>1, <4>2 DEF Containers
    <3>3. \A m \in ReadableOf(r, at) : unit[m].name \in known =>
              \E j \in 1..Len(v.members) : unit[v.members[j].decl].name = unit[m].name
      <4> SUFFICES ASSUME NEW m \in ReadableOf(r, at), unit[m].name \in known
                   PROVE  \E j \in 1..Len(v.members) :
                              unit[v.members[j].decl].name = unit[m].name
        OBVIOUS
      <4>1. m \in MembersOf(r) /\ (unit[r].kind = "template" => Readable(m, given))
        BY <1>2 DEF ReadableOf
      <4>2. IsIn(m, r) /\ (unit[r].kind = "class" => unit[m].complete)
        BY <4>1 DEF MembersOf, IsIn
      <4>3. CASE v.by = "class"
        <5>1. Named(v.members, m) BY <1>4, <1>6, <2>3, <3>1, <4>2, <4>3 DEF HasMembers
        <5>2. DOMAIN v.members = 1..Len(v.members) BY <1>4
        <5> QED BY <5>1, <5>2 DEF Named
      <4>4. CASE v.by = "template"
        <5>1. m \in Below(r) /\ IsMember(m) /\ Readable(m, given) BY <1>6, <4>1, <4>2, <4>4 DEF IsIn
        <5>2. IsRead(m, v, given) BY <1>1, <1>2, <1>3, <5>1 DEF IsRead
        <5>3. m \in 1..Len(unit) BY <1>4, <5>1, EndOf
        <5>4. m < v.at
          <6>1. PICK e : e = End(r) OBVIOUS
          <6>2. e \in r..Len(unit) /\ m \in (r + 1)..e BY <1>4, <5>1, <6>1, EndOf DEF Below
          <6>3. v.at > e BY <1>3, <6>1
          <6>4. v.at \in Nat BY DEF IsWalk, IsPlaced, Walks
          <6> QED BY <1>4, <6>2, <6>3, <6>4, UnitTyped
        <5>5. \A b \in Below(v.root) : unit[b].kind \notin Containers BY <1>3, <2>3
        <5>6. \E i \in 1..Len(v.members) : v.members[i].decl = m
          BY <1>2, <4>4, <5>2, <5>3, <5>4, <5>5 DEF IsWalk, ReadAsTemplate
        <5> QED BY <5>6
      <4> QED BY <1>4, <4>3, <4>4 DEF Containers
    <3>4. DeclsOf(k) = {k[i].decl : i \in 1..Len(k)} BY <1>10 DEF DeclsOf
    <3>5. ASSUME NEW n \in NamesOf(DeclsOf(k)) PROVE n \in known \cap NamesOf(ReadableOf(r, at))
      <4>1. PICK i \in 1..Len(k) : n = unit[k[i].decl].name BY <3>4, <3>5 DEF NamesOf
      <4>2. PICK j \in 1..Len(v.members) : k[i] = v.members[j] /\ unit[k[i].decl].name \in known
        BY <1>10
      <4>3. k[i].decl \in ReadableOf(r, at) BY <3>2, <4>2
      <4> QED BY <4>1, <4>2, <4>3 DEF NamesOf
    <3>6. ASSUME NEW n \in known \cap NamesOf(ReadableOf(r, at)) PROVE n \in NamesOf(DeclsOf(k))
      <4>1. PICK m \in ReadableOf(r, at) : n = unit[m].name BY <3>6 DEF NamesOf
      <4>2. PICK j \in 1..Len(v.members) : unit[v.members[j].decl].name = n BY <3>3, <4>1
      <4>3. PICK i \in 1..Len(k) : k[i] = v.members[j] BY <1>10, <4>2
      <4>4. k[i].decl \in DeclsOf(k) BY <3>4
      <4>5. n = unit[k[i].decl].name BY <4>2, <4>3
      <4> QED BY <4>4, <4>5 DEF NamesOf
    <3> QED BY <3>5, <3>6
  <2>4. f.by = at /\ f.members = k /\ known = unit[at].known BY <1>2, <1>12
  <2> QED BY <2>2, <2>3, <2>4 DEF HasAsked
<1> QED BY <1>1, <1>3, <1>4, <1>12, <1>13, <1>14, <1>16, <1>17 DEF IsReadFor

LEMMA NamelessReport ==
    ASSUME IsUnit, unit[at].kind = "registration", NEW v, IsWalk(v, Instantiated(at)),
           IsStarted(v), v.taken = 0, v.at > End(v.root), NEW f, f = Nameless
    PROVE  IsReadFor(f)
<1>1. at \in 1..Len(unit) /\ v.root = Target /\ v.allow = TRUE BY DEF IsStarted
<1>2. /\ f \in Reports /\ f.by = at /\ f.kind = "class" /\ f.name = <<>> /\ f.members = <<>>
  <2>1. PICK kind \in {"class", "trivial"}, name \in Paths, runtime \in BOOLEAN :
            kind = "class" /\ name = <<>> /\ runtime = FALSE
    BY PathsTyped
  <2>2. f = Found(kind, name, <<>>, <<>>, {}, runtime) BY <2>1 DEF Nameless
  <2> QED BY <1>1, <2>1, <2>2, BareReport
<1>3. SaysTypes(f)
  <2>1. Len(f.members) = 0 BY <1>2
  <2> QED BY <2>1 DEF SaysTypes
<1>4. ~Demands(at)
  <2> SUFFICES ASSUME Demands(at) PROVE FALSE OBVIOUS
  <2>1. v.root # 0 BY DEF IsWalk, IsPlaced, Walks
  <2>2. unit[v.root].complete BY <1>1, <2>1 DEF Demands, Target, Builtin
  <2>3. Wanted(v.root, v.allow) BY <1>1, <2>2 DEF Wanted
  <2> QED BY <2>3, TakesWanted
<1> QED BY <1>2, <1>3, <1>4 DEF IsReadFor

-----------------------------------------------------------------------------
(* Every step keeps the invariant. *)

LEMMA SameStart ==
    ASSUME unit' = unit, nonRuntime' = nonRuntime, at' = at
    PROVE  \A v : IsStarted(v)' <=> IsStarted(v)
<1>1. Target' = Target BY SameNames DEF Target
<1>2. TargetKind' = TargetKind BY <1>1 DEF TargetKind
<1> QED BY <1>1, <1>2, SameNames DEF IsStarted

LEMMA SameFound ==
    ASSUME unit' = unit, nonRuntime' = nonRuntime, at' = at, found' = found, FoundInv
    PROVE  FoundInv'
<1>1. \A d : HadItsTurn(d)' <=> HadItsTurn(d) BY SameRight, SameNames DEF HadItsTurn
<1>2. \A i : IsRight(found[i])' <=> IsRight(found[i]) BY SameRight
<1>3. Reports' = Reports BY SameRight
<1> QED BY <1>1, <1>2, <1>3 DEF FoundInv

\* A walk that starts or goes on.
LEMMA OnItsWay ==
    ASSUME CollectorInv, unit' = unit, nonRuntime' = nonRuntime, at' = at, found' = found,
           NEW v, inner' = v, IsWalk(v, Instantiated(at)), IsStarted(v)
    PROVE  CollectorInv'
<1>1. FoundInv' BY SameFound DEF CollectorInv
<1>2. IsStarted(v)' BY SameStart
<1>3. PICK given : given = Instantiated(at) OBVIOUS
<1>4. IsWalk(v, given)' BY <1>3, SameWalk
<1>5. Instantiated(at)' = given BY <1>3, SameNames
<1>6. IsWalk(inner, Instantiated(at))' BY <1>4, <1>5
<1>7. IsStarted(inner)' BY <1>2
<1> QED BY <1>1, <1>6, <1>7 DEF CollectorInv, IsUnit

\* The visitor that is at work, if any.
LEMMA VisitorAtWork ==
    ASSUME CollectorInv
    PROVE  /\ inner.by = "none" => inner = NoVisitor
           /\ inner.by # "none" => /\ IsWalk(inner, Instantiated(at)) /\ IsStarted(inner)
                                   /\ at \in 1..Len(unit)
<1>1. CASE inner = NoVisitor BY <1>1 DEF NoVisitor
<1>2. CASE IsWalk(inner, Instantiated(at)) /\ IsStarted(inner)
  <2>1. inner.by \in {"class", "template"} BY <1>2 DEF IsWalk, IsPlaced, Walks, Containers
  <2> QED BY <1>2, <2>1 DEF IsStarted
<1> QED BY <1>1, <1>2 DEF CollectorInv

LEMMA RouterAt ==
    ASSUME CollectorInv, NEW kind, AtKind(kind)
    PROVE  at \in 1..Len(unit) /\ unit[at].kind = kind /\ inner = NoVisitor
BY VisitorAtWork, UnitTyped DEF AtKind, CollectorInv

LEMMA VisitKeeps ==
    ASSUME CollectorInv, Visit
    PROVE  CollectorInv'
<1>1. /\ inner.at <= End(inner.root) /\ inner' = Visited(inner) /\ unit' = unit
      /\ nonRuntime' = nonRuntime /\ at' = at /\ found' = found
  BY DEF Visit
<1>2. IsWalk(inner, Instantiated(at)) /\ IsStarted(inner) /\ at \in 1..Len(unit) /\ IsUnit
  BY VisitorAtWork DEF Visit, CollectorInv
<1>3. PICK v : v = inner OBVIOUS
<1>4. PICK w : w = Visited(v) OBVIOUS
<1>5. IsWalk(w, Instantiated(at)) BY <1>1, <1>2, <1>3, <1>4, VisitedWalk
<1>6. w.by = v.by /\ w.root = v.root /\ w.allow = v.allow /\ w.filter = v.filter
  <2>1. v \in Walks BY <1>2, <1>3 DEF IsWalk, IsPlaced
  <2> QED BY <1>4, <2>1 DEF Visited, TakeRecord, TakeMember, TakeTemplateRecord,
                            TakeTemplateMember, Past, Stopped, Walks
<1>7. IsStarted(w) BY <1>2, <1>3, <1>6 DEF IsStarted
<1> QED BY <1>1, <1>3, <1>4, <1>5, <1>7, OnItsWay

LEMMA FinishKeeps ==
    ASSUME CollectorInv, Finish
    PROVE  CollectorInv'
<1>1. PICK v : v = inner OBVIOUS
<1>2. /\ IsWalk(v, Instantiated(at)) /\ IsStarted(v) /\ at \in 1..Len(unit) /\ IsUnit
      /\ v.at > End(v.root) /\ unit' = unit /\ nonRuntime' = nonRuntime
  BY <1>1, VisitorAtWork DEF Finish, CollectorInv
<1>3. PICK types : types = IF v.taken # 0 THEN <<TypeOf(v)>> ELSE <<>> OBVIOUS
<1>4. unit[at].kind # "registration" => Report(types) BY <1>1, <1>3 DEF Finish
<1>6. CASE unit[at].kind = "class"
  <2>1. v.by = "class" /\ v.root = at /\ v.allow = nonRuntime BY <1>2, <1>6 DEF IsStarted
  <2>2. AskedFor(at) => v.taken = at /\ v.taken # 0
    BY <1>2, <2>1, TakesWanted DEF AskedFor
  <2>3. ~Demands(at) BY <1>6 DEF Demands
  <2>4. CASE v.taken = 0
    <3>1. types = <<>> BY <1>3, <1>6, <2>4
    <3> QED BY <1>2, <1>4, <1>6, <2>2, <2>3, <2>4, <3>1, NoAnswer, Reported
  <2>5. CASE v.taken # 0
    <3>1. PICK f : f = TypeOf(v) OBVIOUS
    <3>2. types = <<f>> BY <1>3, <2>5, <3>1
    <3>3. f \in Reports /\ f.by = at /\ IsRight(f) /\ f.name = Path(v.taken)
      BY <1>2, <1>6, <2>5, <3>1, ClassReport
    <3>4. IsAnswer(types) BY <2>2, <2>3, <3>2, <3>3 DEF IsAnswer
    <3> QED BY <1>2, <1>4, <1>6, <3>4, Reported
  <2> QED BY <2>4, <2>5
<1>7. CASE unit[at].kind = "alias"
  <2>1. ~AskedFor(at) /\ ~Demands(at) BY <1>7 DEF AskedFor, Demands
  <2>2. CASE v.taken = 0
    <3>1. types = <<>> BY <1>3, <1>7, <2>2
    <3> QED BY <1>2, <1>4, <1>7, <2>1, <3>1, NoAnswer, Reported
  <2>3. CASE v.taken # 0
    <3>1. PICK f : f = TypeOf(v) OBVIOUS
    <3>2. types = <<f>> BY <1>3, <2>3, <3>1
    <3>3. f \in Reports /\ f.by = at /\ IsRight(f) BY <1>2, <1>7, <2>3, <3>1, AliasReport
    <3>4. IsAnswer(types) BY <2>1, <3>2, <3>3 DEF IsAnswer
    <3> QED BY <1>2, <1>4, <1>7, <3>4, Reported
  <2> QED BY <2>2, <2>3
<1>8. CASE unit[at].kind = "registration"
  <2>1. PICK f : f = IF v.taken # 0 THEN TypeOf(v) ELSE Nameless OBVIOUS
  <2>2. Register(f) BY <1>1, <1>8, <2>1 DEF Finish
  <2>3. IsReadFor(f)
    <3>1. CASE v.taken # 0 BY <1>2, <1>8, <2>1, <3>1, RegistrationReport
    <3>2. CASE v.taken = 0 BY <1>2, <1>8, <2>1, <3>2, NamelessReport
    <3> QED BY <3>1, <3>2
  <2>4. IsRegistration BY <1>2, <1>8 DEF IsStarted, IsRegistration
  <2> QED BY <1>2, <2>2, <2>3, <2>4, RegisterKeeps
<1> QED BY <1>2, <1>6, <1>7, <1>8 DEF IsStarted

LEMMA VisitClassKeeps ==
    ASSUME CollectorInv, VisitClass
    PROVE  CollectorInv'
<1>1. /\ at \in 1..Len(unit) /\ unit[at].kind = "class" /\ IsUnit
      /\ unit' = unit /\ nonRuntime' = nonRuntime
  BY RouterAt DEF VisitClass, CollectorInv
<1>2. CASE Templated(at)
  <2>1. Report(<<>>) BY <1>2 DEF VisitClass
  <2>2. ~AskedFor(at) /\ ~Demands(at) BY <1>1, <1>2 DEF AskedFor, Demands
  <2> QED BY <1>1, <2>1, <2>2, NoAnswer, Reported
<1>3. CASE ~Templated(at)
  <2>1. PICK v : v = Visitor("class", at, nonRuntime, {}) OBVIOUS
  <2>2. Start(v) BY <1>3, <2>1 DEF VisitClass
  <2>3. IsWalk(v, Instantiated(at))
    <3>1. nonRuntime \in BOOLEAN /\ {} \in SUBSET STRING /\ "class" \in Containers
      BY <1>1, UnitTyped DEF Containers
    <3> QED BY <1>1, <2>1, <3>1, StartsWalk
  <2>4. IsStarted(v) BY <1>1, <1>3, <2>1 DEF IsStarted, Visitor
  <2> QED BY <1>1, <2>2, <2>3, <2>4, OnItsWay DEF Start
<1> QED BY <1>2, <1>3

LEMMA VisitEnumKeeps ==
    ASSUME CollectorInv, VisitEnum
    PROVE  CollectorInv'
<1>1. /\ at \in 1..Len(unit) /\ unit[at].kind = "enum" /\ IsUnit
      /\ unit' = unit /\ nonRuntime' = nonRuntime
  BY RouterAt DEF VisitEnum, CollectorInv
<1>2. ~Demands(at) BY <1>1 DEF Demands
<1>3. CASE ~Wanted(at, nonRuntime)
  <2>1. Report(<<>>) BY <1>3 DEF VisitEnum
  <2>2. ~AskedFor(at) BY <1>3 DEF AskedFor
  <2> QED BY <1>1, <1>2, <2>1, <2>2, NoAnswer, Reported
<1>4. CASE Wanted(at, nonRuntime)
  <2>1. PICK f : f = Enum(at) OBVIOUS
  <2>2. PICK types : types = <<f>> OBVIOUS
  <2>3. Report(types) BY <1>4, <2>1, <2>2 DEF VisitEnum
  <2>5. f \in Reports /\ f.by = at /\ f.kind = "enum" /\ f.name = Path(at)
        /\ f.flags = Nested(at)
    BY <1>1, <2>1, EnumReport
  <2>6. IsRight(f)
    <3>1. (nonRuntime \/ unit[at].tagged) /\ unit[at].complete BY <1>4 DEF Wanted
    <3>2. ComesFrom(f, at) BY <1>1, <2>5 DEF ComesFrom, Definable
    <3>3. IsOwnReport(f) /\ HasOrigin(f) BY <1>1, <2>5, <3>1, <3>2 DEF IsOwnReport, HasOrigin
    <3> QED BY <1>1, <2>5, <3>1, <3>3, EnumIsRight
  <2>7. IsAnswer(types) BY <1>2, <2>2, <2>5, <2>6 DEF IsAnswer
  <2> QED BY <1>1, <2>3, <2>7, Reported
<1> QED BY <1>3, <1>4

LEMMA SkipKeeps ==
    ASSUME CollectorInv, Skip
    PROVE  CollectorInv'
<1>1. PICK kind \in {"template", "constant", "field", "method"} : AtKind(kind) BY DEF Skip
<1>2. at \in 1..Len(unit) /\ unit[at].kind = kind /\ unit' = unit /\ nonRuntime' = nonRuntime
  BY <1>1, RouterAt DEF Skip
<1>3. Report(<<>>) BY DEF Skip
<1>4. ~AskedFor(at) /\ ~Demands(at) BY <1>1, <1>2 DEF AskedFor, Demands
<1> QED BY <1>2, <1>3, <1>4, NoAnswer, Reported

LEMMA VisitAliasKeeps ==
    ASSUME CollectorInv, VisitAlias
    PROVE  CollectorInv'
<1>1. /\ at \in 1..Len(unit) /\ unit[at].kind = "alias" /\ IsUnit
      /\ unit' = unit /\ nonRuntime' = nonRuntime
  BY RouterAt DEF VisitAlias, CollectorInv
<1>2. ~AskedFor(at) /\ ~Demands(at) BY <1>1 DEF AskedFor, Demands
<1>3. unit[at].target # NoTarget BY <1>1, TargetOf DEF NoTarget
<1>4. \/ TargetKind = "builtin"
      \/ /\ Target \in 1..Len(unit) /\ unit[Target].kind = TargetKind
         /\ TargetKind \in Containers \cup {"enum"}
  BY <1>1, <1>3, TargetKindOf
<1> DEFINE Passes == ~(unit[at].tagged \/ nonRuntime) \/ TargetKind = "builtin"
<1>5. CASE \/ Passes
           \/ TargetKind = "enum" /\ ~Wanted(Target, TRUE)
           \/ TargetKind = "template" /\ ~unit[Target].complete
  <2>1. Report(<<>>) BY <1>5 DEF VisitAlias
  <2> QED BY <1>1, <1>2, <2>1, NoAnswer, Reported
<1>6. CASE ~Passes /\ TargetKind = "enum" /\ Wanted(Target, TRUE)
  <2>1. PICK f : f = EnumOfAlias(Target) OBVIOUS
  <2>2. PICK types : types = <<f>> OBVIOUS
  <2>3. Report(types) BY <1>6, <2>1, <2>2 DEF VisitAlias
  <2>4. f \in Reports /\ f.by = at /\ f.kind = "enum" /\ f.name = Path(at) /\ "alias" \in f.flags
    <3>1. PICK e \in 1..Len(unit) : e = Target BY <1>4, <1>6
    <3> QED BY <1>1, <2>1, <3>1, EnumReport
  <2>5. IsOwnReport(f) /\ HasOrigin(f) BY <1>1, <2>4, AliasOrigin
  <2>6. IsRight(f) BY <1>1, <1>6, <2>4, <2>5, EnumIsRight
  <2>7. IsAnswer(types) BY <1>2, <2>2, <2>4, <2>6 DEF IsAnswer
  <2> QED BY <1>1, <2>3, <2>7, Reported
<1>7. CASE /\ ~Passes /\ TargetKind # "enum"
           /\ ~(TargetKind = "template" /\ ~unit[Target].complete)
  <2>1. PICK v : v = Visitor(TargetKind, Target, TRUE, {}) OBVIOUS
  <2>2. Start(v) BY <1>7, <2>1 DEF VisitAlias
  <2>3. IsWalk(v, Instantiated(at))
    <3>1. PICK root, by : root = Target /\ by = TargetKind OBVIOUS
    <3>2. root \in 1..Len(unit) /\ by \in Containers /\ unit[root].kind = by
          /\ (by = "template" => unit[root].complete)
      BY <1>4, <1>7, <3>1
    <3>3. TRUE \in BOOLEAN /\ {} \in SUBSET STRING OBVIOUS
    <3> QED BY <1>1, <2>1, <3>1, <3>2, <3>3, StartsWalk
  <2>4. IsStarted(v) BY <1>1, <1>3, <1>7, <2>1 DEF IsStarted, Visitor
  <2> QED BY <1>1, <2>2, <2>3, <2>4, OnItsWay DEF Start
<1> QED BY <1>5, <1>6, <1>7

LEMMA VisitRegistrationKeeps ==
    ASSUME CollectorInv, VisitRegistration
    PROVE  CollectorInv'
<1>1. /\ at \in 1..Len(unit) /\ unit[at].kind = "registration" /\ IsUnit
      /\ unit' = unit /\ nonRuntime' = nonRuntime
  BY RouterAt DEF VisitRegistration, CollectorInv
<1>2. ~AskedFor(at) BY <1>1 DEF AskedFor
<1>3. CASE unit[at].target = NoTarget
  <2>1. Report(<<>>) BY <1>3 DEF VisitRegistration
  <2>2. ~Demands(at) BY <1>3 DEF Demands
  <2> QED BY <1>1, <1>2, <2>1, <2>2, NoAnswer, Reported
<1>4. CASE unit[at].target # NoTarget
  <2>1. HandleAnnotationBasedType BY <1>4 DEF VisitRegistration
  <2>2. \/ TargetKind = "builtin"
        \/ /\ Target \in 1..Len(unit) /\ unit[Target].kind = TargetKind
           /\ TargetKind \in Containers \cup {"enum"}
    BY <1>1, <1>4, TargetKindOf
  <2>3. IsRegistration BY <1>1, <1>4 DEF IsRegistration
  <2>4. <<>> \in Paths /\ <<"int">> \in Paths /\ WrittenName \in Paths
    <3>1. unit[at].target \in 0..(at - 1) BY <1>1, <1>4, TargetOf
    <3>2. unit[at].target # 0 => unit[at].target \in 1..Len(unit) BY <1>1, <3>1, UnitTyped
    <3>3. PICK name : name = WrittenName OBVIOUS
    <3>4. name = <<"int">> \/ \E d \in 1..Len(unit) : name = Path(d)
      BY <3>2, <3>3 DEF WrittenName, Builtin
    <3>5. name \in Paths BY <1>1, <3>4, PathTyped, PathsTyped
    <3> QED BY <3>3, <3>5, PathsTyped
  <2>5. CASE unit[at].trivial
    <3>1. PICK kind \in {"class", "trivial"}, name \in Paths, runtime \in BOOLEAN :
              kind = "trivial" /\ name = WrittenName /\ runtime = TRUE
      BY <2>4
    <3>2. PICK f : f = Found(kind, name, <<>>, <<>>, {}, runtime) OBVIOUS
    <3>3. /\ f \in Reports /\ f.by = at /\ f.kind = "trivial" /\ f.name = WrittenName
          /\ f.runtime = TRUE
      <4>1. f \in Reports /\ f.by = at /\ f.kind = kind /\ f.name = name /\ f.runtime = runtime
        BY <1>1, <3>2, BareReport
      <4> QED BY <3>1, <4>1
    <3>4. PICK types : types = <<f>> OBVIOUS
    <3>5. Report(types)
      <4>1. PICK g : g = Found("trivial", WrittenName, <<>>, <<>>, {}, FALSE) OBVIOUS
      <4>2. [g EXCEPT !.runtime = TRUE] = f
        <5>1. PICK none, no, before : none = <<>> /\ no = {} /\ before = FALSE OBVIOUS
        <5>2. f = Found(kind, name, none, none, no, runtime) BY <3>2, <5>1
        <5>3. g = Found(kind, name, none, none, no, before) BY <3>1, <4>1, <5>1
        <5>4. [g EXCEPT !.runtime = runtime] = f BY <5>2, <5>3 DEF Found
        <5> QED BY <3>1, <5>4
      <4>3. PICK one : one = <<g>> OBVIOUS
      <4>4. Len(one) = 1 /\ one[1] = g /\ [one EXCEPT ![1] = f] = <<f>> BY <4>3
      <4>5. WithTag(one) = <<f>> BY <4>2, <4>4 DEF WithTag
      <4> QED BY <2>1, <2>5, <3>4, <4>1, <4>3, <4>5 DEF HandleAnnotationBasedType
    <3>6. AsDemanded(f)
      <4>1. unit[at].target # Builtin => f.name = Path(unit[at].target) BY <3>3 DEF WrittenName
      <4> QED BY <3>3, <4>1 DEF AsDemanded, MatchesDemand, HasAsked
    <3>7. IsRight(f)
      BY <1>1, <3>3, <3>6 DEF IsRight, WasAsked, HasOwn, SaysTypes, IsOwnReport, HasOrigin
    <3>8. IsAnswer(types) BY <1>2, <3>3, <3>4, <3>7 DEF IsAnswer
    <3> QED BY <1>1, <3>5, <3>8, Reported
  <2>6. CASE ~unit[at].trivial /\ TargetKind = "builtin"
    <3>1. PICK kind \in {"class", "trivial"}, name \in Paths, runtime \in BOOLEAN :
              kind = "trivial" /\ name = <<"int">> /\ runtime = TRUE
      BY <2>4
    <3>2. PICK f : f = Found(kind, name, <<>>, <<>>, {}, runtime) OBVIOUS
    <3>3. f \in Reports /\ f.by = at /\ f.kind = "trivial"
      <4>1. f \in Reports /\ f.by = at /\ f.kind = kind BY <1>1, <3>2, BareReport
      <4> QED BY <3>1, <4>1
    <3>4. Register(f) BY <2>1, <2>6, <3>1, <3>2 DEF HandleAnnotationBasedType
    <3>5. IsReadFor(f) BY <2>6, <3>3 DEF IsReadFor, SaysTypes
    <3> QED BY <1>1, <2>3, <3>4, <3>5, RegisterKeeps
  <2>7. CASE /\ ~unit[at].trivial
             /\ \/ TargetKind = "enum" /\ ~Wanted(Target, TRUE)
                \/ TargetKind = "template" /\ ~unit[Target].complete
    <3>1. Report(<<>>) BY <2>1, <2>7 DEF HandleAnnotationBasedType
    <3>2. ~unit[Target].complete /\ Target # 0 BY <2>2, <2>7, UnitTyped DEF Wanted
    <3>3. ~Demands(at) BY <3>2 DEF Demands, Target, Builtin
    <3> QED BY <1>1, <1>2, <3>1, <3>3, NoAnswer, Reported
  <2>9. CASE ~unit[at].trivial /\ TargetKind = "enum" /\ Wanted(Target, TRUE)
    <3>1. PICK e \in 1..Len(unit) : e = Target /\ unit[e].kind = "enum" BY <2>2, <2>9
    <3>2. PICK f : f = Enum(e) OBVIOUS
    <3>3. Register(f) BY <2>1, <2>9, <3>1, <3>2 DEF HandleAnnotationBasedType
    <3>4. /\ f \in Reports /\ f.by = at /\ f.kind = "enum" /\ f.name = Path(e)
          /\ f.flags = Nested(e)
      BY <1>1, <3>2, EnumReport
    <3>5. ComesFrom(f, e) BY <3>1, <3>4 DEF ComesFrom, Definable
    <3>6. IsReadFor(f) BY <3>1, <3>4, <3>5 DEF IsReadFor, SaysTypes, HasAsked
    <3> QED BY <1>1, <2>3, <3>3, <3>6, RegisterKeeps
  <2>8. CASE /\ ~unit[at].trivial /\ TargetKind \notin {"builtin", "enum"}
             /\ ~(TargetKind = "template" /\ ~unit[Target].complete)
    <3>1. PICK known : known = unit[at].known OBVIOUS
    <3>2. PICK v : v = Visitor(TargetKind, Target, TRUE, known) OBVIOUS
    <3>3. Start(v) BY <2>1, <2>8, <3>1, <3>2 DEF HandleAnnotationBasedType
    <3>4. IsWalk(v, Instantiated(at))
      <4>1. PICK root, by : root = Target /\ by = TargetKind OBVIOUS
      <4>2. root \in 1..Len(unit) /\ by \in Containers /\ unit[root].kind = by
            /\ (by = "template" => unit[root].complete)
        BY <2>2, <2>8, <4>1
      <4>3. TRUE \in BOOLEAN /\ known \in SUBSET STRING BY <1>1, <3>1, UnitTyped
      <4> QED BY <1>1, <3>2, <4>1, <4>2, <4>3, StartsWalk
    <3>5. IsStarted(v) BY <1>1, <1>4, <3>1, <3>2 DEF IsStarted, Visitor
    <3> QED BY <1>1, <3>3, <3>4, <3>5, OnItsWay DEF Start
  <2> QED BY <2>2, <2>5, <2>6, <2>7, <2>8, <2>9
<1> QED BY <1>3, <1>4

LEMMA StutterKeeps ==
    ASSUME CollectorInv, UNCHANGED vars
    PROVE  CollectorInv'
<1>1. unit' = unit /\ nonRuntime' = nonRuntime /\ at' = at /\ inner' = inner /\ found' = found
  BY DEF vars
<1>2. CASE inner = NoVisitor
  <2>1. FoundInv' BY <1>1, SameFound DEF CollectorInv
  <2> QED BY <1>1, <1>2, <2>1 DEF CollectorInv, IsUnit, NoVisitor
<1>3. CASE IsWalk(inner, Instantiated(at)) /\ IsStarted(inner)
  <2>1. PICK v : v = inner OBVIOUS
  <2> QED BY <1>1, <1>3, <2>1, OnItsWay
<1> QED BY <1>2, <1>3 DEF CollectorInv

\* What the router has found when it is at a declaration, and how far the walk of
\* the visitor at work has come, for every unit and either setting.
THEOREM CollectorInvariant == Spec => []CollectorInv
<1>1. Init => CollectorInv
  <2> SUFFICES ASSUME Init PROVE CollectorInv OBVIOUS
  <2>1. IsUnit BY DEF Init, IsUnit
  <2>2. Len(unit) \in Nat /\ at = 1 /\ found = <<>> /\ inner = NoVisitor
    BY <2>1, UnitTyped DEF Init
  <2>3. Len(found) = 0 /\ found \in Seq(Reports) BY <2>2
  <2>4. FoundInv BY <2>2, <2>3 DEF FoundInv
  <2> QED BY <2>1, <2>2, <2>4 DEF CollectorInv
<1>2. CollectorInv /\ [Next]_vars => CollectorInv'
  <2> SUFFICES ASSUME CollectorInv, [Next]_vars PROVE CollectorInv' OBVIOUS
  <2> QED BY VisitClassKeeps, VisitEnumKeeps, VisitAliasKeeps, VisitRegistrationKeeps, SkipKeeps,
             VisitKeeps, FinishKeeps, StutterKeeps DEF Next
<1> QED BY <1>1, <1>2, PTL DEF Spec

-----------------------------------------------------------------------------
(* What it says of the properties *)

\* TypeOK: the router is at a declaration or behind the last one, a visitor walks
\* below its root and has members of what it has taken, and what is found was found
\* at an earlier declaration.
THEOREM TypeCorrectness == Spec => []TypeOK
<1>1. CollectorInv => TypeOK
  <2> SUFFICES ASSUME CollectorInv PROVE TypeOK OBVIOUS
  <2>1. IsUnit /\ at \in 1..(Len(unit) + 1) /\ FoundInv BY DEF CollectorInv
  <2>2. inner.by \in {"none", "class", "template"}
    <3>1. inner.by # "none" => inner.by \in Containers
      BY VisitorAtWork DEF IsWalk, IsPlaced, Walks
    <3> QED BY <3>1 DEF Containers
  <2>3. ASSUME inner.by # "none"
        PROVE  /\ unit[inner.root].kind = inner.by /\ unit[inner.root].kind \in Containers
               /\ inner.at \in inner.root..(End(inner.root) + 1)
               /\ inner.taken \in {0, inner.root} \cup Below(inner.root)
               /\ \A i \in DOMAIN inner.members : inner.members[i].decl \in Below(inner.taken)
    <3>1. PICK v : v = inner OBVIOUS
    <3>2. IsWalk(v, Instantiated(at)) BY <2>3, <3>1, VisitorAtWork
    <3>3. /\ unit[v.root].kind = v.by /\ v.by \in Containers
          /\ v.at \in v.root..(End(v.root) + 1) /\ v.members \in Seq(Readings)
          /\ v.taken = 0 => v.members = <<>>
      BY <3>2 DEF IsWalk, IsPlaced, Walks
    <3>4. v.taken # 0 => v.taken = v.root \/ v.taken \in Below(v.root) BY <2>1, <3>2, FinishedWalk
    <3>5. \A i \in DOMAIN v.members : v.members[i].decl \in Below(v.taken)
      <4>1. CASE v.taken = 0
        <5>1. v.members = <<>> BY <3>3, <4>1
        <5> QED BY <5>1
      <4>2. CASE v.taken # 0
        <5> SUFFICES ASSUME NEW i \in 1..Len(v.members)
                     PROVE  v.members[i].decl \in Below(v.taken)
          BY <3>3
        <5>1. CASE v.by = "class"
          <6>1. HasMembers(v.members, v.taken) BY <2>1, <3>2, <4>2, <5>1, FinishedWalk
          <6>2. v.members[i].decl \in MembersOf(v.taken) BY <6>1 DEF HasMembers, AreMembers
          <6> QED BY <6>2 DEF MembersOf
        <5>2. CASE v.by = "template"
          <6>1. v.taken = v.root BY <2>1, <3>2, <4>2, <5>2, FinishedWalk
          <6>2. PICK m \in 1..Len(unit) : /\ IsRead(m, v, Instantiated(at))
                                          /\ v.members[i] = Specialized(m, Instantiated(at))
            BY <3>2, <4>2, <5>2 DEF IsWalk, ReadAsTemplate
          <6>3. v.members[i].decl = m BY <6>2, DeclOfReading
          <6> QED BY <6>1, <6>2, <6>3 DEF IsRead
        <5> QED BY <3>3, <5>1, <5>2 DEF Containers
      <4> QED BY <4>1, <4>2
    <3> QED BY <3>1, <3>3, <3>4, <3>5
  <2>4. ASSUME NEW i \in DOMAIN found
        PROVE  /\ found[i].kind \in {"class", "enum", "trivial"}
               /\ found[i].flags \subseteq {"template", "alias", "nested"}
               /\ found[i].runtime \in BOOLEAN
               /\ found[i].by \in 1..(at - 1)
    <3>1. i \in 1..Len(found) /\ found[i] \in Reports BY <2>1 DEF FoundInv
    <3> QED BY <2>1, <3>1 DEF FoundInv, Reports, Flags
  <2> QED BY <2>1, <2>2, <2>3, <2>4 DEF TypeOK
<1> QED BY <1>1, CollectorInvariant, PTL

\* NothingUnasked: a type without a tag is reported for no declaration but one that
\* asks for it.
THEOREM NothingIsUnasked == Spec => []NothingUnasked
<1>1. CollectorInv => NothingUnasked
  <2> SUFFICES ASSUME CollectorInv, NEW i \in DOMAIN found
               PROVE  LET visited == found[i].by
                      IN  \/ nonRuntime \/ unit[visited].tagged
                          \/ unit[visited].kind = "registration"
                          \/ \E d \in Below(visited) : unit[d].tagged /\ found[i].name = Path(d)
    BY DEF NothingUnasked
  <2>1. WasAsked(found[i]) BY DEF CollectorInv, FoundInv, IsRight
  <2> QED BY <2>1 DEF WasAsked
<1> QED BY <1>1, CollectorInvariant, PTL

\* EveryTaggedReported: when the router is done, all classes and enums that ask for
\* it are found.
THEOREM TaggedAreReported == Spec => []EveryTaggedReported
<1>1. CollectorInv => EveryTaggedReported
  <2> SUFFICES ASSUME CollectorInv, Done, NEW d \in DOMAIN unit, AskedFor(d)
               PROVE  \E i \in FoundBy(d) : found[i].name = Path(d)
    BY DEF EveryTaggedReported
  <2>1. d \in 1..(at - 1) BY UnitTyped DEF Done, CollectorInv
  <2>2. PICK i \in 1..Len(found) : found[i].by = d /\ found[i].name = Path(d)
    BY <2>1 DEF CollectorInv, FoundInv, HadItsTurn
  <2>3. i \in DOMAIN found BY DEF CollectorInv, FoundInv
  <2> QED BY <2>2, <2>3 DEF FoundBy
<1> QED BY <1>1, CollectorInvariant, PTL

\* MembersSayTheirType: what a member is reported to be is its type in C++.
THEOREM MembersSay == Spec => []MembersSayTheirType
<1>1. CollectorInv => MembersSayTheirType
  <2> SUFFICES ASSUME CollectorInv, NEW n \in DOMAIN found, found[n].kind = "class",
                      NEW i \in DOMAIN found[n].members
               PROVE  LET f == found[n]
                          given == IF unit[f.by].kind = "registration" THEN Instantiated(f.by)
                                   ELSE <<>>
                          m == f.members[i]
                      IN  /\ SaysType(m.type, unit[m.decl].type, given)
                          /\ \A p \in DOMAIN m.params :
                                LET t == unit[m.decl].params[p]
                                IN  SameParameter(m.decl, t) => SaysType(m.params[p].type, t, given)
    BY DEF MembersSayTheirType
  <2>1. PICK f : f = found[n] OBVIOUS
  <2>2. f \in Reports /\ SaysTypes(f) BY <2>1 DEF CollectorInv, FoundInv, IsRight
  <2>3. DOMAIN f.members = 1..Len(f.members) BY <2>2 DEF Reports
  <2>4. SaysMember(f.members[i], Given(f.by)) BY <2>1, <2>2, <2>3 DEF SaysTypes
  <2> QED BY <2>1, <2>4 DEF SaysMember, Given
<1> QED BY <1>1, CollectorInvariant, PTL

\* OwnMembersComplete: a class that is not nested has exactly the fields and methods
\* declared in it that are the first of their name, each once.
THEOREM OwnMembersAreComplete == Spec => []OwnMembersComplete
<1>1. CollectorInv => OwnMembersComplete
  <2> SUFFICES ASSUME CollectorInv, NEW i \in DOMAIN found, NEW f, f = found[i],
                      unit[f.by].kind = "class", f.name = Path(f.by), Len(f.name) = 1
               PROVE  /\ DeclsOf(f.members) = FirstOfTheirName(MembersOf(f.by))
                      /\ Cardinality(DeclsOf(f.members)) = Len(f.members)
    BY DEF OwnMembersComplete
  <2>1. HasOwn(f) BY DEF CollectorInv, FoundInv, IsRight
  <2>2. PICK members, class : members = f.members /\ class = f.by OBVIOUS
  <2>3. /\ AreMembers(members, class) /\ AreFirsts(members, class)
        /\ \A m \in MembersOf(class) : Named(members, m)
    BY <2>1, <2>2 DEF HasOwn
  <2>0. /\ \A m \in MembersOf(class) : IsIn(m, class) /\ unit[m].complete /\ m \in Int
        /\ class \in 1..Len(unit)
    <3>1. at \in 1..(Len(unit) + 1) /\ Len(unit) \in Nat BY UnitTyped DEF CollectorInv
    <3>4. found[i].by \in 1..(at - 1) BY DEF CollectorInv, FoundInv
    <3>2. class \in 1..Len(unit) BY <2>2, <3>1, <3>4
    <3>3. \A m \in MembersOf(class) : m \in Int BY <3>2, EndOf DEF MembersOf, CollectorInv
    <3> QED BY <2>2, <3>2, <3>3 DEF MembersOf, IsIn
  <2>4. PICK n : n = Len(members) OBVIOUS
  <2>5. n \in Nat /\ DOMAIN members = 1..n BY <2>3, <2>4 DEF AreMembers
  <2>6. PICK decls : decls = DeclsOf(members) OBVIOUS
  <2>7. decls = {members[k].decl : k \in 1..n} BY <2>5, <2>6 DEF DeclsOf
  <2>8. decls \subseteq MembersOf(class) BY <2>3, <2>4, <2>7 DEF AreMembers
  <2>9. Cardinality(decls) = n
    <3>1. PICK b : b = [k \in 1..n |-> members[k].decl] OBVIOUS
    <3>2. b \in [1..n -> decls] BY <2>7, <3>1
    <3>3. \A d \in decls : \E k \in 1..n : b[k] = d BY <2>7, <3>1
    <3>4. \A j, k \in 1..n : b[j] = b[k] => j = k BY <2>3, <2>4, <3>1 DEF AreMembers
    <3>5. ExistsBijection(1..n, decls)
      <4>1. b \in Bijection(1..n, decls)
        BY <3>2, <3>3, <3>4 DEF Bijection, Injection, Surjection, IsInjective
      <4> QED BY <4>1 DEF ExistsBijection
    <3>6. IsFiniteSet(1..n) /\ Cardinality(1..n) = n BY <2>5, FS_Interval
    <3> QED BY <3>5, <3>6, FS_Bijection
  <2>10. decls \subseteq FirstOfTheirName(MembersOf(class))
    BY <2>0, <2>3, <2>4, <2>7, <2>8 DEF AreFirsts, FirstOfTheirName
  <2>11. ASSUME NEW m \in FirstOfTheirName(MembersOf(class)) PROVE m \in decls
    <3>1. m \in MembersOf(class) /\ \A o \in MembersOf(class) : SameName(o, m) => m <= o
      BY DEF FirstOfTheirName
    <3>2. PICK k \in 1..n : SameName(members[k].decl, m)
      BY <2>3, <2>5, <3>1 DEF Named, SameName
    <3>3. PICK o : o = members[k].decl OBVIOUS
    <3>4. o \in decls /\ o \in MembersOf(class) BY <2>7, <2>8, <3>2, <3>3
    <3>5. m <= o BY <3>1, <3>2, <3>3, <3>4
    <3>6. o <= m
      <4>1. SameName(m, o) BY <3>2, <3>3 DEF SameName
      <4>2. IsIn(m, class) /\ unit[m].complete BY <2>0, <3>1
      <4> QED BY <2>3, <2>4, <3>2, <3>3, <4>1, <4>2 DEF AreFirsts
    <3>7. m = o BY <2>0, <3>1, <3>4, <3>5, <3>6
    <3> QED BY <3>4, <3>7
  <2> QED BY <2>2, <2>4, <2>6, <2>9, <2>10, <2>11
<1> QED BY <1>1, CollectorInvariant, PTL

\* RegistrationsAsAsked: when the router is done, each registration of a type that
\* is defined has added one type, and the name of its alias, the runtime tag and the
\* members it asked for are that one's.
THEOREM RegisteredAsAsked == Spec => []RegistrationsAsAsked
<1>1. CollectorInv => RegistrationsAsAsked
  <2> SUFFICES ASSUME CollectorInv, Done, NEW d \in DOMAIN unit, Demands(d)
               PROVE  Registered(d)
    BY DEF RegistrationsAsAsked, Demands
  <2>1. d \in 1..(at - 1) BY UnitTyped DEF Done, CollectorInv
  <2>2. DOMAIN found = 1..Len(found) BY DEF CollectorInv, FoundInv
  <2>3. PICK i \in 1..Len(found) : found[i].by = d
    BY <2>1 DEF CollectorInv, FoundInv, HadItsTurn
  <2>4. FoundBy(d) = {i} BY <2>2, <2>3 DEF FoundBy, CollectorInv, FoundInv
  <2>5. AsDemanded(found[i]) BY DEF CollectorInv, FoundInv, IsRight
  <2>6. MatchesDemand(found[i], Definition(Canonical(unit[d].target)))
    BY <2>3, <2>5 DEF AsDemanded
  <2> QED BY <2>3, <2>4, <2>6 DEF Registered, MatchesDemand, HasAsked
<1> QED BY <1>1, CollectorInvariant, PTL

\* ReportedOnce: a class or enum that asks for it, in no other that does not, is
\* reported by its own declaration and by no other class or enum.
THEOREM ReportedIsOnce == Spec => []ReportedOnce
<1>1. CollectorInv => ReportedOnce
  <2> SUFFICES ASSUME CollectorInv, Done, NEW d \in DOMAIN unit, AskedFor(d),
                      \A a \in Above(d) : AskedFor(a)
               PROVE  Cardinality({i \in DOMAIN found :
                          found[i].name = Path(d) /\ unit[found[i].by].kind \in {"class", "enum"}}) = 1
    BY DEF ReportedOnce
  <2>1. IsUnit /\ d \in 1..Len(unit) /\ d \in 1..(at - 1) /\ Len(unit) \in Nat
    BY UnitTyped DEF Done, CollectorInv
  <2>2. /\ DOMAIN found = 1..Len(found)
        /\ \A i \in 1..Len(found) : found[i].by \in 1..(at - 1) /\ IsOwnReport(found[i])
        /\ \A i, j \in 1..Len(found) : found[i].by = found[j].by => i = j
    BY DEF CollectorInv, FoundInv, IsRight
  <2>3. PICK i \in 1..Len(found) : found[i].by = d /\ found[i].name = Path(d)
    BY <2>1 DEF CollectorInv, FoundInv, HadItsTurn
  <2>4. unit[d].kind \in {"class", "enum"} /\ unit[d].complete BY DEF AskedFor, Wanted
  <2>5. ASSUME NEW j \in 1..Len(found), found[j].name = Path(d),
               unit[found[j].by].kind \in {"class", "enum"}
        PROVE  j = i
    <3>1. PICK b : b = found[j].by OBVIOUS
    <3>2. PICK t \in 1..Len(unit) :
              /\ ComesFrom(found[j], t) /\ unit[t].complete
              /\ t = b \/ (t \in Below(b) /\ ~Wanted(b, nonRuntime))
      BY <2>2, <2>5, <3>1 DEF IsOwnReport
    <3>3. unit[t].kind \in Definable /\ Path(t) = Path(d) BY <2>5, <3>2 DEF ComesFrom
    <3>4. t = d BY <2>1, <2>4, <3>2, <3>3, OneDefinition DEF Definable, Containers
    <3>5. b = d
      <4> SUFFICES ASSUME d \in Below(b), ~Wanted(b, nonRuntime) PROVE FALSE BY <3>2, <3>4
      <4>1. b \in 1..(at - 1) BY <2>2, <3>1
      <4>2. b \in 1..(d - 1)
        <5>1. at \in Nat BY UnitTyped DEF CollectorInv
        <5> QED BY <2>1, <4>1, <5>1 DEF Below
      <4>3. AskedFor(b) BY <4>2 DEF Above
      <4> QED BY <4>3 DEF AskedFor
    <3> QED BY <2>2, <2>3, <3>1, <3>5
  <2>6. {j \in DOMAIN found :
            found[j].name = Path(d) /\ unit[found[j].by].kind \in {"class", "enum"}} = {i}
    BY <2>2, <2>3, <2>4, <2>5
  <2> QED BY <2>6, FS_Singleton
<1> QED BY <1>1, CollectorInvariant, PTL

\* OffersForwardDeclarations: what is offered is declared at the top by that name,
\* and what is declared there is offered, unless by the name of an alias.
THEOREM ForwardDeclarationsOffered == Spec => []OffersForwardDeclarations
<1>1. CollectorInv => OffersForwardDeclarations
  <2> SUFFICES ASSUME CollectorInv, NEW i \in DOMAIN found, NEW f, f = found[i],
                      f.name # <<>>, f.kind # "trivial"
               PROVE  /\ IsForwardDeclarable(f) => DeclaredForward(f.name)
                      /\ DeclaredForward(f.name) => IsForwardDeclarable(f) \/ IsAlias(f.name)
    BY DEF OffersForwardDeclarations
  <2>1. IsUnit /\ DOMAIN unit = 1..Len(unit) BY UnitTyped DEF CollectorInv
  <2>2. f \in Reports /\ HasOrigin(f) BY DEF CollectorInv, FoundInv, IsRight
  <2>3. f.kind \in {"class", "enum"} BY <2>2 DEF Reports
  <2>4. CASE \E d \in 1..Len(unit) :
                 unit[d].kind = "alias" /\ f.name = Path(d) /\ "alias" \in f.flags
    <3>1. IsAlias(f.name) BY <2>1, <2>4 DEF IsAlias
    <3>2. ~IsForwardDeclarable(f) BY <2>4 DEF IsForwardDeclarable
    <3> QED BY <3>1, <3>2
  <2>5. CASE \E t \in 1..Len(unit) : ComesFrom(f, t)
    <3>1. PICK t \in 1..Len(unit) : ComesFrom(f, t) BY <2>5
    <3>2. /\ unit[t].kind \in Definable /\ f.name = Path(t)
          /\ f.flags = Nested(t) \/ (unit[t].kind = "template" /\ f.flags = {"template"})
          /\ unit[t].kind = "template" => f.flags # {}
      BY <3>1 DEF ComesFrom
    <3>3. PICK n : n = Len(Path(t)) OBVIOUS
    <3>4. n \in Nat \ {0} /\ (n = 1 <=> unit[t].depth = 0) BY <2>1, <3>3, AtTop
    <3>5. ASSUME IsForwardDeclarable(f) PROVE DeclaredForward(f.name)
      <4>1. f.flags = {} BY <3>5 DEF IsForwardDeclarable
      <4>2. unit[t].kind # "template" /\ Nested(t) = {} BY <3>2, <4>1
      <4>3. ~(n > 1) BY <3>3, <4>2 DEF Nested
      <4>4. unit[t].depth = 0 BY <3>4, <4>3
      <4>5. unit[t].kind \in {"class", "enum"} BY <3>2, <4>2 DEF Definable, Containers
      <4> QED BY <2>1, <3>2, <4>4, <4>5 DEF DeclaredForward
    <3>6. ASSUME DeclaredForward(f.name) PROVE IsForwardDeclarable(f)
      <4>1. PICK d \in 1..Len(unit) :
                unit[d].kind \in {"class", "enum"} /\ unit[d].depth = 0 /\ Path(d) = Path(t)
        BY <2>1, <3>2, <3>6 DEF DeclaredForward
      <4>2. unit[t].kind = unit[d].kind BY <2>1, <3>2, <4>1, OneKind DEF Definable, Containers
      <4>3. n = 1 BY <2>1, <3>3, <4>1, AtTop
      <4>4. Nested(t) = {} BY <3>3, <4>3 DEF Nested
      <4>5. f.flags = {} BY <3>2, <4>1, <4>2, <4>4
      <4> QED BY <2>3, <4>5 DEF IsForwardDeclarable
    <3> QED BY <3>5, <3>6
  <2> QED BY <2>2, <2>4, <2>5 DEF HasOrigin
<1> QED BY <1>1, CollectorInvariant, PTL

=============================================================================
