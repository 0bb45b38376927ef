----------------------------- MODULE DataLemmas -----------------------------
(***************************************************************************)
(* Facts about numbers, finite sets, sequences and graphs that the proofs  *)
(* about the components share.                                             *)
(***************************************************************************)
EXTENDS Integers, Sequences, FiniteSets, SequencesExt, Reachability,
        FiniteSetTheorems, SequenceTheorems, WellFoundedInduction, TLAPS

---------------------------------------------------------------------------
(***************************************************************************)
(* Numbers and finite sets.                                                *)
(***************************************************************************)

\* Every set of numbers that is not empty has a least one.  An induction over
\* numbers is the search for a least counterexample: the library states the
\* induction with an operator parameter.
LEMMA LeastNumber ==
  ASSUME NEW T \in SUBSET Nat, T # {}
  PROVE  \E n \in T : \A m \in T : n <= m
<1> DEFINE Below(n) == 0..(n - 1)
           Family == {Below(n) : n \in T}
<1>1. \A n \in Nat : IsFiniteSet(Below(n))
  BY FS_Interval
<1>2. Family \subseteq FiniteSubsetsOf(Nat) /\ Family # {}
  <2>1. \A n \in Nat : Below(n) \in FiniteSubsetsOf(Nat)
    <3>1. \A n \in Nat : Below(n) \in SUBSET Nat
      OBVIOUS
    <3>2. QED
      BY <1>1, <3>1 DEF FiniteSubsetsOf
  <2>2. QED
    BY <2>1
<1>3. IsWellFoundedOn(StrictSubsetOrdering(Nat), FiniteSubsetsOf(Nat))
  BY FS_StrictSubsetOrderingWellFounded
<1>4. PICK B \in Family : \A C \in Family : ~(<<C, B>> \in StrictSubsetOrdering(Nat))
  <2> HIDE DEF Family
  <2>1. QED BY <1>2, <1>3, WFMin
<1>5. PICK n \in T : B = Below(n)
  BY <1>4
<1>6. ASSUME NEW m \in T, ~(n <= m) PROVE FALSE
  <2>1. m \in Nat /\ n \in Nat /\ m < n
    BY <1>6
  <2>2. Below(m) \subseteq Below(n) /\ m \in Below(n) /\ m \notin Below(m) /\ Below(n) \subseteq Nat
    BY <2>1
  <2>3. <<Below(m), B>> \in StrictSubsetOrdering(Nat)
    BY <1>5, <2>2 DEF StrictSubsetOrdering
  <2>4. QED
    BY <1>4, <2>3
<1>7. QED
  BY <1>6

\* A finite set of numbers that is not empty has a greatest one.
LEMMA FiniteMax ==
  ASSUME NEW S \in SUBSET Nat, S # {}, IsFiniteSet(S)
  PROVE  \E m \in S : \A x \in S : x <= m
<1> DEFINE Bad == {T \in SUBSET S : T # {} /\ ~ \E m \in T : \A x \in T : x <= m}
<1>1. SUFFICES ASSUME Bad # {} PROVE FALSE
  <2> S \in SUBSET S OBVIOUS
  <2> QED OBVIOUS
<1>2. Bad \subseteq FiniteSubsetsOf(S)
  BY FS_Subset DEF FiniteSubsetsOf
<1>3. PICK B \in Bad : \A C \in Bad : ~(<<C, B>> \in StrictSubsetOrdering(S))
  <2> HIDE DEF Bad
  <2>1. QED BY <1>1, <1>2, WFMin, FS_StrictSubsetOrderingWellFounded
<1>4. PICK b \in B : TRUE
  OBVIOUS
<1>5. PICK C \in SUBSET S : C = B \ {b}
  OBVIOUS
<1>6. C \notin Bad
  BY <1>3, <1>5, <1>4 DEF StrictSubsetOrdering
<1>7. CASE C = {}
  <2>1. B = {b} /\ b \in Nat
    BY <1>5, <1>7, <1>4
  <2>2. \A x \in B : x <= b
    BY <2>1
  <2>3. QED BY <1>3, <2>2, <1>4
<1>8. CASE C # {}
  <2>1. PICK m \in C : \A x \in C : x <= m
    BY <1>6, <1>8
  <2>2. m \in B /\ b \in Nat /\ m \in Nat /\ B = C \cup {b}
    BY <2>1, <1>5, <1>4
  <2>3. \A x \in B : x <= (IF b > m THEN b ELSE m)
    BY <2>1, <2>2
  <2>4. QED BY <2>2, <2>3, <1>3
<1>9. QED BY <1>7, <1>8

\* Induction over the numbers, by the least number that is not in S.
LEMMA NumbersInduction ==
  ASSUME NEW S, 0 \in S, \A n \in Nat : n \in S => n + 1 \in S
  PROVE  Nat \subseteq S
<1> DEFINE T == Nat \ S
<1>1. SUFFICES ASSUME T # {} PROVE FALSE
  OBVIOUS
<1>2. PICK n \in T : \A m \in T : n <= m
  <2> HIDE DEF T
  <2>1. T \in SUBSET Nat
    BY DEF T
  <2>2. QED
    BY <1>1, <2>1, LeastNumber
<1>3. n \in Nat /\ n # 0 /\ n - 1 \in Nat /\ n - 1 \notin T
  BY <1>2
<1>4. QED
  BY <1>2, <1>3

\* f has the value base at 0, and is defined elsewhere by its values at
\* smaller numbers.
Descends(smaller) == smaller \in [Nat -> Nat] /\ \A n \in Nat : n # 0 => smaller[n] < n
IsRecursive(f, V, base, step, smaller) ==
  /\ f \in [Nat -> V]
  /\ f[0] = base
  /\ \A n \in Nat : n # 0 => f[n] = step[n][f[smaller[n]]]

\* There is such a function.  The library states this, too, with operators as
\* parameters; here the step is a function.
LEMMA RecursiveFunction ==
  ASSUME NEW V, NEW base \in V, NEW step \in [Nat -> [V -> V]],
         NEW smaller, Descends(smaller)
  PROVE  \E f : IsRecursive(f, V, base, step, smaller)
<1>1. smaller \in [Nat -> Nat] /\ \A n \in Nat : n # 0 => smaller[n] < n
  BY DEF Descends
<1> DEFINE IsPart(f, k) == /\ f[0] = base
                           /\ \A n \in 1..k : f[n] = step[n][f[smaller[n]]]
           S == {k \in Nat : \E f \in [0..k -> V] : IsPart(f, k)}
<1>2. 0 \in S
  <2>1. [n \in 0..0 |-> base] \in [0..0 -> V] /\ IsPart([n \in 0..0 |-> base], 0)
    OBVIOUS
  <2>2. QED
    BY <2>1
<1>3. ASSUME NEW k \in Nat, k \in S PROVE k + 1 \in S
  <2>1. PICK f \in [0..k -> V] : IsPart(f, k)
    BY <1>3
  <2>2. smaller[k + 1] \in 0..k
    BY <1>1
  <2>3. step[k + 1][f[smaller[k + 1]]] \in V
    <3>1. f[smaller[k + 1]] \in V /\ step[k + 1] \in [V -> V]
      BY <2>2
    <3>2. QED
      BY <3>1
  <2> DEFINE g == [n \in 0..(k + 1) |-> IF n = k + 1 THEN step[k + 1][f[smaller[k + 1]]]
                                                   ELSE f[n]]
  <2>4. g \in [0..(k + 1) -> V]
    BY <2>3
  <2>5. \A n \in 0..k : g[n] = f[n]
    OBVIOUS
  <2>6. \A n \in 1..k : smaller[n] \in 0..k
    BY <1>1
  <2>7. g[k + 1] = step[k + 1][g[smaller[k + 1]]]
    <3>1. g[smaller[k + 1]] = f[smaller[k + 1]]
      BY <2>2, <2>5
    <3>2. g[k + 1] = step[k + 1][f[smaller[k + 1]]]
      OBVIOUS
    <3>3. QED
      BY <3>1, <3>2
  <2>8. g[0] = base
    BY <2>1, <2>5
  <2> HIDE DEF g
  <2>9. IsPart(g, k + 1)
    <3>1. ASSUME NEW n \in 1..(k + 1) PROVE g[n] = step[n][g[smaller[n]]]
      <4>1. CASE n = k + 1
        BY <2>7, <4>1
      <4>2. CASE n # k + 1
        <5>1. n \in 1..k /\ n \in 0..k
          BY <4>2
        <5>2. g[n] = f[n] /\ f[n] = step[n][f[smaller[n]]] /\ smaller[n] \in 0..k
          BY <2>1, <2>5, <2>6, <5>1
        <5>3. QED
          BY <2>5, <5>2
      <4>3. QED
        BY <4>1, <4>2
    <3>2. QED
      BY <2>8, <3>1
  <2>10. \E h \in [0..(k + 1) -> V] : IsPart(h, k + 1)
    <3> HIDE DEF IsPart
    <3>1. QED BY <2>4, <2>9
  <2>11. QED
    <3> HIDE DEF IsPart
    <3>1. QED BY <2>10
<1>4. \A k \in Nat : \E f \in [0..k -> V] : IsPart(f, k)
  <2> HIDE DEF IsPart
  <2>1. Nat \subseteq S
    <3> HIDE DEF S
    <3>1. QED BY <1>2, <1>3, NumbersInduction
  <2>2. QED
    BY <2>1
<1> DEFINE part == [k \in Nat |-> CHOOSE f \in [0..k -> V] : IsPart(f, k)]
<1>5. \A k \in Nat : part[k] \in [0..k -> V] /\ IsPart(part[k], k)
  <2> HIDE DEF IsPart
  <2>1. QED BY <1>4
<1>6. \A k \in Nat : \A n \in 0..k : part[k][n] = part[n][n]
  <2> DEFINE Same == {n \in Nat : \A m \in 0..n : \A j, k \in Nat :
                          m <= j /\ m <= k => part[j][m] = part[k][m]}
  <2> HIDE DEF part
  <2>1. 0 \in Same
    BY <1>5
  <2>2. ASSUME NEW n \in Nat, n \in Same PROVE n + 1 \in Same
    <3>1. ASSUME NEW j \in Nat, NEW k \in Nat, n + 1 <= j, n + 1 <= k
          PROVE  part[j][n + 1] = part[k][n + 1]
      <4>1. smaller[n + 1] \in 0..n
        BY <1>1
      <4>2. part[j][smaller[n + 1]] = part[k][smaller[n + 1]]
        BY <2>2, <3>1, <4>1
      <4>3. n + 1 \in 1..j /\ n + 1 \in 1..k
        BY <3>1
      <4>4. /\ part[j][n + 1] = step[n + 1][part[j][smaller[n + 1]]]
            /\ part[k][n + 1] = step[n + 1][part[k][smaller[n + 1]]]
        BY <1>5, <4>3
      <4>5. QED
        BY <4>2, <4>4
    <3>2. ASSUME NEW m \in 0..(n + 1), NEW j \in Nat, NEW k \in Nat, m <= j, m <= k
          PROVE  part[j][m] = part[k][m]
      <4>1. CASE m = n + 1
        BY <3>1, <3>2, <4>1
      <4>2. CASE m # n + 1
        <5>1. m \in 0..n
          BY <4>2
        <5>2. QED
          BY <2>2, <3>2, <5>1
      <4>3. QED
        BY <4>1, <4>2
    <3>3. QED
      BY <3>2
  <2>3. Nat \subseteq Same
    <3> HIDE DEF Same
    <3>1. QED BY <2>1, <2>2, NumbersInduction
  <2>4. ASSUME NEW k \in Nat, NEW n \in 0..k PROVE part[k][n] = part[n][n]
    <3>1. n \in Nat /\ n <= k /\ n \in 0..n
      OBVIOUS
    <3>2. n \in Same
      BY <2>3, <3>1
    <3>3. QED
      BY <3>1, <3>2
  <2>5. QED
    BY <2>4
<1> DEFINE F == [n \in Nat |-> part[n][n]]
<1>7. F \in [Nat -> V]
  <2> HIDE DEF part
  <2>1. ASSUME NEW n \in Nat PROVE part[n][n] \in V
    <3>1. part[n] \in [0..n -> V] /\ n \in 0..n
      BY <1>5
    <3>2. QED
      BY <3>1
  <2>2. QED
    BY <2>1
<1>8. F[0] = base
  <2> HIDE DEF part
  <2>1. QED BY <1>5
<1>9. ASSUME NEW n \in Nat, n # 0 PROVE F[n] = step[n][F[smaller[n]]]
  <2> HIDE DEF part
  <2>1. smaller[n] \in 0..n /\ smaller[n] \in Nat /\ n \in 1..n
    BY <1>1, <1>9
  <2>2. part[n][n] = step[n][part[n][smaller[n]]]
    BY <1>5, <2>1
  <2>3. part[n][smaller[n]] = part[smaller[n]][smaller[n]]
    BY <1>6, <2>1
  <2>4. QED
    BY <2>1, <2>2, <2>3
<1>10. QED
  <2> HIDE DEF F
  <2>1. QED BY <1>7, <1>8, <1>9 DEF IsRecursive

\* Quotient and remainder.
LEMMA DivMod ==
  ASSUME NEW b \in Nat, b > 1, NEW n \in Nat
  PROVE  /\ n \div b \in Nat /\ n % b \in 0..(b - 1)
         /\ n = b * (n \div b) + (n % b)
         /\ n # 0 => n \div b < n
<1>1. n \div b \in Int /\ n % b \in 0..(b - 1) /\ n = b * (n \div b) + (n % b)
  OBVIOUS
<1>2. n \div b \in Nat
  BY <1>1
<1>3. n # 0 => n \div b < n
  BY <1>1, <1>2
<1>4. QED
  BY <1>1, <1>2, <1>3

\* The last digit to the base b, and the digits before it.
LEMMA Digits ==
  ASSUME NEW b \in Nat, b > 1, NEW h \in Nat, NEW c \in 0..(b - 1)
  PROVE  /\ h * b + c \in Nat
         /\ (h * b + c) \div b = h /\ (h * b + c) % b = c
         /\ h # 0 => h * b + c # 0
<1>1. h * b \in Nat
  OBVIOUS
<1> DEFINE n == h * b + c
<1>2. n \in Nat
  BY <1>1
<1>3. n \div b \in Int /\ n % b \in 0..(b - 1) /\ n = b * (n \div b) + (n % b)
  BY <1>2
<1>4. PICK q \in Int, r \in 0..(b - 1) : q = n \div b /\ r = n % b
  BY <1>3
<1>5. b * (q - h) = c - r
  <2>1. h * b + c = b * q + r
    BY <1>3, <1>4
  <2>2. QED
    BY <2>1
<1>6. q = h
  <2>1. PICK d \in Int : d = q - h
    OBVIOUS
  <2>2. b * d = c - r /\ -b < c - r /\ c - r < b
    BY <1>5, <2>1
  <2>3. CASE d >= 1
    <3>1. b * d >= b
      BY <2>3
    <3>2. QED BY <3>1, <2>2
  <2>4. CASE d <= -1
    <3>1. b * d <= -b
      BY <2>4
    <3>2. QED BY <3>1, <2>2
  <2>5. QED
    BY <2>1, <2>3, <2>4
<1>7. r = c
  BY <1>5, <1>6
<1>8. h # 0 => n # 0
  BY <1>1
<1>9. QED
  BY <1>2, <1>4, <1>6, <1>7, <1>8

---------------------------------------------------------------------------
(***************************************************************************)
(* Sequences.                                                              *)
(***************************************************************************)

\* The members of a sequence that loses its end are as they were.
LEMMA PopProperties ==
  ASSUME NEW S, NEW s \in Seq(S), NEW n \in 0..Len(s)
  PROVE  /\ SubSeq(s, 1, n) \in Seq(S) /\ Len(SubSeq(s, 1, n)) = n
         /\ \A i \in 1..n : SubSeq(s, 1, n)[i] = s[i]
BY SubSeqProperties

\* What a concatenation holds.
LEMMA Appended ==
  ASSUME NEW S, NEW s \in Seq(S), NEW t \in Seq(S)
  PROVE  /\ s \o t \in Seq(S) /\ Len(s \o t) = Len(s) + Len(t)
         /\ \A i \in 1..Len(s) : (s \o t)[i] = s[i]
         /\ \A i \in 1..Len(t) : (s \o t)[Len(s) + i] = t[i]
<1>1. Len(s) \in Nat /\ Len(t) \in Nat
  OBVIOUS
<1>2. /\ s \o t \in Seq(S) /\ Len(s \o t) = Len(s) + Len(t)
      /\ \A i \in 1..(Len(s) + Len(t)) :
           (s \o t)[i] = IF i <= Len(s) THEN s[i] ELSE t[i - Len(s)]
  BY ConcatProperties
<1>3. \A i \in 1..Len(s) : i \in 1..(Len(s) + Len(t)) /\ i <= Len(s)
  BY <1>1
<1>4. \A i \in 1..Len(t) : /\ Len(s) + i \in 1..(Len(s) + Len(t))
                            /\ ~(Len(s) + i <= Len(s)) /\ Len(s) + i - Len(s) = i
  BY <1>1
<1>5. QED
  BY <1>2, <1>3, <1>4

\* A sequence with the members of two, one after the other, is their
\* concatenation.
LEMMA IsConcat ==
  ASSUME NEW S, NEW s \in Seq(S), NEW t \in Seq(S), NEW u \in Seq(S),
         Len(u) = Len(s) + Len(t), \A i \in 1..Len(s) : u[i] = s[i],
         \A i \in 1..Len(t) : u[Len(s) + i] = t[i]
  PROVE  u = s \o t
<1>1. PICK v : v = s \o t
  OBVIOUS
<1>2. PICK k \in Nat, m \in Nat : k = Len(s) /\ m = Len(t)
  OBVIOUS
<1>3. /\ v \in Seq(S) /\ Len(v) = k + m
      /\ \A i \in 1..k : v[i] = s[i]
      /\ \A i \in 1..m : v[k + i] = t[i]
  BY <1>1, <1>2, Appended
<1>4. ASSUME NEW i \in 1..(k + m) PROVE u[i] = v[i]
  <2>1. CASE i <= k
    <3>1. i \in 1..k
      BY <2>1
    <3>2. QED
      BY <1>2, <1>3, <3>1
  <2>2. CASE ~(i <= k)
    <3>1. PICK j \in 1..m : i = k + j
      <4>1. i - k \in 1..m /\ i = k + (i - k)
        BY <2>2
      <4>2. QED
        BY <4>1
    <3>2. QED
      BY <1>2, <1>3, <3>1
  <2>3. QED
    BY <2>1, <2>2
<1>5. Len(u) = Len(v) /\ \A i \in 1..Len(u) : u[i] = v[i]
  BY <1>2, <1>3, <1>4
<1>6. QED
  BY <1>1, <1>3, <1>5, SeqEqual

\* The members behind a first one.
Prepends(u, x, s, S) == /\ u \in Seq(S) /\ Len(u) = Len(s) + 1 /\ u[1] = x
                        /\ \A i \in 1..Len(s) : u[i + 1] = s[i]

LEMMA ConsProperties ==
  ASSUME NEW S, NEW x \in S, NEW s \in Seq(S)
  PROVE  Prepends(Cons(x, s), x, s, S)
<1>1. PICK o \in Seq(S) : o = <<x>>
  <2>1. <<x>> \in Seq(S)
    OBVIOUS
  <2>2. QED
    BY <2>1
<1>2. o \in Seq(S) /\ Len(o) = 1 /\ o[1] = x
  BY <1>1
<1>3. PICK u : u = o \o s
  OBVIOUS
<1>4. /\ u \in Seq(S) /\ Len(u) = Len(o) + Len(s) /\ Len(s) \in Nat
      /\ \A i \in 1..Len(o) : u[i] = o[i]
      /\ \A i \in 1..Len(s) : u[Len(o) + i] = s[i]
  <2>1. Len(s) \in Nat
    OBVIOUS
  <2>2. /\ o \o s \in Seq(S) /\ Len(o \o s) = Len(o) + Len(s)
        /\ \A i \in 1..Len(o) : (o \o s)[i] = o[i]
        /\ \A i \in 1..Len(s) : (o \o s)[Len(o) + i] = s[i]
    BY Appended
  <2>3. QED
    BY <1>3, <2>1, <2>2
<1>5. 1 \in 1..Len(o) /\ \A i \in 1..Len(s) : Len(o) + i = i + 1
  BY <1>2
<1>6. /\ u \in Seq(S) /\ Len(u) = Len(s) + 1 /\ u[1] = x
      /\ \A i \in 1..Len(s) : u[i + 1] = s[i]
  BY <1>2, <1>4, <1>5
<1>7. Cons(x, s) = u
  BY <1>1, <1>3 DEF Cons
<1>8. Prepends(u, x, s, S)
  BY <1>6 DEF Prepends
<1>9. QED
  BY <1>7, <1>8

LEMMA IsPrepended ==
  ASSUME NEW S, NEW x \in S, NEW s \in Seq(S), NEW u \in Seq(S),
         Len(u) = Len(s) + 1, u[1] = x, \A i \in 1..Len(s) : u[i + 1] = s[i]
  PROVE  u = Cons(x, s)
<1>1. PICK v : v = Cons(x, s)
  OBVIOUS
<1>2. Prepends(v, x, s, S)
  BY <1>1, ConsProperties
<1>3. /\ v \in Seq(S) /\ Len(v) = Len(s) + 1 /\ v[1] = x
      /\ \A i \in 1..Len(s) : v[i + 1] = s[i]
  BY <1>2 DEF Prepends
<1>4. PICK m \in Nat : m = Len(s)
  OBVIOUS
<1>5. ASSUME NEW i \in 1..(m + 1) PROVE u[i] = v[i]
  <2>1. CASE i = 1
    BY <1>3, <2>1
  <2>2. CASE i # 1
    <3>1. PICK j \in 1..m : i = j + 1
      <4>1. i - 1 \in 1..m /\ i = (i - 1) + 1
        BY <2>2
      <4>2. QED
        BY <4>1
    <3>2. QED
      BY <1>3, <1>4, <3>1
  <2>3. QED
    BY <2>1, <2>2
<1>6. Len(u) = Len(v) /\ \A i \in 1..Len(u) : u[i] = v[i]
  BY <1>3, <1>4, <1>5
<1>7. QED
  BY <1>1, <1>3, <1>6, SeqEqual

\* A sequence that is not empty has a first member and others.
LEMMA HasFirst ==
  ASSUME NEW S, NEW s \in Seq(S), s # <<>>
  PROVE  /\ Head(s) \in S /\ Tail(s) \in Seq(S) /\ s = Cons(Head(s), Tail(s))
         /\ Head(s) = s[1] /\ Len(s) = Len(Tail(s)) + 1
         /\ \A i \in 1..Len(Tail(s)) : s[i + 1] = Tail(s)[i]
<1>1. /\ Head(s) \in S /\ Tail(s) \in Seq(S) /\ Len(Tail(s)) = Len(s) - 1
      /\ \A i \in 1..Len(Tail(s)) : Tail(s)[i] = s[i + 1]
  BY HeadTailProperties
<1>2. Head(s) = s[1] /\ Len(s) \in Nat
  OBVIOUS
<1>3. Len(s) = Len(Tail(s)) + 1
  BY <1>1, <1>2
<1>4. PICK t, x : t = Tail(s) /\ x = Head(s)
  OBVIOUS
<1>5. s = Cons(x, t)
  BY <1>1, <1>2, <1>3, <1>4, IsPrepended
<1>6. QED
  BY <1>1, <1>2, <1>3, <1>4, <1>5

\* Two sequences that grow by the same pieces are one.
Grows(f, k, S, piece) == /\ f \in [0..k -> Seq(S)]
                         /\ \A n \in 1..k : f[n] = f[n - 1] \o piece[n]

LEMMA SameGrowth ==
  ASSUME NEW S, NEW k \in Nat, NEW piece, NEW f, Grows(f, k, S, piece),
         NEW g, Grows(g, k, S, piece), f[0] = g[0]
  PROVE  f[k] = g[k]
<1>1. \A n \in 1..k : f[n] = f[n - 1] \o piece[n] /\ g[n] = g[n - 1] \o piece[n]
  BY DEF Grows
<1> DEFINE T == {n \in 0..k : f[n] # g[n]}
<1>2. SUFFICES ASSUME T # {} PROVE FALSE
  <2>1. k \in 0..k
    OBVIOUS
  <2>2. QED
    BY <2>1
<1>3. PICK n \in T : \A m \in T : n <= m
  <2>1. T \in SUBSET Nat
    OBVIOUS
  <2> HIDE DEF T
  <2>2. QED
    BY <1>2, <2>1, LeastNumber
<1>4. n \in 1..k /\ n - 1 \in 0..k /\ n - 1 \notin T
  BY <1>3
<1>5. QED
  BY <1>1, <1>3, <1>4

\* FlattenSeq, one member after the other.
IsFlattening(f, S, s) ==
  /\ f \in [0..Len(s) -> Seq(S)]
  /\ f[0] = <<>> /\ FlattenSeq(s) = f[Len(s)]
  /\ \A n \in 1..Len(s) : f[n] = f[n - 1] \o s[n]

LEMMA FlattenDef ==
  ASSUME NEW S, NEW s \in Seq(Seq(S))
  PROVE  \E f : IsFlattening(f, S, s)
<1> DEFINE V == Seq(S)
           base == <<>>
           part == [n \in Nat |-> IF n \in 1..Len(s) THEN s[n] ELSE <<>>]
           step == [n \in Nat |-> [t \in V |-> t \o part[n]]]
           smaller == [n \in Nat |-> IF n = 0 THEN 0 ELSE n - 1]
<1>1. Len(s) \in Nat /\ base \in V /\ \A n \in 1..Len(s) : s[n] \in V
  OBVIOUS
<1>2. part \in [Nat -> V]
  BY <1>1
<1>3. step \in [Nat -> [V -> V]]
  <2> HIDE DEF part
  <2>1. ASSUME NEW n \in Nat, NEW t \in V PROVE t \o part[n] \in V
    <3>1. t \in Seq(S) /\ part[n] \in Seq(S)
      BY <1>2
    <3>2. QED
      BY <3>1, Appended
  <2>2. QED
    BY <2>1
<1>4. Descends(smaller)
  BY DEF Descends
<1>5. PICK h : IsRecursive(h, V, base, step, smaller)
  <2> HIDE DEF step, smaller, V, base
  <2>1. QED
    BY <1>1, <1>3, <1>4, RecursiveFunction
<1>6. h \in [Nat -> V] /\ h[0] = <<>>
  BY <1>5 DEF IsRecursive
<1>7. ASSUME NEW n \in 1..Len(s) PROVE h[n] = h[n - 1] \o s[n]
  <2> HIDE DEF step, V
  <2>1. n \in Nat /\ n # 0 /\ n - 1 \in Nat /\ smaller[n] = n - 1
    BY <1>1
  <2>2. part[n] = s[n]
    BY <2>1
  <2> HIDE DEF part, smaller
  <2>3. h[n] = step[n][h[n - 1]]
    BY <1>5, <2>1 DEF IsRecursive
  <2>4. step[n][h[n - 1]] = h[n - 1] \o part[n]
    BY <1>6, <2>1 DEF step
  <2>5. QED
    BY <2>2, <2>3, <2>4
<1> HIDE DEF step, smaller, part, V
<1> DEFINE f == [n \in 0..Len(s) |-> h[n]]
<1>8. ASSUME Len(s) # 0 PROVE h[1] = s[1]
  <2>1. 1 \in 1..Len(s) /\ s[1] \in Seq(S)
    BY <1>1, <1>8 DEF V
  <2>2. PICK n \in 1..Len(s) : n = 1
    BY <2>1
  <2> HIDE DEF f
  <2>3. h[n] = h[n - 1] \o s[n]
    BY <1>7
  <2>4. QED
    <3>1. n - 1 = 0
      BY <2>2
    <3>2. QED
      BY <1>6, <2>1, <2>2, <2>3, <3>1, ConcatEmptySeq
<1>9. /\ f \in [0..Len(s) -> Seq(S)] /\ f[0] = <<>> /\ f[Len(s)] = h[Len(s)]
      /\ \A n \in 1..Len(s) : f[n] = f[n - 1] \o s[n]
  <2>1. /\ f \in [0..Len(s) -> Seq(S)] /\ f[0] = <<>> /\ f[Len(s)] = h[Len(s)]
    BY <1>1, <1>6 DEF V
  <2>2. ASSUME NEW n \in 1..Len(s) PROVE f[n] = f[n - 1] \o s[n]
    <3>1. n \in 0..Len(s) /\ n - 1 \in 0..Len(s)
      BY <1>1
    <3>2. QED
      BY <1>7, <3>1
  <2>3. QED
    BY <2>1, <2>2
<1>10. CASE Len(s) = 0
  <2>1. FlattenSeq(s) = s /\ s = <<>>
    BY <1>10, EmptySeq DEF FlattenSeq
  <2> HIDE DEF f
  <2>2. IsFlattening(f, S, s)
    BY <1>9, <1>10, <2>1 DEF IsFlattening
  <2>3. QED
    BY <2>2
<1>11. CASE Len(s) # 0
  <2> DEFINE IsFlat(g) == g = [n \in 1..Len(s) |-> IF n = 1 THEN s[n] ELSE g[n - 1] \o s[n]]
             flat == CHOOSE g : IsFlat(g)
             some == [n \in 1..Len(s) |-> h[n]]
  <2>1. IsFlat(some)
    <3>1. ASSUME NEW n \in 1..Len(s)
          PROVE  some[n] = IF n = 1 THEN s[n] ELSE some[n - 1] \o s[n]
      <4>1. CASE n = 1
        <5>1. QED
          BY <1>11, <1>8, <4>1
      <4>2. CASE n # 1
        <5>1. n - 1 \in 1..Len(s)
          BY <1>1, <4>2
        <5>2. QED
          BY <1>7, <4>2, <5>1
      <4>3. QED
        BY <4>1, <4>2
    <3> HIDE DEF some
    <3>2. some = [n \in 1..Len(s) |-> some[n]]
      BY DEF some
    <3>3. QED
      BY <3>1, <3>2
  <2>2. IsFlat(flat)
    <3> HIDE DEF IsFlat
    <3>1. QED BY <2>1
  <2>3. FlattenSeq(s) = flat[Len(s)]
    BY <1>11 DEF FlattenSeq
  <2> HIDE DEF flat, f, some
  <2> DEFINE T == {n \in 1..Len(s) : flat[n] # h[n]}
  <2>4. T = {}
    <3>1. SUFFICES ASSUME T # {} PROVE FALSE
      OBVIOUS
    <3>2. PICK n \in T : \A m \in T : n <= m
      <4>1. T \in SUBSET Nat
        BY <1>1
      <4> HIDE DEF T
      <4>2. QED
        BY <3>1, <4>1, LeastNumber
    <3>3. n \in 1..Len(s)
      BY <3>2
    <3>4. n # 1
      <4>1. 1 \in 1..Len(s)
        BY <1>1, <1>11
      <4>2. flat[1] = s[1]
        BY <2>2, <4>1
      <4>3. QED
        BY <1>11, <1>8, <3>2, <4>2
    <3>5. n - 1 \in 1..Len(s) /\ n - 1 \notin T
      BY <1>1, <3>2, <3>3, <3>4
    <3>6. flat[n] = flat[n - 1] \o s[n]
      BY <2>2, <3>3, <3>4
    <3>7. QED
      BY <1>7, <3>2, <3>5, <3>6
  <2>5. FlattenSeq(s) = f[Len(s)]
    BY <1>1, <1>9, <1>11, <2>3, <2>4
  <2>6. IsFlattening(f, S, s)
    BY <1>9, <2>5 DEF IsFlattening
  <2>7. QED
    BY <2>6
<1>12. QED
  BY <1>10, <1>11

LEMMA FlattenSmall ==
  ASSUME NEW S, NEW x \in Seq(S)
  PROVE  FlattenSeq(<<>>) = <<>> /\ FlattenSeq(<<x>>) = x
<1>1. FlattenSeq(<<>>) = <<>>
  BY DEF FlattenSeq
<1>2. <<x>> \in Seq(Seq(S)) /\ Len(<<x>>) = 1 /\ <<x>>[1] = x
  OBVIOUS
<1>3. PICK s : s = <<x>>
  OBVIOUS
<1>4. PICK n \in 1..Len(s) : n = 1 /\ Len(s) = n /\ s[n] = x /\ n - 1 = 0
  BY <1>2, <1>3
<1>5. PICK f : IsFlattening(f, S, s)
  BY <1>2, <1>3, FlattenDef
<1>6. f[n] = f[n - 1] \o s[n] /\ f[0] = <<>> /\ FlattenSeq(s) = f[n]
  BY <1>4, <1>5 DEF IsFlattening
<1>7. f[n] = <<>> \o x
  BY <1>4, <1>6
<1>8. QED
  BY <1>1, <1>3, <1>6, <1>7, ConcatEmptySeq

LEMMA FlattenType ==
  ASSUME NEW S, NEW s \in Seq(Seq(S))
  PROVE  FlattenSeq(s) \in Seq(S)
<1>1. Len(s) \in 0..Len(s)
  OBVIOUS
<1>2. PICK f : IsFlattening(f, S, s)
  BY FlattenDef
<1>3. QED
  BY <1>1, <1>2 DEF IsFlattening

\* What is flattened in two parts is flattened.
LEMMA FlattenConcat ==
  ASSUME NEW S, NEW s \in Seq(Seq(S)), NEW t \in Seq(Seq(S))
  PROVE  FlattenSeq(s \o t) = FlattenSeq(s) \o FlattenSeq(t)
<1>1. PICK st : st = s \o t
  OBVIOUS
<1>2. PICK k \in Nat, m \in Nat : k = Len(s) /\ m = Len(t)
  OBVIOUS
<1>3. /\ st \in Seq(Seq(S)) /\ Len(st) = k + m
      /\ \A n \in 1..k : st[n] = s[n] /\ s[n] \in Seq(S)
      /\ \A n \in 1..m : st[k + n] = t[n] /\ t[n] \in Seq(S)
  BY <1>1, <1>2, Appended
<1>4. PICK f : IsFlattening(f, S, s)
  BY FlattenDef
<1>5. PICK g : IsFlattening(g, S, t)
  BY FlattenDef
<1>6. PICK h : IsFlattening(h, S, st)
  BY <1>3, FlattenDef
<1>7. /\ f \in [0..k -> Seq(S)] /\ f[0] = <<>> /\ FlattenSeq(s) = f[k]
      /\ \A n \in 1..k : f[n] = f[n - 1] \o s[n]
  BY <1>2, <1>4 DEF IsFlattening
<1>8. /\ g \in [0..m -> Seq(S)] /\ g[0] = <<>> /\ FlattenSeq(t) = g[m]
      /\ \A n \in 1..m : g[n] = g[n - 1] \o t[n]
  BY <1>2, <1>5 DEF IsFlattening
<1>9. /\ h \in [0..(k + m) -> Seq(S)] /\ h[0] = <<>> /\ FlattenSeq(st) = h[k + m]
      /\ \A n \in 1..(k + m) : h[n] = h[n - 1] \o st[n]
  BY <1>3, <1>6 DEF IsFlattening
<1>10. h[k] = f[k]
  <2> DEFINE first == [n \in 0..k |-> h[n]]
             piece == [n \in 1..k |-> s[n]]
  <2>1. \A n \in 0..k : n \in 0..(k + m)
    OBVIOUS
  <2>2. first \in [0..k -> Seq(S)] /\ first[0] = f[0]
    BY <1>7, <1>9, <2>1
  <2>3. ASSUME NEW n \in 1..k
        PROVE  first[n] = first[n - 1] \o piece[n]
    <3>1. n \in 1..(k + m) /\ n - 1 \in 0..k /\ n \in 0..k
      OBVIOUS
    <3>2. h[n] = h[n - 1] \o s[n]
      BY <1>3, <1>9, <3>1
    <3>3. QED
      BY <3>1, <3>2
  <2>4. \A n \in 1..k : f[n] = f[n - 1] \o piece[n]
    BY <1>7
  <2>5. k \in 0..k /\ first[k] = h[k]
    OBVIOUS
  <2> HIDE DEF first, piece
  <2>6. Grows(first, k, S, piece)
    BY <2>2, <2>3 DEF Grows
  <2>7. Grows(f, k, S, piece)
    BY <1>7, <2>4 DEF Grows
  <2>8. QED
    BY <2>2, <2>5, <2>6, <2>7, SameGrowth
<1>11. h[k + m] = f[k] \o g[m]
  <2> DEFINE second == [n \in 0..m |-> h[k + n]]
             after == [n \in 0..m |-> f[k] \o g[n]]
             piece == [n \in 1..m |-> t[n]]
  <2>1. f[k] \in Seq(S)
    BY <1>7
  <2>2. \A n \in 0..m : k + n \in 0..(k + m)
    OBVIOUS
  <2>3. second \in [0..m -> Seq(S)]
    BY <1>9, <2>2
  <2>4. after \in [0..m -> Seq(S)]
    <3>1. \A n \in 0..m : f[k] \o g[n] \in Seq(S)
      BY <1>8, <2>1, Appended
    <3>2. QED
      BY <3>1
  <2>5. second[0] = after[0]
    <3>1. 0 \in 0..m /\ k + 0 = k
      OBVIOUS
    <3>2. second[0] = h[k] /\ after[0] = f[k] \o <<>>
      BY <1>8, <3>1
    <3>3. QED
      BY <1>10, <2>1, <3>2, ConcatEmptySeq
  <2>6. ASSUME NEW n \in 1..m
        PROVE  second[n] = second[n - 1] \o piece[n]
    <3>1. k + n \in 1..(k + m) /\ (k + n) - 1 = k + (n - 1) /\ n - 1 \in 0..m /\ n \in 0..m
      OBVIOUS
    <3>2. h[k + n] = h[k + (n - 1)] \o t[n]
      BY <1>3, <1>9, <3>1
    <3>3. QED
      BY <3>1, <3>2
  <2>7. ASSUME NEW n \in 1..m
        PROVE  after[n] = after[n - 1] \o piece[n]
    <3>1. n - 1 \in 0..m /\ n \in 0..m
      OBVIOUS
    <3>2. t[n] \in Seq(S) /\ g[n - 1] \in Seq(S) /\ g[n] = g[n - 1] \o t[n]
      BY <1>3, <1>8, <3>1
    <3>3. (f[k] \o g[n - 1]) \o t[n] = f[k] \o (g[n - 1] \o t[n])
      <4> HIDE DEF after, second, piece
      <4>1. PICK a \in Seq(S), b \in Seq(S), c \in Seq(S) :
              a = f[k] /\ b = g[n - 1] /\ c = t[n]
        BY <2>1, <3>2
      <4>2. (a \o b) \o c = a \o (b \o c)
        BY ConcatAssociative
      <4>3. QED
        BY <4>1, <4>2
    <3>4. after[n] = f[k] \o g[n] /\ after[n - 1] = f[k] \o g[n - 1] /\ piece[n] = t[n]
      BY <3>1
    <3>5. QED
      BY <3>2, <3>3, <3>4
  <2>8. second[m] = h[k + m] /\ after[m] = f[k] \o g[m]
    <3>1. m \in 0..m
      OBVIOUS
    <3>2. QED
      BY <3>1
  <2> HIDE DEF second, after, piece
  <2>9. Grows(second, m, S, piece)
    BY <2>3, <2>6 DEF Grows
  <2>10. Grows(after, m, S, piece)
    BY <2>4, <2>7 DEF Grows
  <2>11. second[m] = after[m]
    <3> HIDE DEF after, second, piece
    <3>1. QED
      BY <2>5, <2>9, <2>10, SameGrowth
  <2>12. QED
    BY <2>8, <2>11
<1>12. QED
  BY <1>1, <1>7, <1>8, <1>9, <1>11

\* What is flattened behind a first member.
LEMMA FlattenFirst ==
  ASSUME NEW S, NEW x \in Seq(S), NEW s \in Seq(Seq(S))
  PROVE  FlattenSeq(Cons(x, s)) = x \o FlattenSeq(s)
<1>1. PICK o \in Seq(Seq(S)) : o = <<x>>
  <2>1. <<x>> \in Seq(Seq(S))
    OBVIOUS
  <2>2. QED
    BY <2>1
<1>2. FlattenSeq(o) = x
  BY <1>1, FlattenSmall
<1>3. FlattenSeq(o \o s) = FlattenSeq(o) \o FlattenSeq(s)
  BY FlattenConcat
<1>4. Cons(x, s) = o \o s
  BY <1>1 DEF Cons
<1>5. QED
  BY <1>2, <1>3, <1>4

\* A pair is a sequence.
LEMMA PairInSeq ==
  ASSUME NEW S, NEW a \in S, NEW b \in S
  PROVE  <<a, b>> \in Seq(S) /\ Len(<<a, b>>) = 2
OBVIOUS

\* The last member of a sequence, and the others.
LEMMA FrontLast ==
  ASSUME NEW S, NEW s \in Seq(S), s # << >>
  PROVE  /\ Len(s) \in Nat \ {0}
         /\ Last(s) = s[Len(s)] /\ Last(s) \in S
         /\ Front(s) \in Seq(S) /\ Len(Front(s)) = Len(s) - 1
         /\ \A i \in 1..(Len(s) - 1) : Front(s)[i] = s[i]
<1>1. Len(s) \in Nat \ {0}
  BY EmptySeq
<1>2. Last(s) = s[Len(s)] /\ Last(s) \in S
  BY <1>1, ElementOfSeq DEF Last
<1>3. Front(s) = SubSeq(s, 1, Len(s) - 1)
  BY DEF Front
<1>4. QED
  <2>1. PICK m \in 0..Len(s) : m = Len(s) - 1
    <3>1. Len(s) - 1 \in 0..Len(s)
      BY <1>1
    <3>2. QED
      BY <3>1
  <2>2. /\ SubSeq(s, 1, m) \in Seq(S) /\ Len(SubSeq(s, 1, m)) = m
        /\ \A i \in 1..m : SubSeq(s, 1, m)[i] = s[i]
    BY <2>1, PopProperties
  <2>3. QED
    BY <1>1, <1>2, <1>3, <2>1, <2>2

---------------------------------------------------------------------------
(***************************************************************************)
(* Reachability.                                                           *)
(***************************************************************************)

\* The definition of Reach without the binders that help TLC.
LEMMA ReachDef ==
  ASSUME NEW S, NEW succ
  PROVE  Reach(S, succ) =
           {x \in DOMAIN succ : \A T \in ClosedAround(S, succ) : x \in T}
<1> DEFINE Family == ClosedAround(S, succ)
<1>1. {ClosedAround(r, f) : r \in {S}, f \in {succ}} = {Family}
  OBVIOUS
<1>2. Reach(S, succ) =
        UNION {{x \in DOMAIN succ : \A T \in family : x \in T} : family \in {Family}}
  BY <1>1 DEF Reach
<1> HIDE DEF Family
<1>3. UNION {{x \in DOMAIN succ : \A T \in family : x \in T} : family \in {Family}}
        = {x \in DOMAIN succ : \A T \in Family : x \in T}
  OBVIOUS
<1>4. QED
  BY <1>2, <1>3 DEF Family

\* Reach contains S and is closed, when S and the successors are nodes.
LEMMA ReachContains ==
  ASSUME NEW S, NEW succ, S \subseteq DOMAIN succ
  PROVE  S \subseteq Reach(S, succ)
BY ReachDef DEF ClosedAround

\* What a reachable node leads to is reachable.
LEMMA ReachClosed ==
  ASSUME NEW S, NEW succ, NEW x \in Reach(S, succ), succ[x] \subseteq DOMAIN succ
  PROVE  succ[x] \subseteq Reach(S, succ)
BY ReachDef DEF ClosedAround, Closed

\* Reach is within every closed set of nodes that contains S.
LEMMA ReachLeast ==
  ASSUME NEW S, NEW succ, NEW T \in SUBSET DOMAIN succ,
         S \subseteq T, Closed(T, succ)
  PROVE  Reach(S, succ) \subseteq T
BY ReachDef DEF ClosedAround
=============================================================================
