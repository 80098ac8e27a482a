---------------------------- MODULE FoldProofs -----------------------------
(***************************************************************************)
(* What a fold over a sequence keeps true, by induction on its length.     *)
(*                                                                         *)
(* Op is the operator that is folded; its first five arguments stand for   *)
(* what it reads besides the result so far and the next element.  A module *)
(* whose operators are folds takes an instance for each of them, with an   *)
(* operator of its own for Op, and cites FoldKeeps or FoldSteps of it.     *)
(***************************************************************************)
EXTENDS Integers, Sequences, SequencesExt, WellFoundedInduction, TLAPS

CONSTANT Op(_, _, _, _, _, _, _)

Result(a, b, c, d, e, base, seq) ==
  FoldLeft(LAMBDA acc, x : Op(a, b, c, d, e, acc, x), base, seq)

IsTrace(f, a, b, c, d, e, base, seq) ==
  f = [i \in 0..Len(seq) |-> IF i = 0 THEN base ELSE Op(a, b, c, d, e, f[i - 1], seq[i])]

LEMMA LeastNat ==
  ASSUME NEW S, S \subseteq Nat, S # {}
  PROVE  \E m \in S : \A k \in S : m <= k
<1>1. PICK x \in S : \A y \in S : ~(<<y, x>> \in OpToRel(<, Nat))
  BY WFMin, NatLessThanWellFounded
<1>2. \A y \in S : ~(y < x)
  BY <1>1 DEF OpToRel
<1>3. \A k \in S : x <= k
  <2>1. TAKE k \in S
  <2>2. x \in Nat /\ k \in Nat
    OBVIOUS
  <2>3. ~(k < x)
    BY <1>2
  <2>4. QED BY <2>2, <2>3
<1>4. QED BY <1>3

IsIter(g, a, b, c, d, e, base, seq, n) ==
  g = [s \in SUBSET (1..n) |->
          IF s = {} THEN base ELSE Op(a, b, c, d, e, g[s \ {Max(s)}], seq[Max(s)])]

LEMMA MaxIn ==
  ASSUME NEW n \in Nat, NEW s \in SUBSET (1..n), s # {}
  PROVE  Max(s) \in s /\ \A x \in s : x <= Max(s)
<1> DEFINE T == {n - x : x \in s}
<1>1. T \subseteq Nat /\ T # {}
  <2>1. \A x \in s : x \in 1..n
    OBVIOUS
  <2>2. \A x \in 1..n : n - x \in Nat
    OBVIOUS
  <2>3. QED BY <2>1, <2>2
<1>2. PICK m \in T : \A k \in T : m <= k
  <2> HIDE DEF T
  <2> QED BY <1>1, LeastNat
<1>3. PICK y \in s : m = n - y
  OBVIOUS
<1>4. \A x \in s : y >= x
  <2>1. TAKE x \in s
  <2>2. n - x \in T OBVIOUS
  <2>3. m <= n - x BY <1>2, <2>2
  <2>4. QED BY <2>3, <1>3
<1>5. QED BY <1>4 DEF Max

LEMMA IterExists ==
  ASSUME NEW a, NEW b, NEW c, NEW d, NEW e, NEW base, NEW seq
  PROVE  \A n \in Nat : \E g : IsIter(g, a, b, c, d, e, base, seq, n)
<1> DEFINE Bad == {n \in Nat : ~\E g : IsIter(g, a, b, c, d, e, base, seq, n)}
<1> SUFFICES ASSUME Bad # {} PROVE FALSE
  OBVIOUS
<1>1. PICK m \in Bad : \A k \in Bad : m <= k
  <2> HIDE DEF Bad
  <2>1. Bad \subseteq Nat BY DEF Bad
  <2> QED BY <2>1, LeastNat
<1>2. m # 0
  <2>1. IsIter([s \in SUBSET (1..0) |-> base], a, b, c, d, e, base, seq, 0)
    BY DEF IsIter
  <2> QED BY <2>1
<1>3. m-1 \in Nat /\ m - 1 \notin Bad /\ m \in Nat
  BY <1>1, <1>2
<1>4. PICK g : IsIter(g, a, b, c, d, e, base, seq, m-1)
  BY <1>3
<1> DEFINE h == [s \in SUBSET (1..m) |->
                   IF m \in s THEN Op(a, b, c, d, e, g[s \ {m}], seq[m]) ELSE g[s]]
<1>5. IsIter(h, a, b, c, d, e, base, seq, m)
  <2>1. ASSUME NEW s \in SUBSET (1..m), m \in s
        PROVE  h[s] = Op(a, b, c, d, e, h[s \ {Max(s)}], seq[Max(s)])
    <3>1. Max(s) = m
      <4>1. Max(s) \in s /\ m <= Max(s)
        BY <1>3, <2>1, MaxIn
      <4>2. Max(s) \in 1..m
        BY <4>1
      <4>3. QED BY <1>3, <4>1, <4>2
    <3>2. s \ {m} \in SUBSET (1..m) /\ m \notin s \ {m}
      OBVIOUS
    <3>3. QED BY <3>1, <3>2, <2>1
  <2>2. ASSUME NEW s \in SUBSET (1..m), m \notin s, s # {}
        PROVE  h[s] = Op(a, b, c, d, e, h[s \ {Max(s)}], seq[Max(s)])
    <3>1. s \in SUBSET (1..(m-1))
      BY <1>3, <2>2
    <3>2. g[s] = Op(a, b, c, d, e, g[s \ {Max(s)}], seq[Max(s)])
      BY <1>4, <3>1, <2>2 DEF IsIter
    <3>3. s \ {Max(s)} \in SUBSET (1..m) /\ m \notin s \ {Max(s)}
      BY <2>2
    <3>4. QED BY <3>2, <3>3, <2>2
  <2>3. h[{}] = base
    <3>1. {} \in SUBSET (1..(m-1)) /\ {} \in SUBSET (1..m) OBVIOUS
    <3>2. g[{}] = base BY <1>4, <3>1 DEF IsIter
    <3>3. QED BY <3>1, <3>2
  <2>4. \A s \in SUBSET (1..m) :
           h[s] = IF s = {} THEN base
                  ELSE Op(a, b, c, d, e, h[s \ {Max(s)}], seq[Max(s)])
    BY <2>1, <2>2, <2>3
  <2>5. h = [s \in SUBSET (1..m) |-> h[s]]
    OBVIOUS
  <2>6. QED
    <3> HIDE DEF h
    <3> QED BY <2>4, <2>5 DEF IsIter
<1>6. QED BY <1>5, <1>1

LEMMA FoldTrace ==
  ASSUME NEW a, NEW b, NEW c, NEW d, NEW e, NEW base, NEW S, NEW seq \in Seq(S)
  PROVE  \E f : /\ IsTrace(f, a, b, c, d, e, base, seq)
                /\ Result(a, b, c, d, e, base, seq) = f[Len(seq)]
<1> DEFINE n == Len(seq)
<1>1. n \in Nat /\ DOMAIN seq = 1..n
  OBVIOUS
<1> DEFINE it == CHOOSE g : IsIter(g, a, b, c, d, e, base, seq, n)
<1>2. IsIter(it, a, b, c, d, e, base, seq, n)
  BY <1>1, IterExists
<1>3. Result(a, b, c, d, e, base, seq) = it[DOMAIN seq]
  BY <1>1 DEF Result, FoldLeft, MapThenFoldSet, IsIter
<1> HIDE DEF it
<1> DEFINE f == [i \in 0..n |-> it[1..i]]
<1>4. ASSUME NEW i \in 0..n, i # 0 PROVE it[1..i] = Op(a, b, c, d, e, it[1..(i-1)], seq[i])
  <2>1. (1..i) \in SUBSET (1..n) /\ (1..i) # {} /\ i \in 1..i
    <3> HIDE DEF n
    <3>1. i \in Nat /\ i <= n /\ i >= 1
      BY <1>1, <1>4
    <3>2. QED BY <1>1, <3>1
  <2>2. Max(1..i) = i
    <3> HIDE DEF n
    <3>1. Max(1..i) \in 1..i /\ i <= Max(1..i)
      BY <1>1, <2>1, MaxIn
    <3>2. QED BY <2>1, <3>1
  <2>3. (1..i) \ {i} = 1..(i-1)
    BY <1>4
  <2>4. QED BY <1>2, <2>1, <2>2, <2>3 DEF IsIter
<1>5. it[1..0] = base
  <2>1. (1..0) \in SUBSET (1..n) /\ 1..0 = {} OBVIOUS
  <2>2. QED BY <1>2, <2>1 DEF IsIter
<1>6. \A i \in 0..n : f[i] = IF i = 0 THEN base ELSE Op(a, b, c, d, e, f[i - 1], seq[i])
  BY <1>1, <1>4, <1>5
<1>7. IsTrace(f, a, b, c, d, e, base, seq) /\ f[n] = it[DOMAIN seq]
  <2>1. f = [i \in 0..n |-> f[i]] /\ f[n] = it[1..n] OBVIOUS
  <2> HIDE DEF f
  <2> QED BY <1>1, <1>6, <2>1 DEF IsTrace
<1>8. QED BY <1>3, <1>7

\* What holds of the first i elements, if each step takes it one further.
LEMMA FoldSteps ==
  ASSUME NEW a, NEW b, NEW c, NEW d, NEW e, NEW base,
         NEW S, NEW seq \in Seq(S), NEW I,
         base \in I[0],
         \A i \in 1..Len(seq) : \A acc \in I[i - 1] :
            Op(a, b, c, d, e, acc, seq[i]) \in I[i]
  PROVE  Result(a, b, c, d, e, base, seq) \in I[Len(seq)]
<1>1. PICK f : /\ IsTrace(f, a, b, c, d, e, base, seq)
               /\ Result(a, b, c, d, e, base, seq) = f[Len(seq)]
  BY FoldTrace
<1>2. Len(seq) \in Nat
  OBVIOUS
<1>3. \A i \in 0..Len(seq) :
         f[i] = IF i = 0 THEN base ELSE Op(a, b, c, d, e, f[i - 1], seq[i])
  BY <1>1 DEF IsTrace
<1> DEFINE Bad == {i \in 0..Len(seq) : f[i] \notin I[i]}
<1>4. SUFFICES ASSUME Bad # {} PROVE FALSE
  BY <1>1, <1>2
<1>5. PICK m \in Bad : \A k \in Bad : m <= k
  <2>1. Bad \subseteq Nat
    OBVIOUS
  <2> HIDE DEF Bad
  <2>2. QED BY <1>4, <2>1, LeastNat
<1>6. m # 0
  BY <1>2, <1>3
<1>7. m - 1 \in 0..Len(seq) /\ m \in 1..Len(seq) /\ ~(m <= m - 1)
  BY <1>2, <1>6
<1>8. f[m - 1] \in I[m - 1]
  BY <1>5, <1>7
<1>9. f[m] \in I[m]
  BY <1>3, <1>6, <1>7, <1>8
<1>10. QED BY <1>9

\* What every step keeps.
LEMMA FoldKeeps ==
  ASSUME NEW a, NEW b, NEW c, NEW d, NEW e, NEW base,
         NEW S, NEW seq \in Seq(S), NEW I,
         base \in I,
         \A acc \in I, x \in S : Op(a, b, c, d, e, acc, x) \in I
  PROVE  Result(a, b, c, d, e, base, seq) \in I
<1> DEFINE J == [i \in 0..Len(seq) |-> I]
<1>1. Len(seq) \in Nat /\ \A i \in 1..Len(seq) : seq[i] \in S
  OBVIOUS
<1>2. base \in J[0]
  BY <1>1
<1>3. \A i \in 1..Len(seq) : \A acc \in J[i - 1] :
         Op(a, b, c, d, e, acc, seq[i]) \in J[i]
  BY <1>1
<1>4. J[Len(seq)] = I
  BY <1>1
<1> HIDE DEF J
<1>5. Result(a, b, c, d, e, base, seq) \in J[Len(seq)]
  BY <1>2, <1>3, FoldSteps
<1>6. QED BY <1>4, <1>5
=============================================================================
