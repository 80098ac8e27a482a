---------------------------- MODULE VersionProofs ----------------------------
(***************************************************************************)
(* Proofs about the comparison of all versions, whatever their numbers,    *)
(* texts and number of parts, and about the upgrades it leads to, whatever *)
(* the sources offer and in whatever order.                                *)
(***************************************************************************)
EXTENDS Version, FiniteSetTheorems, TLAPS

-----------------------------------------------------------------------------
(* Sequences.                                                              *)

KeepOp(S, b, c, d, e, acc, x) == IF x \in S THEN Append(acc, x) ELSE acc
KeepFold == INSTANCE FoldProofs WITH Op <- KeepOp

LEMMA KeepIsFold ==
  \A seq, S : Keep(seq, S) = KeepFold!Result(S, 0, 0, 0, 0, <<>>, seq)
BY DEF Keep, KeepFold!Result, KeepOp, FoldLeft, MapThenFoldSet,
       KeepFold!FoldLeft, KeepFold!MapThenFoldSet, Max, KeepFold!Max

LEMMA RangeType ==
  ASSUME NEW T, NEW seq \in Seq(T)
  PROVE  /\ Range(seq) \subseteq T
         /\ seq \in Seq(Range(seq))
         /\ \A i \in DOMAIN seq : seq[i] \in Range(seq)
BY DEF Range

LEMMA FunctionIsSeq ==
  ASSUME NEW T, NEW n \in Nat, NEW f \in [1..n -> T]
  PROVE  f \in Seq(T)
OBVIOUS

LEMMA RangeOfOne ==
  Range(<<>>) = {} /\ \A x : Range(<<x>>) = {x}
BY DEF Range

LEMMA RangeOfAppend ==
  ASSUME NEW T, NEW s \in Seq(T), NEW x \in T
  PROVE  Range(Append(s, x)) = Range(s) \cup {x}
<1>1. \A i \in DOMAIN s : i \in DOMAIN Append(s, x) /\ Append(s, x)[i] = s[i]
  OBVIOUS
<1>2. /\ Len(s) + 1 \in DOMAIN Append(s, x)
      /\ Append(s, x)[Len(s) + 1] = x
  OBVIOUS
<1>3. \A i \in DOMAIN Append(s, x) : i \in DOMAIN s \/ i = Len(s) + 1
  OBVIOUS
<1>4. QED BY <1>1, <1>2, <1>3 DEF Range

LEMMA KeepRange ==
  ASSUME NEW T, NEW seq \in Seq(T), NEW S
  PROVE  /\ Keep(seq, S) \in Seq(T)
         /\ Range(Keep(seq, S)) = Range(seq) \cap S
<1> DEFINE I == [i \in 0..Len(seq) |->
                   {k \in Seq(T) : Range(k) = {seq[j] : j \in 1..i} \cap S}]
<1>1. Len(seq) \in Nat /\ \A i \in 1..Len(seq) : seq[i] \in T
  OBVIOUS
<1>2. <<>> \in I[0]
  BY <1>1 DEF Range
<1>3. \A i \in 1..Len(seq) : \A k \in I[i - 1] :
         KeepOp(S, 0, 0, 0, 0, k, seq[i]) \in I[i]
  <2> TAKE i \in 1..Len(seq)
  <2> TAKE k \in I[i - 1]
  <2>2. /\ i - 1 \in 0..Len(seq) /\ i \in 0..Len(seq)
        /\ {seq[j] : j \in 1..i} = {seq[j] : j \in 1..(i - 1)} \cup {seq[i]}
    BY <1>1
  <2>3. k \in Seq(T) /\ Range(k) = {seq[j] : j \in 1..(i - 1)} \cap S
    BY <2>2
  <2>4. /\ Append(k, seq[i]) \in Seq(T)
        /\ Range(Append(k, seq[i])) = Range(k) \cup {seq[i]}
    BY <1>1, <2>3, RangeOfAppend
  <2>5. QED BY <2>2, <2>3, <2>4 DEF KeepOp
<1>4. I[Len(seq)] = {k \in Seq(T) : Range(k) = Range(seq) \cap S}
  <2>1. {seq[j] : j \in 1..Len(seq)} = Range(seq)
    BY DEF Range
  <2>2. QED BY <1>1, <2>1
<1> HIDE DEF I
<1>5. KeepFold!Result(S, 0, 0, 0, 0, <<>>, seq) \in I[Len(seq)]
  BY <1>2, <1>3, KeepFold!FoldSteps
<1>6. QED BY <1>4, <1>5, KeepIsFold

-----------------------------------------------------------------------------
(* The first verdict.                                                      *)

LEMMA MinIn ==
  ASSUME NEW S, S \subseteq Nat, S # {}
  PROVE  Min(S) \in S /\ \A x \in S : Min(S) <= x
<1>1. \E m \in S : \A k \in S : m <= k
  BY KeepFold!LeastNat
<1>2. QED BY <1>1 DEF Min

LEMMA CommonIs ==
  ASSUME NEW S, NEW s \in Seq(S), NEW t \in Seq(S)
  PROVE  /\ Common(s, t) = Common(t, s)
         /\ Common(s, t) \subseteq Nat
         /\ \A i : i \in Common(s, t) <=> i \in 1..Len(s) /\ i \in 1..Len(t)
<1>1. Len(s) \in Nat /\ Len(t) \in Nat
  OBVIOUS
<1>2. {Len(s), Len(t)} = {Len(t), Len(s)}
  OBVIOUS
<1>3. /\ Min({Len(s), Len(t)}) \in {Len(s), Len(t)}
      /\ Min({Len(s), Len(t)}) <= Len(s) /\ Min({Len(s), Len(t)}) <= Len(t)
  BY <1>1, MinIn
<1> DEFINE m == Min({Len(s), Len(t)})
<1>4. Common(s, t) = 1..m /\ Common(t, s) = 1..m
  BY <1>2 DEF Common
<1>5. m \in Nat /\ \A i : i \in 1..m <=> i \in 1..Len(s) /\ i \in 1..Len(t)
  <2> HIDE DEF m
  <2>1. m \in Nat /\ m <= Len(s) /\ m <= Len(t) /\ (m = Len(s) \/ m = Len(t))
    BY <1>1, <1>3 DEF m
  <2>2. QED BY <1>1, <2>1
<1> HIDE DEF m
<1>6. QED BY <1>4, <1>5

LEMMA FirstVerdictIs ==
  ASSUME NEW f, DOMAIN f \subseteq Nat, NEW otherwise
  PROVE  \/ /\ \A i \in DOMAIN f : f[i] = 0
            /\ FirstVerdict(f, otherwise) = otherwise
         \/ \E j \in DOMAIN f :
              /\ f[j] # 0 /\ FirstVerdict(f, otherwise) = f[j]
              /\ \A i \in DOMAIN f : i < j => f[i] = 0
<1> DEFINE D == {i \in DOMAIN f : f[i] # 0}
<1>1. FirstVerdict(f, otherwise) = IF D = {} THEN otherwise ELSE f[Min(D)]
  BY DEF FirstVerdict
<1>2. CASE D = {}
  BY <1>1, <1>2
<1>3. CASE D # {}
  <2>1. Min(D) \in D /\ \A i \in D : Min(D) <= i
    <3>1. D \subseteq Nat
      OBVIOUS
    <3> HIDE DEF D
    <3>2. QED BY <1>3, <3>1, MinIn
  <2>2. \A i \in DOMAIN f : i < Min(D) => f[i] = 0
    <3> SUFFICES ASSUME NEW i \in DOMAIN f, i < Min(D), f[i] # 0
                 PROVE  FALSE
      OBVIOUS
    <3>1. i \in D /\ Min(D) <= i
      BY <2>1
    <3>2. Min(D) \in Nat /\ i \in Nat
      BY <2>1
    <3> HIDE DEF D
    <3>3. QED BY <3>1, <3>2
  <2>3. QED BY <1>1, <1>3, <2>1, <2>2
<1>4. QED BY <1>2, <1>3

\* Verdicts seen from the other side.
LEMMA FirstVerdictOpposite ==
  ASSUME NEW f, NEW g, DOMAIN f \subseteq Nat, DOMAIN g = DOMAIN f,
         \A i \in DOMAIN f : f[i] \in Int /\ g[i] = -f[i],
         NEW o \in Int
  PROVE  /\ FirstVerdict(f, o) \in Int
         /\ FirstVerdict(g, -o) = -FirstVerdict(f, o)
<1> DEFINE D == {i \in DOMAIN f : f[i] # 0}
<1>1. {i \in DOMAIN g : g[i] # 0} = D
  OBVIOUS
<1>2. /\ FirstVerdict(f, o) = IF D = {} THEN o ELSE f[Min(D)]
      /\ FirstVerdict(g, -o) = IF D = {} THEN -o ELSE g[Min(D)]
  BY <1>1 DEF FirstVerdict
<1>3. D # {} => Min(D) \in DOMAIN f
  <2>1. D \subseteq Nat /\ D \subseteq DOMAIN f
    OBVIOUS
  <2> HIDE DEF D
  <2>2. QED BY <2>1, MinIn
<1> HIDE DEF D
<1>4. QED BY <1>2, <1>3

LEMMA SignIs ==
  \A i \in Int :
    /\ Sign(i) \in {-1, 0, 1} /\ Sign(-i) = -Sign(i)
    /\ (Sign(i) < 0 <=> i < 0) /\ (Sign(i) = 0 <=> i = 0) /\ (Sign(i) > 0 <=> i > 0)
BY DEF Sign

LEMMA SignOf ==
  ASSUME NEW a \in Int, NEW b \in Int
  PROVE  /\ a < b => Sign(a - b) = -1
         /\ a = b => Sign(a - b) = 0
         /\ b < a => Sign(a - b) = 1
         /\ Sign(a - b) \in {-1, 0, 1} /\ Sign(b - a) = -Sign(a - b)
BY DEF Sign

-----------------------------------------------------------------------------
(* Numbers.                                                                *)

ValueOp(a, b, c, d, e, v, x) == 10 * v + x
ValueFold == INSTANCE FoldProofs WITH Op <- ValueOp

\* v is what the digits of d up to each place are worth.
Values(d, v) ==
  /\ v \in [0..Len(d) -> Nat]
  /\ v[0] = 0
  /\ \A i \in 1..Len(d) : v[i] = 10 * v[i - 1] + d[i]

LEMMA ValueIs ==
  ASSUME NEW d \in Digits
  PROVE  \E v : Values(d, v) /\ Value(d) = v[Len(d)]
<1>1. Value(d) = ValueFold!Result(0, 0, 0, 0, 0, 0, d)
  BY DEF Value, ValueFold!Result, ValueOp, FoldLeft, MapThenFoldSet,
         ValueFold!FoldLeft, ValueFold!MapThenFoldSet, Max, ValueFold!Max
<1>2. PICK v : /\ ValueFold!IsTrace(v, 0, 0, 0, 0, 0, 0, d)
               /\ ValueFold!Result(0, 0, 0, 0, 0, 0, d) = v[Len(d)]
  <2>1. d \in Seq(0..9)
    BY DEF Digits
  <2>2. QED BY <2>1, ValueFold!FoldTrace
<1>3. Len(d) \in Nat /\ \A i \in 1..Len(d) : d[i] \in 0..9
  BY DEF Digits
<1>4. /\ DOMAIN v = 0..Len(d)
      /\ \A i \in 0..Len(d) : v[i] = IF i = 0 THEN 0 ELSE 10 * v[i - 1] + d[i]
  BY <1>2 DEF ValueFold!IsTrace, ValueOp
<1> DEFINE Bad == {i \in 0..Len(d) : v[i] \notin Nat}
<1>5. Bad = {}
  <2> SUFFICES ASSUME Bad # {} PROVE FALSE
    OBVIOUS
  <2>1. PICK m \in Bad : \A k \in Bad : m <= k
    <3>1. Bad \subseteq Nat
      OBVIOUS
    <3> HIDE DEF Bad
    <3>2. QED BY <3>1, KeepFold!LeastNat
  <2>2. m # 0
    BY <1>3, <1>4
  <2>3. m - 1 \in 0..Len(d) /\ m \in 1..Len(d) /\ ~(m <= m - 1)
    BY <1>3, <2>2
  <2>4. v[m - 1] \in Nat
    BY <2>1, <2>3
  <2>5. v[m] = 10 * v[m - 1] + d[m] /\ d[m] \in 0..9
    BY <1>3, <1>4, <2>2, <2>3
  <2>6. v[m] \in Nat
    <3> HIDE DEF Bad
    <3>1. QED BY <2>4, <2>5
  <2>7. QED BY <2>6
<1>6. Values(d, v)
  <2>1. v = [i \in 0..Len(d) |-> v[i]]
    BY <1>2 DEF ValueFold!IsTrace
  <2>2. v \in [0..Len(d) -> Nat]
    <3>1. \A i \in 0..Len(d) : v[i] \in Nat
      BY <1>5
    <3> HIDE DEF Bad
    <3>2. QED BY <2>1, <3>1
  <2>3. QED BY <1>3, <1>4, <2>2 DEF Values
<1>7. QED BY <1>1, <1>2, <1>6

LEMMA ValueNat ==
  ASSUME NEW d \in Digits
  PROVE  Value(d) \in Nat
<1>1. PICK v : Values(d, v) /\ Value(d) = v[Len(d)]
  BY ValueIs
<1>2. Len(d) \in Nat
  BY DEF Digits
<1>3. QED BY <1>1, <1>2 DEF Values

LEMMA NextDigit ==
  ASSUME NEW a \in Nat, NEW b \in Nat, NEW s \in 0..9, NEW t \in 0..9
  PROVE  /\ a < b => 10 * a + s < 10 * b + t
         /\ s < t => 10 * a + s < 10 * a + t
OBVIOUS

\* A number that is ahead stays ahead, digit by digit; the one of y begins n
\* digits earlier.
LEMMA StaysAhead ==
  ASSUME NEW x \in Digits, NEW y \in Digits, NEW v, NEW w,
         Values(x, v), Values(y, w),
         NEW n \in Nat, Len(y) = Len(x) + n,
         NEW j \in 0..Len(x), v[j] < w[j + n]
  PROVE  v[Len(x)] < w[Len(y)]
<1>1. /\ Len(x) \in Nat /\ Len(y) \in Nat
      /\ \A i \in 1..Len(x) : x[i] \in 0..9
      /\ \A i \in 1..Len(y) : y[i] \in 0..9
  BY DEF Digits
<1>2. /\ \A i \in 0..Len(x) : v[i] \in Nat
      /\ \A i \in 0..Len(y) : w[i] \in Nat
      /\ \A i \in 1..Len(x) : v[i] = 10 * v[i - 1] + x[i]
      /\ \A i \in 1..Len(y) : w[i] = 10 * w[i - 1] + y[i]
  BY DEF Values
<1> DEFINE Bad == {i \in j..Len(x) : ~(v[i] < w[i + n])}
<1>3. SUFFICES ASSUME Bad # {} PROVE FALSE
  <2>1. Len(x) \in j..Len(x)
    BY <1>1
  <2>2. Len(x) \in Bad \/ v[Len(x)] < w[Len(x) + n]
    BY <2>1
  <2> HIDE DEF Bad
  <2>3. QED BY <2>2
<1>4. PICK m \in Bad : \A k \in Bad : m <= k
  <2>1. Bad \subseteq Nat
    BY <1>1
  <2> HIDE DEF Bad
  <2>2. QED BY <1>3, <2>1, KeepFold!LeastNat
<1>5. m \in j..Len(x) /\ ~(v[m] < w[m + n]) /\ m # j
  OBVIOUS
<1>6. m - 1 \in j..Len(x) /\ m - 1 \notin Bad
  <2>1. m - 1 \in j..Len(x) /\ ~(m <= m - 1)
    BY <1>1, <1>5
  <2> HIDE DEF Bad
  <2>2. QED BY <1>4, <2>1
<1>7. v[m - 1] < w[m - 1 + n]
  BY <1>6
<1> HIDE DEF Bad
<1>8. /\ m \in 1..Len(x) /\ m - 1 \in 0..Len(x)
      /\ m + n \in 1..Len(y) /\ m - 1 + n \in 0..Len(y) /\ m + n - 1 = m - 1 + n
  BY <1>1, <1>5, <1>6
<1>9. /\ v[m] = 10 * v[m - 1] + x[m] /\ w[m + n] = 10 * w[m - 1 + n] + y[m + n]
      /\ v[m - 1] \in Nat /\ w[m - 1 + n] \in Nat
      /\ x[m] \in 0..9 /\ y[m + n] \in 0..9
  <2>1. v[m] = 10 * v[m - 1] + x[m] /\ x[m] \in 0..9 /\ v[m - 1] \in Nat
    BY <1>1, <1>2, <1>8
  <2>2. w[m + n] = 10 * w[m + n - 1] + y[m + n]
    BY <1>2, <1>8
  <2>3. w[m - 1 + n] \in Nat /\ y[m + n] \in 0..9
    BY <1>1, <1>2, <1>8
  <2>4. QED BY <1>8, <2>1, <2>2, <2>3
<1>10. v[m] < w[m + n]
  <2>1. 10 * v[m - 1] + x[m] < 10 * w[m - 1 + n] + y[m + n]
    BY <1>7, <1>9, NextDigit
  <2>2. QED BY <1>9, <2>1
<1>11. QED BY <1>5, <1>10

\* Of two numbers without leading zeros the longer one is the greater.
LEMMA LongerIsGreater ==
  ASSUME NEW x \in Digits, NEW y \in Digits, Len(x) < Len(y), y[1] # 0
  PROVE  Value(x) < Value(y)
<1>1. PICK v : Values(x, v) /\ Value(x) = v[Len(x)]
  BY ValueIs
<1>2. PICK w : Values(y, w) /\ Value(y) = w[Len(y)]
  BY ValueIs
<1>3. /\ Len(x) \in Nat /\ Len(y) \in Nat
      /\ \A i \in 1..Len(y) : y[i] \in 0..9
  BY DEF Digits
<1> DEFINE n == Len(y) - Len(x)
           Bad == {i \in 1..Len(y) : ~(0 < w[i])}
<1>4. Bad = {}
  <2> SUFFICES ASSUME Bad # {} PROVE FALSE
    OBVIOUS
  <2>1. PICK m \in Bad : \A k \in Bad : m <= k
    <3>1. Bad \subseteq Nat
      BY <1>3
    <3> HIDE DEF Bad
    <3>2. QED BY <3>1, KeepFold!LeastNat
  <2>2. m \in 1..Len(y) /\ ~(0 < w[m])
    OBVIOUS
  <2>3. m = 1 \/ (m - 1 \in 1..Len(y) /\ m - 1 \notin Bad)
    <3>1. m = 1 \/ (m - 1 \in 1..Len(y) /\ ~(m <= m - 1))
      BY <1>3, <2>2
    <3> HIDE DEF Bad
    <3>2. QED BY <2>1, <3>1
  <2>4. /\ w[m] = 10 * w[m - 1] + y[m] /\ y[m] \in 0..9
        /\ w[m - 1] \in Nat /\ (m # 1 => 0 < w[m - 1])
    <3>1. m # 1 => 0 < w[m - 1]
      BY <2>3
    <3> HIDE DEF Bad
    <3>2. m - 1 \in 0..Len(y)
      BY <1>3, <2>2
    <3>3. QED BY <1>2, <1>3, <2>2, <3>1, <3>2 DEF Values
  <2> HIDE DEF Bad
  <2>5. 0 < w[m]
    <3>1. CASE m = 1
      BY <2>4, <3>1
    <3>2. CASE m # 1
      <4>1. 10 * 0 + 0 < 10 * w[m - 1] + y[m]
        BY <2>4, <3>2, NextDigit
      <4>2. QED BY <2>4, <4>1
    <3>3. QED BY <3>1, <3>2
  <2>6. QED BY <2>2, <2>5
<1>5. n \in Nat /\ n \in 1..Len(y) /\ Len(y) = Len(x) + n /\ 0 \in 0..Len(x) /\ 0 + n = n
  BY <1>3
<1>6. 0 < w[n]
  BY <1>4, <1>5
<1> HIDE DEF n, Bad
<1>7. v[0] < w[0 + n]
  BY <1>1, <1>5, <1>6 DEF Values
<1>8. QED BY <1>1, <1>2, <1>5, <1>7, StaysAhead

\* Numbers whose first digits agree are worth the same so far.
LEMMA SameSoFar ==
  ASSUME NEW x \in Digits, NEW y \in Digits, NEW v, NEW w,
         Values(x, v), Values(y, w), Len(x) = Len(y),
         NEW j \in 0..Len(x), \A i \in 1..j : x[i] = y[i]
  PROVE  v[j] = w[j]
<1>1. Len(x) \in Nat
  BY DEF Digits
<1> DEFINE Bad == {i \in 0..j : v[i] # w[i]}
<1>2. SUFFICES ASSUME Bad # {} PROVE FALSE
  <2>1. j \in Bad \/ v[j] = w[j]
    BY <1>1
  <2> HIDE DEF Bad
  <2>2. QED BY <2>1
<1>3. PICK m \in Bad : \A k \in Bad : m <= k
  <2>1. Bad \subseteq Nat
    OBVIOUS
  <2> HIDE DEF Bad
  <2>2. QED BY <1>2, <2>1, KeepFold!LeastNat
<1>4. m \in 0..j /\ v[m] # w[m]
  OBVIOUS
<1>5. m # 0
  BY <1>4 DEF Values
<1>6. m - 1 \in 0..j /\ m - 1 \notin Bad
  <2>1. m - 1 \in 0..j /\ ~(m <= m - 1)
    BY <1>1, <1>4, <1>5
  <2> HIDE DEF Bad
  <2>2. QED BY <1>3, <2>1
<1>7. v[m - 1] = w[m - 1]
  BY <1>6
<1>8. m \in 1..j /\ m \in 1..Len(x)
  BY <1>1, <1>4, <1>5
<1>9. v[m] = 10 * v[m - 1] + x[m] /\ w[m] = 10 * w[m - 1] + y[m] /\ x[m] = y[m]
  BY <1>8 DEF Values
<1>10. QED BY <1>4, <1>7, <1>9

LEMMA DigitCmpIs ==
  ASSUME NEW x \in Digits, NEW y \in Digits, Len(x) = Len(y)
  PROVE  DigitCmp(x, y) = Sign(Value(x) - Value(y))
<1>1. PICK v : Values(x, v) /\ Value(x) = v[Len(x)]
  BY ValueIs
<1>2. PICK w : Values(y, w) /\ Value(y) = w[Len(y)]
  BY ValueIs
<1>3. /\ Len(x) \in Nat
      /\ \A i \in 1..Len(x) : x[i] \in 0..9 /\ y[i] \in 0..9
  BY DEF Digits
<1> DEFINE f == [i \in Common(x, y) |-> Sign(x[i] - y[i])]
<1>4. Common(x, y) \subseteq Nat /\ \A i : i \in Common(x, y) <=> i \in 1..Len(x)
  BY CommonIs DEF Digits
<1>5. DigitCmp(x, y) = FirstVerdict(f, 0)
  BY DEF DigitCmp
<1>6. /\ DOMAIN f = Common(x, y)
      /\ \A i \in 1..Len(x) : f[i] = Sign(x[i] - y[i])
  BY <1>4
<1> HIDE DEF f
<1>7. \A i \in 1..Len(x) : f[i] = 0 <=> x[i] = y[i]
  <2> TAKE i \in 1..Len(x)
  <2>1. x[i] \in Int /\ y[i] \in Int /\ x[i] - y[i] \in Int
    BY <1>3
  <2>2. x[i] - y[i] = 0 <=> x[i] = y[i]
    BY <2>1
  <2>3. QED BY <1>6, <2>1, <2>2, SignIs
<1>8. CASE /\ \A i \in DOMAIN f : f[i] = 0
           /\ FirstVerdict(f, 0) = 0
  <2>1. \A i \in 1..Len(x) : x[i] = y[i]
    BY <1>4, <1>6, <1>7, <1>8
  <2>2. v[Len(x)] = w[Len(x)]
    <3>1. Len(x) \in 0..Len(x)
      BY <1>3
    <3>2. QED BY <1>1, <1>2, <2>1, <3>1, SameSoFar
  <2>3. Value(x) = Value(y) /\ Value(x) \in Nat /\ Sign(0) = 0
    BY <1>1, <1>2, <2>2, ValueNat, SignIs
  <2>4. QED BY <1>5, <1>8, <2>3
<1>9. CASE \E j \in DOMAIN f :
              /\ f[j] # 0 /\ FirstVerdict(f, 0) = f[j]
              /\ \A i \in DOMAIN f : i < j => f[i] = 0
  <2>1. PICK j \in 1..Len(x) :
              /\ f[j] # 0 /\ FirstVerdict(f, 0) = f[j]
              /\ \A i \in 1..Len(x) : i < j => f[i] = 0
    BY <1>4, <1>6, <1>9
  <2>2. j - 1 \in 0..Len(x) /\ \A i \in 1..(j - 1) : x[i] = y[i]
    <3>1. j - 1 \in 0..Len(x) /\ \A i \in 1..(j - 1) : i \in 1..Len(x) /\ i < j
      BY <1>3
    <3>2. QED BY <1>7, <2>1, <3>1
  <2>3. v[j - 1] = w[j - 1]
    BY <1>1, <1>2, <2>2, SameSoFar
  <2>4. /\ v[j] = 10 * v[j - 1] + x[j] /\ w[j] = 10 * w[j - 1] + y[j]
        /\ v[j - 1] \in Nat /\ x[j] \in 0..9 /\ y[j] \in 0..9
        /\ j \in 0..Len(x) /\ j + 0 = j /\ Len(y) = Len(x) + 0
    <3>1. v[j] = 10 * v[j - 1] + x[j] /\ v[j - 1] \in Nat
      BY <1>1, <2>2 DEF Values
    <3>2. w[j] = 10 * w[j - 1] + y[j]
      BY <1>2 DEF Values
    <3>3. /\ x[j] \in 0..9 /\ y[j] \in 0..9
          /\ j \in 0..Len(x) /\ j + 0 = j /\ Len(y) = Len(x) + 0
      BY <1>3
    <3>4. QED BY <3>1, <3>2, <3>3
  <2>5. x[j] # y[j] /\ f[j] = Sign(x[j] - y[j])
    BY <1>6, <1>7, <2>1
  <2>6. CASE x[j] < y[j]
    <3>1. v[j] < w[j + 0]
      <4>1. 10 * v[j - 1] + x[j] < 10 * v[j - 1] + y[j]
        BY <2>4, <2>6, NextDigit
      <4>2. QED BY <2>3, <2>4, <4>1
    <3>2. Value(x) < Value(y)
      BY <1>1, <1>2, <2>4, <3>1, StaysAhead
    <3>3. Value(x) \in Nat /\ Value(y) \in Nat
      BY ValueNat
    <3>4. Sign(x[j] - y[j]) = -1
      <4>1. x[j] \in Int /\ y[j] \in Int
        BY <2>4
      <4>2. QED BY <2>6, <4>1, SignOf
    <3>5. Sign(Value(x) - Value(y)) = -1
      BY <3>2, <3>3, SignOf
    <3>6. QED BY <1>5, <2>1, <2>5, <3>4, <3>5
  <2>7. CASE y[j] < x[j]
    <3>1. w[j] < v[j + 0] /\ j \in 0..Len(y) /\ Len(x) = Len(y) + 0
      <4>1. 10 * v[j - 1] + y[j] < 10 * v[j - 1] + x[j]
        BY <2>4, <2>7, NextDigit
      <4>2. QED BY <2>3, <2>4, <4>1
    <3>2. Value(y) < Value(x)
      BY <1>1, <1>2, <3>1, StaysAhead
    <3>3. Value(x) \in Nat /\ Value(y) \in Nat
      BY ValueNat
    <3>4. Sign(x[j] - y[j]) = 1
      <4>1. x[j] \in Int /\ y[j] \in Int
        BY <2>4
      <4>2. QED BY <2>7, <4>1, SignOf
    <3>5. Sign(Value(x) - Value(y)) = 1
      BY <3>2, <3>3, SignOf
    <3>6. QED BY <1>5, <2>1, <2>5, <3>4, <3>5
  <2>8. QED BY <2>4, <2>5, <2>6, <2>7
<1>10. QED BY <1>4, <1>6, <1>8, <1>9, FirstVerdictIs

\* Strip leaves the digits from the first that is not 0, or the last one.
LEMMA StripIs ==
  ASSUME NEW d \in Digits, d # <<>>
  PROVE  \E m \in 1..Len(d) :
           /\ \A i \in 1..(m - 1) : d[i] = 0
           /\ m = Len(d) \/ d[m] # 0
           /\ Strip(d) = SubSeq(d, m, Len(d))
<1>1. Len(d) \in Nat /\ Len(d) >= 1
  BY DEF Digits
<1> DEFINE B == {i \in 1..Len(d) : i = Len(d) \/ d[i] # 0}
           zeros == {i \in 1..(Len(d) - 1) : \A j \in 1..i : d[j] = 0}
<1>2. PICK m \in B : \A k \in B : m <= k
  <2>1. B \subseteq Nat /\ Len(d) \in B
    BY <1>1
  <2> HIDE DEF B
  <2>2. QED BY <2>1, KeepFold!LeastNat
<1>3. /\ m \in 1..Len(d) /\ (m = Len(d) \/ d[m] # 0)
      /\ \A i \in 1..(m - 1) : d[i] = 0 /\ i \in 1..(Len(d) - 1)
  <2>1. m \in 1..Len(d) /\ (m = Len(d) \/ d[m] # 0)
    OBVIOUS
  <2>2. \A i \in 1..(m - 1) : i \in 1..(Len(d) - 1) /\ i \in 1..Len(d) /\ ~(m <= i)
    BY <1>1, <2>1
  <2>3. \A i \in 1..(m - 1) : i \notin B
    <3> HIDE DEF B
    <3>1. QED BY <1>2, <2>2
  <2>4. QED BY <2>1, <2>2, <2>3
<1> HIDE DEF B
<1>4. zeros = 1..(m - 1)
  <2>1. \A i \in 1..(m - 1) : \A j \in 1..i : j \in 1..(m - 1)
    BY <1>1, <1>3
  <2>2. 1..(m - 1) \subseteq zeros
    BY <1>3, <2>1
  <2>3. \A i \in zeros : i < m
    <3> SUFFICES ASSUME NEW i \in zeros, ~(i < m) PROVE FALSE
      OBVIOUS
    <3>1. i \in 1..(Len(d) - 1) /\ \A j \in 1..i : d[j] = 0
      OBVIOUS
    <3>2. m \in 1..i /\ m # Len(d)
      BY <1>1, <1>3, <3>1
    <3>3. QED BY <1>3, <3>1, <3>2
  <2>4. zeros \subseteq 1..(m - 1)
    <3>1. \A i \in zeros : i \in 1..(Len(d) - 1)
      OBVIOUS
    <3> HIDE DEF zeros
    <3>2. QED BY <1>1, <1>3, <2>3, <3>1
  <2>5. QED BY <2>2, <2>4
<1>5. Cardinality(zeros) + 1 = m
  <2>1. Cardinality(1..(m - 1)) = m - 1
    <3>1. 1 \in Int /\ m - 1 \in Int /\ m \in Int
      BY <1>3
    <3>2. Cardinality(1..(m - 1)) = IF 1 > m - 1 THEN 0 ELSE (m - 1) - 1 + 1
      BY <3>1, FS_Interval
    <3>3. QED BY <1>1, <1>3, <3>2
  <2> HIDE DEF zeros
  <2>2. QED BY <1>3, <1>4, <2>1
<1>6. Strip(d) = SubSeq(d, m, Len(d))
  BY <1>5 DEF Strip
<1>7. QED BY <1>3, <1>6

\* Leading zeros are worth nothing, and only 0 keeps one.
LEMMA StripKeepsValue ==
  ASSUME NEW d \in Digits
  PROVE  /\ Strip(d) \in Digits /\ Value(Strip(d)) = Value(d)
         /\ Strip(d) # <<>> /\ Value(d) # 0 => Strip(d)[1] # 0
         /\ Strip(d) = <<>> \/ Len(Strip(d)) = 1 \/ Strip(d)[1] # 0
         /\ Strip(d) = <<>> => Value(d) = 0
<1>1. CASE d = <<>>
  <2>1. Len(d) = 0 /\ 1..(Len(d) - 1) = {}
    BY <1>1
  <2>2. Strip(d) = SubSeq(d, Cardinality({}) + 1, 0)
    <3>1. {i \in 1..(Len(d) - 1) : \A j \in 1..i : d[j] = 0} = {}
      BY <2>1
    <3>2. QED BY <2>1, <3>1 DEF Strip
  <2>3. Cardinality({}) = 0
    BY FS_EmptySet
  <2>4. Strip(d) = <<>>
    BY <1>1, <2>2, <2>3
  <2>5. Value(d) = 0
    <3>1. PICK v : Values(d, v) /\ Value(d) = v[Len(d)]
      BY ValueIs
    <3>2. QED BY <2>1, <3>1 DEF Values
  <2>6. QED BY <1>1, <2>4, <2>5
<1>2. CASE d # <<>>
  <2>1. PICK m \in 1..Len(d) :
           /\ \A i \in 1..(m - 1) : d[i] = 0
           /\ m = Len(d) \/ d[m] # 0
           /\ Strip(d) = SubSeq(d, m, Len(d))
    BY <1>2, StripIs
  <2>2. Len(d) \in Nat /\ \A i \in 1..Len(d) : d[i] \in 0..9
    BY DEF Digits
  <2> DEFINE s == Strip(d)
  <2>3. /\ s \in Digits /\ Len(s) = Len(d) - m + 1
        /\ \A i \in 1..Len(s) : s[i] = d[m - 1 + i]
    <3>1. SubSeq(d, m, Len(d)) = [i \in 1..(Len(d) - m + 1) |-> d[m + i - 1]]
      BY <2>2 DEF Digits
    <3>2. \A i \in 1..(Len(d) - m + 1) : m + i - 1 \in 1..Len(d) /\ m + i - 1 = m - 1 + i
      BY <2>1, <2>2
    <3>3. Len(d) - m + 1 \in Nat
      BY <2>1, <2>2
    <3>4. s = [i \in 1..(Len(d) - m + 1) |-> d[m - 1 + i]]
      BY <2>1, <3>1, <3>2
    <3>5. \A i \in 1..(Len(d) - m + 1) : d[m - 1 + i] \in 0..9
      BY <2>2, <3>2
    <3> HIDE DEF s
    <3>6. QED BY <3>3, <3>4, <3>5 DEF Digits
  <2> HIDE DEF s
  <2>4. PICK v : Values(d, v) /\ Value(d) = v[Len(d)]
    BY ValueIs
  <2>5. PICK w : Values(s, w) /\ Value(s) = w[Len(s)]
    BY <2>3, ValueIs
  <2>6. /\ Len(s) \in Nat /\ Len(s) >= 1 /\ m - 1 + Len(s) = Len(d)
        /\ s[1] = d[m]
    BY <2>1, <2>2, <2>3
  <2>7. v[m - 1] = 0
    <3> DEFINE Bad == {i \in 0..(m - 1) : v[i] # 0}
    <3>1. SUFFICES ASSUME Bad # {} PROVE FALSE
      <4>1. m - 1 \in Bad \/ v[m - 1] = 0
        BY <2>1, <2>2
      <4> HIDE DEF Bad
      <4>2. QED BY <4>1
    <3>2. PICK k \in Bad : \A j \in Bad : k <= j
      <4>1. Bad \subseteq Nat
        BY <2>1
      <4> HIDE DEF Bad
      <4>2. QED BY <3>1, <4>1, KeepFold!LeastNat
    <3>3. k \in 0..(m - 1) /\ v[k] # 0
      OBVIOUS
    <3>4. k # 0
      BY <2>4, <3>3 DEF Values
    <3>5. v[k - 1] = 0
      <4>1. k - 1 \in 0..(m - 1) /\ ~(k <= k - 1)
        BY <2>1, <3>3, <3>4
      <4>2. k - 1 \notin Bad
        <5> HIDE DEF Bad
        <5>1. QED BY <3>2, <4>1
      <4>3. QED BY <4>1, <4>2
    <3> HIDE DEF Bad
    <3>6. k \in 1..(m - 1) /\ k \in 1..Len(d)
      BY <2>1, <2>2, <3>3, <3>4
    <3>7. v[k] = 10 * v[k - 1] + d[k] /\ d[k] = 0
      BY <2>1, <2>4, <3>6 DEF Values
    <3>8. QED BY <3>3, <3>5, <3>7
  <2>8. w[Len(s)] = v[m - 1 + Len(s)]
    <3> DEFINE Bad == {i \in 0..Len(s) : w[i] # v[m - 1 + i]}
    <3>1. SUFFICES ASSUME Bad # {} PROVE FALSE
      <4>1. Len(s) \in Bad \/ w[Len(s)] = v[m - 1 + Len(s)]
        BY <2>6
      <4> HIDE DEF Bad
      <4>2. QED BY <4>1
    <3>2. PICK k \in Bad : \A j \in Bad : k <= j
      <4>1. Bad \subseteq Nat
        OBVIOUS
      <4> HIDE DEF Bad
      <4>2. QED BY <3>1, <4>1, KeepFold!LeastNat
    <3>3. k \in 0..Len(s) /\ w[k] # v[m - 1 + k]
      OBVIOUS
    <3>4. k # 0
      <4>1. m - 1 + 0 = m - 1 /\ w[0] = 0
        BY <2>1, <2>5 DEF Values
      <4>2. QED BY <2>7, <3>3, <4>1
    <3>5. w[k - 1] = v[m - 1 + (k - 1)]
      <4>1. k - 1 \in 0..Len(s) /\ ~(k <= k - 1)
        BY <2>6, <3>3, <3>4
      <4>2. k - 1 \notin Bad
        <5> HIDE DEF Bad
        <5>1. QED BY <3>2, <4>1
      <4>3. QED BY <4>1, <4>2
    <3> HIDE DEF Bad
    <3>6. /\ k \in 1..Len(s) /\ m - 1 + k \in 1..Len(d)
          /\ m - 1 + k - 1 = m - 1 + (k - 1)
      BY <2>1, <2>2, <2>6, <3>3, <3>4
    <3>7. w[k] = 10 * w[k - 1] + s[k] /\ s[k] = d[m - 1 + k]
      BY <2>3, <2>5, <3>6 DEF Values
    <3>8. v[m - 1 + k] = 10 * v[m - 1 + k - 1] + d[m - 1 + k]
      BY <2>4, <3>6 DEF Values
    <3>9. QED BY <3>3, <3>5, <3>6, <3>7, <3>8
  <2>9. Value(s) = Value(d)
    BY <2>4, <2>5, <2>6, <2>8
  <2>10. s[1] = 0 => Len(s) = 1 /\ Value(s) = 0
    <3> SUFFICES ASSUME s[1] = 0 PROVE Len(s) = 1 /\ Value(s) = 0
      OBVIOUS
    <3>1. Len(s) = 1
      BY <2>1, <2>2, <2>3, <2>6
    <3>2. w[1] = 10 * w[1 - 1] + s[1] /\ w[0] = 0
      <4>1. 1 \in 1..Len(s)
        BY <3>1
      <4>2. QED BY <2>5, <4>1 DEF Values
    <3>3. QED BY <2>5, <3>1, <3>2
  <2>11. s # <<>>
    BY <2>6
  <2>12. QED BY <2>3, <2>9, <2>10, <2>11 DEF s
<1>3. QED BY <1>1, <1>2

\* checked_version_cmp is the comparison of the integers, however large.
THEOREM CheckedVersionCmpIs ==
  ASSUME NEW d \in Digits, NEW e \in Digits
  PROVE  CheckedVersionCmp(d, e) = Sign(Value(d) - Value(e))
<1> DEFINE x == Strip(d)
           y == Strip(e)
<1>1. CASE InRange(d) /\ InRange(e)
  BY <1>1 DEF CheckedVersionCmp
<1>2. CASE ~(InRange(d) /\ InRange(e))
  <2>1. CheckedVersionCmp(d, e) =
          IF Len(x) # Len(y) THEN Sign(Len(x) - Len(y)) ELSE DigitCmp(x, y)
    BY <1>2 DEF CheckedVersionCmp
  <2>2. /\ x \in Digits /\ Value(x) = Value(d)
        /\ x # <<>> /\ Value(d) # 0 => x[1] # 0
        /\ x = <<>> \/ Len(x) = 1 \/ x[1] # 0
    BY StripKeepsValue
  <2>3. /\ y \in Digits /\ Value(y) = Value(e)
        /\ y # <<>> /\ Value(e) # 0 => y[1] # 0
        /\ y = <<>> \/ Len(y) = 1 \/ y[1] # 0
    BY StripKeepsValue
  <2>4. /\ Value(d) \in Nat /\ Value(e) \in Nat /\ MaxValue \in Nat
        /\ MaxValue < Value(d) \/ MaxValue < Value(e)
    BY <1>2, ValueNat, ValuesAssumption DEF InRange
  <2>5. /\ x = <<>> => Value(d) = 0
        /\ y = <<>> => Value(e) = 0
    BY StripKeepsValue
  <2> HIDE DEF x, y
  <2>6. /\ Len(x) \in Nat /\ Len(y) \in Nat
        /\ (x = <<>> <=> Len(x) = 0) /\ (y = <<>> <=> Len(y) = 0)
    BY <2>2, <2>3 DEF Digits
  <2>7. CASE Len(x) = Len(y)
    BY <2>1, <2>2, <2>3, <2>7, DigitCmpIs
  <2>8. CASE Len(x) < Len(y)
    <3>1. y[1] # 0
      <4>1. Len(y) # 1 \/ Len(x) = 0
        BY <2>6, <2>8
      <4>2. Len(x) = 0 => Value(e) # 0
        <5> SUFFICES ASSUME Len(x) = 0 PROVE Value(e) # 0
          OBVIOUS
        <5>1. Value(d) = 0
          BY <2>5, <2>6
        <5>2. QED BY <2>4, <5>1
      <4>3. y # <<>>
        BY <2>6, <2>8
      <4>4. QED BY <2>3, <4>1, <4>2, <4>3
    <3>2. Value(x) < Value(y)
      BY <2>2, <2>3, <2>8, <3>1, LongerIsGreater
    <3>3. Sign(Value(d) - Value(e)) = -1
      BY <2>2, <2>3, <2>4, <3>2, SignOf
    <3>4. Sign(Len(x) - Len(y)) = -1 /\ Len(x) # Len(y)
      BY <2>6, <2>8, SignOf
    <3>5. QED BY <2>1, <3>3, <3>4
  <2>9. CASE Len(y) < Len(x)
    <3>1. x[1] # 0
      <4>1. Len(x) # 1 \/ Len(y) = 0
        <5>1. Len(x) \in Nat /\ Len(y) \in Nat
          BY <2>6
        <5>2. \A a, b \in Nat : a < b => b # 1 \/ a = 0
          OBVIOUS
        <5>3. QED BY <2>9, <5>1, <5>2
      <4>2. Len(y) = 0 => Value(d) # 0
        <5> SUFFICES ASSUME Len(y) = 0 PROVE Value(d) # 0
          OBVIOUS
        <5>1. Value(e) = 0
          BY <2>5, <2>6
        <5>2. QED BY <2>4, <5>1
      <4>3. x # <<>>
        BY <2>6, <2>9
      <4>4. QED BY <2>2, <4>1, <4>2, <4>3
    <3>2. Value(y) < Value(x)
      BY <2>2, <2>3, <2>9, <3>1, LongerIsGreater
    <3>3. Sign(Value(d) - Value(e)) = 1
      BY <2>2, <2>3, <2>4, <3>2, SignOf
    <3>4. Sign(Len(x) - Len(y)) = 1 /\ Len(x) # Len(y)
      BY <2>6, <2>9, SignOf
    <3>5. QED BY <2>1, <3>3, <3>4
  <2>10. QED BY <2>6, <2>7, <2>8, <2>9
<1>3. QED BY <1>1, <1>2

LEMMA CheckedVersionCmpOpposite ==
  ASSUME NEW d \in Digits, NEW e \in Digits
  PROVE  /\ CheckedVersionCmp(d, e) \in {-1, 0, 1}
         /\ CheckedVersionCmp(e, d) = -CheckedVersionCmp(d, e)
BY CheckedVersionCmpIs, ValueNat, SignOf

-----------------------------------------------------------------------------
(* Orders, as functions of two members of T, and the first of them that    *)
(* tells two members apart.                                                *)

IsOrder(c, T) ==
  /\ \A x, y \in T : c[<<x, y>>] \in {-1, 0, 1} /\ c[<<y, x>>] = -c[<<x, y>>]
  /\ \A x, y, z \in T : c[<<x, y>>] <= 0 /\ c[<<y, z>>] <= 0 => c[<<x, z>>] <= 0

LEMMA OrderFacts ==
  ASSUME NEW c, NEW T, IsOrder(c, T), NEW x \in T, NEW y \in T, NEW z \in T
  PROVE  /\ c[<<x, x>>] = 0
         /\ c[<<x, y>>] = 0 /\ c[<<y, z>>] = 0 => c[<<x, z>>] = 0
         /\ c[<<x, y>>] <= 0 /\ c[<<y, z>>] < 0 => c[<<x, z>>] < 0
         /\ c[<<x, y>>] < 0 /\ c[<<y, z>>] <= 0 => c[<<x, z>>] < 0
<1>1. /\ c[<<x, x>>] \in {-1, 0, 1} /\ c[<<x, y>>] \in {-1, 0, 1} /\ c[<<x, z>>] \in {-1, 0, 1}
      /\ c[<<y, z>>] \in {-1, 0, 1}
      /\ c[<<x, x>>] = -c[<<x, x>>] /\ c[<<y, x>>] = -c[<<x, y>>] /\ c[<<z, x>>] = -c[<<x, z>>] /\ c[<<z, y>>] = -c[<<y, z>>]
  BY DEF IsOrder
<1>2. /\ c[<<x, y>>] <= 0 /\ c[<<y, z>>] <= 0 => c[<<x, z>>] <= 0
      /\ c[<<z, y>>] <= 0 /\ c[<<y, x>>] <= 0 => c[<<z, x>>] <= 0
      /\ c[<<z, x>>] <= 0 /\ c[<<x, y>>] <= 0 => c[<<z, y>>] <= 0
      /\ c[<<y, z>>] <= 0 /\ c[<<z, x>>] <= 0 => c[<<y, x>>] <= 0
  BY DEF IsOrder
<1>3. QED BY <1>1, <1>2

LEMMA KeyOrder ==
  ASSUME NEW c, NEW T, NEW k, \A x \in T : k[x] \in Int,
         \A x, y \in T : c[<<x, y>>] = Sign(k[x] - k[y])
  PROVE  IsOrder(c, T)
<1>1. \A x, y \in T : c[<<x, y>>] \in {-1, 0, 1} /\ c[<<y, x>>] = -c[<<x, y>>]
                        /\ (c[<<x, y>>] <= 0 <=> k[x] <= k[y])
  <2> TAKE x, y \in T
  <2>1. k[x] \in Int /\ k[y] \in Int
    OBVIOUS
  <2>2. c[<<x, y>>] = Sign(k[x] - k[y]) /\ c[<<y, x>>] = Sign(k[y] - k[x])
    OBVIOUS
  <2>3. QED BY <2>1, <2>2 DEF Sign
<1>2. \A x, y, z \in T : k[x] <= k[y] /\ k[y] <= k[z] => k[x] <= k[z]
  OBVIOUS
<1>3. QED BY <1>1, <1>2 DEF IsOrder

Tied(R, i, x, y) == \A j \in Nat : j < i => R[j][<<x, y>>] = 0

Decided(R, x, y, s) ==
  \/ s = 0 /\ \A i \in Nat : R[i][<<x, y>>] = 0
  \/ \E i \in Nat : s # 0 /\ s = R[i][<<x, y>>] /\ Tied(R, i, x, y)

LEMMA ZeroIsOpposite ==
  ASSUME NEW a, NEW b, a = 0, b = 0
  PROVE  b = -a
<1>1. \A i, j \in Int : i <= 0 /\ i >= 0 /\ j <= 0 /\ j >= 0 => j = -i
  OBVIOUS
<1>2. /\ a \in Int /\ a <= 0 /\ a >= 0
      /\ b \in Int /\ b <= 0 /\ b >= 0
  OBVIOUS
<1>3. QED BY <1>1, <1>2

LEMMA OneIsOpposite ==
  ASSUME NEW a, NEW b, a = -1, b = 1
  PROVE  b = -a
<1>1. \A i, j \in Int : i <= -1 /\ i >= -1 /\ j <= 1 /\ j >= 1 => j = -i
  OBVIOUS
<1>2. /\ a \in Int /\ a <= -1 /\ a >= -1
      /\ b \in Int /\ b <= 1 /\ b >= 1
  OBVIOUS
<1>3. QED BY <1>1, <1>2

LEMMA FirstOrder ==
  ASSUME NEW R, NEW T, \A i \in Nat : IsOrder(R[i], T),
         NEW c, \A x, y \in T : Decided(R, x, y, c[<<x, y>>])
  PROVE  IsOrder(c, T)
<1>1. \A i \in Nat : \A x, y \in T :
         R[i][<<x, y>>] \in {-1, 0, 1} /\ R[i][<<y, x>>] = -R[i][<<x, y>>]
  BY DEF IsOrder
<1>2. \A x, y \in T : c[<<x, y>>] \in {-1, 0, 1}
  BY <1>1 DEF Decided
<1>3. ASSUME NEW x \in T, NEW y \in T PROVE c[<<y, x>>] = -c[<<x, y>>]
  <2>1. CASE \A i \in Nat : R[i][<<x, y>>] = 0
    <3>1. \A i \in Nat : R[i][<<y, x>>] = 0
      BY <1>1, <2>1
    <3>2. c[<<x, y>>] = 0 /\ c[<<y, x>>] = 0
      BY <2>1, <3>1 DEF Decided
    <3>3. QED BY <3>2, ZeroIsOpposite
  <2>2. CASE ~\A i \in Nat : R[i][<<x, y>>] = 0
    <3>1. PICK i \in Nat : c[<<x, y>>] # 0 /\ c[<<x, y>>] = R[i][<<x, y>>] /\ Tied(R, i, x, y)
      BY <2>2 DEF Decided
    <3>2. ~\A j \in Nat : R[j][<<y, x>>] = 0
      BY <1>1, <2>2
    <3>3. PICK j \in Nat : c[<<y, x>>] # 0 /\ c[<<y, x>>] = R[j][<<y, x>>] /\ Tied(R, j, y, x)
      BY <3>2 DEF Decided
    <3>4. R[i][<<y, x>>] # 0 /\ R[j][<<x, y>>] # 0
      BY <1>1, <3>1, <3>3
    <3>5. ~(i < j) /\ ~(j < i)
      BY <3>1, <3>3, <3>4 DEF Tied
    <3>6. i = j
      BY <3>5
    <3>7. QED BY <1>1, <3>1, <3>3, <3>6
  <2>3. QED BY <2>1, <2>2
<1>4. ASSUME NEW x \in T, NEW y \in T, NEW z \in T, c[<<x, y>>] <= 0, c[<<y, z>>] <= 0
      PROVE  c[<<x, z>>] <= 0
  <2> DEFINE D == {i \in Nat : R[i][<<x, y>>] # 0 \/ R[i][<<y, z>>] # 0}
  <2>1. CASE D = {}
    <3>1. \A i \in Nat : R[i][<<x, z>>] = 0
      <4> TAKE i \in Nat
      <4>1. R[i][<<x, y>>] = 0 /\ R[i][<<y, z>>] = 0
        BY <2>1
      <4>2. QED BY <4>1, OrderFacts
    <3>2. QED BY <3>1 DEF Decided
  <2>2. CASE D # {}
    <3>1. PICK m \in D : \A k \in D : m <= k
      <4>1. D \subseteq Nat
        OBVIOUS
      <4> HIDE DEF D
      <4>2. QED BY <2>2, <4>1, KeepFold!LeastNat
    <3>2. m \in Nat /\ (R[m][<<x, y>>] # 0 \/ R[m][<<y, z>>] # 0)
      OBVIOUS
    <3>3. \A j \in Nat : j < m => R[j][<<x, y>>] = 0 /\ R[j][<<y, z>>] = 0
      <4> SUFFICES ASSUME NEW j \in Nat, j < m PROVE j \notin D
        OBVIOUS
      <4>1. ~(m <= j)
        BY <3>2
      <4> HIDE DEF D
      <4>2. QED BY <3>1, <4>1
    <3> HIDE DEF D
    <3>4. \A j \in Nat : j < m => R[j][<<x, z>>] = 0
      BY <3>3, OrderFacts
    <3>5. R[m][<<x, y>>] <= 0
      <4> SUFFICES ASSUME R[m][<<x, y>>] # 0 PROVE R[m][<<x, y>>] <= 0
        OBVIOUS
      <4>1. PICK i \in Nat : c[<<x, y>>] = R[i][<<x, y>>] /\ c[<<x, y>>] # 0 /\ Tied(R, i, x, y)
        BY <3>2 DEF Decided
      <4>2. ~(i < m) /\ ~(m < i)
        BY <3>2, <3>3, <4>1 DEF Tied
      <4>3. i = m
        BY <3>2, <4>2
      <4>4. QED BY <1>4, <4>1, <4>3
    <3>6. R[m][<<y, z>>] <= 0
      <4> SUFFICES ASSUME R[m][<<y, z>>] # 0 PROVE R[m][<<y, z>>] <= 0
        OBVIOUS
      <4>1. PICK i \in Nat : c[<<y, z>>] = R[i][<<y, z>>] /\ c[<<y, z>>] # 0 /\ Tied(R, i, y, z)
        BY <3>2 DEF Decided
      <4>2. ~(i < m) /\ ~(m < i)
        BY <3>2, <3>3, <4>1 DEF Tied
      <4>3. i = m
        BY <3>2, <4>2
      <4>4. QED BY <1>4, <4>1, <4>3
    <3>7. R[m][<<x, z>>] < 0
      <4>1. R[m][<<x, y>>] \in {-1, 0, 1} /\ R[m][<<y, z>>] \in {-1, 0, 1}
        BY <1>1, <3>2
      <4>2. R[m][<<x, y>>] < 0 \/ R[m][<<y, z>>] < 0
        BY <3>2, <3>5, <3>6, <4>1
      <4>3. QED BY <3>2, <3>5, <3>6, <4>2, OrderFacts
    <3>8. PICK i \in Nat : c[<<x, z>>] = R[i][<<x, z>>] /\ c[<<x, z>>] # 0 /\ Tied(R, i, x, z)
      BY <3>2, <3>7 DEF Decided
    <3>9. ~(i < m) /\ ~(m < i)
      BY <3>2, <3>4, <3>7, <3>8 DEF Tied
    <3>10. i = m
      BY <3>2, <3>9
    <3>11. c[<<x, z>>] < 0 /\ c[<<x, z>>] \in {-1, 0, 1}
      BY <1>2, <3>7, <3>8, <3>10
    <3>12. QED BY <3>11
  <2>3. QED BY <2>1, <2>2
<1>5. QED BY <1>2, <1>3, <1>4 DEF IsOrder

\* Members compared by a sequence of integers, the first that differ decide.
ByKeys(k, x, y, s) ==
  \/ s = 0 /\ \A i \in Nat : k[i][x] = k[i][y]
  \/ \E i \in Nat : /\ k[i][x] # k[i][y] /\ s = Sign(k[i][x] - k[i][y])
                    /\ \A j \in Nat : j < i => k[j][x] = k[j][y]

LEMMA KeysOrder ==
  ASSUME NEW T, NEW k, \A i \in Nat : \A x \in T : k[i][x] \in Int,
         NEW c, \A x, y \in T : ByKeys(k, x, y, c[<<x, y>>])
  PROVE  IsOrder(c, T)
<1> DEFINE R == [i \in Nat |-> [p \in T \X T |-> Sign(k[i][p[1]] - k[i][p[2]])]]
<1>1. \A i \in Nat : \A x, y \in T : R[i][<<x, y>>] = Sign(k[i][x] - k[i][y])
  OBVIOUS
<1> HIDE DEF R
<1>2. \A i \in Nat : IsOrder(R[i], T)
  <2> TAKE i \in Nat
  <2> DEFINE r == R[i]
             l == k[i]
  <2>1. \A x, y \in T : r[<<x, y>>] = Sign(l[x] - l[y])
    BY <1>1
  <2>2. \A x \in T : l[x] \in Int
    OBVIOUS
  <2> HIDE DEF r, l
  <2>3. IsOrder(r, T)
    BY <2>1, <2>2, KeyOrder
  <2>4. QED BY <2>3 DEF r
<1>3. ASSUME NEW x \in T, NEW y \in T PROVE Decided(R, x, y, c[<<x, y>>])
  <2>1. \A i \in Nat : R[i][<<x, y>>] = 0 <=> k[i][x] = k[i][y]
    <3> TAKE i \in Nat
    <3>1. k[i][x] \in Int /\ k[i][y] \in Int
      OBVIOUS
    <3>2. \A a, b \in Int : Sign(a - b) = 0 <=> a = b
      BY SignOf
    <3>3. QED BY <1>1, <3>1, <3>2
  <2>2. ByKeys(k, x, y, c[<<x, y>>])
    OBVIOUS
  <2>3. QED BY <1>1, <2>1, <2>2 DEF ByKeys, Decided, Tied
<1>4. QED BY <1>2, <1>3, FirstOrder

-----------------------------------------------------------------------------
(* strverscmp of two runs of digits: the empty one is the greatest, then   *)
(* those with a leading zero come before the others, which are numbers;    *)
(* they are fractions, of which an end comes before every digit, unless    *)
(* all digits so far were zeros.                                           *)

RunKey(i, d) ==
  IF i = 0 THEN (IF d = <<>> THEN 1 ELSE 0)
  ELSE IF i = 1 THEN (IF d # <<>> /\ d[1] # 0 THEN Value(d) ELSE 0)
  ELSE IF d = <<>> \/ d[1] # 0 THEN 0
  ELSE IF i - 1 \in 1..Len(d) THEN d[i - 1]
  ELSE IF \A j \in 1..Len(d) : d[j] = 0 THEN 10 ELSE -1

RunKeys == [i \in Nat |-> [d \in Digits |-> RunKey(i, d)]]

RunOrder == [p \in Digits \X Digits |-> RunCmp(p[1], p[2])]

LEMMA DigitsAre ==
  ASSUME NEW d \in Digits
  PROVE  /\ Len(d) \in Nat /\ \A i \in 1..Len(d) : d[i] \in 0..9
         /\ Value(d) \in Nat
         /\ d = <<>> <=> Len(d) = 0
         /\ d # <<>> => d[1] \in 0..9 /\ Len(d) >= 1
BY ValueNat DEF Digits

LEMMA RunKeyIs ==
  \A i \in Nat, d \in Digits : RunKeys[i][d] = RunKey(i, d) /\ RunKey(i, d) \in Int
<1> TAKE i \in Nat, d \in Digits
<1>1. RunKeys[i][d] = RunKey(i, d)
  BY DEF RunKeys
<1>2. RunKey(i, d) \in Int
  BY DigitsAre DEF RunKey
<1>3. QED BY <1>1, <1>2

\* Digits of which the shorter ones are the first of the longer ones.
LEMMA ZeroRuns ==
  ASSUME NEW x \in Digits, NEW y \in Digits, x # <<>>, Len(x) < Len(y), x[1] = 0,
         \A i \in 1..Len(x) : x[i] = y[i]
  PROVE  ByKeys(RunKeys, x, y, RunCmp(x, y)) /\ ByKeys(RunKeys, y, x, RunCmp(y, x))
<1>1. /\ Len(x) \in Nat /\ Len(y) \in Nat /\ Len(x) >= 1 /\ y # <<>>
      /\ \A i \in 1..Len(x) : x[i] \in 0..9
      /\ \A i \in 1..Len(y) : y[i] \in 0..9
      /\ y[1] = 0
  BY DigitsAre
<1>2. /\ Common(x, y) = 1..Len(x) /\ Common(y, x) = 1..Len(x)
      /\ Common(x, y) \subseteq Nat
  <2>1. \A i : i \in Common(x, y) <=> i \in 1..Len(x)
    BY <1>1, CommonIs DEF Digits
  <2>2. QED BY <2>1, CommonIs DEF Digits
<1> DEFINE f == [i \in 1..Len(x) |-> Sign(x[i] - y[i])]
           g == [i \in 1..Len(x) |-> Sign(y[i] - x[i])]
           Zeros == \A i \in 1..Len(x) : x[i] = 0
<1>3. \A i \in 1..Len(x) : f[i] = 0 /\ g[i] = 0
  <2> TAKE i \in 1..Len(x)
  <2>1. x[i] \in Int /\ y[i] \in Int /\ x[i] = y[i]
    BY <1>1
  <2>2. Sign(x[i] - y[i]) = 0 /\ Sign(y[i] - x[i]) = 0
    BY <2>1, SignOf
  <2>3. QED BY <2>2
<1>4. \A o : FirstVerdict(f, o) = o /\ FirstVerdict(g, o) = o
  <2> TAKE o
  <2>1. DOMAIN f \subseteq Nat /\ DOMAIN f = 1..Len(x) /\ DOMAIN g = 1..Len(x)
    BY <1>1
  <2> HIDE DEF f, g
  <2>2. QED BY <1>3, <2>1, FirstVerdictIs
<1>5. Zeros <=> \A i \in 1..Len(x) : y[i] = 0
  OBVIOUS
<1>6. /\ RunCmp(x, y) = IF Zeros THEN 1 ELSE -1
      /\ RunCmp(y, x) = IF Zeros THEN -1 ELSE 1
  <2>1. /\ RunCmp(x, y) = Sign(IF Zeros THEN Len(y) - Len(x) ELSE Len(x) - Len(y))
        /\ RunCmp(y, x) = Sign(IF Zeros THEN Len(x) - Len(y) ELSE Len(y) - Len(x))
    <3> HIDE DEF Zeros
    <3>1. /\ RunCmp(x, y) = FirstVerdict(f, Sign(IF Zeros THEN Len(y) - Len(x)
                                                          ELSE Len(x) - Len(y)))
          /\ RunCmp(y, x) = FirstVerdict(g, Sign(IF Zeros THEN Len(x) - Len(y)
                                                          ELSE Len(y) - Len(x)))
      BY <1>1, <1>2, <1>5 DEF RunCmp, Zeros
    <3> HIDE DEF f, g
    <3>2. QED BY <1>4, <3>1
  <2>2. Sign(Len(y) - Len(x)) = 1 /\ Sign(Len(x) - Len(y)) = -1
    BY <1>1, SignOf
  <2>3. QED BY <2>1, <2>2
<1> DEFINE n == Len(x) + 2
<1>7. n \in Nat /\ n > 1 /\ n - 1 \in 1..Len(y) /\ n - 1 \notin 1..Len(x)
  BY <1>1
<1>8. RunKey(n, x) = IF Zeros THEN 10 ELSE -1
  BY <1>1, <1>7 DEF RunKey
<1>9. RunKey(n, y) \in 0..9
  BY <1>1, <1>7 DEF RunKey
<1>10. \A j \in Nat : j < n => RunKey(j, x) = RunKey(j, y)
  <2> SUFFICES ASSUME NEW j \in Nat, j < n PROVE RunKey(j, x) = RunKey(j, y)
    OBVIOUS
  <2>1. CASE j = 0 \/ j = 1
    BY <1>1, <2>1 DEF RunKey
  <2>2. CASE j # 0 /\ j # 1
    <3>1. j - 1 \in 1..Len(x) /\ j - 1 \in 1..Len(y)
      BY <1>1, <2>2
    <3>2. RunKey(j, x) = x[j - 1] /\ RunKey(j, y) = y[j - 1]
      BY <1>1, <2>2, <3>1 DEF RunKey
    <3>3. QED BY <3>1, <3>2
  <2>3. QED BY <2>1, <2>2
<1> HIDE DEF n, Zeros, f, g
<1>11. /\ RunKey(n, x) # RunKey(n, y)
       /\ RunCmp(x, y) = Sign(RunKey(n, x) - RunKey(n, y))
       /\ RunCmp(y, x) = Sign(RunKey(n, y) - RunKey(n, x))
  <2>1. CASE Zeros
    <3>1. RunKey(n, y) < RunKey(n, x) /\ RunKey(n, x) \in Int /\ RunKey(n, y) \in Int
      BY <1>8, <1>9, <2>1
    <3>2. /\ Sign(RunKey(n, x) - RunKey(n, y)) = 1
          /\ Sign(RunKey(n, y) - RunKey(n, x)) = -1
      BY <3>1, SignOf
    <3>3. QED BY <1>6, <2>1, <3>1, <3>2
  <2>2. CASE ~Zeros
    <3>1. RunKey(n, x) < RunKey(n, y) /\ RunKey(n, x) \in Int /\ RunKey(n, y) \in Int
      BY <1>8, <1>9, <2>2
    <3>2. /\ Sign(RunKey(n, x) - RunKey(n, y)) = -1
          /\ Sign(RunKey(n, y) - RunKey(n, x)) = 1
      BY <3>1, SignOf
    <3>3. QED BY <1>6, <2>2, <3>1, <3>2
  <2>3. QED BY <2>1, <2>2
<1>12. \A i \in Nat : RunKeys[i][x] = RunKey(i, x) /\ RunKeys[i][y] = RunKey(i, y)
  BY RunKeyIs
<1>13. QED BY <1>7, <1>10, <1>11, <1>12 DEF ByKeys

\* Two runs of digits that both begin with a zero.
LEMMA ZeroRunsByKeys ==
  ASSUME NEW x \in Digits, NEW y \in Digits,
         x # <<>>, y # <<>>, x[1] = 0, y[1] = 0
  PROVE  ByKeys(RunKeys, x, y, RunCmp(x, y))
<1>1. /\ Len(x) \in Nat /\ Len(y) \in Nat /\ Len(x) >= 1 /\ Len(y) >= 1
      /\ \A i \in 1..Len(x) : x[i] \in 0..9
      /\ \A i \in 1..Len(y) : y[i] \in 0..9
  BY DigitsAre
<1>2. \A i \in Nat : RunKeys[i][x] = RunKey(i, x) /\ RunKeys[i][y] = RunKey(i, y)
  BY RunKeyIs
<1>3. \A i \in Common(x, y) : i \in 1..Len(x) /\ i \in 1..Len(y) /\ i \in Nat
  BY CommonIs DEF Digits
<1> DEFINE f == [i \in Common(x, y) |-> Sign(x[i] - y[i])]
           Zeros == \A i \in Common(x, y) : x[i] = 0
           last == Sign(IF Zeros THEN Len(y) - Len(x) ELSE Len(x) - Len(y))
<1>4. RunCmp(x, y) = FirstVerdict(f, last)
  BY DEF RunCmp
<1>5. DOMAIN f = Common(x, y) /\ Common(x, y) \subseteq Nat
  BY <1>3
<1>6. \A i \in Common(x, y) : f[i] = Sign(x[i] - y[i]) /\ (f[i] = 0 <=> x[i] = y[i])
  <2> TAKE i \in Common(x, y)
  <2>1. x[i] \in Int /\ y[i] \in Int
    BY <1>1, <1>3
  <2>2. Sign(x[i] - y[i]) = 0 <=> x[i] = y[i]
    BY <2>1, SignOf
  <2>3. QED BY <2>2
<1> HIDE DEF f
<1>7. CASE \A i \in Common(x, y) : x[i] = y[i]
  <2>1. \A i : i \in 1..Len(x) /\ i \in 1..Len(y) => x[i] = y[i]
    BY <1>7, CommonIs DEF Digits
  <2>2. CASE Len(x) = Len(y)
    <3>1. x = y
      BY <2>1, <2>2 DEF Digits
    <3>2. \A i \in Common(x, y) : f[i] = 0
      BY <1>6, <1>7
    <3>3. FirstVerdict(f, last) = last
      <4> HIDE DEF last
      <4>1. QED BY <1>5, <3>2, FirstVerdictIs
    <3>4. last = 0
      <4> HIDE DEF Zeros
      <4>1. Sign(Len(x) - Len(y)) = 0 /\ Sign(Len(y) - Len(x)) = 0
        BY <1>1, <2>2, SignOf
      <4>2. QED BY <4>1
    <3>5. \A i \in Nat : RunKeys[i][x] = RunKeys[i][y]
      BY <3>1
    <3>6. RunCmp(x, y) = 0
      BY <1>4, <3>3, <3>4
    <3>7. QED BY <3>5, <3>6 DEF ByKeys
  <2>3. CASE Len(x) < Len(y)
    <3>1. \A i \in 1..Len(x) : x[i] = y[i]
      BY <1>1, <2>1, <2>3
    <3>2. QED BY <2>3, <3>1, ZeroRuns
  <2>4. CASE Len(y) < Len(x)
    <3>1. \A i \in 1..Len(y) : y[i] = x[i]
      BY <1>1, <2>1, <2>4
    <3>2. QED BY <2>4, <3>1, ZeroRuns
  <2>5. QED BY <1>1, <2>2, <2>3, <2>4
<1>8. CASE ~\A i \in Common(x, y) : x[i] = y[i]
  <2>1. PICK j \in Common(x, y) :
          /\ f[j] # 0 /\ FirstVerdict(f, last) = f[j]
          /\ \A i \in Common(x, y) : i < j => f[i] = 0
    <3>1. ~\A i \in Common(x, y) : f[i] = 0
      BY <1>6, <1>8
    <3> HIDE DEF last
    <3>2. QED BY <1>5, <3>1, FirstVerdictIs
  <2>2. j \in 1..Len(x) /\ j \in 1..Len(y) /\ j \in Nat
    BY <1>3
  <2> DEFINE n == j + 1
  <2>3. n \in Nat /\ n > 1 /\ n - 1 = j
    BY <2>2
  <2>4. RunKey(n, x) = x[j] /\ RunKey(n, y) = y[j]
    BY <2>2, <2>3 DEF RunKey
  <2>5. \A i \in Nat : i < n => RunKey(i, x) = RunKey(i, y)
    <3> SUFFICES ASSUME NEW i \in Nat, i < n PROVE RunKey(i, x) = RunKey(i, y)
      OBVIOUS
    <3>1. CASE i = 0 \/ i = 1
      BY <3>1 DEF RunKey
    <3>2. CASE i # 0 /\ i # 1
      <4>1. i - 1 \in 1..Len(x) /\ i - 1 \in 1..Len(y) /\ i - 1 < j
        BY <1>1, <2>2, <3>2
      <4>2. i - 1 \in Common(x, y)
        BY <4>1, CommonIs DEF Digits
      <4>3. x[i - 1] = y[i - 1]
        BY <1>6, <2>1, <4>1, <4>2
      <4>4. RunKey(i, x) = x[i - 1] /\ RunKey(i, y) = y[i - 1]
        BY <3>2, <4>1 DEF RunKey
      <4>5. QED BY <4>3, <4>4
    <3>3. QED BY <3>1, <3>2
  <2> HIDE DEF n
  <2>6. RunCmp(x, y) = Sign(x[j] - y[j]) /\ x[j] # y[j]
    BY <1>4, <1>6, <2>1
  <2>7. QED BY <1>2, <2>3, <2>4, <2>5, <2>6 DEF ByKeys
<1>9. QED BY <1>7, <1>8

LEMMA RunsByKeys ==
  \A x, y \in Digits : ByKeys(RunKeys, x, y, RunCmp(x, y))
<1> TAKE x, y \in Digits
<1>1. /\ Len(x) \in Nat /\ Len(y) \in Nat
      /\ x = <<>> <=> Len(x) = 0
      /\ y = <<>> <=> Len(y) = 0
      /\ x # <<>> => x[1] \in 0..9 /\ Len(x) >= 1
      /\ y # <<>> => y[1] \in 0..9 /\ Len(y) >= 1
      /\ Value(x) \in Nat /\ Value(y) \in Nat
  BY DigitsAre
<1>2. \A i \in Nat : RunKeys[i][x] = RunKey(i, x) /\ RunKeys[i][y] = RunKey(i, y)
  BY RunKeyIs
<1>3. CASE x = <<>> \/ y = <<>>
  <2>1. RunCmp(x, y) = Sign(Len(y) - Len(x))
    BY <1>3 DEF RunCmp
  <2>2. CASE x = y
    <3>1. Sign(Len(y) - Len(x)) = 0
      BY <1>1, <2>2, SignOf
    <3>2. QED BY <2>1, <2>2, <3>1 DEF ByKeys
  <2>3. CASE x # y
    <3>1. CASE x = <<>>
      <4>1. RunKey(0, x) = 1 /\ RunKey(0, y) = 0
        BY <2>3, <3>1 DEF RunKey
      <4>2. Sign(Len(y) - Len(x)) = 1 /\ Sign(1 - 0) = 1
        <5>1. Len(x) < Len(y)
          BY <1>1, <2>3, <3>1
        <5>2. Sign(1 - 0) = 1
          BY DEF Sign
        <5>3. QED BY <1>1, <5>1, <5>2, SignOf
      <4>3. \A i \in Nat : ~(i < 0)
        OBVIOUS
      <4>4. QED BY <1>2, <2>1, <4>1, <4>2, <4>3 DEF ByKeys
    <3>2. CASE y = <<>>
      <4>1. RunKey(0, x) = 0 /\ RunKey(0, y) = 1
        BY <2>3, <3>2 DEF RunKey
      <4>2. Sign(Len(y) - Len(x)) = -1 /\ Sign(0 - 1) = -1
        <5>1. Len(y) < Len(x)
          BY <1>1, <2>3, <3>2
        <5>2. Sign(0 - 1) = -1
          BY DEF Sign
        <5>3. QED BY <1>1, <5>1, <5>2, SignOf
      <4>3. \A i \in Nat : ~(i < 0)
        OBVIOUS
      <4>4. QED BY <1>2, <2>1, <4>1, <4>2, <4>3 DEF ByKeys
    <3>3. QED BY <1>3, <3>1, <3>2
  <2>4. QED BY <2>2, <2>3
<1>4. CASE x # <<>> /\ y # <<>> /\ x[1] # 0 /\ y[1] # 0
  <2>1. RunCmp(x, y) = Sign(Value(x) - Value(y))
    BY <1>4 DEF RunCmp
  <2>2. RunKey(1, x) = Value(x) /\ RunKey(1, y) = Value(y)
    BY <1>4 DEF RunKey
  <2>3. \A i \in Nat : i # 1 => RunKey(i, x) = 0 /\ RunKey(i, y) = 0
    BY <1>4 DEF RunKey
  <2>4. CASE Value(x) = Value(y)
    <3>1. RunCmp(x, y) = 0
      BY <1>1, <2>1, <2>4, SignOf
    <3>2. \A i \in Nat : RunKey(i, x) = RunKey(i, y)
      BY <2>2, <2>3, <2>4
    <3>3. QED BY <1>2, <3>1, <3>2 DEF ByKeys
  <2>5. CASE Value(x) # Value(y)
    <3>1. \A i \in Nat : i < 1 => RunKey(i, x) = RunKey(i, y)
      BY <2>3
    <3>2. QED BY <1>2, <2>1, <2>2, <2>5, <3>1 DEF ByKeys
  <2>6. QED BY <2>4, <2>5
<1>5. CASE x # <<>> /\ y # <<>> /\ (x[1] = 0 <=> y[1] # 0)
  <2>1. RunCmp(x, y) = Sign(x[1] - y[1])
    <3> DEFINE f == [i \in Common(x, y) |-> Sign(x[i] - y[i])]
               Zeros == \A i \in Common(x, y) : x[i] = 0
               last == Sign(IF Zeros THEN Len(y) - Len(x) ELSE Len(x) - Len(y))
    <3>1. RunCmp(x, y) = FirstVerdict(f, last)
      BY <1>5 DEF RunCmp
    <3>2. /\ 1 \in Common(x, y) /\ Common(x, y) \subseteq Nat
          /\ \A i \in Common(x, y) : ~(i < 1)
      BY <1>1, <1>5, CommonIs DEF Digits
    <3>3. f[1] = Sign(x[1] - y[1]) /\ DOMAIN f = Common(x, y)
      BY <3>2
    <3>4. f[1] # 0
      <4>1. x[1] \in Int /\ y[1] \in Int /\ x[1] # y[1]
        BY <1>1, <1>5
      <4>2. Sign(x[1] - y[1]) # 0
        BY <4>1, SignOf
      <4>3. QED BY <3>3, <4>2
    <3> HIDE DEF f, last
    <3>5. PICK j \in DOMAIN f : /\ f[j] # 0 /\ FirstVerdict(f, last) = f[j]
                                /\ \A i \in DOMAIN f : i < j => f[i] = 0
      BY <3>2, <3>3, <3>4, FirstVerdictIs
    <3>6. j = 1
      <4>1. j \in Nat /\ ~(j < 1) /\ ~(1 < j)
        BY <3>2, <3>3, <3>4, <3>5
      <4>2. QED BY <4>1
    <3>7. QED BY <3>1, <3>3, <3>5, <3>6
  <2>2. \A i \in Nat : i < 1 => RunKey(i, x) = 0 /\ RunKey(i, y) = 0
    BY <1>5 DEF RunKey
  <2>3. \A d \in Digits : d # <<>> /\ d[1] # 0 => Value(d) > 0
    <3> TAKE d \in Digits
    <3> SUFFICES ASSUME d # <<>>, d[1] # 0 PROVE Value(d) > 0
      OBVIOUS
    <3>1. <<>> \in Digits /\ Len(<<>>) < Len(d)
      BY DigitsAre DEF Digits
    <3>2. Value(<<>>) < Value(d) /\ Value(<<>>) \in Nat /\ Value(d) \in Nat
      BY <3>1, LongerIsGreater, ValueNat
    <3>3. QED BY <3>2
  <2>4. CASE x[1] = 0 /\ y[1] # 0
    <3>1. RunKey(1, x) = 0 /\ RunKey(1, y) = Value(y) /\ Value(y) > 0
      BY <1>5, <2>3, <2>4 DEF RunKey
    <3>2. Sign(x[1] - y[1]) = -1 /\ Sign(0 - Value(y)) = -1
      <4>1. x[1] \in Int /\ y[1] \in Int /\ x[1] < y[1]
        BY <1>1, <1>5, <2>4
      <4>2. 0 < Value(y) /\ 0 \in Int /\ Value(y) \in Int
        BY <1>1, <3>1
      <4>3. QED BY <4>1, <4>2, SignOf
    <3>3. RunKey(1, x) # RunKey(1, y)
      BY <1>1, <3>1
    <3>4. QED BY <1>2, <2>1, <2>2, <3>1, <3>2, <3>3 DEF ByKeys
  <2>5. CASE x[1] # 0 /\ y[1] = 0
    <3>1. RunKey(1, y) = 0 /\ RunKey(1, x) = Value(x) /\ Value(x) > 0
      BY <1>5, <2>3, <2>5 DEF RunKey
    <3>2. Sign(x[1] - y[1]) = 1 /\ Sign(Value(x) - 0) = 1
      <4>1. x[1] \in Int /\ y[1] \in Int /\ y[1] < x[1]
        BY <1>1, <1>5, <2>5
      <4>2. 0 < Value(x) /\ 0 \in Int /\ Value(x) \in Int
        BY <1>1, <3>1
      <4>3. QED BY <4>1, <4>2, SignOf
    <3>3. RunKey(1, x) # RunKey(1, y)
      BY <1>1, <3>1
    <3>4. QED BY <1>2, <2>1, <2>2, <3>1, <3>2, <3>3 DEF ByKeys
  <2>6. QED BY <1>5, <2>4, <2>5
<1>6. CASE x # <<>> /\ y # <<>> /\ x[1] = 0 /\ y[1] = 0
  BY <1>6, ZeroRunsByKeys
<1>7. QED BY <1>3, <1>4, <1>5, <1>6

LEMMA RunIsOrder == IsOrder(RunOrder, Digits)
<1>1. \A x, y \in Digits : RunOrder[<<x, y>>] = RunCmp(x, y)
  BY DEF RunOrder
<1>2. \A i \in Nat : \A x \in Digits : RunKeys[i][x] \in Int
  BY RunKeyIs
<1>3. \A x, y \in Digits : ByKeys(RunKeys, x, y, RunOrder[<<x, y>>])
  BY <1>1, RunsByKeys
<1>4. QED BY <1>2, <1>3, KeysOrder

-----------------------------------------------------------------------------
(* Orders that are made of others.                                         *)

LEMMA MapOrder ==
  ASSUME NEW S, NEW T, NEW c, IsOrder(c, S), NEW g, \A x \in T : g[x] \in S,
         NEW d, \A x, y \in T : d[<<x, y>>] = c[<<g[x], g[y]>>]
  PROVE  IsOrder(d, T)
<1>1. ASSUME NEW x \in T, NEW y \in T
      PROVE  d[<<x, y>>] \in {-1, 0, 1} /\ d[<<y, x>>] = -d[<<x, y>>]
  <2>1. g[x] \in S /\ g[y] \in S
    OBVIOUS
  <2>2. d[<<x, y>>] = c[<<g[x], g[y]>>] /\ d[<<y, x>>] = c[<<g[y], g[x]>>]
    OBVIOUS
  <2>3. QED BY <2>1, <2>2 DEF IsOrder
<1>2. ASSUME NEW x \in T, NEW y \in T, NEW z \in T, d[<<x, y>>] <= 0, d[<<y, z>>] <= 0
      PROVE  d[<<x, z>>] <= 0
  <2>1. g[x] \in S /\ g[y] \in S /\ g[z] \in S
    OBVIOUS
  <2>2. c[<<g[x], g[y]>>] <= 0 /\ c[<<g[y], g[z]>>] <= 0
    BY <1>2
  <2>3. c[<<g[x], g[z]>>] <= 0
    BY <2>1, <2>2 DEF IsOrder
  <2>4. QED BY <2>3
<1>3. QED BY <1>1, <1>2 DEF IsOrder

LEMMA LexOrder ==
  ASSUME NEW T, NEW a, NEW b, IsOrder(a, T), IsOrder(b, T),
         NEW c, \A x, y \in T : c[<<x, y>>] = IF a[<<x, y>>] # 0 THEN a[<<x, y>>]
                                              ELSE b[<<x, y>>]
  PROVE  IsOrder(c, T)
<1>1. \A x, y \in T : /\ a[<<x, y>>] \in {-1, 0, 1} /\ a[<<y, x>>] = -a[<<x, y>>]
                      /\ b[<<x, y>>] \in {-1, 0, 1} /\ b[<<y, x>>] = -b[<<x, y>>]
  BY DEF IsOrder
<1>2. ASSUME NEW x \in T, NEW y \in T
      PROVE  c[<<x, y>>] \in {-1, 0, 1} /\ c[<<y, x>>] = -c[<<x, y>>]
  <2>1. \A p, q, r, s \in {-1, 0, 1} :
           r = -p /\ s = -q => (IF r # 0 THEN r ELSE s) = -(IF p # 0 THEN p ELSE q)
    OBVIOUS
  <2>2. QED BY <1>1, <2>1
<1>3. ASSUME NEW x \in T, NEW y \in T, NEW z \in T, c[<<x, y>>] <= 0, c[<<y, z>>] <= 0
      PROVE  c[<<x, z>>] <= 0
  <2>1. /\ a[<<x, y>>] <= 0 /\ (a[<<x, y>>] = 0 => b[<<x, y>>] <= 0)
        /\ a[<<y, z>>] <= 0 /\ (a[<<y, z>>] = 0 => b[<<y, z>>] <= 0)
    BY <1>1, <1>3
  <2>2. a[<<x, z>>] <= 0
    BY <2>1 DEF IsOrder
  <2>3. CASE a[<<x, y>>] = 0 /\ a[<<y, z>>] = 0
    <3>1. b[<<x, z>>] <= 0
      BY <2>1, <2>3 DEF IsOrder
    <3>2. QED BY <2>2, <3>1
  <2>4. CASE a[<<x, y>>] # 0 \/ a[<<y, z>>] # 0
    <3>1. a[<<x, y>>] < 0 \/ a[<<y, z>>] < 0
      <4>1. a[<<x, y>>] \in {-1, 0, 1} /\ a[<<y, z>>] \in {-1, 0, 1}
        BY <1>1
      <4>2. \A i \in {-1, 0, 1} : i <= 0 /\ i # 0 => i < 0
        OBVIOUS
      <4>3. QED BY <2>1, <2>4, <4>1, <4>2
    <3>2. a[<<x, z>>] < 0
      BY <2>1, <3>1, OrderFacts
    <3>3. QED BY <2>2, <3>2
  <2>5. QED BY <2>3, <2>4
<1>4. QED BY <1>2, <1>3 DEF IsOrder

\* Sequences, by the first place where they differ; the shorter one is less if
\* there is none.
LEMMA SeqOrder ==
  ASSUME NEW T, NEW c, IsOrder(c, T),
         NEW e, \A x, y \in Seq(T) :
           e[<<x, y>>] = FirstVerdict([i \in Common(x, y) |-> c[<<x[i], y[i]>>]],
                                      Sign(Len(x) - Len(y)))
  PROVE  IsOrder(e, Seq(T))
<1> DEFINE Has(i, x) == i + 1 \in 1..Len(x)
           R == [i \in Nat |-> [p \in Seq(T) \X Seq(T) |->
                   IF Has(i, p[1]) /\ Has(i, p[2]) THEN c[<<p[1][i + 1], p[2][i + 1]>>]
                   ELSE IF Has(i, p[1]) THEN 1 ELSE IF Has(i, p[2]) THEN -1 ELSE 0]]
<1>1. \A i \in Nat : \A x, y \in Seq(T) :
         R[i][<<x, y>>] =
           IF Has(i, x) /\ Has(i, y) THEN c[<<x[i + 1], y[i + 1]>>]
           ELSE IF Has(i, x) THEN 1 ELSE IF Has(i, y) THEN -1 ELSE 0
  OBVIOUS
<1>2. \A i \in Nat : \A x \in Seq(T) : Has(i, x) => x[i + 1] \in T
  OBVIOUS
<1>3. \A i \in Nat : \A x \in Seq(T) : Has(i, x) <=> i < Len(x)
  OBVIOUS
<1> HIDE DEF R, Has
<1>4. ASSUME NEW i \in Nat PROVE IsOrder(R[i], Seq(T))
  <2>1. ASSUME NEW x \in Seq(T), NEW y \in Seq(T)
        PROVE  R[i][<<x, y>>] \in {-1, 0, 1} /\ R[i][<<y, x>>] = -R[i][<<x, y>>]
    <3>1. CASE Has(i, x) /\ Has(i, y)
      <4>1. R[i][<<x, y>>] = c[<<x[i + 1], y[i + 1]>>] /\ R[i][<<y, x>>] = c[<<y[i + 1], x[i + 1]>>]
        BY <1>1, <3>1
      <4>2. x[i + 1] \in T /\ y[i + 1] \in T
        BY <1>2, <3>1
      <4>3. QED BY <4>1, <4>2 DEF IsOrder
    <3>2. CASE Has(i, x) /\ ~Has(i, y)
      <4>1. R[i][<<x, y>>] = 1 /\ R[i][<<y, x>>] = -1
        BY <1>1, <3>2
      <4>2. QED BY <4>1
    <3>3. CASE ~Has(i, x) /\ Has(i, y)
      <4>1. R[i][<<x, y>>] = -1 /\ R[i][<<y, x>>] = 1
        BY <1>1, <3>3
      <4>2. QED BY <4>1, OneIsOpposite
    <3>4. CASE ~Has(i, x) /\ ~Has(i, y)
      <4>1. R[i][<<x, y>>] = 0 /\ R[i][<<y, x>>] = 0
        BY <1>1, <3>4
      <4>2. QED BY <4>1, ZeroIsOpposite
    <3>5. QED BY <3>1, <3>2, <3>3, <3>4
  <2>2. ASSUME NEW x \in Seq(T), NEW y \in Seq(T), NEW z \in Seq(T),
               R[i][<<x, y>>] <= 0, R[i][<<y, z>>] <= 0
        PROVE  R[i][<<x, z>>] <= 0
    <3>1. CASE Has(i, x)
      <4>1. Has(i, y)
        <5> SUFFICES ASSUME ~Has(i, y) PROVE FALSE
          OBVIOUS
        <5>1. R[i][<<x, y>>] = 1
          BY <1>1, <3>1
        <5>2. QED BY <2>2, <5>1
      <4>2. Has(i, z)
        <5> SUFFICES ASSUME ~Has(i, z) PROVE FALSE
          OBVIOUS
        <5>1. R[i][<<y, z>>] = 1
          BY <1>1, <4>1
        <5>2. QED BY <2>2, <5>1
      <4>3. /\ R[i][<<x, y>>] = c[<<x[i + 1], y[i + 1]>>]
            /\ R[i][<<y, z>>] = c[<<y[i + 1], z[i + 1]>>]
            /\ R[i][<<x, z>>] = c[<<x[i + 1], z[i + 1]>>]
            /\ x[i + 1] \in T /\ y[i + 1] \in T /\ z[i + 1] \in T
        BY <1>1, <1>2, <3>1, <4>1, <4>2
      <4>4. QED BY <2>2, <4>3 DEF IsOrder
    <3>2. CASE ~Has(i, x)
      <4>1. R[i][<<x, z>>] = -1 \/ R[i][<<x, z>>] = 0
        BY <1>1, <3>2
      <4>2. QED BY <4>1
    <3>3. QED BY <3>1, <3>2
  <2>3. QED BY <2>1, <2>2 DEF IsOrder
<1>5. ASSUME NEW x \in Seq(T), NEW y \in Seq(T) PROVE Decided(R, x, y, e[<<x, y>>])
  <2> DEFINE f == [i \in Common(x, y) |-> c[<<x[i], y[i]>>]]
             last == Sign(Len(x) - Len(y))
  <2>1. e[<<x, y>>] = FirstVerdict(f, last)
    OBVIOUS
  <2>2. /\ DOMAIN f = Common(x, y) /\ Common(x, y) \subseteq Nat
        /\ \A i : i \in Common(x, y) <=> i \in 1..Len(x) /\ i \in 1..Len(y)
        /\ Len(x) \in Nat /\ Len(y) \in Nat
    BY CommonIs
  <2>3. \A i \in Nat : i < Len(x) /\ i < Len(y) =>
           /\ i + 1 \in Common(x, y) /\ Has(i, x) /\ Has(i, y)
           /\ R[i][<<x, y>>] = f[i + 1]
    <3> SUFFICES ASSUME NEW i \in Nat, i < Len(x), i < Len(y)
                 PROVE  /\ i + 1 \in Common(x, y) /\ Has(i, x) /\ Has(i, y)
                        /\ R[i][<<x, y>>] = f[i + 1]
      OBVIOUS
    <3>1. i + 1 \in Common(x, y) /\ Has(i, x) /\ Has(i, y)
      BY <1>3, <2>2
    <3>2. QED BY <1>1, <3>1
  <2> HIDE DEF f, last
  <2>4. CASE \E j \in DOMAIN f : /\ f[j] # 0 /\ FirstVerdict(f, last) = f[j]
                                 /\ \A i \in DOMAIN f : i < j => f[i] = 0
    <3>1. PICK j \in Common(x, y) : /\ f[j] # 0 /\ FirstVerdict(f, last) = f[j]
                                    /\ \A i \in Common(x, y) : i < j => f[i] = 0
      BY <2>2, <2>4
    <3>2. /\ j - 1 \in Nat /\ j - 1 < Len(x) /\ j - 1 < Len(y) /\ j - 1 + 1 = j
          /\ j \in Nat
      BY <2>2
    <3>3. R[j - 1][<<x, y>>] = f[j]
      BY <2>3, <3>2
    <3>4. \A i \in Nat : i < j - 1 => R[i][<<x, y>>] = 0
      <4> SUFFICES ASSUME NEW i \in Nat, i < j - 1 PROVE R[i][<<x, y>>] = 0
        OBVIOUS
      <4>1. i < Len(x) /\ i < Len(y) /\ i + 1 < j
        BY <2>2, <3>2
      <4>2. QED BY <2>3, <3>1, <4>1
    <3>5. QED BY <2>1, <3>1, <3>2, <3>3, <3>4 DEF Decided, Tied
  <2>5. CASE /\ \A i \in DOMAIN f : f[i] = 0
             /\ FirstVerdict(f, last) = last
    <3>1. \A i \in Nat : i < Len(x) /\ i < Len(y) => R[i][<<x, y>>] = 0
      BY <2>2, <2>3, <2>5
    <3>2. CASE Len(x) = Len(y)
      <4>1. \A i \in Nat : R[i][<<x, y>>] = 0
        <5> TAKE i \in Nat
        <5>1. CASE i < Len(x)
          BY <3>1, <3>2, <5>1
        <5>2. CASE ~(i < Len(x))
          <6>1. ~Has(i, x) /\ ~Has(i, y)
            BY <1>3, <3>2, <5>2
          <6>2. QED BY <1>1, <6>1
        <5>3. QED BY <5>1, <5>2
      <4>2. last = 0
        BY <2>2, <3>2, SignOf DEF last
      <4>3. QED BY <2>1, <2>5, <4>1, <4>2 DEF Decided
    <3>3. CASE Len(x) < Len(y)
      <4>1. last = -1
        BY <2>2, <3>3, SignOf DEF last
      <4>2. Len(x) \in Nat /\ R[Len(x)][<<x, y>>] = -1
        <5>1. ~(Len(x) < Len(x)) /\ Len(x) \in Nat
          BY <2>2
        <5>2. Has(Len(x), y) /\ ~Has(Len(x), x)
          BY <1>3, <3>3, <5>1
        <5>3. QED BY <1>1, <5>1, <5>2
      <4>3. \A i \in Nat : i < Len(x) => R[i][<<x, y>>] = 0
        <5>1. \A i \in Nat : i < Len(x) => i < Len(y)
          BY <2>2, <3>3
        <5>2. QED BY <3>1, <5>1
      <4>4. Tied(R, Len(x), x, y)
        BY <4>3 DEF Tied
      <4>5. e[<<x, y>>] = -1 /\ e[<<x, y>>] # 0
        BY <2>1, <2>5, <4>1
      <4>6. QED BY <4>2, <4>4, <4>5 DEF Decided
    <3>4. CASE Len(y) < Len(x)
      <4>1. last = 1
        BY <2>2, <3>4, SignOf DEF last
      <4>2. Len(y) \in Nat /\ R[Len(y)][<<x, y>>] = 1
        <5>1. ~(Len(y) < Len(y)) /\ Len(y) \in Nat
          BY <2>2
        <5>2. Has(Len(y), x) /\ ~Has(Len(y), y)
          BY <1>3, <3>4, <5>1
        <5>3. QED BY <1>1, <5>1, <5>2
      <4>3. \A i \in Nat : i < Len(y) => R[i][<<x, y>>] = 0
        <5>1. \A i \in Nat : i < Len(y) => i < Len(x)
          BY <2>2, <3>4
        <5>2. QED BY <3>1, <5>1
      <4>4. Tied(R, Len(y), x, y)
        BY <4>3 DEF Tied
      <4>5. e[<<x, y>>] = 1 /\ e[<<x, y>>] # 0
        BY <2>1, <2>5, <4>1
      <4>6. QED BY <4>2, <4>4, <4>5 DEF Decided
    <3>5. QED BY <2>2, <3>2, <3>3, <3>4
  <2>6. QED BY <2>2, <2>4, <2>5, FirstVerdictIs
<1>6. QED BY <1>4, <1>5, FirstOrder

-----------------------------------------------------------------------------
(* Tokens, versions and the parts of short versions are ordered.           *)

Part == Seq(Token) \ {<<>>}

TokenOrder == [p \in Token \X Token |-> TokenCmp(p[1], p[2])]
StrVersOrder == [p \in Seq(Token) \X Seq(Token) |-> StrVersCmp(p[1], p[2])]
PartOrder == [p \in Part \X Part |-> PartCmp(p[1], p[2], TRUE)]
PartsOrder ==
  [p \in Seq(Part) \X Seq(Part) |->
     FirstVerdict([i \in Common(p[1], p[2]) |-> PartOrder[<<p[1][i], p[2][i]>>]],
                  Sign(Len(p[1]) - Len(p[2])))]

LEMMA TwoVerdicts ==
  ASSUME NEW a, NEW b
  PROVE  FirstVerdict(<<a, b>>, 0) = IF a # 0 THEN a ELSE b
<1> DEFINE f == <<a, b>>
<1>1. DOMAIN f = 1..2 /\ 1..2 \subseteq Nat /\ f[1] = a /\ f[2] = b
  OBVIOUS
<1>2. \A i \in 1..2 : i = 1 \/ i = 2
  OBVIOUS
<1> HIDE DEF f
<1>3. CASE a = 0 /\ b = 0
  BY <1>1, <1>2, <1>3, FirstVerdictIs
<1>4. CASE a = 0 /\ b # 0
  BY <1>1, <1>2, <1>4, FirstVerdictIs
<1>5. CASE a # 0
  <2>1. PICK j \in 1..2 : /\ f[j] # 0 /\ FirstVerdict(f, 0) = f[j]
                          /\ \A i \in 1..2 : i < j => f[i] = 0
    BY <1>1, <1>5, FirstVerdictIs
  <2>2. j = 1
    BY <1>1, <1>5, <2>1
  <2>3. QED BY <1>1, <1>5, <2>1, <2>2 DEF f
<1>6. QED BY <1>3, <1>4, <1>5 DEF f

LEMMA ThreeVerdicts ==
  ASSUME NEW a, NEW b, NEW c
  PROVE  FirstVerdict(<<a, b, c>>, 0) = IF a # 0 THEN a ELSE IF b # 0 THEN b ELSE c
<1> DEFINE f == <<a, b, c>>
<1>1. DOMAIN f = 1..3 /\ 1..3 \subseteq Nat /\ f[1] = a /\ f[2] = b /\ f[3] = c
  OBVIOUS
<1>2. \A i \in 1..3 : i = 1 \/ i = 2 \/ i = 3
  OBVIOUS
<1> HIDE DEF f
<1>3. CASE a = 0 /\ b = 0 /\ c = 0
  BY <1>1, <1>2, <1>3, FirstVerdictIs
<1>4. CASE a # 0 \/ b # 0 \/ c # 0
  <2>1. PICK j \in 1..3 : /\ f[j] # 0 /\ FirstVerdict(f, 0) = f[j]
                          /\ \A i \in 1..3 : i < j => f[i] = 0
    BY <1>1, <1>4, FirstVerdictIs
  <2>2. 1 \in 1..3 /\ 2 \in 1..3 /\ 1 < 2 /\ 1 < 3 /\ 2 < 3
    OBVIOUS
  <2>3. QED BY <1>1, <1>2, <1>4, <2>1, <2>2 DEF f
<1>5. QED BY <1>3, <1>4 DEF f

LEMMA RanksAre ==
  ASSUME NEW s, s \in Seq(STRING)
  PROVE  \A t \in Range(s) : /\ (CHOOSE i \in DOMAIN s : s[i] = t) \in Nat
                             /\ s[CHOOSE i \in DOMAIN s : s[i] = t] = t
<1> TAKE t \in Range(s)
<1>1. \E i \in DOMAIN s : s[i] = t
  BY DEF Range
<1>2. DOMAIN s \subseteq Nat
  OBVIOUS
<1>3. QED BY <1>1, <1>2

LEMMA TokenIsOrder == IsOrder(TokenOrder, Token)
<1> DEFINE num == [t \in Token |-> t.num]
           text == [t \in Token |-> TextRank(t.text)]
           sep == [t \in Token |-> SepRank[t.sep]]
           N == [p \in Token \X Token |-> RunOrder[<<num[p[1]], num[p[2]]>>]]
           X == [p \in Token \X Token |-> Sign(text[p[1]] - text[p[2]])]
           P == [p \in Token \X Token |-> Sign(sep[p[1]] - sep[p[2]])]
           XP == [p \in Token \X Token |-> IF X[p] # 0 THEN X[p] ELSE P[p]]
<1>1. IsOrder(N, Token)
  <2>1. \A t \in Token : num[t] \in Digits
    BY DEF Token
  <2>2. \A x, y \in Token : N[<<x, y>>] = RunOrder[<<num[x], num[y]>>]
    OBVIOUS
  <2> HIDE DEF N, num
  <2>3. QED BY <2>1, <2>2, RunIsOrder, MapOrder
<1>2. IsOrder(X, Token)
  <2>1. \A t \in Token : text[t] \in Int
    <3>1. \A t \in Range(Texts) : TextRank(t) \in Nat
      BY ValuesAssumption, RanksAre DEF TextRank
    <3>2. \A t \in Token : t.text \in Range(Texts) /\ text[t] = TextRank(t.text)
      BY DEF Token
    <3> HIDE DEF text
    <3>3. QED BY <3>1, <3>2
  <2>2. \A x, y \in Token : X[<<x, y>>] = Sign(text[x] - text[y])
    OBVIOUS
  <2> HIDE DEF X, text
  <2>3. QED BY <2>1, <2>2, KeyOrder
<1>3. IsOrder(P, Token)
  <2>1. \A t \in Token : sep[t] \in Int
    <3>1. SepRank \in [{"", "-", ".", "_"} -> 0..3]
      BY DEF SepRank
    <3>2. \A t \in Token : t.sep \in {"", "-", ".", "_"} /\ sep[t] = SepRank[t.sep]
      BY DEF Token
    <3>3. \A t \in {"", "-", ".", "_"} : SepRank[t] \in Int
      <4>1. \A S : \A r \in [S -> 0..3] : \A t \in S : r[t] \in Int
        OBVIOUS
      <4> HIDE DEF sep, P
      <4>2. QED BY <3>1, <4>1
    <3> HIDE DEF sep
    <3>4. QED BY <3>2, <3>3
  <2>2. \A x, y \in Token : P[<<x, y>>] = Sign(sep[x] - sep[y])
    OBVIOUS
  <2> HIDE DEF P, sep
  <2>3. QED BY <2>1, <2>2, KeyOrder
<1>4. IsOrder(XP, Token)
  <2>1. \A x, y \in Token : XP[<<x, y>>] = IF X[<<x, y>>] # 0 THEN X[<<x, y>>] ELSE P[<<x, y>>]
    OBVIOUS
  <2> HIDE DEF XP, X, P
  <2>2. QED BY <1>2, <1>3, <2>1, LexOrder
<1>5. \A x, y \in Token : TokenOrder[<<x, y>>] = IF N[<<x, y>>] # 0 THEN N[<<x, y>>]
                                                 ELSE XP[<<x, y>>]
  <2> TAKE x, y \in Token
  <2>1. TokenOrder[<<x, y>>] =
          FirstVerdict(<<RunCmp(x.num, y.num),
                         Sign(TextRank(x.text) - TextRank(y.text)),
                         Sign(SepRank[x.sep] - SepRank[y.sep])>>, 0)
    BY DEF TokenOrder, TokenCmp
  <2>2. N[<<x, y>>] = RunCmp(x.num, y.num)
    <3>1. N[<<x, y>>] = RunOrder[<<x.num, y.num>>]
      OBVIOUS
    <3>2. x.num \in Digits /\ y.num \in Digits
      BY DEF Token
    <3>3. QED BY <3>1, <3>2 DEF RunOrder
  <2>3. X[<<x, y>>] = Sign(TextRank(x.text) - TextRank(y.text))
    OBVIOUS
  <2>4. P[<<x, y>>] = Sign(SepRank[x.sep] - SepRank[y.sep])
    OBVIOUS
  <2>5. XP[<<x, y>>] = IF X[<<x, y>>] # 0 THEN X[<<x, y>>] ELSE P[<<x, y>>]
    OBVIOUS
  <2> HIDE DEF N, X, P, XP
  <2>6. QED BY <2>1, <2>2, <2>3, <2>4, <2>5, ThreeVerdicts
<1> HIDE DEF N, XP
<1>6. QED BY <1>1, <1>4, <1>5, LexOrder

LEMMA StrVersIsOrder == IsOrder(StrVersOrder, Seq(Token))
<1>1. ASSUME NEW x \in Seq(Token), NEW y \in Seq(Token)
      PROVE  StrVersOrder[<<x, y>>] =
               FirstVerdict([i \in Common(x, y) |-> TokenOrder[<<x[i], y[i]>>]],
                            Sign(Len(x) - Len(y)))
  <2>1. \A i \in Common(x, y) : x[i] \in Token /\ y[i] \in Token
    BY CommonIs
  <2>2. \A i \in Common(x, y) : TokenOrder[<<x[i], y[i]>>] = TokenCmp(x[i], y[i])
    BY <2>1 DEF TokenOrder
  <2>3. [i \in Common(x, y) |-> TokenOrder[<<x[i], y[i]>>]]
          = [i \in Common(x, y) |-> TokenCmp(x[i], y[i])]
    BY <2>2
  <2>4. StrVersOrder[<<x, y>>] = StrVersCmp(x, y)
    BY DEF StrVersOrder
  <2>5. QED BY <2>3, <2>4 DEF StrVersCmp
<1>2. QED BY <1>1, TokenIsOrder, SeqOrder

LEMMA PartBegins ==
  ASSUME NEW p \in Part
  PROVE  p \in Seq(Token) /\ p[1] \in Token /\ p[1].num \in Digits
<1>1. p \in Seq(Token) /\ p # <<>>
  BY DEF Part
<1>2. p[1] \in Token
  BY <1>1
<1>3. QED BY <1>1, <1>2 DEF Token

LEMMA PartIsOrder == IsOrder(PartOrder, Part)
<1> DEFINE value == [p \in Part |-> Value(p[1].num)]
           V == [p \in Part \X Part |-> Sign(value[p[1]] - value[p[2]])]
           same == [p \in Part |-> p]
           S == [p \in Part \X Part |-> StrVersOrder[<<same[p[1]], same[p[2]]>>]]
<1>1. \A p \in Part : p \in Seq(Token) /\ p[1].num \in Digits
  BY PartBegins
<1>2. IsOrder(V, Part)
  <2>1. \A p \in Part : value[p] \in Int
    <3>1. \A p \in Part : Value(p[1].num) \in Nat
      BY <1>1, ValueNat
    <3>2. QED BY <3>1
  <2>2. \A x, y \in Part : V[<<x, y>>] = Sign(value[x] - value[y])
    OBVIOUS
  <2> HIDE DEF V, value
  <2>3. QED BY <2>1, <2>2, KeyOrder
<1>3. IsOrder(S, Part)
  <2>1. \A p \in Part : same[p] \in Seq(Token)
    BY <1>1
  <2>2. \A x, y \in Part : S[<<x, y>>] = StrVersOrder[<<same[x], same[y]>>]
    OBVIOUS
  <2> HIDE DEF S, same
  <2>3. QED BY <2>1, <2>2, StrVersIsOrder, MapOrder
<1>4. ASSUME NEW x \in Part, NEW y \in Part
      PROVE  PartOrder[<<x, y>>] = IF V[<<x, y>>] # 0 THEN V[<<x, y>>] ELSE S[<<x, y>>]
  <2>1. PartOrder[<<x, y>>] = PartCmp(x, y, TRUE)
    BY DEF PartOrder
  <2>2. V[<<x, y>>] = CheckedVersionCmp(x[1].num, y[1].num)
    <3>1. V[<<x, y>>] = Sign(Value(x[1].num) - Value(y[1].num))
      OBVIOUS
    <3>2. QED BY <1>1, <3>1, CheckedVersionCmpIs
  <2>3. S[<<x, y>>] = StrVersCmp(x, y)
    <3>1. S[<<x, y>>] = StrVersOrder[<<x, y>>]
      OBVIOUS
    <3>2. QED BY <1>1, <3>1 DEF StrVersOrder
  <2>4. x = y => S[<<x, y>>] = 0 /\ V[<<x, y>>] = 0
    <3> HIDE DEF S, V
    <3>1. QED BY <1>2, <1>3, OrderFacts
  <2> HIDE DEF S, V
  <2>5. QED BY <2>1, <2>2, <2>3, <2>4 DEF PartCmp
<1> HIDE DEF V, S
<1>5. QED BY <1>2, <1>3, <1>4, LexOrder

LEMMA PartsIsOrder == IsOrder(PartsOrder, Seq(Part))
<1>1. \A x, y \in Seq(Part) :
        PartsOrder[<<x, y>>] =
          FirstVerdict([i \in Common(x, y) |-> PartOrder[<<x[i], y[i]>>]],
                       Sign(Len(x) - Len(y)))
  BY DEF PartsOrder
<1>2. QED BY <1>1, PartIsOrder, SeqOrder

\* With as many parts, PartsCmp is that order; it is antisymmetric anyway.
LEMMA PartsCmpIs ==
  ASSUME NEW x \in Seq(Part), NEW y \in Seq(Part)
  PROVE  /\ Len(x) = Len(y) => PartsCmp(x, y) = PartsOrder[<<x, y>>]
         /\ PartsCmp(x, y) \in Int /\ PartsCmp(y, x) = -PartsCmp(x, y)
<1>1. /\ Common(x, y) \subseteq Nat /\ Common(y, x) = Common(x, y)
      /\ \A i \in Common(x, y) : x[i] \in Part /\ y[i] \in Part
      /\ Len(x) \in Nat /\ Len(y) \in Nat
  BY CommonIs
<1> DEFINE f == [i \in Common(x, y) |-> PartCmp(x[i], y[i], Len(x) = Len(y))]
           g == [i \in Common(x, y) |-> PartCmp(y[i], x[i], Len(x) = Len(y))]
<1>2. /\ PartsCmp(x, y) = FirstVerdict(f, Sign(Len(x) - Len(y)))
      /\ PartsCmp(y, x) = FirstVerdict(g, Sign(Len(y) - Len(x)))
  <2>1. (Len(y) = Len(x)) = (Len(x) = Len(y))
    OBVIOUS
  <2>2. QED BY <1>1, <2>1 DEF PartsCmp
<1>3. Len(x) = Len(y) => PartsCmp(x, y) = PartsOrder[<<x, y>>]
  <2> SUFFICES ASSUME Len(x) = Len(y) PROVE PartsCmp(x, y) = PartsOrder[<<x, y>>]
    OBVIOUS
  <2>1. \A i \in Common(x, y) : PartCmp(x[i], y[i], Len(x) = Len(y)) = PartOrder[<<x[i], y[i]>>]
    <3>1. (Len(x) = Len(y)) = TRUE
      OBVIOUS
    <3>2. QED BY <1>1, <3>1 DEF PartOrder
  <2>2. f = [i \in Common(x, y) |-> PartOrder[<<x[i], y[i]>>]]
    BY <2>1
  <2>3. QED BY <1>2, <2>2 DEF PartsOrder
<1>4. ASSUME NEW i \in Common(x, y) PROVE f[i] \in Int /\ g[i] = -f[i]
  <2>1. x[i] \in Part /\ y[i] \in Part
    BY <1>1
  <2>2. CASE Len(x) = Len(y)
    <3>1. f[i] = PartOrder[<<x[i], y[i]>>] /\ g[i] = PartOrder[<<y[i], x[i]>>]
      <4>1. (Len(x) = Len(y)) = TRUE
        BY <2>2
      <4>2. QED BY <2>1, <4>1 DEF PartOrder
    <3>2. QED BY <2>1, <3>1, PartIsOrder DEF IsOrder
  <2>3. CASE Len(x) # Len(y)
    <3>1. /\ f[i] = CheckedVersionCmp(x[i][1].num, y[i][1].num)
          /\ g[i] = CheckedVersionCmp(y[i][1].num, x[i][1].num)
      BY <2>3 DEF PartCmp
    <3>2. x[i][1].num \in Digits /\ y[i][1].num \in Digits
      BY <2>1, PartBegins
    <3>3. QED BY <3>1, <3>2, CheckedVersionCmpOpposite
  <2>4. QED BY <2>2, <2>3
<1>5. /\ Sign(Len(x) - Len(y)) \in Int
      /\ Sign(Len(y) - Len(x)) = -Sign(Len(x) - Len(y))
  BY <1>1, SignOf
<1>6. DOMAIN f = Common(x, y) /\ DOMAIN g = Common(x, y)
  OBVIOUS
<1> DEFINE o == Sign(Len(x) - Len(y))
<1>7. o \in Int /\ PartsCmp(x, y) = FirstVerdict(f, o) /\ PartsCmp(y, x) = FirstVerdict(g, -o)
  <2> HIDE DEF f, g
  <2>1. QED BY <1>2, <1>5
<1> HIDE DEF f, g, o
<1>8. FirstVerdict(f, o) \in Int /\ FirstVerdict(g, -o) = -FirstVerdict(f, o)
  BY <1>1, <1>4, <1>6, <1>7, FirstVerdictOpposite
<1>9. QED BY <1>3, <1>7, <1>8

-----------------------------------------------------------------------------
(* slapt_pkg_t_cmp_versions                                                *)

IsComparable(v) ==
  /\ IsVersion(v)
  /\ Cardinality(Dashes(v)) >= 2 =>
       \A i \in Dashes(v) : IsArch(v[i + 1]) => v[i + 1].sep = "-"

LEMMA VersionIs ==
  ASSUME NEW v, IsVersion(v)
  PROVE  /\ v \in Seq(Token) /\ Len(v) \in Nat /\ Len(v) >= 1
         /\ Dashes(v) \subseteq 1..(Len(v) - 1)
<1>1. v \in Seq(Token) /\ v # <<>>
  BY DEF IsVersion, Token, Digits
<1>2. Len(v) \in Nat /\ Len(v) >= 1
  BY <1>1
<1>3. \A i \in Dashes(v) : i \in 1..Len(v) /\ i # Len(v)
  <2> SUFFICES ASSUME NEW i \in Dashes(v) PROVE i \in 1..Len(v) /\ i # Len(v)
    OBVIOUS
  <2>1. i \in DOMAIN v /\ v[i].sep = "-"
    BY DEF Dashes
  <2>2. v[i].sep = "" <=> i = Len(v)
    BY <2>1 DEF IsVersion
  <2>3. "-" # ""
    OBVIOUS
  <2>4. QED BY <1>1, <2>1, <2>2, <2>3
<1>4. QED BY <1>1, <1>2, <1>3

BreakOp(v, ends, c, d, e, parts, i) ==
  IF i - 1 \in ends \cup {0}
  THEN Append(parts, <<IF i \in ends THEN [v[i] EXCEPT !.sep = ""] ELSE v[i]>>)
  ELSE [parts EXCEPT ![Len(parts)] =
          Append(@, IF i \in ends THEN [v[i] EXCEPT !.sep = ""] ELSE v[i])]
BreakFold == INSTANCE FoldProofs WITH Op <- BreakOp

\* The parts are sequences of tokens, and none is empty.
LEMMA BreakDownType ==
  ASSUME NEW v, IsVersion(v)
  PROVE  BreakDown(v) \in Seq(Part)
<1> DEFINE n == Min(Dashes(v) \cup {Len(v)})
           dots == {i \in 1..(n - 1) : v[i].sep = "."}
           ends == {i \in 1..n : i \in dots \/ i = n \/ \A d \in dots : d < i}
           seq == [i \in 1..n |-> i]
           I == [i \in 0..n |-> IF i = 0 THEN {<<>>} ELSE Seq(Part) \ {<<>>}]
           Tok(i) == IF i \in ends THEN [v[i] EXCEPT !.sep = ""] ELSE v[i]
<1>1. BreakDown(v) = BreakFold!Result(v, ends, 0, 0, 0, <<>>, seq)
  BY DEF BreakDown, BreakFold!Result, BreakOp, FoldLeft, MapThenFoldSet,
         BreakFold!FoldLeft, BreakFold!MapThenFoldSet, Max, BreakFold!Max
<1>2. n \in 1..Len(v)
  <2> DEFINE S == Dashes(v) \cup {Len(v)}
  <2>1. S \subseteq 1..Len(v) /\ S \subseteq Nat /\ S # {}
    BY VersionIs
  <2> HIDE DEF S
  <2>2. Min(S) \in 1..Len(v)
    BY <2>1, MinIn
  <2>3. QED BY <2>2 DEF S
<1> HIDE DEF n, ends
<1>3. n \in Nat /\ n >= 1 /\ \A i \in 1..n : v[i] \in Token
  <2>1. v \in Seq(Token) /\ Len(v) \in Nat
    BY VersionIs
  <2>2. n \in Nat /\ n >= 1 /\ 1..n \subseteq 1..Len(v)
    BY <1>2, <2>1
  <2>3. QED BY <2>1, <2>2
<1>4. seq \in Seq(1..n) /\ Len(seq) = n /\ \A i \in 1..n : seq[i] = i
  BY <1>3
<1>5. ASSUME NEW i \in 1..n PROVE Tok(i) \in Token /\ <<Tok(i)>> \in Part
  <2>1. v[i] \in Token /\ [v[i] EXCEPT !.sep = ""] \in Token
    BY <1>3 DEF Token
  <2>2. Tok(i) \in Token
    BY <2>1
  <2> HIDE DEF Tok
  <2>3. QED BY <2>2 DEF Part
<1>6. ASSUME NEW i \in 1..n, NEW p \in I[i - 1]
      PROVE  BreakOp(v, ends, 0, 0, 0, p, seq[i]) \in I[i]
  <2>1. i \in Nat /\ i # 0 /\ i \in 0..n /\ i - 1 \in 0..n /\ seq[i] = i
    BY <1>3, <1>4
  <2>2. p \in Seq(Part) /\ (i - 1 # 0 => p # <<>>)
    <3>1. I[i - 1] = IF i - 1 = 0 THEN {<<>>} ELSE Seq(Part) \ {<<>>}
      BY <2>1
    <3>2. <<>> \in Seq(Part)
      OBVIOUS
    <3> HIDE DEF I
    <3>3. CASE i - 1 = 0
      BY <3>1, <3>2, <3>3
    <3>4. CASE i - 1 # 0
      BY <3>1, <3>4
    <3>5. QED BY <3>3, <3>4
  <2>3. I[i] = Seq(Part) \ {<<>>}
    BY <2>1
  <2>4. CASE i - 1 \in ends \cup {0}
    <3>1. BreakOp(v, ends, 0, 0, 0, p, seq[i]) = Append(p, <<Tok(i)>>)
      BY <2>1, <2>4 DEF BreakOp
    <3> HIDE DEF Tok, I, seq
    <3>2. Append(p, <<Tok(i)>>) \in Seq(Part) \ {<<>>}
      BY <1>5, <2>2
    <3>3. QED BY <2>3, <3>1, <3>2
  <2>5. CASE i - 1 \notin ends \cup {0}
    <3>1. BreakOp(v, ends, 0, 0, 0, p, seq[i]) = [p EXCEPT ![Len(p)] = Append(@, Tok(i))]
      BY <2>1, <2>5 DEF BreakOp
    <3> HIDE DEF Tok, I, seq
    <3>2. p # <<>>
      BY <2>2, <2>5
    <3>3. Len(p) \in Nat /\ Len(p) >= 1 /\ Len(p) \in DOMAIN p /\ p[Len(p)] \in Part
      BY <2>2, <3>2
    <3>4. Append(p[Len(p)], Tok(i)) \in Part
      <4>1. p[Len(p)] \in Seq(Token)
        BY <3>3 DEF Part
      <4>2. \A s \in Seq(Token), t \in Token : /\ Append(s, t) \in Seq(Token)
                                              /\ Append(s, t) # <<>>
        OBVIOUS
      <4>3. Tok(i) \in Token
        BY <1>5
      <4>4. QED BY <4>1, <4>2, <4>3 DEF Part
    <3>5. [p EXCEPT ![Len(p)] = Append(@, Tok(i))] \in Seq(Part) \ {<<>>}
      <4> DEFINE t == Append(p[Len(p)], Tok(i))
                 q == [p EXCEPT ![Len(p)] = t]
      <4>1. q \in [1..Len(p) -> Part]
        <5> HIDE DEF t
        <5>1. p \in [1..Len(p) -> Part]
          BY <2>2
        <5>2. t \in Part
          BY <3>4 DEF t
        <5>3. QED BY <3>3, <5>1, <5>2
      <4>2. q \in Seq(Part) /\ Len(q) = Len(p)
        <5> HIDE DEF q
        <5>1. QED BY <3>3, <4>1
      <4>3. QED BY <3>3, <4>2
    <3>6. QED BY <2>3, <3>1, <3>5
  <2>6. QED BY <2>4, <2>5
<1>7. <<>> \in I[0] /\ I[n] = Seq(Part) \ {<<>>}
  BY <1>3
<1> HIDE DEF I, seq
<1>8. \A i \in 1..Len(seq) : \A p \in I[i - 1] :
         BreakOp(v, ends, 0, 0, 0, p, seq[i]) \in I[i]
  BY <1>4, <1>6
<1>9. BreakFold!Result(v, ends, 0, 0, 0, <<>>, seq) \in I[Len(seq)]
  BY <1>4, <1>7, <1>8, BreakFold!FoldSteps
<1>10. QED BY <1>1, <1>4, <1>7, <1>9

LEMMA DashesAre ==
  ASSUME NEW v, IsVersion(v)
  PROVE  /\ IsFiniteSet(Dashes(v)) /\ Cardinality(Dashes(v)) \in Nat
         /\ Cardinality(Dashes(v)) >= 2 => Dashes(v) # {}
<1>1. Len(v) - 1 \in Int /\ Dashes(v) \subseteq 1..(Len(v) - 1)
  BY VersionIs
<1>2. IsFiniteSet(1..(Len(v) - 1))
  BY <1>1, FS_Interval
<1>3. IsFiniteSet(Dashes(v)) /\ Cardinality(Dashes(v)) \in Nat
  BY <1>1, <1>2, FS_Subset, FS_CardinalityType
<1>4. Dashes(v) = {} => Cardinality(Dashes(v)) = 0
  BY FS_EmptySet
<1>5. QED BY <1>3, <1>4

LEMMA BuildIs ==
  ASSUME NEW v, IsVersion(v), Cardinality(Dashes(v)) >= 2
  PROVE  Build(v)[1].num \in Digits
<1>1. /\ v \in Seq(Token) /\ Len(v) \in Nat /\ Len(v) >= 1
      /\ Dashes(v) \subseteq 1..(Len(v) - 1) /\ Dashes(v) # {}
      /\ Len(v) - 1 \in Nat
  BY VersionIs, DashesAre
<1>2. Max(Dashes(v)) \in 1..(Len(v) - 1)
  <2>1. KeepFold!Max(Dashes(v)) \in Dashes(v)
    BY <1>1, KeepFold!MaxIn
  <2>2. KeepFold!Max(Dashes(v)) = Max(Dashes(v))
    BY DEF Max, KeepFold!Max
  <2>3. QED BY <1>1, <2>1, <2>2
<1> DEFINE m == Max(Dashes(v)) + 1
<1>3. m \in 1..Len(v)
  BY <1>1, <1>2
<1>4. Build(v) = SubSeq(v, m, Len(v))
  BY DEF Build
<1> HIDE DEF m
<1>5. Build(v)[1] = v[m]
  BY <1>1, <1>3, <1>4
<1>6. v[m] \in Token
  BY <1>1, <1>3
<1>7. QED BY <1>5, <1>6 DEF Token

\* Packages of the same build are ordered by whether they are for our
\* architecture; others are not compared by it.
LEMMA ArchCmpIs ==
  ASSUME NEW a, NEW b, IsComparable(a), IsComparable(b),
         Cardinality(Dashes(a)) >= 2, Cardinality(Dashes(b)) >= 2
  PROVE  /\ Build(a) # Build(b) => ArchCmp(a, b) = 0
         /\ Build(a) = Build(b) =>
              /\ HasArch(a) /\ ~HasArch(b) => ArchCmp(a, b) = 1
              /\ ~HasArch(a) /\ HasArch(b) => ArchCmp(a, b) = -1
              /\ (HasArch(a) <=> HasArch(b)) => ArchCmp(a, b) = 0
<1>1. (HasArch(a) <=> HasArchDash(a)) /\ (HasArch(b) <=> HasArchDash(b))
  BY DEF IsComparable, HasArch, HasArchDash
<1> HIDE DEF HasArch, HasArchDash
<1>2. CASE Build(a) # Build(b)
  BY <1>2 DEF ArchCmp
<1>3. CASE Build(a) = Build(b)
  <2>1. HasArch(a) /\ ~HasArch(b) => ArchCmp(a, b) = 1
    BY <1>1, <1>3 DEF ArchCmp
  <2>2. ~HasArch(a) /\ HasArch(b) => ArchCmp(a, b) = -1
    BY <1>1, <1>3 DEF ArchCmp
  <2>3. (HasArch(a) <=> HasArch(b)) => ArchCmp(a, b) = 0
    BY <1>1, <1>3 DEF ArchCmp
  <2>4. QED BY <1>3, <2>1, <2>2, <2>3
<1>4. QED BY <1>2, <1>3

BuildNumber(v) == Value(Build(v)[1].num)

LEMMA BuildCmpIs ==
  ASSUME NEW a, NEW b, IsComparable(a), IsComparable(b),
         Cardinality(Dashes(a)) >= 2, Cardinality(Dashes(b)) >= 2
  PROVE  /\ BuildNumber(a) \in Nat /\ BuildNumber(b) \in Nat
         /\ BuildNumber(a) < BuildNumber(b) => BuildCmp(a, b) = -1
         /\ BuildNumber(b) < BuildNumber(a) => BuildCmp(a, b) = 1
         /\ BuildNumber(a) = BuildNumber(b) => BuildCmp(a, b) = ArchCmp(a, b)
<1> DEFINE c == CheckedVersionCmp(Build(a)[1].num, Build(b)[1].num)
<1>1. Build(a)[1].num \in Digits /\ Build(b)[1].num \in Digits
  BY BuildIs DEF IsComparable
<1>2. c = Sign(BuildNumber(a) - BuildNumber(b))
  BY <1>1, CheckedVersionCmpIs DEF BuildNumber
<1>3. BuildNumber(a) \in Nat /\ BuildNumber(b) \in Nat
  BY <1>1, ValueNat DEF BuildNumber
<1>4. BuildCmp(a, b) = IF c # 0 THEN c ELSE ArchCmp(a, b)
  BY TwoVerdicts DEF BuildCmp
<1> HIDE DEF c
<1>5. /\ BuildNumber(a) < BuildNumber(b) => c = -1
      /\ BuildNumber(b) < BuildNumber(a) => c = 1
      /\ BuildNumber(a) = BuildNumber(b) => c = 0
  BY <1>2, <1>3, SignOf
<1>6. QED BY <1>3, <1>4, <1>5

LEMMA BuildCmpOpposite ==
  ASSUME NEW a, NEW b, IsComparable(a), IsComparable(b),
         Cardinality(Dashes(a)) >= 2, Cardinality(Dashes(b)) >= 2
  PROVE  BuildCmp(a, b) \in {-1, 0, 1} /\ BuildCmp(b, a) = -BuildCmp(a, b)
<1>1. ArchCmp(a, b) \in {-1, 0, 1} /\ ArchCmp(b, a) = -ArchCmp(a, b)
  <2>1. CASE ArchCmp(a, b) = 0 /\ ArchCmp(b, a) = 0
    BY <2>1, ZeroIsOpposite
  <2>2. CASE ArchCmp(a, b) = 1 /\ ArchCmp(b, a) = -1
    BY <2>2
  <2>3. CASE ArchCmp(a, b) = -1 /\ ArchCmp(b, a) = 1
    BY <2>3, OneIsOpposite
  <2>4. QED BY <2>1, <2>2, <2>3, ArchCmpIs
<1>2. BuildNumber(a) \in Nat /\ BuildNumber(b) \in Nat
  BY BuildCmpIs
<1>3. CASE BuildNumber(a) < BuildNumber(b)
  <2>1. BuildCmp(a, b) = -1 /\ BuildCmp(b, a) = 1
    BY <1>3, BuildCmpIs
  <2>2. QED BY <2>1, OneIsOpposite
<1>4. CASE BuildNumber(b) < BuildNumber(a)
  <2>1. BuildCmp(a, b) = 1 /\ BuildCmp(b, a) = -1
    BY <1>4, BuildCmpIs
  <2>2. QED BY <2>1
<1>5. CASE BuildNumber(a) = BuildNumber(b)
  <2>1. BuildCmp(a, b) = ArchCmp(a, b) /\ BuildCmp(b, a) = ArchCmp(b, a)
    BY <1>5, BuildCmpIs
  <2>2. QED BY <1>1, <2>1
<1>6. QED BY <1>2, <1>3, <1>4, <1>5

LEMMA BuildCmpTransitive ==
  ASSUME NEW a, NEW b, NEW c, IsComparable(a), IsComparable(b), IsComparable(c),
         Cardinality(Dashes(a)) >= 2, Cardinality(Dashes(b)) >= 2,
         Cardinality(Dashes(c)) >= 2,
         BuildCmp(a, b) < 0, BuildCmp(b, c) < 0
  PROVE  BuildCmp(a, c) < 0
<1>1. /\ BuildNumber(a) \in Nat /\ BuildNumber(b) \in Nat /\ BuildNumber(c) \in Nat
  BY BuildCmpIs
<1>2. /\ ~(BuildNumber(b) < BuildNumber(a))
      /\ ~(BuildNumber(c) < BuildNumber(b))
  <2>1. BuildCmp(a, b) # 1 /\ BuildCmp(b, c) # 1
    OBVIOUS
  <2>2. QED BY <2>1, BuildCmpIs
<1>3. CASE BuildNumber(a) < BuildNumber(c)
  <2>1. BuildCmp(a, c) = -1
    BY <1>3, BuildCmpIs
  <2>2. QED BY <2>1
<1>4. CASE BuildNumber(a) = BuildNumber(b) /\ BuildNumber(b) = BuildNumber(c)
  <2>1. ArchCmp(a, b) # 0 /\ ArchCmp(a, b) # 1 /\ ArchCmp(b, c) # 0 /\ ArchCmp(b, c) # 1
    <3>1. BuildCmp(a, b) = ArchCmp(a, b) /\ BuildCmp(b, c) = ArchCmp(b, c)
      BY <1>4, BuildCmpIs
    <3>2. QED BY <3>1
  <2>2. ~HasArch(a) /\ HasArch(b)
    BY <2>1, ArchCmpIs
  <2>3. ~HasArch(b)
    BY <2>1, ArchCmpIs
  <2>4. QED BY <2>2, <2>3
<1>5. QED BY <1>1, <1>2, <1>3, <1>4

LEMMA CmpVersionsIs ==
  ASSUME NEW a, NEW b, IsComparable(a), IsComparable(b)
  PROVE  LET c == PartsCmp(BreakDown(a), BreakDown(b))
             standard == Cardinality(Dashes(a)) >= 2 /\ Cardinality(Dashes(b)) >= 2
         IN  /\ a = b => CmpVersions(a, b) = 0
             /\ a # b /\ c # 0 => CmpVersions(a, b) = c
             /\ a # b /\ c = 0 =>
                  /\ standard => CmpVersions(a, b) = BuildCmp(a, b)
                  /\ ~standard /\ Dashes(a) \cup Dashes(b) = {} =>
                       CmpVersions(a, b) = StrVersCmp(a, b)
                  /\ ~standard /\ Dashes(a) \cup Dashes(b) # {} => CmpVersions(a, b) = 0
<1> DEFINE c == PartsCmp(BreakDown(a), BreakDown(b))
           standard == Cardinality(Dashes(a)) >= 2 /\ Cardinality(Dashes(b)) >= 2
           dashless == Dashes(a) \cup Dashes(b) = {}
<1>1. CmpVersions(a, b) = CASE a = b -> 0
        [] a # b /\ c # 0 -> c
        [] a # b /\ c = 0 /\ standard -> BuildCmp(a, b)
        [] a # b /\ c = 0 /\ dashless -> StrVersCmp(a, b)
        [] OTHER -> 0
  BY DEF CmpVersions
<1>2. standard => ~dashless
  BY DashesAre DEF IsComparable
<1> HIDE DEF c, standard, dashless
<1>3. a = b => CmpVersions(a, b) = 0
  BY <1>1
<1>4. a # b /\ c # 0 => CmpVersions(a, b) = c
  BY <1>1
<1>5. a # b /\ c = 0 /\ standard => CmpVersions(a, b) = BuildCmp(a, b)
  BY <1>1, <1>2
<1>6. a # b /\ c = 0 /\ ~standard /\ dashless => CmpVersions(a, b) = StrVersCmp(a, b)
  BY <1>1
<1>7. a # b /\ c = 0 /\ ~standard /\ ~dashless => CmpVersions(a, b) = 0
  BY <1>1
<1>8. QED BY <1>3, <1>4, <1>5, <1>6, <1>7 DEF c, standard, dashless

\* What is newer than another version is not older than it, and a version is
\* neither than itself, however many parts they have.
THEOREM CmpVersionsOpposite ==
  ASSUME NEW a, NEW b, IsComparable(a), IsComparable(b)
  PROVE  CmpVersions(a, b) \in Int /\ CmpVersions(b, a) = -CmpVersions(a, b)
<1> DEFINE c == PartsCmp(BreakDown(a), BreakDown(b))
           d == PartsCmp(BreakDown(b), BreakDown(a))
           standard == Cardinality(Dashes(a)) >= 2 /\ Cardinality(Dashes(b)) >= 2
           dashless == Dashes(a) \cup Dashes(b) = {}
<1>1. c \in Int /\ d = -c
  BY BreakDownType, PartsCmpIs DEF IsComparable
<1>2. dashless <=> Dashes(b) \cup Dashes(a) = {}
  OBVIOUS
<1>3. /\ a = b => CmpVersions(a, b) = 0
      /\ a # b /\ c # 0 => CmpVersions(a, b) = c
      /\ a # b /\ c = 0 =>
                  /\ standard => CmpVersions(a, b) = BuildCmp(a, b)
                  /\ ~standard /\ dashless => CmpVersions(a, b) = StrVersCmp(a, b)
                  /\ ~standard /\ ~dashless => CmpVersions(a, b) = 0
  BY CmpVersionsIs
<1>4. /\ a = b => CmpVersions(b, a) = 0
      /\ a # b /\ d # 0 => CmpVersions(b, a) = d
      /\ a # b /\ d = 0 =>
                  /\ standard => CmpVersions(b, a) = BuildCmp(b, a)
                  /\ ~standard /\ dashless => CmpVersions(b, a) = StrVersCmp(b, a)
                  /\ ~standard /\ ~dashless => CmpVersions(b, a) = 0
  BY <1>2, CmpVersionsIs
<1>5. standard => BuildCmp(a, b) \in Int /\ BuildCmp(b, a) = -BuildCmp(a, b)
  <2>1. standard => BuildCmp(a, b) \in {-1, 0, 1} /\ BuildCmp(b, a) = -BuildCmp(a, b)
    BY BuildCmpOpposite
  <2>2. QED BY <2>1
<1>6. StrVersCmp(a, b) \in Int /\ StrVersCmp(b, a) = -StrVersCmp(a, b)
  <2>1. a \in Seq(Token) /\ b \in Seq(Token)
    BY VersionIs DEF IsComparable
  <2>2. /\ StrVersOrder[<<a, b>>] = StrVersCmp(a, b)
        /\ StrVersOrder[<<b, a>>] = StrVersCmp(b, a)
    BY <2>1 DEF StrVersOrder
  <2>3. QED BY <2>1, <2>2, StrVersIsOrder DEF IsOrder
<1> HIDE DEF c, d, standard, dashless
<1>7. c = 0 <=> d = 0
  BY <1>1
<1>8. CASE CmpVersions(a, b) = 0 /\ CmpVersions(b, a) = 0
  <2>1. CmpVersions(b, a) = -CmpVersions(a, b)
    BY <1>8, ZeroIsOpposite
  <2>2. CmpVersions(a, b) \in Int
    BY <1>8
  <2>3. QED BY <2>1, <2>2
<1>9. CASE CmpVersions(a, b) = c /\ CmpVersions(b, a) = d
  BY <1>1, <1>9
<1>10. CASE standard /\ CmpVersions(a, b) = BuildCmp(a, b) /\ CmpVersions(b, a) = BuildCmp(b, a)
  BY <1>5, <1>10
<1>11. CASE CmpVersions(a, b) = StrVersCmp(a, b) /\ CmpVersions(b, a) = StrVersCmp(b, a)
  BY <1>6, <1>11
<1>12. QED BY <1>3, <1>4, <1>7, <1>8, <1>9, <1>10, <1>11

\* Among versions with as many parts, newer than what is newer is newer.
THEOREM CmpVersionsTransitive ==
  ASSUME NEW a, NEW b, NEW c, IsComparable(a), IsComparable(b), IsComparable(c),
         Parts(a) = Parts(b), Parts(b) = Parts(c),
         CmpVersions(a, b) < 0, CmpVersions(b, c) < 0
  PROVE  CmpVersions(a, c) < 0
<1> DEFINE x == BreakDown(a)
           y == BreakDown(b)
           z == BreakDown(c)
           Standard(v) == Cardinality(Dashes(v)) >= 2
<1>1. x \in Seq(Part) /\ y \in Seq(Part) /\ z \in Seq(Part)
  BY BreakDownType DEF IsComparable
<1>2. Len(x) = Len(y) /\ Len(y) = Len(z)
  BY DEF Parts
<1>3. /\ PartsCmp(x, y) = PartsOrder[<<x, y>>]
      /\ PartsCmp(y, z) = PartsOrder[<<y, z>>]
      /\ PartsCmp(x, z) = PartsOrder[<<x, z>>]
  BY <1>1, <1>2, PartsCmpIs
<1>4. /\ a # b /\ b # c
      /\ PartsCmp(x, y) # 0 => PartsCmp(x, y) < 0
      /\ PartsCmp(y, z) # 0 => PartsCmp(y, z) < 0
  <2>1. CmpVersions(a, b) # 0 /\ CmpVersions(b, c) # 0
    OBVIOUS
  <2>2. QED BY <2>1, CmpVersionsIs
<1>5. CASE PartsCmp(x, y) = 0 /\ PartsCmp(y, z) = 0
  <2>1. PartsCmp(x, z) = 0
    BY <1>1, <1>3, <1>5, PartsIsOrder, OrderFacts
  <2>2. /\ (Standard(a) /\ Standard(b)) \/ Dashes(a) \cup Dashes(b) = {}
        /\ (Standard(b) /\ Standard(c)) \/ Dashes(b) \cup Dashes(c) = {}
    <3>1. CmpVersions(a, b) # 0 /\ CmpVersions(b, c) # 0
      OBVIOUS
    <3>2. QED BY <1>4, <1>5, <3>1, CmpVersionsIs
  <2>3. \A v \in {a, b, c} : Standard(v) => Dashes(v) # {}
    BY DashesAre DEF IsComparable
  <2>4. CASE Standard(a) /\ Standard(b) /\ Standard(c)
    <3>1. CmpVersions(a, b) = BuildCmp(a, b) /\ CmpVersions(b, c) = BuildCmp(b, c)
      BY <1>4, <1>5, <2>4, CmpVersionsIs
    <3>2. BuildCmp(a, c) < 0
      BY <2>4, <3>1, BuildCmpTransitive
    <3>3. a # c
      <4> SUFFICES ASSUME a = c PROVE FALSE
        OBVIOUS
      <4>1. BuildCmp(b, a) = -BuildCmp(a, b) /\ BuildCmp(a, b) \in {-1, 0, 1}
        BY <2>4, BuildCmpOpposite
      <4>2. BuildCmp(a, b) < 0 /\ BuildCmp(b, a) < 0
        BY <3>1
      <4>3. QED BY <4>1, <4>2
    <3>4. CmpVersions(a, c) = BuildCmp(a, c)
      BY <2>1, <2>4, <3>3, CmpVersionsIs
    <3>5. QED BY <3>2, <3>4
  <2>5. CASE Dashes(a) = {} /\ Dashes(b) = {} /\ Dashes(c) = {}
    <3>1. ~Standard(a) /\ ~Standard(b) /\ ~Standard(c)
      BY <2>3, <2>5
    <3>2. /\ Dashes(a) \cup Dashes(b) = {} /\ Dashes(b) \cup Dashes(c) = {}
          /\ Dashes(a) \cup Dashes(c) = {}
      BY <2>5
    <3>3. /\ CmpVersions(a, b) = StrVersCmp(a, b) /\ CmpVersions(b, c) = StrVersCmp(b, c)
          /\ a # c => CmpVersions(a, c) = StrVersCmp(a, c)
      BY <1>4, <1>5, <2>1, <3>1, <3>2, CmpVersionsIs
    <3>4. a \in Seq(Token) /\ b \in Seq(Token) /\ c \in Seq(Token)
      BY VersionIs DEF IsComparable
    <3>5. /\ StrVersOrder[<<a, b>>] = StrVersCmp(a, b)
          /\ StrVersOrder[<<b, c>>] = StrVersCmp(b, c)
          /\ StrVersOrder[<<a, c>>] = StrVersCmp(a, c)
      BY <3>4 DEF StrVersOrder
    <3>6. StrVersCmp(a, c) < 0
      <4>1. StrVersOrder[<<a, b>>] <= 0 /\ StrVersOrder[<<b, c>>] < 0
        <5>1. StrVersOrder[<<a, b>>] \in {-1, 0, 1}
          BY <3>4, StrVersIsOrder DEF IsOrder
        <5>2. QED BY <3>3, <3>5, <5>1
      <4>2. StrVersOrder[<<a, c>>] < 0
        BY <3>4, <4>1, StrVersIsOrder, OrderFacts
      <4>3. QED BY <3>5, <4>2
    <3>7. a # c
      <4> SUFFICES ASSUME a = c PROVE FALSE
        OBVIOUS
      <4>1. StrVersOrder[<<a, a>>] = 0 /\ StrVersOrder[<<a, a>>] < 0
        BY <3>4, <3>5, <3>6, StrVersIsOrder, OrderFacts
      <4>2. QED BY <4>1
    <3>8. QED BY <3>3, <3>6, <3>7
  <2>6. QED BY <2>2, <2>3, <2>4, <2>5
<1>6. CASE PartsCmp(x, y) # 0 \/ PartsCmp(y, z) # 0
  <2>1. PartsCmp(x, z) < 0
    <3>1. PartsOrder[<<x, y>>] \in {-1, 0, 1} /\ PartsOrder[<<y, z>>] \in {-1, 0, 1}
      BY <1>1, PartsIsOrder DEF IsOrder
    <3>2. PartsOrder[<<x, y>>] <= 0 /\ PartsOrder[<<y, z>>] <= 0
      BY <1>3, <1>4, <3>1
    <3>3. PartsOrder[<<x, y>>] < 0 \/ PartsOrder[<<y, z>>] < 0
      BY <1>3, <1>4, <1>6
    <3>4. PartsOrder[<<x, z>>] < 0
      BY <1>1, <3>2, <3>3, PartsIsOrder, OrderFacts
    <3>5. QED BY <1>3, <3>4
  <2>2. a # c
    <3> SUFFICES ASSUME a = c PROVE FALSE
      OBVIOUS
    <3>1. PartsOrder[<<x, x>>] = 0
      BY <1>1, PartsIsOrder, OrderFacts
    <3>2. QED BY <1>3, <2>1, <3>1
  <2>3. PartsCmp(x, z) # 0
    BY <2>1
  <2>4. CmpVersions(a, c) = PartsCmp(x, z)
    BY <2>2, <2>3, CmpVersionsIs
  <2>5. QED BY <2>1, <2>4
<1>7. QED BY <1>5, <1>6

-----------------------------------------------------------------------------
(* The search in a vector.                                                 *)

Halved(f, items, key, low, high) ==
  LET pivot == low + (high - low) \div 2
      c == key[items[pivot + 1]]
  IN  IF low >= high THEN -1
      ELSE IF c = 0 THEN pivot
      ELSE IF c < 0 THEN f[<<pivot + 1, high>>] ELSE f[<<low, pivot>>]

IsFind(f, items, key) ==
  f = [r \in (0..Len(items)) \X (0..Len(items)) |->
         Halved(f, items, key, r[1], r[2])]

KeyAt(items, key, i) == key[items[i + 1]]

HasKeys(items, key) ==
  Len(items) \in Nat /\ \A i \in 1..Len(items) : key[items[i]] \in Int

AtPair(f, i, j) == f[<<i, j>>]

Pivot(low, high) == low + (high - low) \div 2

LEMMA PivotIs ==
  ASSUME NEW low \in Nat, NEW high \in Nat, low < high
  PROVE  Pivot(low, high) \in low..(high - 1)
<1>1. high - low \in Nat /\ high - low >= 1
  OBVIOUS
<1>2. \A d \in Nat : d >= 1 => d \div 2 >= 0 /\ d \div 2 <= d - 1 /\ d \div 2 \in Int
  OBVIOUS
<1>3. (high - low) \div 2 >= 0 /\ (high - low) \div 2 <= high - low - 1
        /\ (high - low) \div 2 \in Int
  BY <1>1, <1>2
<1>4. QED BY <1>3 DEF Pivot

LEMMA HalvedIs ==
  ASSUME NEW items, NEW key, HasKeys(items, key), NEW f,
         NEW low \in Nat, NEW high \in Nat, high <= Len(items)
  PROVE  /\ low >= high => Halved(f, items, key, low, high) = -1
         /\ low < high =>
              /\ KeyAt(items, key, Pivot(low, high)) \in Int
              /\ KeyAt(items, key, Pivot(low, high)) = 0 =>
                   Halved(f, items, key, low, high) = Pivot(low, high)
              /\ KeyAt(items, key, Pivot(low, high)) < 0 =>
                   Halved(f, items, key, low, high) = AtPair(f, Pivot(low, high) + 1, high)
              /\ KeyAt(items, key, Pivot(low, high)) > 0 =>
                   Halved(f, items, key, low, high) = AtPair(f, low, Pivot(low, high))
<1> DEFINE h == Halved(f, items, key, low, high)
           p == Pivot(low, high)
           c == KeyAt(items, key, p)
<1>1. Len(items) \in Nat
  BY DEF HasKeys
<1>2. h = IF low >= high THEN -1 ELSE IF c = 0 THEN p
          ELSE IF c < 0 THEN AtPair(f, p + 1, high) ELSE AtPair(f, low, p)
  BY DEF Halved, Pivot, KeyAt, AtPair
<1> HIDE DEF h, p
<1>3. low < high => p \in low..(high - 1) /\ p \in Nat /\ p + 1 \in 1..Len(items)
  <2> SUFFICES ASSUME low < high
               PROVE  p \in low..(high - 1) /\ p \in Nat /\ p + 1 \in 1..Len(items)
    OBVIOUS
  <2>1. p \in low..(high - 1)
    BY PivotIs DEF p
  <2>2. QED BY <1>1, <2>1
<1>4. low < high => c \in Int
  BY <1>3 DEF HasKeys, KeyAt
<1> HIDE DEF c
<1>5. low >= high => h = -1
  BY <1>2
<1>6. low < high /\ c = 0 => h = p
  BY <1>2
<1>7. low < high /\ c < 0 => h = AtPair(f, p + 1, high)
  BY <1>2, <1>4
<1>8. low < high /\ c > 0 => h = AtPair(f, low, p)
  BY <1>2, <1>4
<1>9. QED BY <1>4, <1>5, <1>6, <1>7, <1>8 DEF h, p, c

LEMMA KeyIsInt ==
  ASSUME NEW items, NEW key, HasKeys(items, key),
         NEW low \in Nat, NEW high \in Nat, high <= Len(items), low < high
  PROVE  KeyAt(items, key, Pivot(low, high)) \in Int
BY HalvedIs

LEMMA HalvedEqual ==
  ASSUME NEW items, NEW key, HasKeys(items, key), NEW f,
         NEW low \in Nat, NEW high \in Nat, high <= Len(items), low < high,
         KeyAt(items, key, Pivot(low, high)) = 0
  PROVE  Halved(f, items, key, low, high) = Pivot(low, high)
BY HalvedIs

LEMMA HalvedLess ==
  ASSUME NEW items, NEW key, HasKeys(items, key), NEW f,
         NEW low \in Nat, NEW high \in Nat, high <= Len(items), low < high,
         KeyAt(items, key, Pivot(low, high)) < 0
  PROVE  Halved(f, items, key, low, high) = AtPair(f, Pivot(low, high) + 1, high)
BY HalvedIs

LEMMA HalvedGreater ==
  ASSUME NEW items, NEW key, HasKeys(items, key), NEW f,
         NEW low \in Nat, NEW high \in Nat, high <= Len(items), low < high,
         KeyAt(items, key, Pivot(low, high)) > 0
  PROVE  Halved(f, items, key, low, high) = AtPair(f, low, Pivot(low, high))
BY HalvedIs

Agree(f, g, n, d) == \A i, j \in 0..n : j - i < d => f[<<i, j>>] = g[<<i, j>>]

\* A search looks only at what halving leads to.
LEMMA HalvedSame ==
  ASSUME NEW items, NEW key, HasKeys(items, key), NEW f, NEW g,
         NEW low \in Nat, NEW high \in Nat, high <= Len(items),
         Agree(f, g, Len(items), high - low)
  PROVE  Halved(f, items, key, low, high) = Halved(g, items, key, low, high)
<1> DEFINE p == Pivot(low, high)
           c == KeyAt(items, key, p)
<1>1. CASE low >= high
  <2>1. Halved(f, items, key, low, high) = -1
    BY <1>1, HalvedIs
  <2>2. Halved(g, items, key, low, high) = -1
    BY <1>1, HalvedIs
  <2>3. QED BY <2>1, <2>2
<1>2. CASE low < high
  <2>0. p \in low..(high - 1) /\ p \in Nat
    <3>1. p \in low..(high - 1)
      BY <1>2, PivotIs
    <3> HIDE DEF p
    <3>2. QED BY <3>1
  <2>1. c \in Int
    BY <1>2, KeyIsInt
  <2>1a. c = 0 => Halved(f, items, key, low, high) = p
    BY <1>2, HalvedEqual
  <2>2. c < 0 => Halved(f, items, key, low, high) = AtPair(f, p + 1, high)
    BY <1>2, HalvedLess
  <2>3. c > 0 => Halved(f, items, key, low, high) = AtPair(f, low, p)
    BY <1>2, HalvedGreater
  <2>4. c = 0 => Halved(g, items, key, low, high) = p
    BY <1>2, HalvedEqual
  <2>5. c < 0 => Halved(g, items, key, low, high) = AtPair(g, p + 1, high)
    BY <1>2, HalvedLess
  <2>6. c > 0 => Halved(g, items, key, low, high) = AtPair(g, low, p)
    BY <1>2, HalvedGreater
  <2> HIDE DEF p
  <2>7. /\ p + 1 \in 0..Len(items) /\ p \in 0..Len(items)
        /\ low \in 0..Len(items) /\ high \in 0..Len(items)
        /\ high - (p + 1) < high - low /\ p - low < high - low
    <3>1. Len(items) \in Nat
      BY DEF HasKeys
    <3>2. QED BY <1>2, <2>0, <3>1
  <2>8. AtPair(f, p + 1, high) = AtPair(g, p + 1, high) /\ AtPair(f, low, p) = AtPair(g, low, p)
    BY <2>7 DEF Agree, AtPair
  <2> HIDE DEF c
  <2>9. QED BY <2>1, <2>1a, <2>2, <2>3, <2>4, <2>5, <2>6, <2>8
<1>3. QED BY <1>1, <1>2

LEMMA FindExists ==
  ASSUME NEW items, NEW key, HasKeys(items, key)
  PROVE  \E f : IsFind(f, items, key)
<1> DEFINE n == Len(items)
           P == (0..n) \X (0..n)
           Upto(f, m) == \A i, j \in 0..n :
                           j - i <= m => f[<<i, j>>] = Halved(f, items, key, i, j)
           Bad == {m \in Nat : ~\E f : Upto(f, m)}
<1>1. n \in Nat
  BY DEF HasKeys
<1> HIDE DEF n
<1>2. Upto([r \in P |-> -1], 0)
  <2> DEFINE f == [r \in P |-> -1]
  <2> SUFFICES ASSUME NEW i \in 0..n, NEW j \in 0..n, j - i <= 0
               PROVE  f[<<i, j>>] = Halved(f, items, key, i, j)
    OBVIOUS
  <2>1. i >= j /\ i \in Nat /\ j \in Nat /\ j <= Len(items)
    BY <1>1 DEF n
  <2>2. f[<<i, j>>] = -1
    OBVIOUS
  <2> HIDE DEF f
  <2>3. Halved(f, items, key, i, j) = -1
    BY <2>1, HalvedIs
  <2>4. QED BY <2>2, <2>3
<1>3. Bad = {}
  <2> SUFFICES ASSUME Bad # {} PROVE FALSE
    OBVIOUS
  <2>1. PICK m \in Bad : \A k \in Bad : m <= k
    <3>1. Bad \subseteq Nat
      OBVIOUS
    <3> HIDE DEF Bad
    <3>2. QED BY <3>1, KeepFold!LeastNat
  <2>2. m \in Nat /\ ~\E f : Upto(f, m)
    OBVIOUS
  <2>3. m # 0
    BY <1>2, <2>2
  <2>4. m - 1 \in Nat /\ ~(m <= m - 1)
    <3> HIDE DEF Bad, Upto
    <3>1. QED BY <2>2, <2>3
  <2>5. m - 1 \notin Bad
    <3> HIDE DEF Bad
    <3>1. QED BY <2>1, <2>4
  <2>6. PICK f : Upto(f, m - 1)
    <3> HIDE DEF Upto
    <3>1. QED BY <2>4, <2>5
  <2> HIDE DEF Bad
  <2> DEFINE g == [r \in P |-> IF r[2] - r[1] <= m - 1 THEN f[r]
                               ELSE Halved(f, items, key, r[1], r[2])]
  <2>7. \A i, j \in 0..n : g[<<i, j>>] = IF j - i <= m - 1 THEN f[<<i, j>>]
                                         ELSE Halved(f, items, key, i, j)
    OBVIOUS
  <2>8. \A i, j \in 0..n : g[<<i, j>>] = Halved(f, items, key, i, j)
    <3> HIDE DEF g
    <3>1. QED BY <2>6, <2>7
  <2>9. ASSUME NEW i \in 0..n, NEW j \in 0..n, j - i <= m
        PROVE  g[<<i, j>>] = Halved(g, items, key, i, j)
    <3> HIDE DEF g
    <3>1. i \in Nat /\ j \in Nat /\ j <= Len(items)
      BY <1>1 DEF n
    <3>2. Agree(f, g, Len(items), j - i)
      <4> SUFFICES ASSUME NEW k \in 0..n, NEW l \in 0..n, l - k < j - i
                   PROVE  f[<<k, l>>] = g[<<k, l>>]
        BY DEF n, Agree
      <4>1. l - k <= m - 1
        BY <1>1, <2>2, <2>9
      <4>2. QED BY <2>7, <4>1
    <3>3. Halved(f, items, key, i, j) = Halved(g, items, key, i, j)
      BY <3>1, <3>2, HalvedSame
    <3>4. QED BY <2>8, <3>3
  <2>10. Upto(g, m)
    <3> HIDE DEF g
    <3>1. QED BY <2>9
  <2>11. QED BY <2>2, <2>10
<1>4. PICK f : Upto(f, n)
  <2> HIDE DEF Upto
  <2>1. QED BY <1>1, <1>3
<1> HIDE DEF Upto
<1> DEFINE g == [r \in P |-> f[r]]
<1>5. \A i, j \in 0..n : g[<<i, j>>] = f[<<i, j>>]
  OBVIOUS
<1> HIDE DEF g
<1>6. ASSUME NEW i \in 0..n, NEW j \in 0..n
      PROVE  g[<<i, j>>] = Halved(g, items, key, i, j)
  <2>1. j - i <= n /\ i \in Nat /\ j \in Nat /\ j <= Len(items)
    BY <1>1 DEF n
  <2>2. f[<<i, j>>] = Halved(f, items, key, i, j)
    BY <1>4, <2>1 DEF Upto
  <2>3. Agree(f, g, Len(items), j - i)
    BY <1>5 DEF n, Agree
  <2>4. Halved(f, items, key, i, j) = Halved(g, items, key, i, j)
    BY <2>1, <2>3, HalvedSame
  <2>5. QED BY <1>5, <2>2, <2>4
<1>7. \A r \in P : g[r] = Halved(g, items, key, r[1], r[2])
  <2> TAKE r \in P
  <2>1. r[1] \in 0..n /\ r[2] \in 0..n /\ r = <<r[1], r[2]>>
    OBVIOUS
  <2>2. g[<<r[1], r[2]>>] = Halved(g, items, key, r[1], r[2])
    BY <1>6, <2>1
  <2>3. QED BY <2>1, <2>2
<1>8. g = [r \in P |-> g[r]]
  BY DEF g
<1>9. IsFind(g, items, key)
  BY <1>7, <1>8 DEF IsFind, P, n
<1>10. QED BY <1>9

\* Members in the order of their keys.
Ascending(items, key) ==
  \A i, j \in 0..(Len(items) - 1) : i <= j => KeyAt(items, key, i) <= KeyAt(items, key, j)

\* What a search between two places returns.
Searched(f, items, key, low, high) ==
  \/ AtPair(f, low, high) = -1 /\ \A i \in low..(high - 1) : KeyAt(items, key, i) # 0
  \/ /\ AtPair(f, low, high) \in low..(high - 1)
     /\ KeyAt(items, key, AtPair(f, low, high)) = 0

LEMMA FindIs ==
  ASSUME NEW items, NEW key, HasKeys(items, key), Ascending(items, key),
         NEW f, IsFind(f, items, key)
  PROVE  \A i, j \in 0..Len(items) : Searched(f, items, key, i, j)
<1> DEFINE n == Len(items)
           Bad == {m \in Nat : \E i, j \in 0..n : j - i = m /\ ~Searched(f, items, key, i, j)}
<1>1. n \in Nat /\ \A i \in 0..(n - 1) : KeyAt(items, key, i) \in Int
  <2>1. n \in Nat
    BY DEF HasKeys
  <2>2. \A i \in 0..(n - 1) : i + 1 \in 1..n
    BY <2>1
  <2>3. QED BY <2>1, <2>2 DEF HasKeys, KeyAt
<1>2. \A i, j \in 0..n : AtPair(f, i, j) = Halved(f, items, key, i, j)
  BY DEF IsFind, AtPair
<1> HIDE DEF n
<1>3. ASSUME NEW i \in 0..n, NEW j \in 0..n, i >= j PROVE Searched(f, items, key, i, j)
  <2>1. i \in Nat /\ j \in Nat /\ j <= Len(items) /\ i..(j - 1) = {}
    BY <1>1, <1>3 DEF n
  <2>2. AtPair(f, i, j) = -1
    BY <1>2, <1>3, <2>1, HalvedIs
  <2>3. QED BY <2>1, <2>2 DEF Searched
<1>4. Bad = {}
  <2> SUFFICES ASSUME Bad # {} PROVE FALSE
    OBVIOUS
  <2>1. PICK m \in Bad : \A k \in Bad : m <= k
    <3>1. Bad \subseteq Nat
      OBVIOUS
    <3> HIDE DEF Bad
    <3>2. QED BY <3>1, KeepFold!LeastNat
  <2>2. m \in Nat
    OBVIOUS
  <2>3. PICK low \in 0..n, high \in 0..n : high - low = m /\ ~Searched(f, items, key, low, high)
    OBVIOUS
  <2>4. ASSUME NEW i \in 0..n, NEW j \in 0..n, j - i < m PROVE Searched(f, items, key, i, j)
    <3>1. CASE i >= j
      BY <1>3, <3>1
    <3>2. CASE i < j
      <4>1. j - i \in Nat /\ ~(m <= j - i)
        <5> HIDE DEF Bad
        <5>1. QED BY <1>1, <2>2, <2>4, <3>2
      <4>2. j - i \notin Bad
        <5> HIDE DEF Bad
        <5>1. QED BY <2>1, <4>1
      <4>3. QED BY <4>1, <4>2
    <3>3. QED BY <1>1, <3>1, <3>2
  <2> HIDE DEF Bad
  <2>5. low < high
    BY <1>1, <1>3, <2>3
  <2>6. low \in Nat /\ high \in Nat /\ high <= Len(items)
    BY <1>1 DEF n
  <2> DEFINE p == Pivot(low, high)
             c == KeyAt(items, key, p)
  <2>7. p \in low..(high - 1)
    BY <2>5, <2>6, PivotIs
  <2>8. c \in Int
    BY <2>5, <2>6, KeyIsInt
  <2> HIDE DEF p
  <2>9. /\ p \in Nat /\ p \in 0..n /\ p + 1 \in 0..n /\ p \in 0..(n - 1)
        /\ low <= p /\ p < high
    BY <1>1, <2>6, <2>7 DEF n
  <2>10. \A i, j \in 0..(n - 1) : i <= j => KeyAt(items, key, i) <= KeyAt(items, key, j)
    BY DEF Ascending, n
  <2>11. CASE c = 0
    <3>1. AtPair(f, low, high) = p
      BY <1>2, <2>5, <2>6, <2>11, HalvedEqual DEF p
    <3>2. QED BY <2>3, <2>7, <2>11, <3>1 DEF Searched
  <2>12. CASE c < 0
    <3>1. AtPair(f, low, high) = AtPair(f, p + 1, high)
      BY <1>2, <2>5, <2>6, <2>12, HalvedLess DEF p
    <3>2. Searched(f, items, key, p + 1, high)
      <4>1. high - (p + 1) < m
        BY <2>2, <2>3, <2>6, <2>9
      <4>2. QED BY <2>4, <2>9, <4>1
    <3>3. CASE /\ AtPair(f, p + 1, high) = -1
               /\ \A i \in (p + 1)..(high - 1) : KeyAt(items, key, i) # 0
      <4>1. \A i \in low..(high - 1) : KeyAt(items, key, i) # 0
        <5> TAKE i \in low..(high - 1)
        <5>1. i \in 0..(n - 1)
          BY <1>1, <2>6 DEF n
        <5>2. CASE i <= p
          <6>1. KeyAt(items, key, i) <= c
            BY <2>9, <2>10, <5>1, <5>2
          <6>2. KeyAt(items, key, i) \in Int
            BY <1>1, <5>1
          <6>3. QED BY <2>8, <2>12, <6>1, <6>2
        <5>3. CASE ~(i <= p)
          <6>1. i \in (p + 1)..(high - 1)
            BY <2>6, <2>9, <5>1, <5>3
          <6>2. QED BY <3>3, <6>1
        <5>4. QED BY <5>2, <5>3
      <4>2. QED BY <2>3, <3>1, <3>3, <4>1 DEF Searched
    <3>4. CASE /\ AtPair(f, p + 1, high) \in (p + 1)..(high - 1)
               /\ KeyAt(items, key, AtPair(f, p + 1, high)) = 0
      <4>1. (p + 1)..(high - 1) \subseteq low..(high - 1)
        BY <2>6, <2>9
      <4>2. QED BY <2>3, <3>1, <3>4, <4>1 DEF Searched
    <3>5. QED BY <3>2, <3>3, <3>4 DEF Searched
  <2>13. CASE c > 0
    <3>1. AtPair(f, low, high) = AtPair(f, low, p)
      BY <1>2, <2>5, <2>6, <2>13, HalvedGreater DEF p
    <3>2. Searched(f, items, key, low, p)
      <4>1. p - low < m
        BY <2>2, <2>3, <2>6, <2>9
      <4>2. QED BY <2>4, <2>9, <4>1
    <3>3. CASE /\ AtPair(f, low, p) = -1
               /\ \A i \in low..(p - 1) : KeyAt(items, key, i) # 0
      <4>1. \A i \in low..(high - 1) : KeyAt(items, key, i) # 0
        <5> TAKE i \in low..(high - 1)
        <5>1. i \in 0..(n - 1)
          BY <1>1, <2>6 DEF n
        <5>2. CASE p <= i
          <6>1. c <= KeyAt(items, key, i)
            BY <2>9, <2>10, <5>1, <5>2
          <6>2. KeyAt(items, key, i) \in Int
            BY <1>1, <5>1
          <6>3. QED BY <2>8, <2>13, <6>1, <6>2
        <5>3. CASE ~(p <= i)
          <6>1. i \in low..(p - 1)
            BY <2>6, <2>9, <5>1, <5>3
          <6>2. QED BY <3>3, <6>1
        <5>4. QED BY <5>2, <5>3
      <4>2. QED BY <2>3, <3>1, <3>3, <4>1 DEF Searched
    <3>4. CASE /\ AtPair(f, low, p) \in low..(p - 1)
               /\ KeyAt(items, key, AtPair(f, low, p)) = 0
      <4>1. low..(p - 1) \subseteq low..(high - 1)
        BY <2>6, <2>9
      <4>2. QED BY <2>3, <3>1, <3>4, <4>1 DEF Searched
    <3>5. QED BY <3>2, <3>3, <3>4 DEF Searched
  <2>14. QED BY <2>8, <2>11, <2>12, <2>13
<1>5. ASSUME NEW i \in 0..n, NEW j \in 0..n PROVE Searched(f, items, key, i, j)
  <2>1. CASE i >= j
    BY <1>3, <2>1
  <2>2. CASE i < j
    <3>1. j - i \in Nat
      BY <1>1, <2>2
    <3>2. QED BY <1>4, <3>1
  <2>3. QED BY <1>1, <2>1, <2>2
<1>6. QED BY <1>5 DEF n

\* slapt_vector_t_index_of, in a vector that is in the order of its keys.
LEMMA BinarySearchIs ==
  ASSUME NEW v, NEW key, HasKeys(v.items, key), Ascending(v.items, key)
  PROVE  \/ /\ BinarySearch(v, key) = -1
            /\ \A i \in 0..(Len(v.items) - 1) : KeyAt(v.items, key, i) # 0
         \/ /\ BinarySearch(v, key) \in 0..(Len(v.items) - 1)
            /\ KeyAt(v.items, key, BinarySearch(v, key)) = 0
<1> DEFINE f == CHOOSE g : IsFind(g, v.items, key)
           n == Len(v.items)
<1>1. IsFind(f, v.items, key)
  BY FindExists
<1>2. BinarySearch(v, key) = f[<<0, n>>]
  BY DEF BinarySearch, IsFind, Halved
<1> HIDE DEF f
<1>3. n \in Nat
  BY DEF HasKeys
<1>4. Searched(f, v.items, key, 0, n)
  BY <1>1, <1>3, FindIs
<1>5. QED BY <1>2, <1>4 DEF Searched, AtPair

LEMMA MaxBelow ==
  ASSUME NEW n \in Nat, NEW S, S \subseteq 0..n, S # {}
  PROVE  Max(S) \in S /\ \A x \in S : x <= Max(S)
<1> DEFINE T == {n - x : x \in S}
<1>1. T \subseteq Nat /\ T # {}
  <2>1. \A x \in 0..n : n - x \in Nat
    OBVIOUS
  <2>2. QED BY <2>1
<1>2. PICK t \in T : \A k \in T : t <= k
  <2> HIDE DEF T
  <2>1. QED BY <1>1, KeepFold!LeastNat
<1>3. PICK m \in S : t = n - m
  OBVIOUS
<1>4. \A x \in S : x <= m
  <2> TAKE x \in S
  <2>1. t <= n - x
    BY <1>2
  <2>2. QED BY <1>3, <2>1
<1>5. \E y \in S : \A x \in S : y >= x
  BY <1>3, <1>4
<1>6. Max(S) \in S /\ \A x \in S : Max(S) >= x
  BY <1>5 DEF Max
<1>7. QED BY <1>6

\* From the first to the last of the members around one that matches.
AllZero(items, key, from, to) == \A k \in from..to : KeyAt(items, key, k) = 0
FirstMatch(items, key, i) == Min({k \in 0..i : AllZero(items, key, k, i)})
LastMatch(items, key, i) ==
  Max({k \in i..(Len(items) - 1) : AllZero(items, key, i, k)})

LEMMA FirstMatchIs ==
  ASSUME NEW items, NEW key, NEW i \in Nat, KeyAt(items, key, i) = 0
  PROVE  /\ FirstMatch(items, key, i) \in 0..i
         /\ AllZero(items, key, FirstMatch(items, key, i), i)
         /\ \A k \in 0..i : AllZero(items, key, k, i) => FirstMatch(items, key, i) <= k
<1> DEFINE S == {k \in 0..i : AllZero(items, key, k, i)}
<1>1. i..i = {i}
  OBVIOUS
<1>2. i \in S /\ S \subseteq Nat
  BY <1>1 DEF AllZero
<1>3. Min(S) \in S /\ \A x \in S : Min(S) <= x
  <2> HIDE DEF S
  <2>1. QED BY <1>2, MinIn
<1>4. FirstMatch(items, key, i) = Min(S)
  BY DEF FirstMatch
<1>5. QED BY <1>3, <1>4

LEMMA LastMatchIs ==
  ASSUME NEW items, NEW key, Len(items) \in Nat, NEW i \in 0..(Len(items) - 1),
         KeyAt(items, key, i) = 0
  PROVE  /\ LastMatch(items, key, i) \in i..(Len(items) - 1)
         /\ AllZero(items, key, i, LastMatch(items, key, i))
         /\ \A k \in i..(Len(items) - 1) :
               AllZero(items, key, i, k) => k <= LastMatch(items, key, i)
<1> DEFINE S == {k \in i..(Len(items) - 1) : AllZero(items, key, i, k)}
<1>1. i..i = {i}
  OBVIOUS
<1>2. i \in S /\ S \subseteq 0..Len(items)
  BY <1>1 DEF AllZero
<1>3. Max(S) \in S /\ \A x \in S : x <= Max(S)
  <2> HIDE DEF S
  <2>1. QED BY <1>2, MaxBelow
<1>4. LastMatch(items, key, i) = Max(S)
  BY DEF LastMatch
<1>5. QED BY <1>3, <1>4

LEMMA SliceIs ==
  ASSUME NEW T, NEW s \in Seq(T), NEW from \in 0..Len(s), NEW to \in 0..(Len(s) - 1),
         from <= to
  PROVE  /\ SubSeq(s, from + 1, to + 1) \in Seq(Range(s))
         /\ \A x : x \in Range(SubSeq(s, from + 1, to + 1)) <=>
                     \E k \in from..to : x = s[k + 1]
<1> DEFINE sub == SubSeq(s, from + 1, to + 1)
<1>1. Len(s) \in Nat /\ from \in Nat /\ to \in Nat /\ to + 1 \in 1..Len(s)
  OBVIOUS
<1>2. DOMAIN sub = 1..(to - from + 1) /\ \A j \in 1..(to - from + 1) : sub[j] = s[from + j]
  BY <1>1
<1>3. \A j \in 1..(to - from + 1) : from + j \in DOMAIN s /\ from + j - 1 \in from..to
  BY <1>1
<1>4. sub \in Seq(Range(s))
  <2>1. \A j \in 1..(to - from + 1) : sub[j] \in Range(s)
    BY <1>2, <1>3 DEF Range
  <2>2. to - from + 1 \in Nat /\ Len(sub) = to - from + 1 /\ sub \in Seq(T)
    BY <1>1
  <2> HIDE DEF sub
  <2>3. sub = [j \in 1..(to - from + 1) |-> sub[j]]
    BY <1>2, <2>2
  <2>4. sub \in [1..(to - from + 1) -> Range(s)]
    BY <2>1, <2>3
  <2>5. QED BY <2>2, <2>4, FunctionIsSeq
<1>5. ASSUME NEW x, x \in Range(sub) PROVE \E k \in from..to : x = s[k + 1]
  <2> HIDE DEF sub
  <2>1. PICK j \in 1..(to - from + 1) : x = sub[j]
    BY <1>2, <1>5 DEF Range
  <2>2. x = s[from + j] /\ from + j - 1 \in from..to /\ (from + j - 1) + 1 = from + j
    BY <1>1, <1>2, <1>3, <2>1
  <2>3. QED BY <2>2
<1>6. ASSUME NEW x, NEW k \in from..to, x = s[k + 1] PROVE x \in Range(sub)
  <2> HIDE DEF sub
  <2>1. k - from + 1 \in 1..(to - from + 1) /\ from + (k - from + 1) = k + 1
    BY <1>1
  <2>2. sub[k - from + 1] = x
    BY <1>2, <1>6, <2>1
  <2>3. QED BY <1>2, <2>1, <2>2 DEF Range
<1> HIDE DEF sub
<1>7. \A x : x \in Range(sub) <=> \E k \in from..to : x = s[k + 1]
  BY <1>5, <1>6
<1>8. QED BY <1>4, <1>7 DEF sub

\* slapt_vector_t_search in a sorted vector.
LEMMA FoundIs ==
  ASSUME NEW T, NEW v, v.items \in Seq(T), NEW key,
         HasKeys(v.items, key), Ascending(v.items, key)
  PROVE  /\ Found(v, key) \in Seq(Range(v.items))
         /\ Range(Found(v, key)) = {x \in Range(v.items) : key[x] = 0}
<1> DEFINE items == v.items
           n == Len(items)
           i == BinarySearch(v, key)
           start == FirstMatch(items, key, i)
           end == LastMatch(items, key, i)
<1>1. Found(v, key) = IF i < 0 THEN <<>> ELSE SubSeq(items, start + 1, end + 1)
  BY DEF Found, FirstMatch, LastMatch, AllZero, KeyAt
<1>2. n \in Nat /\ items \in Seq(T)
  BY DEF HasKeys
<1>3. ASSUME NEW x \in Range(items)
      PROVE  \E j \in 0..(n - 1) : x = items[j + 1] /\ KeyAt(items, key, j) = key[x]
  <2>1. PICK m \in 1..n : x = items[m]
    BY <1>2 DEF Range
  <2>2. m - 1 \in 0..(n - 1) /\ (m - 1) + 1 = m
    BY <1>2
  <2>3. QED BY <2>1, <2>2 DEF KeyAt
<1>4. \A j \in 0..(n - 1) : items[j + 1] \in Range(items) /\ KeyAt(items, key, j) \in Int
  <2> TAKE j \in 0..(n - 1)
  <2>1. j + 1 \in 1..n
    BY <1>2
  <2>2. QED BY <1>2, <2>1 DEF HasKeys, KeyAt, Range
<1>5. CASE /\ i = -1
           /\ \A j \in 0..(n - 1) : KeyAt(items, key, j) # 0
  <2>1. Found(v, key) = <<>>
    BY <1>1, <1>5
  <2>2. {x \in Range(items) : key[x] = 0} = {}
    BY <1>3, <1>5
  <2>3. QED BY <2>1, <2>2, RangeOfOne
<1>6. CASE i \in 0..(n - 1) /\ KeyAt(items, key, i) = 0
  <2>1. i \in Nat /\ i <= n - 1
    BY <1>2, <1>6
  <2>2. /\ start \in 0..i /\ AllZero(items, key, start, i)
        /\ \A k \in 0..i : AllZero(items, key, k, i) => start <= k
    BY <1>6, <2>1, FirstMatchIs
  <2>3. /\ end \in i..(n - 1) /\ AllZero(items, key, i, end)
        /\ \A k \in i..(n - 1) : AllZero(items, key, i, k) => k <= end
    BY <1>2, <1>6, LastMatchIs
  <2> HIDE DEF start, end, i
  <2>4. Found(v, key) = SubSeq(items, start + 1, end + 1)
    <3>1. ~(i < 0)
      BY <2>1
    <3>2. QED BY <1>1, <3>1, Zenon
  <2>5. start \in 0..n /\ end \in 0..(n - 1) /\ start <= end
    BY <1>2, <2>1, <2>2, <2>3
  <2> HIDE DEF n, items
  <2>6. /\ Found(v, key) \in Seq(Range(items))
        /\ \A x : x \in Range(Found(v, key)) <=> \E k \in start..end : x = items[k + 1]
    <3>1. start \in 0..Len(items) /\ end \in 0..(Len(items) - 1)
      BY <2>5 DEF n
    <3>2. /\ SubSeq(items, start + 1, end + 1) \in Seq(Range(items))
          /\ \A x : x \in Range(SubSeq(items, start + 1, end + 1)) <=>
                      \E k \in start..end : x = items[k + 1]
      BY <1>2, <2>5, <3>1, SliceIs
    <3>3. QED BY <2>4, <3>2
  <2>7. ASSUME NEW k \in start..end
        PROVE  items[k + 1] \in Range(items) /\ key[items[k + 1]] = 0
    <3>1. k \in 0..(n - 1) /\ (k \in start..i \/ k \in i..end)
      BY <1>2, <2>1, <2>5
    <3>2. KeyAt(items, key, k) = 0
      BY <2>2, <2>3, <3>1 DEF AllZero
    <3>3. QED BY <1>4, <3>1, <3>2 DEF KeyAt
  <2>8. ASSUME NEW x \in Range(items), key[x] = 0
        PROVE  \E k \in start..end : x = items[k + 1]
    <3>1. PICK j \in 0..(n - 1) : x = items[j + 1] /\ KeyAt(items, key, j) = 0
      BY <1>3, <2>8
    <3>2. \A k, l \in 0..(n - 1) : k <= l => KeyAt(items, key, k) <= KeyAt(items, key, l)
      BY DEF Ascending, n, items
    <3>3. j \in Nat
      BY <3>1
    <3>4. CASE j <= i
      <4>1. AllZero(items, key, j, i)
        <5> SUFFICES ASSUME NEW k \in j..i PROVE KeyAt(items, key, k) = 0
          BY DEF AllZero
        <5>1. k \in 0..(n - 1) /\ i \in 0..(n - 1) /\ j <= k /\ k <= i
          BY <1>2, <2>1, <3>3
        <5>2. KeyAt(items, key, j) <= KeyAt(items, key, k)
          BY <3>2, <5>1
        <5>3. KeyAt(items, key, k) <= KeyAt(items, key, i)
          BY <3>2, <5>1
        <5>4. KeyAt(items, key, k) \in Int
          BY <1>4, <5>1
        <5>5. QED BY <1>6, <3>1, <5>2, <5>3, <5>4
      <4>2. j \in 0..i
        BY <2>1, <3>3, <3>4
      <4>3. start <= j
        BY <2>2, <4>1, <4>2
      <4>4. j \in start..end
        BY <2>1, <2>2, <2>3, <3>3, <3>4, <4>3
      <4>5. QED BY <3>1, <4>4
    <3>5. CASE ~(j <= i)
      <4>1. AllZero(items, key, i, j)
        <5> SUFFICES ASSUME NEW k \in i..j PROVE KeyAt(items, key, k) = 0
          BY DEF AllZero
        <5>1. k \in 0..(n - 1) /\ i \in 0..(n - 1) /\ i <= k /\ k <= j
          BY <1>2, <2>1, <3>1, <3>3
        <5>2. KeyAt(items, key, i) <= KeyAt(items, key, k)
          BY <3>2, <5>1
        <5>3. KeyAt(items, key, k) <= KeyAt(items, key, j)
          BY <3>2, <5>1
        <5>4. KeyAt(items, key, k) \in Int
          BY <1>4, <5>1
        <5>5. QED BY <1>6, <3>1, <5>2, <5>3, <5>4
      <4>2. j \in i..(n - 1)
        BY <1>2, <2>1, <3>1, <3>3, <3>5
      <4>3. j <= end
        BY <2>3, <4>1, <4>2
      <4>4. j \in start..end
        BY <2>1, <2>2, <2>3, <3>3, <3>5, <4>3
      <4>5. QED BY <3>1, <4>4
    <3>6. QED BY <3>4, <3>5
  <2>9. Range(Found(v, key)) = {x \in Range(items) : key[x] = 0}
    BY <2>6, <2>7, <2>8
  <2>10. QED BY <2>6, <2>9 DEF items
<1>7. QED BY <1>5, <1>6, BinarySearchIs

\* slapt_vector_t_search finds all the members that match, and no others.
LEMMA VectorSearchIs ==
  ASSUME NEW T, NEW v, v.items \in Seq(T), NEW key,
         v.sorted => HasKeys(v.items, key) /\ Ascending(v.items, key)
  PROVE  /\ VectorSearch(v, key) \in Seq(Range(v.items))
         /\ Range(VectorSearch(v, key)) = {x \in Range(v.items) : key[x] = 0}
<1>1. CASE v.sorted
  BY <1>1, FoundIs DEF VectorSearch
<1>2. CASE ~v.sorted
  <2> DEFINE S == {x \in Range(v.items) : key[x] = 0}
  <2>1. VectorSearch(v, key) = Keep(v.items, S)
    BY <1>2 DEF VectorSearch
  <2>2. v.items \in Seq(Range(v.items))
    BY RangeType
  <2>3. Range(v.items) \cap S = S
    OBVIOUS
  <2> HIDE DEF S
  <2>4. Keep(v.items, S) \in Seq(Range(v.items)) /\ Range(Keep(v.items, S)) = S
    <3> DEFINE items == v.items
               R == Range(items)
    <3>1. items \in Seq(R) /\ Range(items) \cap S = S
      BY <2>2, <2>3
    <3> HIDE DEF items, R
    <3>2. Keep(items, S) \in Seq(R) /\ Range(Keep(items, S)) = S
      BY <3>1, KeepRange
    <3>3. QED BY <3>2 DEF items, R
  <2>5. QED BY <2>1, <2>4 DEF S
<1>3. QED BY <1>1, <1>2

-----------------------------------------------------------------------------
(* The lists of packages.                                                  *)

Package == [name : Range(Names), version : Seq(Token), priority : Nat, installed : {FALSE}]

LEMMA OfferedIs ==
  \A p \in UNION Offers :
    p \in Package /\ IsComparable(p.version) /\ p.version \in Versions
BY OffersAssumption, VersionAssumption DEF Package, IsComparable, Versions

LEMMA NameRankIs ==
  ASSUME NEW m \in Range(Names), NEW n \in Range(Names)
  PROVE  /\ NameRank(m) \in Int
         /\ Sign(NameRank(m) - NameRank(n)) \in {-1, 0, 1}
         /\ Sign(NameRank(m) - NameRank(n)) = 0 <=> m = n
<1>1. /\ NameRank(m) \in Int /\ NameRank(n) \in Int
      /\ Names[NameRank(m)] = m /\ Names[NameRank(n)] = n
  BY ValuesAssumption, RanksAre DEF NameRank
<1>2. NameRank(m) = NameRank(n) <=> m = n
  BY <1>1
<1>3. Sign(NameRank(m) - NameRank(n)) = 0 <=> NameRank(m) = NameRank(n)
  BY <1>1, SignOf
<1>4. QED BY <1>1, <1>2, <1>3, SignOf

LEMMA QsortCmpIs ==
  ASSUME NEW p, NEW q, p.name \in Range(Names), q.name \in Range(Names)
  PROVE  /\ QsortCmp(p, q) <= 0 => NameRank(p.name) <= NameRank(q.name)
         /\ QsortCmp(p, q) = 0 => p.name = q.name
<1> DEFINE c == Sign(NameRank(p.name) - NameRank(q.name))
<1>1. QsortCmp(p, q) = IF c # 0 THEN c ELSE StrVersCmp(p.version, q.version)
  BY TwoVerdicts DEF QsortCmp
<1>2. NameRank(p.name) \in Int /\ NameRank(q.name) \in Int /\ (c = 0 <=> p.name = q.name)
        /\ c \in {-1, 0, 1}
  BY NameRankIs
<1>3. NameRank(q.name) < NameRank(p.name) => c = 1
  BY <1>2, SignOf
<1> HIDE DEF c
<1>4. QsortCmp(p, q) = 0 => c = 0
  BY <1>1
<1>5. QsortCmp(p, q) <= 0 => c # 1
  <2>1. ~(1 <= 0) /\ 1 # 0
    OBVIOUS
  <2>2. QED BY <1>1, <2>1
<1>6. QED BY <1>2, <1>3, <1>4, <1>5

\* A list in the order of slapt_pkg_t_qsort_cmp, if it is marked as sorted.
IsList(list) ==
  /\ list.items \in Seq(UNION Offers)
  /\ list.sorted \in BOOLEAN
  /\ list.sorted => \A i, j \in DOMAIN list.items :
                       i < j => QsortCmp(list.items[i], list.items[j]) <= 0

LEMMA AvailableIsList ==
  \A list \in AvailableLists : IsList(list)
<1> TAKE list \in AvailableLists
<1>1. PICK offer \in Offers :
         list \in SortedVectors(offer, [r \in offer \X offer |-> QsortCmp(r[1], r[2])])
  BY DEF AvailableLists
<1> DEFINE cmp == [r \in offer \X offer |-> QsortCmp(r[1], r[2])]
<1>2. \A p, q \in offer : cmp[<<p, q>>] = QsortCmp(p, q)
  OBVIOUS
<1> HIDE DEF cmp
<1>3. PICK s \in SetToSeqs(offer) :
         /\ \A i, j \in DOMAIN s : i < j => cmp[<<s[i], s[j]>>] <= 0
         /\ list = [items |-> s, sorted |-> offer # {}]
  BY <1>1 DEF SortedVectors, cmp
<1>4. s \in [1..Cardinality(offer) -> offer] /\ Cardinality(offer) \in Nat
  BY OffersAssumption, FS_CardinalityType DEF SetToSeqs
<1>5. s \in Seq(offer)
  BY <1>4, FunctionIsSeq
<1>6. \A i \in DOMAIN s : s[i] \in offer
  BY <1>4
<1>7. \A i, j \in DOMAIN s : i < j => QsortCmp(s[i], s[j]) <= 0
  BY <1>2, <1>3, <1>6
<1>8. s \in Seq(UNION Offers)
  <2>1. s \in [1..Cardinality(offer) -> UNION Offers]
    BY <1>4
  <2>2. QED BY <1>4, <2>1, FunctionIsSeq
<1>9. list.items = s /\ list.sorted \in BOOLEAN
  BY <1>3
<1>10. QED BY <1>7, <1>8, <1>9 DEF IsList

LEMMA EmptyIsList == IsList([items |-> <<>>, sorted |-> FALSE])
BY DEF IsList

LEMMA SelectedIsList ==
  ASSUME NEW list, IsList(list), NEW S
  PROVE  /\ IsList(Selected(list, S))
         /\ Range(Selected(list, S).items) = Range(list.items) \cap S
<1>1. /\ Selected(list, S).items = Keep(list.items, S)
      /\ Selected(list, S).sorted = FALSE
  BY DEF Selected
<1>2. list.items \in Seq(UNION Offers)
  BY DEF IsList
<1>3. /\ Keep(list.items, S) \in Seq(UNION Offers)
      /\ Range(Keep(list.items, S)) = Range(list.items) \cap S
  <2> DEFINE items == list.items
             T == UNION Offers
  <2>1. items \in Seq(T)
    BY <1>2
  <2> HIDE DEF items, T
  <2>2. Keep(items, S) \in Seq(T) /\ Range(Keep(items, S)) = Range(items) \cap S
    BY <2>1, KeepRange
  <2>3. QED BY <2>2 DEF items, T
<1>4. QED BY <1>1, <1>3 DEF IsList

\* by_details with a name alone: all packages of that name and no others.
LEMMA ByNameIs ==
  ASSUME NEW list, IsList(list), NEW name \in Range(Names)
  PROVE  /\ ByName(list, name) \in Seq(Range(list.items))
         /\ Range(ByName(list, name)) = {p \in Range(list.items) : p.name = name}
<1> DEFINE items == list.items
           key == [p \in ToSet(items) |-> Sign(NameRank(p.name) - NameRank(name))]
<1>1. ByName(list, name) = VectorSearch(list, key)
  BY DEF ByName
<1>2. items \in Seq(UNION Offers) /\ Len(items) \in Nat /\ DOMAIN items = 1..Len(items)
  BY DEF IsList
<1>3. \A p \in Range(items) :
         /\ p.name \in Range(Names)
         /\ key[p] = Sign(NameRank(p.name) - NameRank(name))
  <2>1. ToSet(items) = Range(items)
    BY DEF ToSet, Range
  <2>2. \A p \in Range(items) : p \in UNION Offers
    BY <1>2, RangeType
  <2>3. QED BY <2>1, <2>2, OfferedIs DEF Package
<1> HIDE DEF key
<1>4. \A p \in Range(items) : key[p] \in {-1, 0, 1} /\ (key[p] = 0 <=> p.name = name)
  BY <1>3, NameRankIs
<1>5. \A i \in 1..Len(items) : items[i] \in Range(items)
  BY <1>2 DEF Range
<1>6. HasKeys(items, key)
  BY <1>2, <1>4, <1>5 DEF HasKeys
<1>7. list.sorted => Ascending(items, key)
  <2> SUFFICES ASSUME list.sorted,
                      NEW i \in 0..(Len(items) - 1), NEW j \in 0..(Len(items) - 1), i <= j
               PROVE  key[items[i + 1]] <= key[items[j + 1]]
    BY DEF Ascending, KeyAt
  <2>1. i + 1 \in 1..Len(items) /\ j + 1 \in 1..Len(items)
          /\ (i + 1 < j + 1 \/ i + 1 = j + 1)
    BY <1>2
  <2> DEFINE p == items[i + 1]
             q == items[j + 1]
             m == NameRank(p.name)
             n == NameRank(q.name)
             r == NameRank(name)
  <2>2. p \in Range(items) /\ q \in Range(items)
    BY <1>5, <2>1
  <2>3. m <= n
    <3>1. m \in Int
      BY <1>3, <2>2, NameRankIs
    <3>2. CASE i + 1 = j + 1
      BY <3>1, <3>2
    <3>3. CASE i + 1 < j + 1
      <4>1. QsortCmp(p, q) <= 0
        BY <1>2, <2>1, <3>3 DEF IsList
      <4>2. QED BY <1>3, <2>2, <4>1, QsortCmpIs
    <3>4. QED BY <2>1, <3>2, <3>3
  <2>4. m \in Int /\ n \in Int /\ r \in Int
    BY <1>3, <2>2, NameRankIs
  <2>5. key[p] = Sign(m - r) /\ key[q] = Sign(n - r)
    BY <1>3, <2>2
  <2> HIDE DEF m, n, r, p, q
  <2>6. Sign(m - r) <= Sign(n - r)
    BY <2>3, <2>4 DEF Sign
  <2>7. QED BY <2>5, <2>6 DEF p, q
<1>8. /\ VectorSearch(list, key) \in Seq(Range(items))
      /\ Range(VectorSearch(list, key)) = {p \in Range(items) : key[p] = 0}
  BY <1>2, <1>6, <1>7, VectorSearchIs
<1>9. QED BY <1>1, <1>4, <1>8

\* by_details with name and version, among the packages that were selected.
LEMMA ByDetailsIs ==
  ASSUME NEW list, IsList(list), ~list.sorted, NEW name \in Range(Names), NEW version
  PROVE  /\ ByDetails(list, name, version) \in Seq(Range(list.items))
         /\ \A p \in Range(ByDetails(list, name, version)) :
               p \in Range(list.items) /\ p.name = name
         /\ \A p \in Range(list.items) :
               p.name = name /\ p.version = version =>
                 p \in Range(ByDetails(list, name, version))
<1> DEFINE items == list.items
           wanted == [name |-> name, version |-> version]
           key == [p \in ToSet(items) |-> QsortCmp(p, wanted)]
<1>1. ByDetails(list, name, version) = VectorSearch(list, key)
  BY DEF ByDetails
<1>2. items \in Seq(UNION Offers)
  BY DEF IsList
<1>3. wanted.name = name /\ wanted.version = version
  OBVIOUS
<1>4. \A p \in Range(items) : /\ p.name \in Range(Names) /\ p.version \in Seq(Token)
                             /\ key[p] = QsortCmp(p, wanted)
  <2>1. ToSet(items) = Range(items)
    BY DEF ToSet, Range
  <2>2. \A p \in Range(items) : p \in UNION Offers
    BY <1>2, RangeType
  <2>3. QED BY <2>1, <2>2, OfferedIs DEF Package
<1> HIDE DEF key, wanted
<1>5. \A p \in Range(items) : key[p] = 0 => p.name = name
  BY <1>3, <1>4, QsortCmpIs
<1>5a. ASSUME NEW p \in Range(items), p.name = name, p.version = version
       PROVE  key[p] = 0
  <2>1. Sign(NameRank(p.name) - NameRank(name)) = 0
    BY <1>5a, NameRankIs
  <2>2. StrVersCmp(p.version, version) = 0
    <3>1. StrVersOrder[<<p.version, p.version>>] = 0
      BY <1>4, StrVersIsOrder, OrderFacts
    <3>2. StrVersOrder[<<p.version, p.version>>] = StrVersCmp(p.version, p.version)
      BY <1>4 DEF StrVersOrder
    <3>3. QED BY <1>5a, <3>1, <3>2
  <2>3. QsortCmp(p, wanted) = 0
    BY <1>3, <2>1, <2>2, TwoVerdicts DEF QsortCmp
  <2>4. QED BY <1>4, <2>3
<1>6. /\ VectorSearch(list, key) \in Seq(Range(items))
      /\ Range(VectorSearch(list, key)) = {p \in Range(items) : key[p] = 0}
  BY <1>2, VectorSearchIs
<1>7. QED BY <1>1, <1>5, <1>5a, <1>6

-----------------------------------------------------------------------------
(* What is newer than a version that is not older.                         *)

LEMMA BuildCmpStaysMet ==
  ASSUME NEW a, NEW b, NEW c, IsComparable(a), IsComparable(b), IsComparable(c),
         Cardinality(Dashes(a)) >= 2, Cardinality(Dashes(b)) >= 2,
         Cardinality(Dashes(c)) >= 2,
         BuildCmp(a, b) <= 0, BuildCmp(b, c) < 0
  PROVE  BuildCmp(a, c) <= 0
<1>1. /\ BuildNumber(a) \in Nat /\ BuildNumber(b) \in Nat /\ BuildNumber(c) \in Nat
  BY BuildCmpIs
<1>2. /\ ~(BuildNumber(b) < BuildNumber(a))
      /\ ~(BuildNumber(c) < BuildNumber(b))
  <2>1. BuildCmp(a, b) # 1 /\ BuildCmp(b, c) # 1
    OBVIOUS
  <2>2. QED BY <2>1, BuildCmpIs
<1>3. CASE BuildNumber(a) < BuildNumber(c)
  <2>1. BuildCmp(a, c) = -1
    BY <1>3, BuildCmpIs
  <2>2. QED BY <2>1
<1>4. CASE BuildNumber(a) = BuildNumber(b) /\ BuildNumber(b) = BuildNumber(c)
  <2>1. /\ BuildCmp(a, b) = ArchCmp(a, b) /\ BuildCmp(b, c) = ArchCmp(b, c)
        /\ BuildCmp(a, c) = ArchCmp(a, c)
    BY <1>4, BuildCmpIs
  <2>2. ArchCmp(a, b) # 1 /\ ArchCmp(b, c) # 0 /\ ArchCmp(b, c) # 1
    BY <2>1
  <2>3. Build(b) = Build(c) /\ ~HasArch(b) /\ HasArch(c)
    BY <2>2, ArchCmpIs
  <2>4. CASE Build(a) # Build(c)
    <3>1. ArchCmp(a, c) = 0
      BY <2>4, ArchCmpIs
    <3>2. QED BY <2>1, <3>1
  <2>5. CASE Build(a) = Build(c)
    <3>1. ~HasArch(a)
      BY <2>2, <2>3, <2>5, ArchCmpIs
    <3>2. ArchCmp(a, c) = -1
      BY <2>3, <2>5, <3>1, ArchCmpIs
    <3>3. QED BY <2>1, <3>2
  <2>6. QED BY <2>4, <2>5
<1>5. QED BY <1>1, <1>2, <1>3, <1>4

LEMMA StrVersStaysMet ==
  ASSUME NEW a, NEW b, NEW c, IsComparable(a), IsComparable(b), IsComparable(c),
         StrVersCmp(a, b) <= 0, StrVersCmp(b, c) < 0
  PROVE  StrVersCmp(a, c) < 0
<1>1. a \in Seq(Token) /\ b \in Seq(Token) /\ c \in Seq(Token)
  BY VersionIs DEF IsComparable
<1>2. /\ StrVersOrder[<<a, b>>] = StrVersCmp(a, b)
      /\ StrVersOrder[<<b, c>>] = StrVersCmp(b, c)
      /\ StrVersOrder[<<a, c>>] = StrVersCmp(a, c)
  BY <1>1 DEF StrVersOrder
<1>3. StrVersOrder[<<a, c>>] < 0
  <2>1. StrVersOrder[<<a, b>>] <= 0 /\ StrVersOrder[<<b, c>>] < 0
    BY <1>2
  <2>2. QED BY <1>1, <2>1, StrVersIsOrder, OrderFacts
<1>4. QED BY <1>2, <1>3

\* Among versions with as many parts, what is newer than a version that is not
\* older than a third one is not older than that, either: so a requirement
\* ">= version" stays met.
THEOREM CmpVersionsStaysMet ==
  ASSUME NEW a, NEW b, NEW c, IsComparable(a), IsComparable(b), IsComparable(c),
         Parts(a) = Parts(b), Parts(b) = Parts(c),
         CmpVersions(a, b) <= 0, CmpVersions(b, c) < 0
  PROVE  CmpVersions(a, c) <= 0
<1> DEFINE x == BreakDown(a)
           y == BreakDown(b)
           z == BreakDown(c)
           Standard(v) == Cardinality(Dashes(v)) >= 2
<1>1. x \in Seq(Part) /\ y \in Seq(Part) /\ z \in Seq(Part)
  BY BreakDownType DEF IsComparable
<1>2. Len(x) = Len(y) /\ Len(y) = Len(z)
  BY DEF Parts
<1>3. /\ PartsCmp(x, y) = PartsOrder[<<x, y>>]
      /\ PartsCmp(y, z) = PartsOrder[<<y, z>>]
      /\ PartsCmp(x, z) = PartsOrder[<<x, z>>]
  BY <1>1, <1>2, PartsCmpIs
<1>4. b # c /\ CmpVersions(b, c) # 0
  <2>1. CmpVersions(b, c) # 0
    OBVIOUS
  <2>2. QED BY <2>1, CmpVersionsIs
<1>5. PartsCmp(y, z) # 0 => PartsCmp(y, z) < 0
  BY <1>4, CmpVersionsIs
<1>6. CASE a = b
  <2>1. CmpVersions(a, c) < 0 /\ CmpVersions(a, c) \in Int
    BY <1>6, CmpVersionsOpposite
  <2>2. QED BY <2>1
<1>7. CASE a = c
  <2>1. CmpVersions(a, c) = 0
    BY <1>7, CmpVersionsIs
  <2>2. QED BY <2>1
<1>8. CASE a # b /\ a # c /\ PartsCmp(x, y) = 0 /\ PartsCmp(y, z) = 0
  <2>1. PartsCmp(x, z) = 0
    BY <1>1, <1>3, <1>8, PartsIsOrder, OrderFacts
  <2>2. (Standard(b) /\ Standard(c)) \/ Dashes(b) \cup Dashes(c) = {}
    BY <1>4, <1>8, CmpVersionsIs
  <2>3. \A v \in {a, b, c} : Standard(v) => Dashes(v) # {}
    BY DashesAre DEF IsComparable
  <2>4. CASE Standard(a) /\ Standard(b) /\ Standard(c)
    <3>1. /\ CmpVersions(a, b) = BuildCmp(a, b) /\ CmpVersions(b, c) = BuildCmp(b, c)
          /\ CmpVersions(a, c) = BuildCmp(a, c)
      BY <1>4, <1>8, <2>1, <2>4, CmpVersionsIs
    <3>2. BuildCmp(a, c) <= 0
      BY <2>4, <3>1, BuildCmpStaysMet
    <3>3. QED BY <3>1, <3>2
  <2>5. CASE Dashes(a) = {} /\ Dashes(b) = {} /\ Dashes(c) = {}
    <3>1. ~Standard(a) /\ ~Standard(b) /\ ~Standard(c)
      BY <2>3, <2>5
    <3>2. /\ Dashes(a) \cup Dashes(b) = {} /\ Dashes(b) \cup Dashes(c) = {}
          /\ Dashes(a) \cup Dashes(c) = {}
      BY <2>5
    <3>3. /\ CmpVersions(a, b) = StrVersCmp(a, b) /\ CmpVersions(b, c) = StrVersCmp(b, c)
          /\ CmpVersions(a, c) = StrVersCmp(a, c)
      BY <1>4, <1>8, <2>1, <3>1, <3>2, CmpVersionsIs
    <3>4. CmpVersions(a, c) < 0 /\ CmpVersions(a, c) \in Int
      BY <3>3, StrVersStaysMet, CmpVersionsOpposite
    <3>5. QED BY <3>4
  <2>6. CASE /\ ~(Standard(a) /\ Standard(c))
             /\ Dashes(a) \cup Dashes(c) # {}
    <3>1. CmpVersions(a, c) = 0
      BY <1>8, <2>1, <2>6, CmpVersionsIs
    <3>2. QED BY <3>1
  <2>7. QED
    <3> HIDE DEF Standard
    <3>1. QED BY <2>2, <2>3, <2>4, <2>5, <2>6
<1>9. CASE a # b /\ a # c /\ (PartsCmp(x, y) # 0 \/ PartsCmp(y, z) # 0)
  <2>1. PartsOrder[<<x, y>>] \in {-1, 0, 1} /\ PartsOrder[<<y, z>>] \in {-1, 0, 1}
    BY <1>1, PartsIsOrder DEF IsOrder
  <2>2. PartsCmp(x, y) # 0 => PartsCmp(x, y) <= 0
    BY <1>9, CmpVersionsIs
  <2>3. PartsOrder[<<x, y>>] <= 0 /\ PartsOrder[<<y, z>>] <= 0
    BY <1>3, <1>5, <2>1, <2>2
  <2>4. PartsOrder[<<x, y>>] < 0 \/ PartsOrder[<<y, z>>] < 0
    BY <1>3, <1>9, <2>1, <2>3
  <2>5. PartsOrder[<<x, z>>] < 0 /\ PartsOrder[<<x, z>>] \in {-1, 0, 1}
    BY <1>1, <2>3, <2>4, PartsIsOrder, OrderFacts DEF IsOrder
  <2>6. PartsCmp(x, z) <= 0 /\ PartsCmp(x, z) # 0
    BY <1>3, <2>5
  <2>7. CmpVersions(a, c) = PartsCmp(x, z)
    BY <1>9, <2>6, CmpVersionsIs
  <2>8. QED BY <2>6, <2>7
<1>10. QED BY <1>6, <1>7, <1>8, <1>9

-----------------------------------------------------------------------------
(* The newest package of a name.                                           *)

LEMMA CmpIs ==
  ASSUME NEW p \in UNION Offers, NEW q \in UNION Offers
  PROVE  /\ p.priority \in Nat /\ q.priority \in Nat
         /\ p.priority < q.priority => Cmp(p, q) = -1
         /\ q.priority < p.priority => Cmp(p, q) = 1
         /\ p.priority = q.priority => Cmp(p, q) = CmpVersions(p.version, q.version)
         /\ CmpVersions(p.version, q.version) \in Int
         /\ CmpVersions(q.version, p.version) = -CmpVersions(p.version, q.version)
<1>1. /\ p.priority \in Nat /\ q.priority \in Nat
      /\ p.installed = FALSE /\ q.installed = FALSE
      /\ IsComparable(p.version) /\ IsComparable(q.version)
  BY OfferedIs DEF Package
<1>2. Cmp(p, q) = IF p.priority # q.priority THEN Sign(p.priority - q.priority)
                  ELSE CmpVersions(p.version, q.version)
  BY <1>1 DEF Cmp
<1>3. p.priority < q.priority => Sign(p.priority - q.priority) = -1
  BY <1>1, SignOf
<1>4. q.priority < p.priority => Sign(p.priority - q.priority) = 1
  BY <1>1, SignOf
<1>5. /\ CmpVersions(p.version, q.version) \in Int
      /\ CmpVersions(q.version, p.version) = -CmpVersions(p.version, q.version)
  BY <1>1, CmpVersionsOpposite
<1>6. /\ p.priority < q.priority => p.priority # q.priority
      /\ q.priority < p.priority => p.priority # q.priority
  BY <1>1
<1>7. QED BY <1>1, <1>2, <1>3, <1>4, <1>5, <1>6

LEMMA CmpOpposite ==
  ASSUME NEW p \in UNION Offers, NEW q \in UNION Offers
  PROVE  Cmp(p, q) \in Int /\ Cmp(q, p) = -Cmp(p, q) /\ Cmp(p, p) = 0
<1>1. Cmp(p, p) = 0
  <2>1. Cmp(p, p) = CmpVersions(p.version, p.version)
    BY CmpIs
  <2>2. CmpVersions(p.version, p.version) = 0
    BY OfferedIs, CmpVersionsIs
  <2>3. QED BY <2>1, <2>2
<1>2. CASE p.priority < q.priority
  <2>1. Cmp(p, q) = -1 /\ Cmp(q, p) = 1
    BY <1>2, CmpIs
  <2>2. Cmp(q, p) = -Cmp(p, q)
    BY <2>1, OneIsOpposite
  <2>3. Cmp(p, q) \in Int
    BY <2>1
  <2>4. QED BY <1>1, <2>2, <2>3
<1>3. CASE q.priority < p.priority
  <2>1. Cmp(p, q) = 1 /\ Cmp(q, p) = -1
    BY <1>3, CmpIs
  <2>2. QED BY <1>1, <2>1
<1>4. CASE p.priority = q.priority
  <2>1. /\ Cmp(p, q) = CmpVersions(p.version, q.version)
        /\ Cmp(q, p) = CmpVersions(q.version, p.version)
    BY <1>4, CmpIs
  <2>2. /\ CmpVersions(p.version, q.version) \in Int
        /\ CmpVersions(q.version, p.version) = -CmpVersions(p.version, q.version)
    BY CmpIs
  <2>3. QED BY <1>1, <2>1, <2>2
<1>5. p.priority \in Nat /\ q.priority \in Nat
  BY CmpIs
<1>6. QED BY <1>2, <1>3, <1>4, <1>5

LEMMA CmpStaysMet ==
  ASSUME NEW p \in UNION Offers, NEW q \in UNION Offers, NEW r \in UNION Offers,
         Parts(p.version) = Parts(q.version), Parts(q.version) = Parts(r.version),
         Cmp(p, q) <= 0, Cmp(q, r) < 0
  PROVE  Cmp(p, r) <= 0
<1>1. p.priority \in Nat /\ q.priority \in Nat /\ r.priority \in Nat
  BY CmpIs
<1>2. ~(q.priority < p.priority) /\ ~(r.priority < q.priority)
  <2>1. Cmp(p, q) # 1 /\ Cmp(q, r) # 1
    OBVIOUS
  <2>2. QED BY <2>1, CmpIs
<1>3. CASE p.priority < r.priority
  <2>1. Cmp(p, r) = -1
    BY <1>3, CmpIs
  <2>2. QED BY <2>1
<1>4. CASE p.priority = q.priority /\ q.priority = r.priority
  <2>1. /\ Cmp(p, q) = CmpVersions(p.version, q.version)
        /\ Cmp(q, r) = CmpVersions(q.version, r.version)
        /\ Cmp(p, r) = CmpVersions(p.version, r.version)
    BY <1>4, CmpIs
  <2>2. IsComparable(p.version) /\ IsComparable(q.version) /\ IsComparable(r.version)
    BY OfferedIs
  <2>3. CmpVersions(p.version, r.version) <= 0
    BY <2>1, <2>2, CmpVersionsStaysMet
  <2>4. QED BY <2>1, <2>3
<1>5. QED BY <1>1, <1>2, <1>3, <1>4

NewestOp(a, b, c, d, e, found, p) ==
  IF found = <<>> \/ Cmp(found[1], p) < 0 THEN <<p>> ELSE found
NewestFold == INSTANCE FoldProofs WITH Op <- NewestOp

LEMMA NewestIsFold ==
  \A list, name :
    Newest(list, name) = NewestFold!Result(0, 0, 0, 0, 0, <<>>, ByName(list, name))
BY DEF Newest, NewestFold!Result, NewestOp, FoldLeft, MapThenFoldSet,
       NewestFold!FoldLeft, NewestFold!MapThenFoldSet, Max, NewestFold!Max

VersionsOf(S) == {p.version : p \in S}

\* One of the first i packages that none of them beats.
Unbeaten(named, i, x) ==
  /\ x \in {named[j] : j \in 1..i}
  /\ SameParts(VersionsOf(Range(named))) => \A j \in 1..i : Cmp(x, named[j]) >= 0

LEMMA NextUnbeaten ==
  ASSUME NEW named \in Seq(UNION Offers), NEW i \in 1..Len(named),
         NEW x, Unbeaten(named, i - 1, x)
  PROVE  Unbeaten(named, i, IF Cmp(x, named[i]) < 0 THEN named[i] ELSE x)
<1> DEFINE p == named[i]
           y == IF Cmp(x, p) < 0 THEN p ELSE x
<1>1. Len(named) \in Nat /\ \A j \in 1..Len(named) :
         named[j] \in UNION Offers /\ named[j] \in Range(named)
  BY DEF Range
<1>2. /\ 1..(i - 1) \subseteq 1..Len(named) /\ i \in 1..i
      /\ \A j : j \in 1..i <=> j \in 1..(i - 1) \/ j = i
  BY <1>1
<1>3. x \in {named[j] : j \in 1..(i - 1)}
  BY DEF Unbeaten
<1>4. x \in UNION Offers /\ p \in UNION Offers /\ x \in Range(named) /\ p \in Range(named)
  BY <1>1, <1>2, <1>3
<1>5. y \in {named[j] : j \in 1..i}
  BY <1>2, <1>3
<1>6. ASSUME SameParts(VersionsOf(Range(named))), NEW j \in 1..i
      PROVE  Cmp(y, named[j]) >= 0
  <2> DEFINE q == named[j]
  <2>1. q \in UNION Offers /\ q \in Range(named)
    BY <1>1, <1>2
  <2>2. j \in 1..(i - 1) => Cmp(x, q) >= 0
    BY <1>6 DEF Unbeaten
  <2>3. j = i => q = p
    OBVIOUS
  <2>4. /\ Parts(q.version) = Parts(x.version) /\ Parts(x.version) = Parts(p.version)
    <3>1. \A a \in Range(named) : a.version \in VersionsOf(Range(named))
      BY DEF VersionsOf
    <3>2. QED BY <1>4, <1>6, <2>1, <3>1 DEF SameParts
  <2> HIDE DEF p, q
  <2>5. /\ Cmp(x, p) \in Int /\ Cmp(p, p) = 0
        /\ Cmp(x, q) \in Int /\ Cmp(q, x) = -Cmp(x, q)
        /\ Cmp(q, p) \in Int /\ Cmp(p, q) = -Cmp(q, p)
    BY <1>4, <2>1, CmpOpposite
  <2>6. CASE Cmp(x, p) < 0
    <3>1. CASE q = p
      BY <2>5, <2>6, <3>1 DEF q
    <3>2. CASE q # p
      <4>1. Cmp(x, q) >= 0
        BY <1>2, <2>2, <2>3, <3>2
      <4>2. Cmp(q, x) <= 0
        BY <2>5, <4>1
      <4>3. Cmp(q, p) <= 0
        BY <1>4, <2>1, <2>4, <2>6, <4>2, CmpStaysMet
      <4>4. Cmp(p, q) >= 0
        BY <2>5, <4>3
      <4>5. QED BY <2>6, <4>4 DEF q
    <3>3. QED BY <3>1, <3>2
  <2>7. CASE ~(Cmp(x, p) < 0)
    <3>1. Cmp(x, q) >= 0
      <4>1. CASE q = p
        BY <2>5, <2>7, <4>1
      <4>2. CASE q # p
        BY <1>2, <2>2, <2>3, <4>2
      <4>3. QED BY <4>1, <4>2
    <3>2. QED BY <2>7, <3>1 DEF q
  <2>8. QED BY <2>6, <2>7
<1>7. QED BY <1>5, <1>6 DEF Unbeaten

\* slapt_get_newest_pkg
LEMMA NewestIs ==
  ASSUME NEW list, IsList(list), NEW name \in Range(Names)
  PROVE  LET named == ByName(list, name)
         IN  \/ named = <<>> /\ Newest(list, name) = <<>>
             \/ \E x \in Range(named) :
                  /\ Newest(list, name) = <<x>>
                  /\ SameParts(VersionsOf(Range(named))) =>
                       \A p \in Range(named) : Cmp(x, p) >= 0
<1> DEFINE named == ByName(list, name)
           n == Len(named)
           T == UNION Offers
           I == [i \in 0..n |->
                   {found \in Seq(T) :
                      IF i = 0 THEN found = <<>>
                      ELSE \E x \in T : found = <<x>> /\ Unbeaten(named, i, x)}]
<1>1. named \in Seq(T)
  <2>1. named \in Seq(Range(list.items)) /\ list.items \in Seq(T)
    BY ByNameIs DEF IsList
  <2>2. Range(list.items) \subseteq T
    BY <2>1, RangeType
  <2> HIDE DEF named, T
  <2>3. \A i \in DOMAIN named : named[i] \in T
    BY <2>1, <2>2
  <2>4. named = [i \in 1..Len(named) |-> named[i]] /\ Len(named) \in Nat
    BY <2>1
  <2>5. QED BY <2>3, <2>4, FunctionIsSeq
<1> HIDE DEF named, T
<1>2. n \in Nat /\ DOMAIN named = 1..n /\ \A i \in 1..n : named[i] \in T
  BY <1>1
<1> HIDE DEF n
<1>3. <<>> \in I[0]
  BY <1>2
<1>4. ASSUME NEW i \in 1..n, NEW found \in I[i - 1]
      PROVE  NewestOp(0, 0, 0, 0, 0, found, named[i]) \in I[i]
  <2> DEFINE p == named[i]
             next == NewestOp(0, 0, 0, 0, 0, found, p)
  <2>1. i - 1 \in 0..n /\ i \in 0..n /\ i # 0
    BY <1>2
  <2>2. p \in T
    BY <1>2
  <2>3. \E x \in T : next = <<x>> /\ Unbeaten(named, i, x)
    <3>1. CASE i = 1
      <4>1. found = <<>>
        BY <1>4, <2>1, <3>1
      <4>2. next = <<p>>
        BY <4>1 DEF NewestOp
      <4>3. \A j \in 1..1 : j = 1
        OBVIOUS
      <4>4. Cmp(p, p) = 0
        BY <2>2, CmpOpposite DEF T
      <4>5. Unbeaten(named, i, p)
        BY <3>1, <4>3, <4>4 DEF Unbeaten
      <4>6. QED BY <2>2, <4>2, <4>5
    <3>2. CASE i # 1
      <4>1. PICK x \in T : found = <<x>> /\ Unbeaten(named, i - 1, x)
        BY <1>4, <2>1, <3>2
      <4>2. found # <<>> /\ found[1] = x
        BY <4>1
      <4>3. next = IF Cmp(x, p) < 0 THEN <<p>> ELSE <<x>>
        BY <4>1, <4>2 DEF NewestOp
      <4>4. Unbeaten(named, i, IF Cmp(x, p) < 0 THEN p ELSE x)
        BY <1>1, <4>1, NextUnbeaten DEF T, n
      <4> HIDE DEF next, p
      <4>5. QED BY <2>2, <4>1, <4>3, <4>4
    <3>3. QED BY <3>1, <3>2
  <2>4. next \in Seq(T)
    <3> HIDE DEF next
    <3>1. QED BY <2>3
  <2> HIDE DEF next
  <2>5. next \in I[i]
    BY <2>1, <2>3, <2>4
  <2>6. QED BY <2>5 DEF next
<1> HIDE DEF I
<1>5. NewestFold!Result(0, 0, 0, 0, 0, <<>>, named) \in I[n]
  BY <1>1, <1>3, <1>4, NewestFold!FoldSteps DEF n
<1>6. Newest(list, name) \in I[n]
  BY <1>5, NewestIsFold DEF named
<1>7. CASE n = 0
  <2>1. named = <<>>
    BY <1>1, <1>7 DEF n
  <2>2. Newest(list, name) = <<>>
    BY <1>2, <1>6, <1>7 DEF I
  <2>3. QED BY <2>1, <2>2 DEF named
<1>8. CASE n # 0
  <2>1. PICK x \in T : Newest(list, name) = <<x>> /\ Unbeaten(named, n, x)
    BY <1>2, <1>6, <1>8 DEF I
  <2>2. \A p : p \in Range(named) <=> \E j \in 1..n : p = named[j]
    BY <1>2 DEF Range
  <2>3. x \in Range(named)
    BY <2>1, <2>2 DEF Unbeaten
  <2>4. SameParts(VersionsOf(Range(named))) => \A p \in Range(named) : Cmp(x, p) >= 0
    BY <2>1, <2>2 DEF Unbeaten
  <2>5. QED BY <2>1, <2>3, <2>4 DEF named
<1>9. QED BY <1>7, <1>8

-----------------------------------------------------------------------------
(* What the sources offer and what is installed.                           *)

\* Every list is made of offers and in order if it is marked as sorted: what
\* the binary search relies on.
IInv == TypeOK /\ IsList(avail)

\* A package replaces the one that is installed.
Replaced(p) ==
  /\ p.name = Name /\ Cmp(Installed, p) < 0
  /\ Len(had) <= MaxUpgrades /\ had' = Append(had, p)
  /\ UNCHANGED avail

LEMMA InstalledIs ==
  ASSUME TypeOK
  PROVE  /\ Len(had) \in Nat /\ Len(had) >= 1
         /\ Last(had) \in UNION Offers /\ Last(had).name = Name
         /\ Name \in Range(Names)
         /\ Installed.version = Last(had).version
         /\ Installed.priority = 0 /\ Installed.installed = TRUE
<1>1. Len(had) \in Nat /\ Len(had) >= 1 /\ had \in Seq(UNION Offers)
  BY ValuesAssumption DEF TypeOK
<1>2. Last(had) = had[Len(had)] /\ Len(had) \in DOMAIN had
  BY <1>1 DEF Last
<1>3. Last(had) \in UNION Offers /\ Last(had).name = Name
  BY <1>1, <1>2 DEF TypeOK
<1>4. Last(had) \in Package
  BY <1>3, OfferedIs
<1>5. Name \in Range(Names)
  BY <1>3, <1>4 DEF Package
<1>6. /\ Installed.version = Last(had).version
      /\ Installed.priority = 0 /\ Installed.installed = TRUE
  BY <1>4 DEF Installed, Package
<1>7. QED BY <1>1, <1>3, <1>5, <1>6

\* What replaces the installed package, without a preferred source, has a
\* newer version.
LEMMA ReplacedIsNewer ==
  ASSUME TypeOK, NEW p \in UNION Offers, p.priority = 0, Cmp(Installed, p) < 0
  PROVE  CmpVersions(Last(had).version, p.version) < 0
<1>1. /\ Installed.version = Last(had).version
      /\ Installed.priority = 0 /\ Installed.installed = TRUE
  BY InstalledIs
<1>2. Cmp(Installed, p) # 0
  OBVIOUS
<1>3. Installed.version # p.version
  BY <1>1, <1>2 DEF Cmp
<1>4. Cmp(Installed, p) = CmpVersions(Installed.version, p.version)
  BY <1>1, <1>3 DEF Cmp
<1>5. QED BY <1>1, <1>4

\* However an upgrade is asked for, it is to an offered package of that name.
LEMMA UpgradeIs ==
  ASSUME IInv, UpgradeAll \/ Install
  PROVE  \E p \in UNION Offers : Replaced(p)
<1>1. Name \in Range(Names)
  BY InstalledIs DEF IInv
<1>2. ASSUME NEW list, IsList(list), NEW found,
             Upgraded(found), found # <<>> => found[1] \in Range(ByName(list, Name))
      PROVE  \E p \in UNION Offers : Replaced(p)
  <2>1. found # <<>>
    BY <1>2 DEF Upgraded
  <2>2. found[1] \in Range(list.items) /\ found[1].name = Name
    BY <1>1, <1>2, <2>1, ByNameIs
  <2>3. found[1] \in UNION Offers
    BY <1>2, <2>2, RangeType DEF IsList
  <2>4. QED BY <1>2, <2>2, <2>3 DEF Upgraded, Replaced
<1>3. ASSUME NEW list, IsList(list), Upgraded(Newest(list, Name))
      PROVE  \E p \in UNION Offers : Replaced(p)
  <2> DEFINE found == Newest(list, Name)
             named == ByName(list, Name)
  <2>1. \/ found = <<>>
        \/ \E x \in Range(named) : found = <<x>>
    BY <1>1, <1>3, NewestIs
  <2> HIDE DEF found, named
  <2>2. found # <<>> => found[1] \in Range(named)
    BY <2>1
  <2>3. QED BY <1>2, <1>3, <2>2 DEF found, named
<1>4. CASE UpgradeAll
  BY <1>3, <1>4 DEF UpgradeAll, IInv
<1>5. CASE Install
  <2>1. PICK kept \in SUBSET Range(avail.items) :
           \/ Upgraded(Newest(Selected(avail, kept), Name))
           \/ \E p \in kept :
                /\ p.name = Name
                /\ Upgraded(SubSeq(ByDetails(Selected(avail, kept), Name, p.version), 1, 1))
    BY <1>5 DEF Install
  <2> DEFINE list == Selected(avail, kept)
  <2>2. IsList(list) /\ Range(list.items) = kept /\ list.sorted = FALSE
    <3>1. Range(avail.items) \cap kept = kept
      OBVIOUS
    <3>2. QED BY <3>1, SelectedIsList DEF IInv, Selected
  <2> HIDE DEF list
  <2>3. CASE Upgraded(Newest(list, Name))
    BY <1>3, <2>2, <2>3
  <2>4. CASE \E p \in kept :
               /\ p.name = Name
               /\ Upgraded(SubSeq(ByDetails(list, Name, p.version), 1, 1))
    <3>1. PICK p \in kept :
                 /\ p.name = Name
                 /\ Upgraded(SubSeq(ByDetails(list, Name, p.version), 1, 1))
      BY <2>4
    <3> DEFINE details == ByDetails(list, Name, p.version)
               found == SubSeq(details, 1, 1)
    <3>2. /\ details \in Seq(Range(list.items)) /\ p \in Range(details)
          /\ \A q \in Range(details) : q \in Range(list.items) /\ q.name = Name
      BY <1>1, <2>2, <3>1, ByDetailsIs
    <3> HIDE DEF details
    <3>3. 1 \in DOMAIN details /\ found[1] = details[1]
      <4>1. details # <<>>
        BY <3>2, RangeOfOne
      <4>2. QED BY <3>2, <4>1
    <3>4. found[1] \in Range(details)
      BY <3>3 DEF Range
    <3> HIDE DEF found
    <3>5. found[1] \in Range(list.items) /\ found[1].name = Name
      BY <3>2, <3>4
    <3>6. found[1] \in Range(ByName(list, Name))
      BY <1>1, <2>2, <3>5, ByNameIs
    <3>7. QED BY <1>2, <2>2, <3>1, <3>6 DEF details, found
  <2>5. QED BY <2>1, <2>3, <2>4 DEF list
<1>6. QED BY <1>4, <1>5

LEMMA NextIs ==
  ASSUME IInv, [Next]_vars
  PROVE  \/ UNCHANGED vars
         \/ avail' \in AvailableLists /\ UNCHANGED had
         \/ \E p \in UNION Offers : Replaced(p)
BY UpgradeIs DEF Next, Update

LEMMA AppendIs ==
  ASSUME NEW T, NEW s \in Seq(T), NEW x \in T
  PROVE  /\ Append(s, x) \in Seq(T) /\ Len(Append(s, x)) = Len(s) + 1
         /\ Last(Append(s, x)) = x
         /\ \A i \in 1..Len(s) : Append(s, x)[i] = s[i]
         /\ Append(s, x)[Len(s) + 1] = x
         /\ \A i \in DOMAIN Append(s, x) : i \in 1..Len(s) \/ i = Len(s) + 1
BY DEF Last

LEMMA InitIInv == Init => IInv
<1> SUFFICES ASSUME Init PROVE IInv
  OBVIOUS
<1>1. IsList(avail) /\ avail.items = <<>> /\ avail.sorted = FALSE
  BY EmptyIsList DEF Init
<1>2. PICK p \in UNION Offers : p.name = Name /\ had = <<p>>
  BY DEF Init
<1>3. /\ had \in Seq(UNION Offers) /\ Len(had) = 1
      /\ \A i \in DOMAIN had : had[i].name = Name
  BY <1>2
<1>4. 1 \in 1..(MaxUpgrades + 1)
  BY ValuesAssumption
<1>5. QED BY <1>1, <1>3, <1>4, RangeOfOne DEF IInv, TypeOK

LEMMA NextIInv == IInv /\ [Next]_vars => IInv'
<1> SUFFICES ASSUME IInv, [Next]_vars PROVE IInv'
  OBVIOUS
<1>1. CASE UNCHANGED vars
  BY <1>1 DEF IInv, TypeOK, IsList, vars
<1>2. CASE avail' \in AvailableLists /\ UNCHANGED had
  <2>1. IsList(avail')
    BY <1>2, AvailableIsList
  <2>2. avail'.sorted \in BOOLEAN /\ Range(avail'.items) \subseteq UNION Offers
    BY <2>1, RangeType DEF IsList
  <2>3. QED BY <1>2, <2>1, <2>2 DEF IInv, TypeOK, IsList
<1>3. CASE \E p \in UNION Offers : Replaced(p)
  <2>1. PICK p \in UNION Offers : Replaced(p)
    BY <1>3
  <2>2. had \in Seq(UNION Offers) /\ Len(had) \in 1..(MaxUpgrades + 1)
    BY DEF IInv, TypeOK
  <2>3. had' = Append(had, p) /\ Len(had) <= MaxUpgrades /\ p.name = Name /\ UNCHANGED avail
    BY <2>1 DEF Replaced
  <2>4. had' \in Seq(UNION Offers) /\ Len(had') \in 1..(MaxUpgrades + 1)
    <3>1. Len(had') = Len(had) + 1 /\ had' \in Seq(UNION Offers)
      BY <2>2, <2>3, AppendIs
    <3>2. QED BY <2>2, <2>3, <3>1, ValuesAssumption
  <2>5. \A i \in DOMAIN had' : had'[i].name = Name
    <3> TAKE i \in DOMAIN had'
    <3>1. CASE i \in 1..Len(had)
      <4>1. had'[i] = had[i] /\ i \in DOMAIN had
        BY <2>2, <2>3, <3>1, AppendIs
      <4>2. QED BY <4>1 DEF IInv, TypeOK
    <3>2. CASE i = Len(had) + 1
      BY <2>2, <2>3, <3>2, AppendIs
    <3>3. QED BY <2>2, <2>3, <3>1, <3>2, AppendIs
  <2>6. QED BY <2>3, <2>4, <2>5 DEF IInv, TypeOK, IsList
<1>4. QED BY <1>1, <1>2, <1>3, NextIs

\* Type correctness, an available list sorted as slapt_get_available_pkgs sorts
\* it, and a history of nothing but offers of the one name: inductive.
THEOREM InvariantHolds == Spec => []IInv
BY InitIInv, NextIInv, PTL DEF Spec

\* Whatever the sources offer, in whatever order it is read, and however
\* upgrades are asked for, what replaces the installed package is an offer of
\* the same name.
THEOREM TypeOKHolds == Spec => []TypeOK
<1>1. IInv => TypeOK
  BY DEF IInv
<1>2. QED BY <1>1, InvariantHolds, PTL

\* slapt_vector_t_search finds in every available list, of whatever length,
\* all packages of a name and no others.
THEOREM SearchFindsAllHolds == Spec => []SearchFindsAll
<1>1. IInv => SearchFindsAll
  BY ByNameIs DEF IInv, SearchFindsAll
<1>2. QED BY <1>1, InvariantHolds, PTL

\* checked_version_cmp compares the numbers in every installed version like
\* the integers they stand for, however many digits they have.
THEOREM CheckedIsNumericHolds == Spec => []CheckedIsNumeric
<1>1. IInv => CheckedIsNumeric
  <2> SUFFICES ASSUME IInv, NEW i \in DOMAIN Installed.version, NEW d \in Numbers
               PROVE  LET n == Installed.version[i].num
                      IN  CheckedVersionCmp(n, d) = Sign(Value(n) - Value(d))
    BY DEF CheckedIsNumeric
  <2>1. Last(had) \in UNION Offers /\ Installed.version = Last(had).version
    BY InstalledIs DEF IInv
  <2>2. Installed.version \in Seq(Token)
    BY <2>1, OfferedIs DEF Package
  <2>3. Installed.version[i].num \in Digits
    <3>1. Installed.version[i] \in Token
      BY <2>2
    <3>2. QED BY <3>1 DEF Token
  <2>4. d \in Digits
    BY ValuesAssumption
  <2>5. QED BY <2>3, <2>4, CheckedVersionCmpIs
<1>2. QED BY <1>1, InvariantHolds, PTL

LEMMA WantedIs ==
  \A v \in Versions \cup Requirements : IsComparable(v)
BY VersionAssumption DEF Versions, IsComparable

\* The two ways to compare the installed version with another agree, whatever
\* the versions.
THEOREM AntisymmetricHolds == Spec => []Antisymmetric
<1>1. IInv => Antisymmetric
  <2> SUFFICES ASSUME IInv, NEW v \in Versions \cup Requirements
               PROVE  CmpVersions(Last(had).version, v) = -CmpVersions(v, Last(had).version)
    BY DEF Antisymmetric
  <2>1. IsComparable(Last(had).version) /\ IsComparable(v)
    BY InstalledIs, OfferedIs, WantedIs DEF IInv
  <2>2. QED BY <2>1, CmpVersionsOpposite
<1>2. QED BY <1>1, InvariantHolds, PTL

\* slapt_get_newest_pkg returns a package that no other of the name beats,
\* wherever it is in a list of whatever length, as long as their versions have
\* the same number of parts.
THEOREM NewestIsUnbeatenHolds == Spec => []NewestIsUnbeaten
<1>1. IInv => NewestIsUnbeaten
  <2> SUFFICES ASSUME IInv PROVE NewestIsUnbeaten
    OBVIOUS
  <2> DEFINE named == ByName(avail, Name)
  <2> SUFFICES ASSUME SameParts({p.version : p \in Range(named)}), NEW p \in Range(named)
               PROVE  Cmp(Newest(avail, Name)[1], p) >= 0
    BY DEF NewestIsUnbeaten
  <2>1. IsList(avail) /\ Name \in Range(Names)
    BY InstalledIs DEF IInv
  <2>2. \/ named = <<>> /\ Newest(avail, Name) = <<>>
        \/ \E x \in Range(named) :
             /\ Newest(avail, Name) = <<x>>
             /\ SameParts(VersionsOf(Range(named))) =>
                  \A q \in Range(named) : Cmp(x, q) >= 0
    BY <2>1, NewestIs
  <2> HIDE DEF named
  <2>3. named # <<>>
    BY RangeOfOne
  <2>4. PICK x \in Range(named) :
             /\ Newest(avail, Name) = <<x>>
             /\ SameParts(VersionsOf(Range(named))) =>
                  \A q \in Range(named) : Cmp(x, q) >= 0
    BY <2>2, <2>3
  <2>5. Newest(avail, Name)[1] = x
    BY <2>4
  <2>6. SameParts(VersionsOf(Range(named)))
    BY DEF VersionsOf
  <2>7. QED BY <2>4, <2>5, <2>6
<1>2. QED BY <1>1, InvariantHolds, PTL

\* No source is preferred, and all versions have as many parts.
Plain(h) ==
  /\ SameParts({p.version : p \in Range(h)})
  /\ \A i \in DOMAIN h : h[i].priority = 0

\* Each version is newer than all that were installed before it.
Forward(h) ==
  \A i, j \in DOMAIN h : i < j => CmpVersions(h[i].version, h[j].version) < 0

OnlyForward == Plain(had) => Forward(had)

LEMMA PlainBefore ==
  ASSUME NEW h \in Seq(UNION Offers), NEW p \in UNION Offers, Plain(Append(h, p))
  PROVE  Plain(h) /\ p.priority = 0
         /\ \A i \in 1..Len(h) : Parts(h[i].version) = Parts(p.version)
<1> DEFINE next == Append(h, p)
<1>1. /\ next \in Seq(UNION Offers) /\ Len(h) \in Nat /\ DOMAIN h = 1..Len(h)
      /\ Len(next) = Len(h) + 1 /\ DOMAIN next = 1..(Len(h) + 1)
      /\ \A i \in 1..Len(h) : next[i] = h[i] /\ i \in DOMAIN next
      /\ next[Len(h) + 1] = p /\ Len(h) + 1 \in DOMAIN next
  BY AppendIs
<1>2. /\ SameParts({q.version : q \in Range(next)})
      /\ \A i \in DOMAIN next : next[i].priority = 0
  BY DEF Plain
<1>3. Range(next) = Range(h) \cup {p}
  BY RangeOfAppend
<1> HIDE DEF next
<1>4. SameParts({q.version : q \in Range(h)})
  BY <1>2, <1>3 DEF SameParts
<1>5. \A i \in DOMAIN h : h[i].priority = 0
  BY <1>1, <1>2
<1>6. p.priority = 0
  BY <1>1, <1>2
<1>7. \A i \in 1..Len(h) : Parts(h[i].version) = Parts(p.version)
  <2>1. \A i \in 1..Len(h) : h[i] \in Range(next) /\ p \in Range(next)
    BY <1>1, <1>3 DEF Range
  <2>2. QED BY <1>2, <2>1 DEF SameParts
<1>8. QED BY <1>4, <1>5, <1>6, <1>7 DEF Plain

LEMMA NextForward == IInv /\ OnlyForward /\ [Next]_vars => OnlyForward'
<1> SUFFICES ASSUME IInv, OnlyForward, [Next]_vars, Plain(had')
             PROVE  Forward(had')
  BY DEF OnlyForward
<1>1. CASE UNCHANGED had
  BY <1>1 DEF OnlyForward
<1>2. CASE \E p \in UNION Offers : Replaced(p)
  <2>1. PICK p \in UNION Offers : Replaced(p)
    BY <1>2
  <2>2. had' = Append(had, p) /\ Cmp(Installed, p) < 0
    BY <2>1 DEF Replaced
  <2>3. /\ had \in Seq(UNION Offers) /\ Len(had) \in Nat /\ Len(had) >= 1
        /\ DOMAIN had = 1..Len(had) /\ Last(had) = had[Len(had)]
    BY InstalledIs DEF IInv, TypeOK, Last
  <2>4. /\ Plain(had) /\ p.priority = 0
        /\ \A i \in 1..Len(had) : Parts(had[i].version) = Parts(p.version)
    BY <2>2, <2>3, PlainBefore
  <2>5. Forward(had)
    BY <2>4 DEF OnlyForward
  <2>6. CmpVersions(Last(had).version, p.version) < 0
    BY <2>2, <2>4, ReplacedIsNewer DEF IInv
  <2>7. \A i \in 1..Len(had) : had[i] \in UNION Offers /\ IsComparable(had[i].version)
    BY <2>3, OfferedIs
  <2>8. ASSUME NEW i \in 1..Len(had)
        PROVE  CmpVersions(had[i].version, p.version) < 0
    <3>1. CASE i = Len(had)
      BY <2>3, <2>6, <3>1
    <3>2. CASE i # Len(had)
      <4>1. i < Len(had) /\ Len(had) \in 1..Len(had)
        <5> DEFINE n == Len(had)
        <5>1. n \in Nat /\ n >= 1 /\ i \in 1..n /\ i # n
          BY <2>3, <3>2
        <5> HIDE DEF n
        <5>2. i < n /\ n \in 1..n
          BY <5>1
        <5>3. QED BY <5>2 DEF n
      <4>2. CmpVersions(had[i].version, Last(had).version) < 0
        BY <2>3, <2>5, <4>1 DEF Forward
      <4>3. /\ Parts(had[i].version) = Parts(Last(had).version)
            /\ Parts(Last(had).version) = Parts(p.version)
        BY <2>3, <2>4, <4>1
      <4>4. /\ IsComparable(had[i].version) /\ IsComparable(Last(had).version)
            /\ IsComparable(p.version)
        BY <2>3, <2>7, <4>1, OfferedIs
      <4>5. QED BY <2>6, <4>2, <4>3, <4>4, CmpVersionsTransitive
    <3>3. QED BY <3>1, <3>2
  <2>9. /\ DOMAIN had' = 1..(Len(had) + 1) /\ had'[Len(had) + 1] = p
        /\ \A i \in 1..Len(had) : had'[i] = had[i]
    BY <2>2, <2>3, AppendIs
  <2>10. ASSUME NEW i \in DOMAIN had', NEW j \in DOMAIN had', i < j
         PROVE  CmpVersions(had'[i].version, had'[j].version) < 0
    <3>1. i \in 1..Len(had) /\ (j \in 1..Len(had) \/ j = Len(had) + 1)
      BY <2>3, <2>9, <2>10
    <3>2. CASE j \in 1..Len(had)
      BY <2>3, <2>5, <2>9, <2>10, <3>1, <3>2 DEF Forward
    <3>3. CASE j = Len(had) + 1
      BY <2>8, <2>9, <3>1, <3>3
    <3>4. QED BY <3>1, <3>2, <3>3
  <2>11. QED BY <2>10 DEF Forward
<1>3. QED BY <1>1, <1>2, NextIs DEF vars

\* README: "to prevent downgrades".  However the offers change and however
\* long the history, upgrading does not lead back to a version that was
\* replaced, as long as all versions had the same number of parts and none was
\* preferred for its source.
THEOREM NoWayBackHolds == Spec => []NoWayBack
<1>1. Init => OnlyForward
  <2> SUFFICES ASSUME Init PROVE Forward(had)
    BY DEF OnlyForward
  <2>1. \A i, j \in DOMAIN had : ~(i < j)
    BY DEF Init
  <2>2. QED BY <2>1 DEF Forward
<1>2. IInv /\ OnlyForward => NoWayBack
  <2> SUFFICES ASSUME IInv, Forward(had) PROVE NoneTwice(had)
    BY DEF OnlyForward, Plain, NoWayBack
  <2>1. had \in Seq(UNION Offers) /\ \A i \in DOMAIN had : i \in Nat
    BY DEF IInv, TypeOK
  <2>2. ASSUME NEW i \in DOMAIN had, NEW j \in DOMAIN had, i < j
        PROVE  had[i].version # had[j].version
    <3>1. CmpVersions(had[i].version, had[j].version) < 0
      BY <2>2 DEF Forward
    <3>2. IsComparable(had[j].version)
      BY <2>1, OfferedIs
    <3>3. CmpVersions(had[j].version, had[j].version) = 0
      BY <3>2, CmpVersionsIs
    <3>4. QED BY <3>1, <3>3
  <2>3. ASSUME NEW i \in DOMAIN had, NEW j \in DOMAIN had, had[i].version = had[j].version
        PROVE  i = j
    <3>1. i < j \/ j < i \/ i = j
      BY <2>1
    <3>2. QED BY <2>2, <2>3, <3>1
  <2>4. QED BY <2>3 DEF NoneTwice
<1>3. QED BY <1>1, <1>2, NextForward, InvariantHolds, PTL DEF Spec

\* A version that meets a requirement ">= version" is not upgraded to one that
\* does not, with the same provisos, whatever the requirements and offers.
THEOREM RequirementStaysMetHolds == Spec => RequirementStaysMet
<1> DEFINE A == LET old == Last(had).version
                    new == Last(had').version
                IN  had' # had /\ Last(had').priority = 0 =>
                      \A r \in Requirements :
                        SameParts({r, old, new}) /\ CmpVersions(old, r) >= 0
                          => CmpVersions(new, r) >= 0
<1>1. IInv /\ [Next]_vars => [A]_vars
  <2> SUFFICES ASSUME IInv, [Next]_vars, had' # had, Last(had').priority = 0,
                      NEW r \in Requirements,
                      SameParts({r, Last(had).version, Last(had').version}),
                      CmpVersions(Last(had).version, r) >= 0
               PROVE  CmpVersions(Last(had').version, r) >= 0
    OBVIOUS
  <2>1. PICK p \in UNION Offers : Replaced(p)
    BY NextIs DEF vars
  <2>2. had' = Append(had, p) /\ Cmp(Installed, p) < 0
    BY <2>1 DEF Replaced
  <2>3. Last(had') = p
    BY <2>2, AppendIs DEF IInv, TypeOK
  <2> DEFINE old == Last(had).version
             new == p.version
  <2>4. CmpVersions(old, new) < 0
    BY <2>2, <2>3, ReplacedIsNewer DEF IInv
  <2>5. IsComparable(old) /\ IsComparable(new) /\ IsComparable(r)
    BY InstalledIs, OfferedIs, WantedIs DEF IInv
  <2>6. Parts(r) = Parts(old) /\ Parts(old) = Parts(new) /\ CmpVersions(old, r) >= 0
    BY <2>3 DEF SameParts
  <2> HIDE DEF old, new
  <2>7. CmpVersions(r, old) <= 0
    <3>1. CmpVersions(old, r) \in Int /\ CmpVersions(r, old) = -CmpVersions(old, r)
      BY <2>5, CmpVersionsOpposite
    <3>2. QED BY <2>6, <3>1
  <2>8. CmpVersions(r, new) <= 0
    BY <2>4, <2>5, <2>6, <2>7, CmpVersionsStaysMet
  <2>9. CmpVersions(new, r) >= 0
    <3>1. CmpVersions(r, new) \in Int /\ CmpVersions(new, r) = -CmpVersions(r, new)
      BY <2>5, CmpVersionsOpposite
    <3>2. QED BY <2>8, <3>1
  <2>10. QED BY <2>3, <2>9 DEF new
<1>2. QED BY <1>1, InvariantHolds, PTL DEF Spec, RequirementStaysMet
=============================================================================
