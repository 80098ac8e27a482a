--------------------------- MODULE ResolverProofs ---------------------------
(***************************************************************************)
(* Proofs about the package lists of any number of packages, any names and *)
(* any declarations.                                                       *)
(***************************************************************************)
EXTENDS Resolver, FiniteSetTheorems, TLAPS

-----------------------------------------------------------------------------
(* What the operators on sequences return.  Each fold is an instance of    *)
(* FoldProofs.                                                             *)

KeepOp(S, b, c, d, e, acc, x) == IF x \in S THEN Append(acc, x) ELSE acc
KeepFold == INSTANCE FoldProofs WITH Op <- KeepOp

ConcatOp(a, b, c, d, e, acc, x) == acc \o x
ConcatFold == INSTANCE FoldProofs WITH Op <- ConcatOp

LEMMA KeepIsFold ==
  \A seq, S : Keep(seq, S) = KeepFold!Result(S, 0, 0, 0, 0, <<>>, seq)
BY DEF Keep, KeepFold!Result, KeepOp, FoldLeft, MapThenFoldSet,
       KeepFold!FoldLeft, KeepFold!MapThenFoldSet, Max, KeepFold!Max

LEMMA ConcatIsFold ==
  \A seqs : Concat(seqs) = ConcatFold!Result(0, 0, 0, 0, 0, <<>>, seqs)
BY DEF Concat, ConcatFold!Result, ConcatOp, FoldLeft, MapThenFoldSet,
       ConcatFold!FoldLeft, ConcatFold!MapThenFoldSet, Max, ConcatFold!Max

LEMMA RangeType ==
  ASSUME NEW T, NEW seq \in Seq(T)
  PROVE  /\ Range(seq) \subseteq T
         /\ seq \in Seq(Range(seq))
         /\ \A i \in DOMAIN seq : seq[i] \in Range(seq)
BY DEF Range

LEMMA FunctionIsSeq ==
  ASSUME NEW T, NEW n \in Nat, NEW f \in [1..n -> T]
  PROVE  f \in Seq(T)
OBVIOUS

LEMMA RangeOfOne ==
  Range(<<>>) = {} /\ \A x : Range(<<x>>) = {x}
BY DEF Range

LEMMA RangeOfAppend ==
  ASSUME NEW T, NEW s \in Seq(T), NEW x \in T
  PROVE  Range(Append(s, x)) = Range(s) \cup {x}
<1>1. \A i \in DOMAIN s : i \in DOMAIN Append(s, x) /\ Append(s, x)[i] = s[i]
  OBVIOUS
<1>2. /\ Len(s) + 1 \in DOMAIN Append(s, x)
      /\ Append(s, x)[Len(s) + 1] = x
  OBVIOUS
<1>3. \A i \in DOMAIN Append(s, x) : i \in DOMAIN s \/ i = Len(s) + 1
  OBVIOUS
<1>4. QED BY <1>1, <1>2, <1>3 DEF Range

LEMMA RangeOfConcat ==
  ASSUME NEW T, NEW s \in Seq(T), NEW t \in Seq(T)
  PROVE  s \o t \in Seq(T) /\ Range(s \o t) = Range(s) \cup Range(t)
<1>1. \A i \in DOMAIN s : i \in DOMAIN (s \o t) /\ (s \o t)[i] = s[i]
  OBVIOUS
<1>2. \A i \in DOMAIN t : /\ Len(s) + i \in DOMAIN (s \o t)
                          /\ (s \o t)[Len(s) + i] = t[i]
  OBVIOUS
<1>3. \A i \in DOMAIN (s \o t) :
         i \in DOMAIN s \/ \E j \in DOMAIN t : i = Len(s) + j
  <2> TAKE i \in DOMAIN (s \o t)
  <2>1. i \in 1..(Len(s) + Len(t)) /\ Len(s) \in Nat /\ Len(t) \in Nat
    OBVIOUS
  <2>2. CASE i <= Len(s)
    BY <2>1, <2>2
  <2>3. CASE ~(i <= Len(s))
    <3>1. i - Len(s) \in DOMAIN t /\ i = Len(s) + (i - Len(s))
      BY <2>1, <2>3
    <3>2. QED BY <3>1
  <2>4. QED BY <2>2, <2>3
<1>4. Range(s \o t) \subseteq Range(s) \cup Range(t)
  <2> SUFFICES ASSUME NEW x \in Range(s \o t)
               PROVE  x \in Range(s) \cup Range(t)
    OBVIOUS
  <2>1. PICK i \in DOMAIN (s \o t) : x = (s \o t)[i]
    BY DEF Range
  <2>2. CASE i \in DOMAIN s
    BY <1>1, <2>1, <2>2 DEF Range
  <2>3. CASE \E j \in DOMAIN t : i = Len(s) + j
    BY <1>2, <2>1, <2>3 DEF Range
  <2>4. QED BY <1>3, <2>2, <2>3
<1>5. Range(s) \cup Range(t) \subseteq Range(s \o t)
  BY <1>1, <1>2 DEF Range
<1>6. QED BY <1>4, <1>5

LEMMA KeepRange ==
  ASSUME NEW T, NEW seq \in Seq(T), NEW S
  PROVE  /\ Keep(seq, S) \in Seq(T)
         /\ Range(Keep(seq, S)) = Range(seq) \cap S
<1> DEFINE I == [i \in 0..Len(seq) |->
                   {k \in Seq(T) : Range(k) = {seq[j] : j \in 1..i} \cap S}]
<1>1. Len(seq) \in Nat /\ \A i \in 1..Len(seq) : seq[i] \in T
  OBVIOUS
<1>2. <<>> \in I[0]
  BY <1>1 DEF Range
<1>3. \A i \in 1..Len(seq) : \A k \in I[i - 1] :
         KeepOp(S, 0, 0, 0, 0, k, seq[i]) \in I[i]
  <2> TAKE i \in 1..Len(seq)
  <2> TAKE k \in I[i - 1]
  <2>2. /\ i - 1 \in 0..Len(seq) /\ i \in 0..Len(seq)
        /\ {seq[j] : j \in 1..i} = {seq[j] : j \in 1..(i - 1)} \cup {seq[i]}
    BY <1>1
  <2>3. k \in Seq(T) /\ Range(k) = {seq[j] : j \in 1..(i - 1)} \cap S
    BY <2>2
  <2>4. /\ Append(k, seq[i]) \in Seq(T)
        /\ Range(Append(k, seq[i])) = Range(k) \cup {seq[i]}
    BY <1>1, <2>3, RangeOfAppend
  <2>5. QED BY <2>2, <2>3, <2>4 DEF KeepOp
<1>4. I[Len(seq)] = {k \in Seq(T) : Range(k) = Range(seq) \cap S}
  <2>1. {seq[j] : j \in 1..Len(seq)} = Range(seq)
    BY DEF Range
  <2>2. QED BY <1>1, <2>1
<1> HIDE DEF I
<1>5. KeepFold!Result(S, 0, 0, 0, 0, <<>>, seq) \in I[Len(seq)]
  BY <1>2, <1>3, KeepFold!FoldSteps
<1>6. QED BY <1>4, <1>5, KeepIsFold

LEMMA ConcatRange ==
  ASSUME NEW T, NEW seqs \in Seq(Seq(T))
  PROVE  /\ Concat(seqs) \in Seq(T)
         /\ Range(Concat(seqs)) = UNION {Range(seqs[i]) : i \in DOMAIN seqs}
<1> DEFINE I == [i \in 0..Len(seqs) |->
                   {k \in Seq(T) : Range(k) = UNION {Range(seqs[j]) : j \in 1..i}}]
<1>1. Len(seqs) \in Nat /\ DOMAIN seqs = 1..Len(seqs)
        /\ \A i \in 1..Len(seqs) : seqs[i] \in Seq(T)
  OBVIOUS
<1>2. <<>> \in I[0]
  BY <1>1 DEF Range
<1>3. \A i \in 1..Len(seqs) : \A k \in I[i - 1] :
         ConcatOp(0, 0, 0, 0, 0, k, seqs[i]) \in I[i]
  <2> TAKE i \in 1..Len(seqs)
  <2> TAKE k \in I[i - 1]
  <2>2. /\ i - 1 \in 0..Len(seqs) /\ i \in 0..Len(seqs)
        /\ \A j : j \in 1..i <=> (j \in 1..(i - 1) \/ j = i)
    BY <1>1
  <2>3. k \in Seq(T) /\ Range(k) = UNION {Range(seqs[j]) : j \in 1..(i - 1)}
    BY <2>2
  <2>4. k \o seqs[i] \in Seq(T) /\ Range(k \o seqs[i]) = Range(k) \cup Range(seqs[i])
    BY <1>1, <2>3, RangeOfConcat
  <2>5. UNION {Range(seqs[j]) : j \in 1..i}
          = (UNION {Range(seqs[j]) : j \in 1..(i - 1)}) \cup Range(seqs[i])
    BY <2>2
  <2>6. QED BY <2>2, <2>3, <2>4, <2>5 DEF ConcatOp
<1>4. I[Len(seqs)] = {k \in Seq(T) : Range(k) = UNION {Range(seqs[i]) : i \in DOMAIN seqs}}
  BY <1>1
<1> HIDE DEF I
<1>5. ConcatFold!Result(0, 0, 0, 0, 0, <<>>, seqs) \in I[Len(seqs)]
  BY <1>2, <1>3, ConcatFold!FoldSteps
<1>6. QED BY <1>4, <1>5, ConcatIsFold

LEMMA FirstOf ==
  ASSUME NEW T, NEW s \in Seq(T)
  PROVE  \/ First(s) = <<>> /\ Range(s) = {}
         \/ \E x \in Range(s) : First(s) = <<x>>
BY DEF First, Range

-----------------------------------------------------------------------------
(* What the searches of a package list return.                             *)

NewestOp(a, b, c, d, e, found, p) ==
  IF found = <<>> \/ Cmp(found[1], p) < 0 THEN <<p>> ELSE found
NewestFold == INSTANCE FoldProofs WITH Op <- NewestOp

LEMMA NewestIsFold ==
  \A list, name :
    Newest(list, name)
      = NewestFold!Result(0, 0, 0, 0, 0, <<>>, Named(list, name))
BY DEF Newest, NewestFold!Result, NewestOp, FoldLeft, MapThenFoldSet,
       NewestFold!FoldLeft, NewestFold!MapThenFoldSet, Max, NewestFold!Max

LEMMA NamedRange ==
  ASSUME NEW T, NEW list \in Seq(T), NEW name
  PROVE  /\ Named(list, name) \in Seq(T)
         /\ Range(Named(list, name)) = {p \in Range(list) : p.name = name}
BY KeepRange DEF Named

LEMMA NewestFound ==
  ASSUME NEW T, NEW list \in Seq(T), NEW name
  PROVE  \/ /\ Newest(list, name) = <<>>
            /\ \A p \in Range(list) : p.name # name
         \/ \E p \in Range(list) : p.name = name /\ Newest(list, name) = <<p>>
<1> DEFINE named == Named(list, name)
           I == [i \in 0..Len(named) |->
                   IF i = 0 THEN {<<>>} ELSE {<<p>> : p \in Range(named)}]
<1>1. named \in Seq(T) /\ Range(named) = {p \in Range(list) : p.name = name}
  BY NamedRange
<1> HIDE DEF named
<1>2. Len(named) \in Nat /\ \A i \in 1..Len(named) : named[i] \in Range(named)
  BY <1>1 DEF Range
<1>3. \A i \in 1..Len(named) : \A f \in I[i - 1] :
         NewestOp(0, 0, 0, 0, 0, f, named[i]) \in I[i]
  <2> TAKE i \in 1..Len(named)
  <2> TAKE f \in I[i - 1]
  <2>1. /\ i \in 0..Len(named) /\ i # 0 /\ i - 1 \in 0..Len(named)
        /\ named[i] \in Range(named)
    BY <1>2
  <2>2. f = <<>> \/ f \in {<<p>> : p \in Range(named)}
    BY <2>1
  <2>3. QED BY <2>1, <2>2 DEF NewestOp
<1>4. <<>> \in I[0]
  BY <1>2
<1>5. I[Len(named)] = IF Len(named) = 0 THEN {<<>>} ELSE {<<p>> : p \in Range(named)}
  BY <1>2
<1> HIDE DEF I
<1>6. NewestFold!Result(0, 0, 0, 0, 0, <<>>, named) \in I[Len(named)]
  BY <1>1, <1>3, <1>4, NewestFold!FoldSteps
<1>7. Newest(list, name) \in I[Len(named)]
  BY <1>6, NewestIsFold DEF named
<1>8. CASE Len(named) = 0
  BY <1>1, <1>5, <1>7, <1>8 DEF Range
<1>9. CASE Len(named) # 0
  BY <1>1, <1>5, <1>7, <1>9
<1>10. QED BY <1>8, <1>9

LEMMA ExactFound ==
  ASSUME NEW T, NEW list \in Seq(T), NEW name, NEW version
  PROVE  \/ /\ Exact(list, name, version) = <<>>
            /\ \A p \in Range(list) : ~(p.name = name /\ p.version = version)
         \/ \E p \in Range(list) :
               /\ p.name = name /\ p.version = version
               /\ Exact(list, name, version) = <<p>>
<1> DEFINE S == {p \in Range(list) : p.name = name /\ p.version = version}
<1>1. Keep(list, S) \in Seq(T) /\ Range(Keep(list, S)) = Range(list) \cap S
  BY KeepRange
<1>2. Exact(list, name, version) = First(Keep(list, S))
  BY DEF Exact
<1>3. QED BY <1>1, <1>2, FirstOf

LEMMA ResolveDepFound ==
  ASSUME NEW T, NEW installed \in Seq(T), NEW available \in Seq(T), NEW d
  PROVE  \/ ResolveDep(d, installed, available) = <<>>
         \/ \E p \in Range(installed) \cup Range(available) :
               p.name = d.name /\ ResolveDep(d, installed, available) = <<p>>
<1> DEFINE newest(list) == Newest(list, d.name)
           inst == Accepted(newest(installed), InstalledOps, d)
           candidates == newest(available) \o Named(available, d.name)
           avail == Accepted(candidates, AvailOps, d)
           U == {p \in Range(installed) \cup Range(available) : p.name = d.name}
<1>1. newest(installed) \in Seq(U) /\ newest(available) \in Seq(U)
  <2>1. \A p \in U : <<p>> \in Seq(U)
    OBVIOUS
  <2>2. newest(installed) = <<>> \/ \E p \in U : newest(installed) = <<p>>
    BY NewestFound
  <2>3. newest(available) = <<>> \/ \E p \in U : newest(available) = <<p>>
    BY NewestFound
  <2>4. <<>> \in Seq(U)
    OBVIOUS
  <2> HIDE DEF newest, U
  <2>5. QED BY <2>1, <2>2, <2>3, <2>4
<1>2. Named(available, d.name) \in Seq(U)
  BY NamedRange, RangeType
<1>3. candidates \in Seq(U)
  BY <1>1, <1>2, RangeOfConcat
<1>4. inst \in Seq(U) /\ avail \in Seq(U)
  <2> HIDE DEF candidates
  <2>1. QED BY <1>1, <1>3, KeepRange DEF Accepted
<1>5. ResolveDep(d, installed, available) = First(inst \o avail)
  BY DEF ResolveDep
<1>6. inst \o avail \in Seq(U)
  BY <1>4, RangeOfConcat
<1> HIDE DEF inst, avail
<1>7. Range(inst \o avail) \subseteq U
  BY <1>6, RangeType
<1>8. QED BY <1>5, <1>6, <1>7, FirstOf

\* Installed packages.
Logged == {p \in Package : p.installed /\ p.priority = 0}

LEMMA LogCmp ==
  ASSUME NEW p \in Logged, NEW q \in Logged
  PROVE  Cmp(p, q) = CmpVersions(p.version, q.version)
BY DEF Cmp, CmpVersions, Logged, Package, Version

LEMMA LogOrder ==
  ASSUME NEW p \in Logged, NEW q \in Logged, NEW r \in Logged
  PROVE  /\ Cmp(p, q) <= 0 \/ Cmp(q, p) < 0
         /\ Cmp(p, q) < 0 => Cmp(p, q) <= 0
         /\ Cmp(p, p) = 0
         /\ Cmp(p, q) <= 0 /\ Cmp(q, r) <= 0 => Cmp(p, r) <= 0
         /\ Cmp(p, q) >= 0 <=> Cmp(q, p) <= 0
<1>1. p.version.num \in Int /\ q.version.num \in Int /\ r.version.num \in Int
  BY DEF Logged, Package, Version
<1>2. QED BY <1>1, LogCmp DEF CmpVersions

\* slapt_get_newest_pkg: no installed package of that name is later.
THEOREM NewestIsLatest ==
  ASSUME NEW list \in Seq(Logged), NEW name, NEW p, Newest(list, name) = <<p>>
  PROVE  \A q \in Range(list) : q.name = name => Cmp(q, p) <= 0
<1> DEFINE named == Named(list, name)
           Tops(i) == {q \in Logged : \A j \in 1..i : Cmp(named[j], q) <= 0}
           I == [i \in 0..Len(named) |->
                   IF i = 0 THEN {<<>>} ELSE {<<q>> : q \in Tops(i)}]
<1>1. named \in Seq(Logged) /\ Range(named) = {q \in Range(list) : q.name = name}
  BY NamedRange
<1> HIDE DEF named
<1>2. Len(named) \in Nat /\ \A i \in 1..Len(named) : named[i] \in Logged
  BY <1>1
<1>3. \A i \in 1..Len(named) : \A f \in I[i - 1] :
         NewestOp(0, 0, 0, 0, 0, f, named[i]) \in I[i]
  <2> TAKE i \in 1..Len(named)
  <2> TAKE f \in I[i - 1]
  <2>1. /\ i \in 0..Len(named) /\ i # 0 /\ i - 1 \in 0..Len(named)
        /\ \A j : j \in 1..i <=> (j \in 1..(i - 1) \/ j = i)
        /\ named[i] \in Logged /\ \A j \in 1..i : named[j] \in Logged
    BY <1>2
  <2>2. CASE i - 1 = 0
    <3>1. f = <<>>
      BY <2>1, <2>2
    <3>2. named[i] \in Tops(i)
      BY <2>1, <2>2, LogOrder
    <3>3. QED BY <2>1, <3>1, <3>2 DEF NewestOp
  <2>3. CASE i - 1 # 0
    <3>1. PICK q \in Tops(i - 1) : f = <<q>>
      BY <2>1, <2>3
    <3>2. CASE Cmp(q, named[i]) < 0
      <4>1. named[i] \in Tops(i)
        BY <2>1, <3>2, LogOrder
      <4>2. NewestOp(0, 0, 0, 0, 0, f, named[i]) = <<named[i]>>
        BY <3>1, <3>2 DEF NewestOp
      <4>3. QED BY <2>1, <4>1, <4>2
    <3>3. CASE ~(Cmp(q, named[i]) < 0)
      <4>1. q \in Tops(i)
        BY <2>1, <3>3, LogOrder
      <4>2. NewestOp(0, 0, 0, 0, 0, f, named[i]) = <<q>>
        BY <3>1, <3>3 DEF NewestOp
      <4>3. QED BY <2>1, <4>1, <4>2
    <3>4. QED BY <3>2, <3>3
  <2>4. QED BY <2>2, <2>3
<1>4. <<>> \in I[0]
  BY <1>2
<1>5. I[Len(named)] = IF Len(named) = 0 THEN {<<>>} ELSE {<<q>> : q \in Tops(Len(named))}
  BY <1>2
<1> HIDE DEF I
<1>6. NewestFold!Result(0, 0, 0, 0, 0, <<>>, named) \in I[Len(named)]
  BY <1>1, <1>3, <1>4, NewestFold!FoldSteps
<1>7. <<p>> \in I[Len(named)]
  BY <1>6, NewestIsFold DEF named
<1>8. PICK q \in Tops(Len(named)) : <<p>> = <<q>>
  BY <1>5, <1>7
<1>9. \A x \in Range(named) : Cmp(x, p) <= 0
  BY <1>8 DEF Range
<1>10. QED BY <1>1, <1>9

-----------------------------------------------------------------------------
(* Dependencies.  nested collects what a package requires, n packages      *)
(* deep: that is deep enough for a collection that less than n available   *)
(* packages have no namesake in.                                           *)

Offered == {p \in Package : ~p.installed}
ListsRead(w) == w.installed \in Seq(Logged) /\ w.avail \in Seq(Offered)

Present(w, deps, name) ==
  \E p \in Range(w.installed) \cup Range(deps) : p.name = name

\* An alternative of the declaration is installed or among deps.
Met(w, deps, decl) == \E i \in DOMAIN decl : Present(w, deps, decl[i].name)
AllMet(w, deps, pkg) == \A i \in DOMAIN pkg.depends : Met(w, deps, pkg.depends[i])

\* From s to r nothing is lost, nothing excluded is added ...
Collects(w, s, r) ==
  /\ r \in Collection(w)
  /\ Range(s.deps) \subseteq Range(r.deps)
  /\ \A d \in Range(r.deps) \ Range(s.deps) : ~Forbidden(w, d)

\* ... and, if there was no error, what is added has what it requires.
Closes(w, s, r) ==
  r.rv = 0 => \A d \in Range(r.deps) \ Range(s.deps) : AllMet(w, r.deps, d)

Unnamed(w, s) ==
  {p \in Range(w.avail) : \A q \in Range(s.deps) : q.name # p.name}

Calls(w) == Range(w.avail) \X Collection(w)

Deep(w, nested, n) ==
  /\ nested \in [Calls(w) -> Collection(w)]
  /\ \A dep \in Range(w.avail), s \in Collection(w) :
       LET r == nested[dep, s]
       IN  s.rv = 0 => /\ Collects(w, s, r)
                       /\ Cardinality(Unnamed(w, s)) < n =>
                            /\ Closes(w, s, r)
                            /\ r.rv = 0 => AllMet(w, r.deps, dep)

LEMMA ListsReadTypes ==
  ASSUME NEW w, ListsRead(w)
  PROVE  /\ \A p \in Range(w.installed) : p.installed /\ p \in Package
         /\ \A p \in Range(w.avail) : ~p.installed /\ p \in Package
BY RangeType DEF ListsRead, Logged, Offered

LEMMA CollectedIsNamed ==
  ASSUME NEW w, NEW s \in Collection(w), NEW dep
  PROVE  Collected(s, dep) <=> \E q \in Range(s.deps) : q.name = dep.name
<1>1. s.deps \in Seq(Range(w.avail))
  BY DEF Collection
<1>2. \A p : <<p>> # <<>>
  OBVIOUS
<1>3. \/ /\ Newest(s.deps, dep.name) = <<>>
         /\ \A p \in Range(s.deps) : p.name # dep.name
      \/ \E p \in Range(s.deps) :
           p.name = dep.name /\ Newest(s.deps, dep.name) = <<p>>
  BY <1>1, NewestFound
<1>4. QED BY <1>2, <1>3 DEF Collected

LEMMA UnnamedFinite ==
  ASSUME NEW w, ListsRead(w), NEW s \in Collection(w)
  PROVE  /\ IsFiniteSet(Unnamed(w, s))
         /\ Cardinality(Unnamed(w, s)) \in Nat
         /\ Cardinality(Unnamed(w, s)) <= Len(w.avail)
<1>1. w.avail \in Seq(Offered) /\ Len(w.avail) \in Nat
  BY DEF ListsRead
<1>2. IsFiniteSet(1..Len(w.avail)) /\ Cardinality(1..Len(w.avail)) = Len(w.avail)
  <2>1. PICK n \in Nat : n = Len(w.avail)
    BY <1>1
  <2>2. IsFiniteSet(1..n) /\ Cardinality(1..n) = IF 1 > n THEN 0 ELSE n - 1 + 1
    <3>1. 1 \in Int /\ n \in Int
      OBVIOUS
    <3>2. QED BY <3>1, FS_Interval
  <2>3. Cardinality(1..n) = n
    BY <2>2
  <2>4. QED BY <2>1, <2>2, <2>3
<1>3. w.avail \in Surjection(1..Len(w.avail), Range(w.avail))
  <2>1. DOMAIN w.avail = 1..Len(w.avail)
    BY <1>1
  <2>2. w.avail \in [1..Len(w.avail) -> Range(w.avail)]
    BY <1>1, <2>1 DEF Range
  <2>3. QED BY <2>1, <2>2 DEF Surjection, Range
<1>4. /\ IsFiniteSet(Range(w.avail))
      /\ Cardinality(Range(w.avail)) <= Len(w.avail)
  BY <1>2, <1>3, FS_Surjection
<1>5. Unnamed(w, s) \in SUBSET Range(w.avail)
  BY DEF Unnamed
<1>6. /\ IsFiniteSet(Unnamed(w, s))
      /\ Cardinality(Unnamed(w, s)) <= Cardinality(Range(w.avail))
  BY <1>4, <1>5, FS_Subset
<1>7. /\ Cardinality(Unnamed(w, s)) \in Nat
      /\ Cardinality(Range(w.avail)) \in Nat
  BY <1>4, <1>6, FS_CardinalityType
<1>8. QED BY <1>1, <1>4, <1>6, <1>7

LEMMA UnnamedShrinks ==
  ASSUME NEW w, ListsRead(w), NEW s \in Collection(w), NEW r \in Collection(w),
         Range(s.deps) \subseteq Range(r.deps)
  PROVE  /\ Cardinality(Unnamed(w, r)) <= Cardinality(Unnamed(w, s))
         /\ \A dep \in Range(w.avail) :
              dep \in Range(r.deps) /\ ~Collected(s, dep)
                => Cardinality(Unnamed(w, r)) < Cardinality(Unnamed(w, s))
<1>1. Unnamed(w, r) \in SUBSET Unnamed(w, s)
  BY DEF Unnamed
<1>2. /\ IsFiniteSet(Unnamed(w, s)) /\ IsFiniteSet(Unnamed(w, r))
      /\ Cardinality(Unnamed(w, s)) \in Nat /\ Cardinality(Unnamed(w, r)) \in Nat
  BY UnnamedFinite
<1>3. /\ Cardinality(Unnamed(w, r)) <= Cardinality(Unnamed(w, s))
      /\ Cardinality(Unnamed(w, r)) = Cardinality(Unnamed(w, s))
           => Unnamed(w, r) = Unnamed(w, s)
  BY <1>1, <1>2, FS_Subset
<1>4. ASSUME NEW dep \in Range(w.avail), dep \in Range(r.deps), ~Collected(s, dep)
      PROVE  Unnamed(w, r) # Unnamed(w, s)
  BY <1>4, CollectedIsNamed DEF Unnamed
<1>5. QED BY <1>2, <1>3, <1>4

LEMMA MetGrows ==
  ASSUME NEW w, NEW deps, NEW more, Range(deps) \subseteq Range(more)
  PROVE  /\ \A decl : Met(w, deps, decl) => Met(w, more, decl)
         /\ \A pkg : AllMet(w, deps, pkg) => AllMet(w, more, pkg)
BY DEF AllMet, Met, Present

LEMMA CollectsItself ==
  ASSUME NEW w, NEW s \in Collection(w)
  PROVE  Collects(w, s, s) /\ Closes(w, s, s)
BY DEF Collects, Closes

LEMMA NeedIs ==
  ASSUME NEW nested, NEW dep, NEW s
  PROVE  LET r == nested[dep, [s EXCEPT !.deps = Append(@, dep)]]
         IN  Need(nested, dep, s) =
               IF dep.installed THEN s
               ELSE IF r.rv # 0 THEN r
               ELSE [r EXCEPT !.deps = Append(Keep(@, Range(@) \ {dep}), dep)]
<1> DEFINE r == nested[dep, [s EXCEPT !.deps = Append(@, dep)]]
           last(x) == IF x.rv # 0 THEN x
                      ELSE [x EXCEPT !.deps = Append(Keep(@, Range(@) \ {dep}), dep)]
<1>1. Need(nested, dep, s)
        = IF dep.installed THEN s ELSE CHOOSE x \in {last(v) : v \in {r}} : TRUE
  BY DEF Need, With
<1> HIDE DEF r, last
<1>2. {last(v) : v \in {r}} = {last(r)}
  OBVIOUS
<1>3. Need(nested, dep, s) = IF dep.installed THEN s ELSE last(r)
  BY <1>1, <1>2
<1>4. QED BY <1>3 DEF r, last

LEMMA NeedCollects ==
  ASSUME NEW w, ListsRead(w), NEW n \in Nat, NEW nested, Deep(w, nested, n),
         NEW s \in Collection(w), s.rv = 0,
         NEW dep \in Range(w.installed) \cup Range(w.avail),
         ~Forbidden(w, dep), dep.installed \/ ~Collected(s, dep)
  PROVE  LET r == Need(nested, dep, s)
         IN  /\ Collects(w, s, r)
             /\ Cardinality(Unnamed(w, s)) <= n => Closes(w, s, r)
             /\ r.rv = 0 => Present(w, r.deps, dep.name)
<1>1. CASE dep.installed
  <2>1. dep \in Range(w.installed)
    BY <1>1, ListsReadTypes
  <2>2. Need(nested, dep, s) = s
    BY <1>1, NeedIs
  <2>3. QED BY <2>1, <2>2, CollectsItself DEF Present
<1>2. CASE ~dep.installed
  <2> DEFINE s1 == [s EXCEPT !.deps = Append(@, dep)]
             r1 == nested[dep, s1]
             deps == Append(Keep(r1.deps, Range(r1.deps) \ {dep}), dep)
             r == Need(nested, dep, s)
  <2>1. dep \in Range(w.avail)
    BY <1>2, ListsReadTypes
  <2>2. /\ s1 \in Collection(w) /\ s1.rv = 0
        /\ Range(s1.deps) = Range(s.deps) \cup {dep}
    <3>1. /\ Append(s.deps, dep) \in Seq(Range(w.avail))
          /\ Range(Append(s.deps, dep)) = Range(s.deps) \cup {dep}
      BY <2>1, RangeOfAppend DEF Collection
    <3>2. QED BY <3>1 DEF Collection
  <2>3. Collects(w, s1, r1)
    BY <2>1, <2>2 DEF Deep
  <2>4. /\ r1 \in Collection(w) /\ dep \in Range(r1.deps)
        /\ Range(s.deps) \subseteq Range(r1.deps)
    BY <2>2, <2>3 DEF Collects
  <2>5. Cardinality(Unnamed(w, s)) <= n =>
          /\ Closes(w, s1, r1)
          /\ r1.rv = 0 => AllMet(w, r1.deps, dep)
    <3>1. Cardinality(Unnamed(w, s1)) < Cardinality(Unnamed(w, s))
      BY <1>2, <2>1, <2>2, UnnamedShrinks
    <3>2. /\ Cardinality(Unnamed(w, s1)) \in Nat
          /\ Cardinality(Unnamed(w, s)) \in Nat
      BY <2>2, UnnamedFinite
    <3>3. Cardinality(Unnamed(w, s)) <= n => Cardinality(Unnamed(w, s1)) < n
      BY <3>1, <3>2
    <3> HIDE DEF s1
    <3>4. QED BY <2>1, <2>2, <3>3 DEF Deep
  <2>6. deps \in Seq(Range(w.avail)) /\ Range(deps) = Range(r1.deps)
    <3>1. /\ Keep(r1.deps, Range(r1.deps) \ {dep}) \in Seq(Range(w.avail))
          /\ Range(Keep(r1.deps, Range(r1.deps) \ {dep})) = Range(r1.deps) \ {dep}
      <4>1. r1.deps \in Seq(Range(w.avail))
        BY <2>4 DEF Collection
      <4> HIDE DEF r1
      <4>2. QED BY <4>1, KeepRange
    <3> HIDE DEF r1
    <3>2. \A k \in Seq(Range(w.avail)) :
             /\ Append(k, dep) \in Seq(Range(w.avail))
             /\ Range(Append(k, dep)) = Range(k) \cup {dep}
      BY <2>1, RangeOfAppend
    <3>3. (Range(r1.deps) \ {dep}) \cup {dep} = Range(r1.deps)
      BY <2>4
    <3> DEFINE k == Keep(r1.deps, Range(r1.deps) \ {dep})
    <3>4. k \in Seq(Range(w.avail)) /\ Range(k) \cup {dep} = Range(r1.deps)
      BY <3>1, <3>3
    <3> HIDE DEF k
    <3>5. QED BY <3>2, <3>4 DEF k
  <2>7. r = IF r1.rv # 0 THEN r1 ELSE [r1 EXCEPT !.deps = deps]
    BY <1>2, NeedIs
  <2>8. r \in Collection(w) /\ r.rv = r1.rv /\ Range(r.deps) = Range(r1.deps)
    <3> HIDE DEF r, r1, deps
    <3>1. QED BY <2>4, <2>6, <2>7 DEF Collection
  <2> HIDE DEF r, r1, deps, s1
  <2>9. Collects(w, s, r)
    BY <2>2, <2>3, <2>4, <2>8 DEF Collects
  <2>10. ASSUME Cardinality(Unnamed(w, s)) <= n, r.rv = 0
         PROVE  \A d \in Range(r.deps) \ Range(s.deps) : AllMet(w, r.deps, d)
    <3>1. \A d \in (Range(r1.deps) \ Range(s1.deps)) \cup {dep} : AllMet(w, r1.deps, d)
      BY <2>5, <2>8, <2>10 DEF Closes
    <3>2. \A d : AllMet(w, r1.deps, d) => AllMet(w, r.deps, d)
      BY <2>8, MetGrows
    <3>3. QED BY <2>2, <2>8, <3>1, <3>2
  <2>11. Present(w, r.deps, dep.name)
    BY <2>4, <2>8 DEF Present
  <2>12. QED BY <2>9, <2>10, <2>11 DEF r, Closes
<1>3. QED BY <1>1, <1>2

\* What one declaration does.
DeclarationGoal(w, n, decl, s, r) ==
  /\ Collects(w, s, r)
  /\ Cardinality(Unnamed(w, s)) <= n => Closes(w, s, r)
  /\ r.rv = 0 => s.rv = 0 /\ Met(w, r.deps, decl)

LEMMA FailedGoal ==
  ASSUME NEW w, NEW n, NEW decl, NEW s \in Collection(w), NEW r \in Collection(w),
         r.deps = s.deps, r.rv = -1
  PROVE  DeclarationGoal(w, n, decl, s, r)
BY DEF DeclarationGoal, Collects, Closes

LEMMA MissingFails ==
  ASSUME NEW w, NEW n, NEW decl, NEW s \in Collection(w), NEW pkg \in Package,
         NEW alts \in Seq(Dependency)
  PROVE  DeclarationGoal(w, n, decl, s, Missing(s, pkg, alts))
<1> DEFINE notes == [i \in DOMAIN alts |-> [pkg |-> pkg.name, error |-> alts[i].name]]
           r == Missing(s, pkg, alts)
<1>1. notes \in Seq(Note)
  <2>1. \A i \in DOMAIN alts : notes[i] \in Note
    <3> TAKE i \in DOMAIN alts
    <3>1. alts[i] \in Dependency
      OBVIOUS
    <3>2. alts[i].name \in STRING /\ pkg.name \in STRING
      BY <3>1 DEF Package, Dependency
    <3>3. QED BY <3>2 DEF Note
  <2>2. DOMAIN alts = 1..Len(alts) /\ Len(alts) \in Nat
    OBVIOUS
  <2>3. QED BY <2>1, <2>2
<1>2. s.missing \o notes \in Seq(Note)
  <2> HIDE DEF notes
  <2>1. QED BY <1>1 DEF Collection
<1>3. r = [s EXCEPT !.rv = -1, !.missing = @ \o notes]
  BY DEF Missing
<1> HIDE DEF notes, r
<1>4. r \in Collection(w) /\ r.deps = s.deps /\ r.rv = -1
  BY <1>2, <1>3 DEF Collection
<1>5. DeclarationGoal(w, n, decl, s, r)
  BY <1>4, FailedGoal
<1>6. QED BY <1>5 DEF r

LEMMA RejectedFails ==
  ASSUME NEW w, NEW n, NEW decl, NEW s \in Collection(w), NEW pkg \in Package,
         NEW dep \in Package
  PROVE  DeclarationGoal(w, n, decl, s, Rejected(s, pkg, dep))
<1> DEFINE note == [pkg |-> pkg.name, error |-> dep.name]
           r == Rejected(s, pkg, dep)
<1>1. note \in Note
  BY DEF Note, Package
<1>2. r = [s EXCEPT !.rv = -1, !.conflict = Append(@, note)]
  BY DEF Rejected
<1> HIDE DEF note, r
<1>3. Append(s.conflict, note) \in Seq(Note)
  BY <1>1 DEF Collection
<1>4. r \in Collection(w) /\ r.deps = s.deps /\ r.rv = -1
  BY <1>2, <1>3 DEF Collection
<1>5. DeclarationGoal(w, n, decl, s, r)
  BY <1>4, FailedGoal
<1>6. QED BY <1>5 DEF r

\* Whatever is found for d: nothing, or a package of that name.
FoundFor(w, d, found) ==
  found = <<>> \/ \E p \in Range(w.installed) \cup Range(w.avail) :
                     p.name = d.name /\ found = <<p>>

LEMMA ResolvedIsFound ==
  ASSUME NEW w, ListsRead(w), NEW d
  PROVE  /\ FoundFor(w, d, ResolveDep(d, w.installed, w.avail))
         /\ FoundFor(w, d, ResolveDep(d, <<>>, w.avail))
         /\ ResolveDep(d, w.installed, <<>>) # <<>>
              => \E p \in Range(w.installed) : p.name = d.name
<1>1. /\ w.installed \in Seq(Package) /\ w.avail \in Seq(Package)
      /\ <<>> \in Seq(Package) /\ Range(<<>>) = {}
  BY RangeOfOne DEF ListsRead, Logged, Offered
<1>2. \A inst, avail \in Seq(Package) :
        \/ ResolveDep(d, inst, avail) = <<>>
        \/ \E p \in Range(inst) \cup Range(avail) :
              p.name = d.name /\ ResolveDep(d, inst, avail) = <<p>>
  BY ResolveDepFound
<1>3. FoundFor(w, d, ResolveDep(d, w.installed, w.avail))
  BY <1>1, <1>2 DEF FoundFor
<1>4. FoundFor(w, d, ResolveDep(d, <<>>, w.avail))
  BY <1>1, <1>2, Zenon DEF FoundFor
<1>5. \/ ResolveDep(d, w.installed, <<>>) = <<>>
      \/ \E p \in Range(w.installed) : p.name = d.name
  <2>1. \/ ResolveDep(d, w.installed, <<>>) = <<>>
        \/ \E p \in Range(w.installed) \cup Range(<<>>) : p.name = d.name
    BY <1>1, <1>2, Zenon
  <2>2. Range(w.installed) \cup Range(<<>>) = Range(w.installed)
    BY <1>1
  <2>3. QED BY <2>1, <2>2
<1>6. QED BY <1>3, <1>4, <1>5

LEMMA CollectedIsPresent ==
  ASSUME NEW w, NEW s \in Collection(w), NEW dep, Collected(s, dep)
  PROVE  Present(w, s.deps, dep.name)
BY CollectedIsNamed DEF Present

LEMMA TakeCollects ==
  ASSUME NEW w, ListsRead(w), NEW n \in Nat, NEW nested, Deep(w, nested, n),
         NEW s \in Collection(w), s.rv = 0, NEW pkg \in Package,
         NEW decl \in Seq(Dependency), decl # <<>>,
         NEW found, FoundFor(w, decl[1], found)
  PROVE  DeclarationGoal(w, n, decl, s, Take(w, nested, pkg, decl[1], found, s))
<1> DEFINE r == Take(w, nested, pkg, decl[1], found, s)
<1>1. 1 \in DOMAIN decl /\ <<decl[1]>> \in Seq(Dependency)
  OBVIOUS
<1>2. \A deps : Present(w, deps, decl[1].name) => Met(w, deps, decl)
  BY <1>1 DEF Met
<1>3. CASE found = <<>>
  <2>1. r = Missing(s, pkg, <<decl[1]>>)
    BY <1>3 DEF Take
  <2>2. QED BY <1>1, <2>1, MissingFails
<1>4. ASSUME NEW p \in Range(w.installed) \cup Range(w.avail),
             p.name = decl[1].name, found = <<p>>
      PROVE  DeclarationGoal(w, n, decl, s, r)
  <2>1. found # <<>> /\ found[1] = p /\ p \in Package
    BY <1>4, ListsReadTypes
  <2>2. CASE Forbidden(w, p)
    <3>1. r = Rejected(s, pkg, p)
      BY <2>1, <2>2 DEF Take
    <3>2. QED BY <2>1, <3>1, RejectedFails
  <2>3. CASE ~Forbidden(w, p) /\ Collected(s, p)
    <3>1. r = s
      BY <2>1, <2>3 DEF Take
    <3>2. Met(w, s.deps, decl)
      BY <1>2, <1>4, <2>3, CollectedIsPresent
    <3>3. QED BY <3>1, <3>2, CollectsItself DEF DeclarationGoal
  <2>4. CASE ~Forbidden(w, p) /\ ~Collected(s, p)
    <3>1. r = Need(nested, p, s)
      BY <2>1, <2>4 DEF Take
    <3> HIDE DEF r
    <3>2. /\ Collects(w, s, r)
          /\ Cardinality(Unnamed(w, s)) <= n => Closes(w, s, r)
          /\ r.rv = 0 => Present(w, r.deps, p.name)
      BY <2>4, <3>1, NeedCollects
    <3>3. QED BY <1>2, <1>4, <3>2 DEF DeclarationGoal
  <2>5. QED BY <2>2, <2>3, <2>4
<1>5. QED BY <1>3, <1>4 DEF FoundFor

LEMMA TryAlternativesCollects ==
  ASSUME NEW w, ListsRead(w), NEW n \in Nat, NEW nested, Deep(w, nested, n),
         NEW s \in Collection(w), s.rv = 0, NEW pkg \in Package,
         NEW decl \in Seq(Dependency), decl # <<>>,
         NEW found, \A i \in DOMAIN decl : FoundFor(w, decl[i], found[i])
  PROVE  DeclarationGoal(w, n, decl, s, TryAlternatives(w, nested, pkg, decl, found, s))
<1> DEFINE r == TryAlternatives(w, nested, pkg, decl, found, s)
           ends == {i \in DOMAIN decl :
                      /\ found[i] # <<>>
                      /\ Forbidden(w, found[i][1]) \/ ~Collected(s, found[i][1])}
           dep == found[Min(ends)][1]
<1>1. DOMAIN decl = 1..Len(decl) /\ Len(decl) \in DOMAIN decl
  OBVIOUS
<1>2. \A deps : \A i \in DOMAIN decl :
         Present(w, deps, decl[i].name) => Met(w, deps, decl)
  BY DEF Met
<1>3. \A i \in DOMAIN decl : found[i] # <<>> =>
         /\ found[i][1] \in Range(w.installed) \cup Range(w.avail)
         /\ found[i][1] \in Package
         /\ found[i][1].name = decl[i].name
  BY ListsReadTypes DEF FoundFor
<1>4. CASE ends = {} /\ found[Len(decl)] = <<>>
  <2>1. r = Missing(s, pkg, decl)
    BY <1>4 DEF TryAlternatives
  <2>2. QED BY <2>1, MissingFails
<1>5. CASE ends = {} /\ found[Len(decl)] # <<>>
  <2>1. r = s
    BY <1>5 DEF TryAlternatives
  <2>2. Collected(s, found[Len(decl)][1])
    BY <1>1, <1>5
  <2>3. Met(w, s.deps, decl)
    <3>1. Present(w, s.deps, found[Len(decl)][1].name)
      BY <2>2, CollectedIsPresent
    <3>2. QED BY <1>1, <1>2, <1>3, <1>5, <3>1
  <2>4. QED BY <2>1, <2>3, CollectsItself DEF DeclarationGoal
<1>6. CASE ends # {}
  <2>1. Min(ends) \in ends
    <3>1. ends \subseteq Nat
      BY <1>1
    <3> HIDE DEF ends
    <3>2. \E m \in ends : \A k \in ends : m <= k
      BY <1>6, <3>1, KeepFold!LeastNat
    <3>3. QED BY <3>2 DEF Min
  <2>2. /\ dep \in Range(w.installed) \cup Range(w.avail)
        /\ dep \in Package
        /\ Min(ends) \in DOMAIN decl
        /\ dep.name = decl[Min(ends)].name
        /\ Forbidden(w, dep) \/ ~Collected(s, dep)
    BY <1>3, <2>1
  <2>3. CASE Forbidden(w, dep)
    <3>1. r = Rejected(s, pkg, dep)
      BY <1>6, <2>3 DEF TryAlternatives
    <3> HIDE DEF dep
    <3>2. QED BY <2>2, <3>1, RejectedFails
  <2>4. CASE ~Forbidden(w, dep)
    <3>1. r = Need(nested, dep, s)
      BY <1>6, <2>4 DEF TryAlternatives
    <3> HIDE DEF r, dep
    <3>2. /\ Collects(w, s, r)
          /\ Cardinality(Unnamed(w, s)) <= n => Closes(w, s, r)
          /\ r.rv = 0 => Present(w, r.deps, dep.name)
      BY <2>2, <2>4, <3>1, NeedCollects
    <3>3. DeclarationGoal(w, n, decl, s, r)
      BY <1>2, <2>2, <3>2 DEF DeclarationGoal
    <3>4. QED BY <3>3 DEF r
  <2>5. QED BY <2>3, <2>4
<1>7. QED BY <1>4, <1>5, <1>6

LEMMA DeclarationIs ==
  ASSUME NEW w, NEW nested, NEW pkg, NEW decl, NEW s
  PROVE  Declaration(w, nested, pkg, decl, s) =
           CASE s.rv # 0 -> s
             [] s.rv = 0 /\ ~IsOr(decl) ->
                  Take(w, nested, pkg, decl[1],
                       ResolveDep(decl[1], w.installed, w.avail), s)
             [] OTHER ->
                  IF \E i \in DOMAIN decl : ResolveDep(decl[i], w.installed, <<>>) # <<>>
                  THEN s
                  ELSE TryAlternatives(w, nested, pkg, decl,
                         [i \in DOMAIN decl |-> ResolveDep(decl[i], <<>>, w.avail)], s)
<1> DEFINE one(f) == Take(w, nested, pkg, decl[1], f, s)
           any(f) == TryAlternatives(w, nested, pkg, decl, f, s)
           e == ResolveDep(decl[1], w.installed, w.avail)
           f == [i \in DOMAIN decl |-> ResolveDep(decl[i], <<>>, w.avail)]
<1>1. Declaration(w, nested, pkg, decl, s) =
        CASE s.rv # 0 -> s
          [] s.rv = 0 /\ ~IsOr(decl) -> CHOOSE r \in {one(v) : v \in {e}} : TRUE
          [] OTHER ->
               IF \E i \in DOMAIN decl : ResolveDep(decl[i], w.installed, <<>>) # <<>>
               THEN s
               ELSE CHOOSE r \in {any(v) : v \in {f}} : TRUE
  BY DEF Declaration, With
<1> HIDE DEF one, any, e, f
<1>2. {one(v) : v \in {e}} = {one(e)} /\ {any(v) : v \in {f}} = {any(f)}
  OBVIOUS
<1>3. /\ (CHOOSE r \in {one(v) : v \in {e}} : TRUE) = one(e)
      /\ (CHOOSE r \in {any(v) : v \in {f}} : TRUE) = any(f)
  BY <1>2
<1>4. Declaration(w, nested, pkg, decl, s) =
        CASE s.rv # 0 -> s
          [] s.rv = 0 /\ ~IsOr(decl) -> one(e)
          [] OTHER ->
               IF \E i \in DOMAIN decl : ResolveDep(decl[i], w.installed, <<>>) # <<>>
               THEN s
               ELSE any(f)
  BY <1>1, <1>3
<1>5. QED BY <1>4 DEF one, any, e, f

LEMMA DeclarationCollects ==
  ASSUME NEW w, ListsRead(w), NEW n \in Nat, NEW nested, Deep(w, nested, n),
         NEW s \in Collection(w), NEW pkg \in Package,
         NEW decl \in Seq(Dependency), decl # <<>>
  PROVE  DeclarationGoal(w, n, decl, s, Declaration(w, nested, pkg, decl, s))
<1> DEFINE r == Declaration(w, nested, pkg, decl, s)
           found == [i \in DOMAIN decl |-> ResolveDep(decl[i], <<>>, w.avail)]
<1>1. CASE s.rv # 0
  <2>1. r = s
    BY <1>1, DeclarationIs
  <2>2. QED BY <1>1, <2>1, CollectsItself DEF DeclarationGoal
<1>2. CASE s.rv = 0 /\ ~IsOr(decl)
  <2>1. r = Take(w, nested, pkg, decl[1], ResolveDep(decl[1], w.installed, w.avail), s)
    BY <1>2, DeclarationIs
  <2>2. FoundFor(w, decl[1], ResolveDep(decl[1], w.installed, w.avail))
    BY ResolvedIsFound
  <2>3. QED BY <1>2, <2>1, <2>2, TakeCollects
<1>3. CASE s.rv = 0 /\ IsOr(decl)
  <2>1. CASE \E i \in DOMAIN decl : ResolveDep(decl[i], w.installed, <<>>) # <<>>
    <3>1. r = s
      BY <1>3, <2>1, DeclarationIs
    <3>2. Met(w, s.deps, decl)
      BY <2>1, ResolvedIsFound DEF Met, Present
    <3>3. QED BY <1>3, <3>1, <3>2, CollectsItself DEF DeclarationGoal
  <2>2. CASE ~\E i \in DOMAIN decl : ResolveDep(decl[i], w.installed, <<>>) # <<>>
    <3>1. r = TryAlternatives(w, nested, pkg, decl, found, s)
      BY <1>3, <2>2, DeclarationIs
    <3>2. \A i \in DOMAIN decl : FoundFor(w, decl[i], found[i])
      BY ResolvedIsFound
    <3> HIDE DEF found
    <3>3. QED BY <1>3, <3>1, <3>2, TryAlternativesCollects
  <2>3. QED BY <2>1, <2>2
<1>4. s.rv = 0 \/ s.rv # 0
  OBVIOUS
<1>5. QED BY <1>1, <1>2, <1>3, <1>4

LEMMA CollectsFurther ==
  ASSUME NEW w, NEW s, NEW r, NEW t, Collects(w, s, r), Collects(w, r, t)
  PROVE  /\ Collects(w, s, t)
         /\ Closes(w, s, r) /\ Closes(w, r, t) /\ (t.rv = 0 => r.rv = 0)
              => Closes(w, s, t)
<1>1. Collects(w, s, t)
  BY DEF Collects
<1>2. ASSUME Closes(w, s, r), Closes(w, r, t), t.rv = 0, r.rv = 0,
             NEW d \in Range(t.deps) \ Range(s.deps)
      PROVE  AllMet(w, t.deps, d)
  <2>1. Range(r.deps) \subseteq Range(t.deps)
    BY DEF Collects
  <2>2. CASE d \in Range(r.deps)
    BY <1>2, <2>1, <2>2, MetGrows DEF Closes
  <2>3. CASE d \notin Range(r.deps)
    BY <1>2, <2>3 DEF Closes
  <2>4. QED BY <2>2, <2>3
<1>3. QED BY <1>1, <1>2 DEF Closes

\* The loop over the declarations of a package.
DeclarationOp(w, nested, pkg, d, e, acc, decl) ==
  CHOOSE r \in {Declaration(w, nested, pkg, decl, v) : v \in {acc}} : TRUE
DeclarationFold == INSTANCE FoldProofs WITH Op <- DeclarationOp

LEMMA DeclarationsIsFold ==
  \A w, nested, pkg, s :
     ~w.conf.disable_dep_check =>
       Declarations(w, nested, pkg, s)
         = DeclarationFold!Result(w, nested, pkg, 0, 0, s, pkg.depends)
BY DEF Declarations, Fold, DeclarationFold!Result, DeclarationOp, FoldLeft,
       MapThenFoldSet, DeclarationFold!FoldLeft, DeclarationFold!MapThenFoldSet,
       Max, DeclarationFold!Max

LEMMA DeclarationOpIs ==
  \A w, nested, pkg, acc, decl :
     DeclarationOp(w, nested, pkg, 0, 0, acc, decl)
       = Declaration(w, nested, pkg, decl, acc)
<1> TAKE w, nested, pkg, acc, decl
<1> DEFINE of(v) == Declaration(w, nested, pkg, decl, v)
<1>1. {of(v) : v \in {acc}} = {of(acc)}
  OBVIOUS
<1>2. DeclarationOp(w, nested, pkg, 0, 0, acc, decl) = CHOOSE r \in {of(v) : v \in {acc}} : TRUE
  BY DEF DeclarationOp
<1> HIDE DEF of
<1>3. DeclarationOp(w, nested, pkg, 0, 0, acc, decl) = of(acc)
  BY <1>1, <1>2
<1>4. QED BY <1>3 DEF of

LEMMA DeclarationsCollect ==
  ASSUME NEW w, ListsRead(w), ~w.conf.disable_dep_check,
         NEW n \in Nat, NEW nested, Deep(w, nested, n),
         NEW s \in Collection(w), NEW pkg \in Package
  PROVE  LET r == Declarations(w, nested, pkg, s)
         IN  /\ Collects(w, s, r)
             /\ Cardinality(Unnamed(w, s)) <= n => Closes(w, s, r)
             /\ r.rv = 0 => AllMet(w, r.deps, pkg)
<1> DEFINE len == Len(pkg.depends)
           I == [i \in 0..len |->
                   {r \in Collection(w) :
                      /\ Collects(w, s, r)
                      /\ Cardinality(Unnamed(w, s)) <= n => Closes(w, s, r)
                      /\ r.rv = 0 => \A j \in 1..i : Met(w, r.deps, pkg.depends[j])}]
<1>1. pkg.depends \in Seq(Seq(Dependency) \ {<<>>}) /\ len \in Nat
        /\ DOMAIN pkg.depends = 1..len
  BY DEF Package, Declared
<1>2. s \in I[0]
  BY <1>1, CollectsItself
<1>3. \A i \in 1..len : \A acc \in I[i - 1] :
         DeclarationOp(w, nested, pkg, 0, 0, acc, pkg.depends[i]) \in I[i]
  <2> TAKE i \in 1..len
  <2> TAKE acc \in I[i - 1]
  <2> DEFINE decl == pkg.depends[i]
             r == Declaration(w, nested, pkg, decl, acc)
  <2>1. /\ i \in 0..len /\ i - 1 \in 0..len
        /\ decl \in Seq(Dependency) /\ decl # <<>>
        /\ \A j : j \in 1..i <=> (j \in 1..(i - 1) \/ j = i)
    BY <1>1
  <2>2. /\ acc \in Collection(w)
        /\ Collects(w, s, acc)
        /\ Cardinality(Unnamed(w, s)) <= n => Closes(w, s, acc)
        /\ acc.rv = 0 => \A j \in 1..(i - 1) : Met(w, acc.deps, pkg.depends[j])
    BY <2>1
  <2> HIDE DEF I, len
  <2>3. DeclarationGoal(w, n, decl, acc, r)
    <3> HIDE DEF decl, r
    <3>1. QED BY <2>1, <2>2, DeclarationCollects DEF r
  <2> HIDE DEF r
  <2>4. Collects(w, acc, r) /\ r \in Collection(w) /\ Range(acc.deps) \subseteq Range(r.deps)
    BY <2>3 DEF DeclarationGoal, Collects
  <2>5. Collects(w, s, r)
    BY <2>2, <2>4, CollectsFurther
  <2>6. ASSUME Cardinality(Unnamed(w, s)) <= n PROVE Closes(w, s, r)
    <3>1. Cardinality(Unnamed(w, acc)) <= n
      <4>1. Cardinality(Unnamed(w, acc)) <= Cardinality(Unnamed(w, s))
        BY <2>2, UnnamedShrinks DEF Collects
      <4>2. /\ Cardinality(Unnamed(w, acc)) \in Nat
            /\ Cardinality(Unnamed(w, s)) \in Nat
        BY <2>2, UnnamedFinite
      <4>3. QED BY <2>6, <4>1, <4>2
    <3>2. Closes(w, acc, r) /\ (r.rv = 0 => acc.rv = 0)
      BY <2>3, <3>1 DEF DeclarationGoal
    <3>3. QED BY <2>2, <2>4, <2>6, <3>2, CollectsFurther
  <2>7. ASSUME r.rv = 0, NEW j \in 1..i PROVE Met(w, r.deps, pkg.depends[j])
    <3>1. acc.rv = 0 /\ Met(w, r.deps, decl)
      BY <2>3, <2>7 DEF DeclarationGoal
    <3>2. CASE j \in 1..(i - 1)
      <4>1. Met(w, acc.deps, pkg.depends[j])
        BY <2>2, <3>1, <3>2
      <4>2. QED BY <2>4, <4>1, MetGrows
    <3>3. CASE j = i
      BY <3>1, <3>3
    <3>4. QED BY <2>1, <3>2, <3>3
  <2>8. r \in I[i]
    BY <2>1, <2>4, <2>5, <2>6, <2>7 DEF I
  <2>9. QED BY <2>8, DeclarationOpIs DEF r
<1>4. I[len] = {r \in Collection(w) :
                  /\ Collects(w, s, r)
                  /\ Cardinality(Unnamed(w, s)) <= n => Closes(w, s, r)
                  /\ r.rv = 0 => \A j \in 1..len : Met(w, r.deps, pkg.depends[j])}
  BY <1>1
<1> HIDE DEF I
<1>5. DeclarationFold!Result(w, nested, pkg, 0, 0, s, pkg.depends) \in I[len]
  BY <1>1, <1>2, <1>3, DeclarationFold!FoldSteps
<1>6. Declarations(w, nested, pkg, s) \in I[len]
  BY <1>5, DeclarationsIsFold
<1>7. QED BY <1>1, <1>4, <1>6 DEF AllMet

\* The levels of the recursion.
LevelOp(w, b, c, d, e, nested, p) ==
  [x \in Range(w.avail) \X Collection(w) |-> Declarations(w, nested, x[1], x[2])]
LevelFold == INSTANCE FoldProofs WITH Op <- LevelOp

Bottom(w) == [x \in Range(w.avail) \X Collection(w) |-> x[2]]
Levels(w) == LevelFold!Result(w, 0, 0, 0, 0, Bottom(w), w.avail)

LEMMA DependenciesIsFold ==
  \A w, pkg, s : Dependencies(w, pkg, s) = Declarations(w, Levels(w), pkg, s)
BY DEF Dependencies, Levels, Bottom, LevelFold!Result, LevelOp, FoldLeft,
       MapThenFoldSet, LevelFold!FoldLeft, LevelFold!MapThenFoldSet, Max,
       LevelFold!Max

LEMMA BottomIsDeep ==
  ASSUME NEW w, ListsRead(w)
  PROVE  Deep(w, Bottom(w), 0)
<1>1. Bottom(w) \in [Calls(w) -> Collection(w)]
  BY DEF Bottom, Calls
<1>2. \A dep \in Range(w.avail), s \in Collection(w) : Bottom(w)[dep, s] = s
  BY DEF Bottom
<1>3. \A s \in Collection(w) : ~(Cardinality(Unnamed(w, s)) < 0)
  BY UnnamedFinite
<1>4. QED BY <1>1, <1>2, <1>3, CollectsItself DEF Deep

LEMMA LevelIsDeep ==
  ASSUME NEW w, ListsRead(w), ~w.conf.disable_dep_check, NEW n \in Nat,
         NEW nested, Deep(w, nested, n), NEW p
  PROVE  Deep(w, LevelOp(w, 0, 0, 0, 0, nested, p), n + 1)
<1> DEFINE level == LevelOp(w, 0, 0, 0, 0, nested, p)
<1>1. level = [x \in Calls(w) |-> Declarations(w, nested, x[1], x[2])]
  BY DEF LevelOp, Calls
<1>2. ASSUME NEW dep \in Range(w.avail), NEW s \in Collection(w)
      PROVE  LET r == level[dep, s]
             IN  /\ Collects(w, s, r)
                 /\ Cardinality(Unnamed(w, s)) <= n => Closes(w, s, r)
                 /\ r.rv = 0 => AllMet(w, r.deps, dep)
  <2>1. level[dep, s] = Declarations(w, nested, dep, s)
    BY <1>1 DEF Calls
  <2>2. dep \in Package
    BY ListsReadTypes
  <2> HIDE DEF level
  <2>3. QED BY <2>1, <2>2, DeclarationsCollect
<1> HIDE DEF level
<1>3. level \in [Calls(w) -> Collection(w)]
  <2>1. \A x \in Calls(w) : Declarations(w, nested, x[1], x[2]) \in Collection(w)
    <3> TAKE x \in Calls(w)
    <3>1. x[1] \in Package /\ x[2] \in Collection(w)
      BY ListsReadTypes DEF Calls
    <3>2. QED BY <3>1, DeclarationsCollect DEF Collects
  <2>2. QED BY <1>1, <2>1
<1>4. \A s \in Collection(w) : Cardinality(Unnamed(w, s)) < n + 1
                                 => Cardinality(Unnamed(w, s)) <= n
  BY UnnamedFinite
<1>5. Deep(w, level, n + 1)
  BY <1>2, <1>3, <1>4 DEF Deep
<1>6. QED BY <1>5 DEF level

LEMMA LevelsAreDeep ==
  ASSUME NEW w, ListsRead(w), ~w.conf.disable_dep_check
  PROVE  Deep(w, Levels(w), Len(w.avail))
<1> DEFINE I == [i \in 0..Len(w.avail) |->
                   {nested \in [Calls(w) -> Collection(w)] : Deep(w, nested, i)}]
<1>1. Len(w.avail) \in Nat /\ w.avail \in Seq(Offered)
  BY DEF ListsRead
<1>2. Bottom(w) \in I[0]
  <2>1. Deep(w, Bottom(w), 0)
    BY BottomIsDeep
  <2>2. Bottom(w) \in [Calls(w) -> Collection(w)]
    BY <2>1 DEF Deep
  <2>3. QED BY <1>1, <2>1, <2>2
<1>3. \A i \in 1..Len(w.avail) : \A nested \in I[i - 1] :
         LevelOp(w, 0, 0, 0, 0, nested, w.avail[i]) \in I[i]
  <2> TAKE i \in 1..Len(w.avail)
  <2> TAKE nested \in I[i - 1]
  <2>1. i - 1 \in Nat /\ i - 1 \in 0..Len(w.avail) /\ i \in 0..Len(w.avail) /\ i - 1 + 1 = i
    BY <1>1
  <2>2. Deep(w, nested, i - 1)
    BY <2>1
  <2>3. Deep(w, LevelOp(w, 0, 0, 0, 0, nested, w.avail[i]), i - 1 + 1)
    BY <2>1, <2>2, LevelIsDeep
  <2>4. QED BY <2>1, <2>3 DEF Deep
<1>4. \A nested \in I[Len(w.avail)] : Deep(w, nested, Len(w.avail))
  BY <1>1
<1> HIDE DEF I
<1>5. LevelFold!Result(w, 0, 0, 0, 0, Bottom(w), w.avail) \in I[Len(w.avail)]
  BY <1>1, <1>2, <1>3, LevelFold!FoldSteps
<1>6. QED BY <1>4, <1>5 DEF Levels

\* slapt_get_pkg_dependencies, from an empty list: what it collects is to be
\* installed from the available packages and none of it is excluded; if it
\* returns 0, whatever pkg or a package collected requires is installed or
\* collected.  So one level for each available package is enough.
THEOREM DependenciesCollect ==
  ASSUME NEW w, ListsRead(w), ~w.conf.disable_dep_check,
         NEW s \in Collection(w), NEW pkg \in Package
  PROVE  LET r == Dependencies(w, pkg, s)
         IN  /\ Collects(w, s, r)
             /\ Closes(w, s, r)
             /\ r.rv = 0 => AllMet(w, r.deps, pkg)
<1>1. Len(w.avail) \in Nat
  BY DEF ListsRead
<1>2. /\ Deep(w, Levels(w), Len(w.avail))
      /\ Cardinality(Unnamed(w, s)) <= Len(w.avail)
  BY LevelsAreDeep, UnnamedFinite
<1>3. Dependencies(w, pkg, s) = Declarations(w, Levels(w), pkg, s)
  BY DependenciesIsFold
<1>4. QED BY <1>1, <1>2, <1>3, DeclarationsCollect

-----------------------------------------------------------------------------
(* What requires a package.                                                *)

\* p requires pkg without an alternative, by a declaration that can be met.
Needs(w, p, pkg) ==
  \E k \in DOMAIN p.depends :
    /\ ~IsOr(p.depends[k])
    /\ ResolveDep(p.depends[k][1], w.installed, w.avail) # <<>>
    /\ p.depends[k][1].name = pkg.name
    /\ p.depends[k][1].name # p.name

\* required_by looks at p: no available package of the name is later.
Candidate(w, p) ==
  ~(CmpVersions(p.version, Newest(w.avail, p.name)[1].version) < 0)

\* required_by looks at no other package of that name.
Sole(w, p) ==
  /\ Candidate(w, p)
  /\ \A x \in Range(w.avail) : x.name = p.name /\ Candidate(w, x) => x = p

ListsOf(w) == Seq(Range(w.avail))
OnlyCandidates(w, list) == \A p \in Range(list) : Candidate(w, p)

\* list has whatever requires pkg.
Takes(w, list, pkg) ==
  \A p \in Range(w.avail) : Sole(w, p) /\ Needs(w, p, pkg) => p \in Range(list)

\* From list to r nothing is lost ...
Extends(w, list, r) ==
  /\ r \in ListsOf(w) /\ Range(list) \subseteq Range(r)
  /\ OnlyCandidates(w, list) => OnlyCandidates(w, r)

\* ... and whatever requires what is added is there.
TakesAlong(w, list, r) == \A q \in Range(r) \ Range(list) : Takes(w, r, q)

Unlisted(w, list) ==
  {p \in Range(w.avail) : \A q \in Range(list) : q.name # p.name}

Reaches(w, nested, n) ==
  /\ nested \in [Range(w.avail) \X ListsOf(w) -> ListsOf(w)]
  /\ \A p \in Range(w.avail), list \in ListsOf(w) :
       LET r == nested[p, list]
       IN  /\ Extends(w, list, r)
           /\ OnlyCandidates(w, list) /\ Cardinality(Unlisted(w, list)) < n
                => TakesAlong(w, list, r) /\ Takes(w, r, p)

LEMMA NeedsIsDependent ==
  ASSUME NEW w, NEW ti, NEW tr, NEW p \in Package, NEW pkg, Needs(w, p, pkg)
  PROVE  IsDependent(w, ti, tr, p, pkg) /\ p.name # pkg.name
<1>1. PICK k \in DOMAIN p.depends :
        /\ ~IsOr(p.depends[k])
        /\ ResolveDep(p.depends[k][1], w.installed, w.avail) # <<>>
        /\ p.depends[k][1].name = pkg.name
        /\ p.depends[k][1].name # p.name
  BY DEF Needs
<1> DEFINE decl == p.depends[k]
           S == {d \in Range(decl) : d.name = pkg.name}
           found == Broken(w, ti, tr, decl, pkg)
<1>2. decl \in Seq(Dependency) /\ decl # <<>>
  BY DEF Package, Declared
<1>3. Len(decl) = 1 /\ Range(decl) = {decl[1]}
  <2>1. ~(Len(decl) > 1)
    BY <1>1 DEF IsOr
  <2> HIDE DEF decl
  <2>2. Len(decl) = 1
    <3>1. Len(decl) \in Nat /\ DOMAIN decl = 1..Len(decl)
      BY <1>2
    <3>2. Len(decl) # 0
      BY <1>2
    <3>3. QED BY <2>1, <3>1, <3>2
  <2>3. DOMAIN decl = {1}
    BY <1>2, <2>2
  <2>4. QED BY <2>2, <2>3 DEF Range
<1>4. found = Keep(decl, S)
  BY <1>1 DEF Broken
<1>5. found \in Seq(Dependency) /\ Range(found) = {decl[1]}
  <2>1. Range(decl) \cap S = {decl[1]}
    BY <1>1, <1>3
  <2>2. /\ Keep(decl, S) \in Seq(Dependency)
        /\ Range(Keep(decl, S)) = Range(decl) \cap S
    <3> HIDE DEF decl, S
    <3>1. QED BY <1>2, KeepRange
  <2>3. QED BY <1>4, <2>1, <2>2
<1> HIDE DEF found
<1>6. found # <<>> /\ Last(found) = decl[1]
  <2>1. found # <<>>
    BY <1>5, RangeOfOne
  <2>2. found[Len(found)] \in Range(found)
    BY <1>5, <2>1 DEF Range
  <2>3. QED BY <1>5, <2>1, <2>2 DEF Last
<1>7. QED BY <1>1, <1>6 DEF IsDependent, found

LEMMA UnlistedFinite ==
  ASSUME NEW w, ListsRead(w), NEW list \in ListsOf(w)
  PROVE  /\ IsFiniteSet(Unlisted(w, list))
         /\ Cardinality(Unlisted(w, list)) \in Nat
         /\ Cardinality(Unlisted(w, list)) <= Len(w.avail)
<1> DEFINE s == [deps |-> list, rv |-> 0, missing |-> <<>>, conflict |-> <<>>]
<1>1. s \in Collection(w)
  BY DEF Collection, ListsOf
<1>2. Unlisted(w, list) = Unnamed(w, s)
  BY DEF Unlisted, Unnamed
<1> HIDE DEF s
<1>3. QED BY <1>1, <1>2, UnnamedFinite

LEMMA UnlistedShrinks ==
  ASSUME NEW w, ListsRead(w), NEW list \in ListsOf(w), NEW r \in ListsOf(w),
         Range(list) \subseteq Range(r)
  PROVE  /\ Cardinality(Unlisted(w, r)) <= Cardinality(Unlisted(w, list))
         /\ \A p \in Range(w.avail) :
              p \in Range(r) /\ Newest(list, p.name) = <<>>
                => Cardinality(Unlisted(w, r)) < Cardinality(Unlisted(w, list))
<1> DEFINE s(l) == [deps |-> l, rv |-> 0, missing |-> <<>>, conflict |-> <<>>]
<1>1. s(list) \in Collection(w) /\ s(r) \in Collection(w)
  BY DEF Collection, ListsOf
<1>2. Unlisted(w, list) = Unnamed(w, s(list)) /\ Unlisted(w, r) = Unnamed(w, s(r))
  BY DEF Unlisted, Unnamed
<1>3. s(list).deps = list /\ s(r).deps = r
  OBVIOUS
<1>4. \A p : Collected(s(list), p) <=> Newest(list, p.name) # <<>>
  BY DEF Collected
<1> HIDE DEF s
<1>5. QED BY <1>1, <1>2, <1>3, <1>4, UnnamedShrinks

\* What the loop does with p, one of the available packages.
LEMMA RequirerExtends ==
  ASSUME NEW w, ListsRead(w), NEW n \in Nat, NEW nested, Reaches(w, nested, n),
         NEW ti, NEW tr, NEW pkg, NEW p \in Range(w.avail), NEW list \in ListsOf(w)
  PROVE  LET r == Requirer(w, nested, ti, tr, pkg, p, list)
         IN  /\ Extends(w, list, r)
             /\ OnlyCandidates(w, list) =>
                  /\ Cardinality(Unlisted(w, list)) <= n => TakesAlong(w, list, r)
                  /\ Sole(w, p) /\ Needs(w, p, pkg) => p \in Range(r)
<1> DEFINE r == Requirer(w, nested, ti, tr, pkg, p, list)
           skip == \/ p.name = pkg.name
                   \/ Newest(list, p.name) # <<>>
                   \/ ~Candidate(w, p)
                   \/ ~IsDependent(w, ti, tr, p, pkg)
           more == Append(list, p)
<1>1. r = IF skip THEN list ELSE nested[p, more]
  BY DEF Requirer, Candidate
<1>2. p \in Package
  BY ListsReadTypes
<1>3. CASE skip
  <2>1. r = list
    BY <1>1, <1>3
  <2>2. Extends(w, list, list) /\ TakesAlong(w, list, list)
    BY DEF Extends, TakesAlong
  <2>3. ASSUME OnlyCandidates(w, list), Sole(w, p), Needs(w, p, pkg)
        PROVE  p \in Range(list)
    <3>1. Newest(list, p.name) # <<>>
      BY <1>2, <1>3, <2>3, NeedsIsDependent DEF Sole
    <3>2. PICK x \in Range(list) : x.name = p.name
      BY <3>1, NewestFound DEF ListsOf
    <3>3. x \in Range(w.avail) /\ Candidate(w, x)
      BY <2>3, RangeType DEF ListsOf, OnlyCandidates
    <3>4. QED BY <2>3, <3>2, <3>3 DEF Sole
  <2>4. QED BY <2>1, <2>2, <2>3
<1>4. CASE ~skip
  <2>1. r = nested[p, more]
    BY <1>1, <1>4
  <2>2. /\ more \in ListsOf(w) /\ Range(more) = Range(list) \cup {p}
    BY RangeOfAppend DEF ListsOf
  <2>3. /\ OnlyCandidates(w, list) => OnlyCandidates(w, more)
        /\ Newest(list, p.name) = <<>>
    BY <1>4, <2>2 DEF OnlyCandidates
  <2> HIDE DEF r, more, skip
  <2>4. Extends(w, more, r)
    BY <2>1, <2>2 DEF Reaches
  <2>5. ASSUME OnlyCandidates(w, list), Cardinality(Unlisted(w, list)) <= n
        PROVE  TakesAlong(w, more, r) /\ Takes(w, r, p)
    <3>1. Cardinality(Unlisted(w, more)) < Cardinality(Unlisted(w, list))
      BY <2>2, <2>3, UnlistedShrinks
    <3>2. Cardinality(Unlisted(w, more)) \in Nat /\ Cardinality(Unlisted(w, list)) \in Nat
      BY <2>2, UnlistedFinite
    <3>3. Cardinality(Unlisted(w, more)) < n
      BY <2>5, <3>1, <3>2
    <3>4. QED BY <2>1, <2>2, <2>3, <2>5, <3>3 DEF Reaches
  <2>6. Extends(w, list, r) /\ p \in Range(r)
    BY <2>2, <2>3, <2>4 DEF Extends
  <2>7. OnlyCandidates(w, list) /\ Cardinality(Unlisted(w, list)) <= n
          => TakesAlong(w, list, r)
    BY <2>2, <2>5 DEF TakesAlong
  <2>8. QED BY <2>6, <2>7 DEF r
<1>5. QED BY <1>3, <1>4

\* The loop over the available packages.
RequirerOp(w, nested, ti, tr, pkg, acc, p) ==
  CHOOSE r \in {Requirer(w, nested, ti, tr, pkg, p, v) : v \in {acc}} : TRUE
RequirerFold == INSTANCE FoldProofs WITH Op <- RequirerOp

LEMMA RequirersIsFold ==
  \A w, nested, ti, tr, pkg, list :
     Requirers(w, nested, ti, tr, pkg, list)
       = RequirerFold!Result(w, nested, ti, tr, pkg, list, w.avail)
BY DEF Requirers, Fold, RequirerFold!Result, RequirerOp, FoldLeft,
       MapThenFoldSet, RequirerFold!FoldLeft, RequirerFold!MapThenFoldSet,
       Max, RequirerFold!Max

LEMMA RequirerOpIs ==
  \A w, nested, ti, tr, pkg, acc, p :
     RequirerOp(w, nested, ti, tr, pkg, acc, p)
       = Requirer(w, nested, ti, tr, pkg, p, acc)
<1> TAKE w, nested, ti, tr, pkg, acc, p
<1> DEFINE of(v) == Requirer(w, nested, ti, tr, pkg, p, v)
<1>1. {of(v) : v \in {acc}} = {of(acc)}
  OBVIOUS
<1>2. RequirerOp(w, nested, ti, tr, pkg, acc, p) = CHOOSE r \in {of(v) : v \in {acc}} : TRUE
  BY DEF RequirerOp
<1> HIDE DEF of
<1>3. RequirerOp(w, nested, ti, tr, pkg, acc, p) = of(acc)
  BY <1>1, <1>2
<1>4. QED BY <1>3 DEF of

LEMMA RequirersExtend ==
  ASSUME NEW w, ListsRead(w), NEW n \in Nat, NEW nested, Reaches(w, nested, n),
         NEW ti, NEW tr, NEW pkg, NEW list \in ListsOf(w)
  PROVE  LET r == Requirers(w, nested, ti, tr, pkg, list)
         IN  /\ Extends(w, list, r)
             /\ OnlyCandidates(w, list) /\ Cardinality(Unlisted(w, list)) <= n
                  => TakesAlong(w, list, r) /\ Takes(w, r, pkg)
<1> DEFINE len == Len(w.avail)
           small == OnlyCandidates(w, list) /\ Cardinality(Unlisted(w, list)) <= n
           Upto(r, i) ==
             OnlyCandidates(w, list) =>
               \A j \in 1..i : Sole(w, w.avail[j]) /\ Needs(w, w.avail[j], pkg)
                                => w.avail[j] \in Range(r)
           I == [i \in 0..len |->
                   {r \in ListsOf(w) :
                      /\ Extends(w, list, r)
                      /\ small => TakesAlong(w, list, r)
                      /\ Upto(r, i)}]
<1>1. w.avail \in Seq(Offered) /\ len \in Nat /\ DOMAIN w.avail = 1..len
        /\ \A i \in 1..len : w.avail[i] \in Range(w.avail)
  BY DEF ListsRead, Range
<1>2. list \in I[0]
  BY <1>1 DEF Extends, TakesAlong
<1>3. \A i \in 1..len : \A acc \in I[i - 1] :
         RequirerOp(w, nested, ti, tr, pkg, acc, w.avail[i]) \in I[i]
  <2> TAKE i \in 1..len
  <2> TAKE acc \in I[i - 1]
  <2> DEFINE p == w.avail[i]
             r == Requirer(w, nested, ti, tr, pkg, p, acc)
  <2>1. /\ i \in 0..len /\ i - 1 \in 0..len
        /\ p \in Range(w.avail)
        /\ \A j : j \in 1..i <=> (j \in 1..(i - 1) \/ j = i)
    BY <1>1
  <2>2. /\ acc \in ListsOf(w)
        /\ Extends(w, list, acc)
        /\ small => TakesAlong(w, list, acc)
        /\ Upto(acc, i - 1)
    BY <2>1
  <2> HIDE DEF I, len
  <2>3. /\ Extends(w, acc, r)
        /\ OnlyCandidates(w, acc) =>
             /\ Cardinality(Unlisted(w, acc)) <= n => TakesAlong(w, acc, r)
             /\ Sole(w, p) /\ Needs(w, p, pkg) => p \in Range(r)
    <3> HIDE DEF p, r
    <3>1. QED BY <2>1, <2>2, RequirerExtends DEF r
  <2> HIDE DEF r
  <2>4. Extends(w, list, r) /\ r \in ListsOf(w) /\ Range(acc) \subseteq Range(r)
    BY <2>2, <2>3 DEF Extends
  <2>5. ASSUME small PROVE TakesAlong(w, list, r)
    <3>1. Cardinality(Unlisted(w, acc)) <= n
      <4>1. Cardinality(Unlisted(w, acc)) <= Cardinality(Unlisted(w, list))
        BY <2>2, UnlistedShrinks DEF Extends
      <4>2. /\ Cardinality(Unlisted(w, acc)) \in Nat
            /\ Cardinality(Unlisted(w, list)) \in Nat
        BY <2>2, UnlistedFinite
      <4>3. QED BY <2>5, <4>1, <4>2
    <3>2. TakesAlong(w, list, acc) /\ TakesAlong(w, acc, r)
      BY <2>2, <2>3, <2>5, <3>1 DEF Extends
    <3>3. QED BY <2>4, <3>2 DEF TakesAlong, Takes
  <2>6. Upto(r, i)
    BY <2>1, <2>2, <2>3, <2>4 DEF Extends
  <2>7. r \in I[i]
    BY <2>1, <2>4, <2>5, <2>6 DEF I
  <2>8. QED BY <2>7, RequirerOpIs DEF r
<1>4. I[len] = {r \in ListsOf(w) :
                  /\ Extends(w, list, r)
                  /\ small => TakesAlong(w, list, r)
                  /\ Upto(r, len)}
  BY <1>1
<1> HIDE DEF I
<1>5. RequirerFold!Result(w, nested, ti, tr, pkg, list, w.avail) \in I[len]
  BY <1>1, <1>2, <1>3, RequirerFold!FoldSteps
<1>6. Requirers(w, nested, ti, tr, pkg, list) \in I[len]
  BY <1>5, RequirersIsFold
<1> DEFINE r == Requirers(w, nested, ti, tr, pkg, list)
<1>7. OnlyCandidates(w, list) => Takes(w, r, pkg)
  <2>1. Upto(r, len)
    BY <1>4, <1>6
  <2>2. \A p \in Range(w.avail) : \E j \in 1..len : p = w.avail[j]
    BY <1>1 DEF Range
  <2> HIDE DEF r
  <2>3. QED BY <2>1, <2>2 DEF Takes
<1>8. QED BY <1>4, <1>6, <1>7

\* The levels of the recursion.
RequirersOp(w, ti, tr, d, e, nested, p) ==
  [x \in Range(w.avail) \X Seq(Range(w.avail)) |->
     Requirers(w, nested, ti, tr, x[1], x[2])]
RequirersFold == INSTANCE FoldProofs WITH Op <- RequirersOp

Ground(w) == [x \in Range(w.avail) \X Seq(Range(w.avail)) |-> x[2]]
Reach(w, ti, tr) == RequirersFold!Result(w, ti, tr, 0, 0, Ground(w), w.avail)

LEMMA RequiredByIsFold ==
  \A w, ti, tr, pkg :
     RequiredBy(w, ti, tr, pkg) =
       IF w.conf.disable_dep_check THEN <<>>
       ELSE Requirers(w, Reach(w, ti, tr), ti, tr, pkg, <<>>)
BY DEF RequiredBy, Reach, Ground, RequirersFold!Result, RequirersOp, FoldLeft,
       MapThenFoldSet, RequirersFold!FoldLeft, RequirersFold!MapThenFoldSet,
       Max, RequirersFold!Max

LEMMA GroundReaches ==
  ASSUME NEW w, ListsRead(w)
  PROVE  Reaches(w, Ground(w), 0)
<1>1. Ground(w) \in [Range(w.avail) \X ListsOf(w) -> ListsOf(w)]
  BY DEF Ground, ListsOf
<1>2. \A p \in Range(w.avail), list \in ListsOf(w) : Ground(w)[p, list] = list
  BY DEF Ground, ListsOf
<1>3. \A list \in ListsOf(w) : ~(Cardinality(Unlisted(w, list)) < 0)
  BY UnlistedFinite
<1>4. QED BY <1>1, <1>2, <1>3 DEF Reaches, Extends

LEMMA LevelReaches ==
  ASSUME NEW w, ListsRead(w), NEW n \in Nat, NEW ti, NEW tr,
         NEW nested, Reaches(w, nested, n), NEW p
  PROVE  Reaches(w, RequirersOp(w, ti, tr, 0, 0, nested, p), n + 1)
<1> DEFINE level == RequirersOp(w, ti, tr, 0, 0, nested, p)
<1>1. level = [x \in Range(w.avail) \X ListsOf(w) |->
                 Requirers(w, nested, ti, tr, x[1], x[2])]
  BY DEF RequirersOp, ListsOf
<1>2. ASSUME NEW pkg \in Range(w.avail), NEW list \in ListsOf(w)
      PROVE  LET r == level[pkg, list]
             IN  /\ Extends(w, list, r)
                 /\ OnlyCandidates(w, list) /\ Cardinality(Unlisted(w, list)) <= n
                      => TakesAlong(w, list, r) /\ Takes(w, r, pkg)
  <2>1. level[pkg, list] = Requirers(w, nested, ti, tr, pkg, list)
    BY <1>1
  <2> HIDE DEF level
  <2>2. QED BY <2>1, RequirersExtend
<1> HIDE DEF level
<1>3. level \in [Range(w.avail) \X ListsOf(w) -> ListsOf(w)]
  <2>1. \A x \in Range(w.avail) \X ListsOf(w) :
           Requirers(w, nested, ti, tr, x[1], x[2]) \in ListsOf(w)
    BY RequirersExtend DEF Extends
  <2>2. QED BY <1>1, <2>1
<1>4. \A list \in ListsOf(w) : Cardinality(Unlisted(w, list)) < n + 1
                                 => Cardinality(Unlisted(w, list)) <= n
  BY UnlistedFinite
<1>5. Reaches(w, level, n + 1)
  BY <1>2, <1>3, <1>4 DEF Reaches
<1>6. QED BY <1>5 DEF level

LEMMA ReachReaches ==
  ASSUME NEW w, ListsRead(w), NEW ti, NEW tr
  PROVE  Reaches(w, Reach(w, ti, tr), Len(w.avail))
<1> DEFINE Fns == [Range(w.avail) \X ListsOf(w) -> ListsOf(w)]
           I == [i \in 0..Len(w.avail) |-> {nested \in Fns : Reaches(w, nested, i)}]
<1>1. Len(w.avail) \in Nat /\ w.avail \in Seq(Offered)
  BY DEF ListsRead
<1>2. Ground(w) \in I[0]
  <2>1. Reaches(w, Ground(w), 0)
    BY GroundReaches
  <2>2. Ground(w) \in Fns
    BY <2>1 DEF Reaches
  <2>3. QED BY <1>1, <2>1, <2>2
<1>3. \A i \in 1..Len(w.avail) : \A nested \in I[i - 1] :
         RequirersOp(w, ti, tr, 0, 0, nested, w.avail[i]) \in I[i]
  <2> TAKE i \in 1..Len(w.avail)
  <2> TAKE nested \in I[i - 1]
  <2>1. i - 1 \in Nat /\ i - 1 \in 0..Len(w.avail) /\ i \in 0..Len(w.avail) /\ i - 1 + 1 = i
    BY <1>1
  <2>2. Reaches(w, nested, i - 1)
    BY <2>1
  <2>3. Reaches(w, RequirersOp(w, ti, tr, 0, 0, nested, w.avail[i]), i - 1 + 1)
    BY <2>1, <2>2, LevelReaches
  <2>4. QED BY <2>1, <2>3 DEF Reaches
<1>4. \A nested \in I[Len(w.avail)] : Reaches(w, nested, Len(w.avail))
  BY <1>1
<1> HIDE DEF I
<1>5. RequirersFold!Result(w, ti, tr, 0, 0, Ground(w), w.avail) \in I[Len(w.avail)]
  BY <1>1, <1>2, <1>3, RequirersFold!FoldSteps
<1>6. QED BY <1>4, <1>5 DEF Reach

\* slapt_is_required_by: of the packages that are the only offer of their
\* name, none that requires pkg, or one it lists, is missing from its list.
THEOREM RequiredByTakes ==
  ASSUME NEW w, ListsRead(w), NEW ti, NEW tr, NEW pkg
  PROVE  LET r == RequiredBy(w, ti, tr, pkg)
         IN  /\ r \in Seq(Range(w.avail))
             /\ ~w.conf.disable_dep_check =>
                  \A q \in Range(r) \cup {pkg} : Takes(w, r, q)
<1> DEFINE r == RequiredBy(w, ti, tr, pkg)
<1>1. CASE w.conf.disable_dep_check
  <2>1. r = <<>>
    BY <1>1, RequiredByIsFold
  <2>2. QED BY <1>1, <2>1
<1>2. CASE ~w.conf.disable_dep_check
  <2>1. r = Requirers(w, Reach(w, ti, tr), ti, tr, pkg, <<>>)
    BY <1>2, RequiredByIsFold
  <2>2. <<>> \in ListsOf(w) /\ Range(<<>>) = {} /\ OnlyCandidates(w, <<>>)
    BY RangeOfOne DEF ListsOf, OnlyCandidates
  <2>3. Len(w.avail) \in Nat /\ Cardinality(Unlisted(w, <<>>)) <= Len(w.avail)
    BY <2>2, UnlistedFinite DEF ListsRead
  <2> HIDE DEF r
  <2>4. /\ Extends(w, <<>>, r)
        /\ TakesAlong(w, <<>>, r) /\ Takes(w, r, pkg)
    BY <2>1, <2>2, <2>3, ReachReaches, RequirersExtend
  <2>5. QED BY <2>2, <2>4 DEF Extends, TakesAlong, ListsOf, r
<1>3. QED BY <1>1, <1>2

LEMMA InstalledOfRange ==
  ASSUME NEW w, ListsRead(w), NEW T, NEW list \in Seq(T)
  PROVE  /\ InstalledOf(w, list) \in Seq(T)
         /\ Range(InstalledOf(w, list))
              = {p \in Range(list) : IsExactlyInstalled(w, p)}
<1> DEFINE S == {p \in Range(list) : IsExactlyInstalled(w, p)}
<1>1. InstalledOf(w, list) = Keep(list, S) /\ Range(list) \cap S = S
  BY DEF InstalledOf
<1> HIDE DEF S
<1>2. InstalledOf(w, list) \in Seq(T) /\ Range(InstalledOf(w, list)) = S
  <2>1. Keep(list, S) \in Seq(T) /\ Range(Keep(list, S)) = Range(list) \cap S
    BY KeepRange
  <2>2. QED BY <1>1, <2>1
<1>3. QED BY <1>2 DEF S

\* What pkg is in conflict with.
InConflict(w, pkg) ==
  {p \in Range(w.installed) \cup Range(w.avail) :
     \E d \in Range(Concat(pkg.conflicts)) : d.name = p.name}

LEMMA ConflictsRange ==
  ASSUME NEW w, ListsRead(w), NEW pkg \in Package
  PROVE  Conflicts(w, pkg) \in Seq(InConflict(w, pkg))
<1> DEFINE T == InConflict(w, pkg)
           ds == Concat(pkg.conflicts)
           found(seq) == [i \in DOMAIN seq |-> ResolveDep(seq[i], w.installed, w.avail)]
           of(seq) == Concat(found(seq))
<1>1. ds \in Seq(Dependency)
  <2>1. pkg.conflicts \in Seq(Seq(Dependency))
    BY DEF Package, Declared
  <2>2. QED BY <2>1, ConcatRange
<1>2. Conflicts(w, pkg) = CHOOSE r \in {of(v) : v \in {ds}} : TRUE
  BY DEF Conflicts, With
<1> HIDE DEF ds
<1>3. found(ds) \in Seq(Seq(T))
  <2>1. \A i \in DOMAIN ds : found(ds)[i] \in Seq(T)
    <3> TAKE i \in DOMAIN ds
    <3>1. FoundFor(w, ds[i], found(ds)[i])
      BY ResolvedIsFound
    <3>2. ds[i] \in Range(ds)
      BY DEF Range
    <3> HIDE DEF found
    <3>3. found(ds)[i] = <<>> \/ \E p \in T : found(ds)[i] = <<p>>
      BY <3>1, <3>2 DEF FoundFor, InConflict, ds
    <3> HIDE DEF T
    <3>4. <<>> \in Seq(T) /\ \A p \in T : <<p>> \in Seq(T)
      OBVIOUS
    <3>5. QED BY <3>3, <3>4
  <2>2. /\ Len(ds) \in Nat /\ DOMAIN ds = 1..Len(ds)
        /\ found(ds) = [i \in 1..Len(ds) |-> found(ds)[i]]
    BY <1>1
  <2> DEFINE n == Len(ds)
             f == found(ds)
  <2> HIDE DEF found, T, n, f
  <2>3. f \in [1..n -> Seq(T)]
    BY <2>1, <2>2 DEF n, f
  <2>4. f \in Seq(Seq(T))
    BY <2>2, <2>3, FunctionIsSeq, Zenon DEF n
  <2>5. QED BY <2>4 DEF f
<1>4. of(ds) \in Seq(T)
  <2> HIDE DEF found, T
  <2>1. QED BY <1>3, ConcatRange
<1> HIDE DEF of
<1>5. {of(v) : v \in {ds}} = {of(ds)}
  OBVIOUS
<1>6. QED BY <1>2, <1>4, <1>5

\* What Obsolete(w) has for an installed package that no source offers.
Requiring(w, r) == [i \in DOMAIN r |-> Exact(w.installed, r[i].name, r[i].version)]
Behind(w, p) == Concat(Requiring(w, RequiredBy(w, <<>>, <<>>, p))) \o <<p>>

LEMMA BehindIs ==
  ASSUME NEW w
  PROVE  Obsolete(w) =
           Concat([i \in DOMAIN w.installed |->
             IF IsExcluded(w, w.installed[i]) \/ Newest(w.avail, w.installed[i].name) # <<>>
             THEN <<>> ELSE Behind(w, w.installed[i])])
<1> DEFINE of(r) == Concat(Requiring(w, r))
           got(p) == CHOOSE x \in {of(v) : v \in {RequiredBy(w, <<>>, <<>>, p)}} : TRUE
<1>1. Obsolete(w) =
        Concat([i \in DOMAIN w.installed |->
          IF IsExcluded(w, w.installed[i]) \/ Newest(w.avail, w.installed[i].name) # <<>>
          THEN <<>> ELSE got(w.installed[i]) \o <<w.installed[i]>>])
  BY DEF Obsolete, With, Requiring
<1>2. \A p : got(p) \o <<p>> = Behind(w, p)
  <2> TAKE p
  <2> DEFINE v0 == RequiredBy(w, <<>>, <<>>, p)
  <2>1. got(p) = CHOOSE x \in {of(v) : v \in {v0}} : TRUE
    OBVIOUS
  <2> HIDE DEF v0, of
  <2>2. {of(v) : v \in {v0}} = {of(v0)}
    OBVIOUS
  <2>3. got(p) = of(v0)
    BY <2>1, <2>2
  <2> HIDE DEF got
  <2>4. QED BY <2>3 DEF Behind, of, v0
<1> HIDE DEF got
<1>3. QED BY <1>1, <1>2

LEMMA BehindCloses ==
  ASSUME NEW w, ListsRead(w), NEW p \in Range(w.installed)
  PROVE  /\ Behind(w, p) \in Seq(Range(w.installed))
         /\ ~w.conf.disable_dep_check =>
              \A q \in Range(Behind(w, p)), x \in Range(w.avail) :
                Sole(w, x) /\ Needs(w, x, q) /\ IsExactlyInstalled(w, x)
                  => \E y \in Range(Behind(w, p)) : y.name = x.name /\ y.version = x.version
<1> DEFINE r == RequiredBy(w, <<>>, <<>>, p)
           T == Range(w.installed)
           exact == Requiring(w, r)
<1>1. /\ r \in Seq(Range(w.avail))
      /\ ~w.conf.disable_dep_check => \A q \in Range(r) \cup {p} : Takes(w, r, q)
  BY RequiredByTakes
<1>2. w.installed \in Seq(Logged)
  BY DEF ListsRead
<1> HIDE DEF r
<1>3. \A i \in DOMAIN r :
         \/ /\ exact[i] = <<>>
            /\ \A y \in T : ~(y.name = r[i].name /\ y.version = r[i].version)
         \/ \E y \in T : /\ y.name = r[i].name /\ y.version = r[i].version
                         /\ exact[i] = <<y>>
  <2> TAKE i \in DOMAIN r
  <2>1. exact[i] = Exact(w.installed, r[i].name, r[i].version)
    BY DEF Requiring
  <2> HIDE DEF exact
  <2>2. QED BY <1>2, <2>1, ExactFound
<1>4. exact \in Seq(Seq(T))
  <2>1. \A i \in DOMAIN r : exact[i] \in Seq(T)
    <3>1. <<>> \in Seq(T) /\ \A y \in T : <<y>> \in Seq(T)
      OBVIOUS
    <3> HIDE DEF exact, T
    <3>2. QED BY <1>3, <3>1
  <2>2. /\ Len(r) \in Nat /\ DOMAIN r = 1..Len(r)
        /\ exact = [i \in 1..Len(r) |-> exact[i]]
    BY <1>1 DEF Requiring
  <2> DEFINE n == Len(r)
  <2> HIDE DEF exact, T, n
  <2>3. exact \in [1..n -> Seq(T)]
    BY <2>1, <2>2 DEF n
  <2>4. QED BY <2>2, <2>3, FunctionIsSeq, Zenon DEF n
<1>5. DOMAIN exact = DOMAIN r
  BY DEF Requiring
<1> HIDE DEF exact
<1>6. /\ Concat(exact) \in Seq(T)
      /\ Range(Concat(exact)) = UNION {Range(exact[i]) : i \in DOMAIN exact}
  <2> HIDE DEF T
  <2>1. QED BY <1>4, ConcatRange
<1>7. Behind(w, p) = Concat(exact) \o <<p>>
  BY DEF Behind, exact, r
<1>8. /\ Behind(w, p) \in Seq(T)
      /\ Range(Behind(w, p)) = Range(Concat(exact)) \cup {p}
  <2>1. <<p>> \in Seq(T) /\ Range(<<p>>) = {p}
    BY RangeOfOne
  <2> HIDE DEF T
  <2>2. \A s, u \in Seq(T) : s \o u \in Seq(T) /\ Range(s \o u) = Range(s) \cup Range(u)
    BY RangeOfConcat
  <2>3. Concat(exact) \in Seq(T)
    BY <1>6
  <2>4. QED BY <1>7, <2>1, <2>2, <2>3
<1>9. ASSUME ~w.conf.disable_dep_check,
             NEW q \in Range(Behind(w, p)), NEW x \in Range(w.avail),
             Sole(w, x), Needs(w, x, q), IsExactlyInstalled(w, x)
      PROVE  \E y \in Range(Behind(w, p)) : y.name = x.name /\ y.version = x.version
  <2>1. \E z \in Range(r) \cup {p} : z.name = q.name
    <3>1. CASE q = p
      BY <3>1
    <3>2. CASE q # p
      <4>1. PICK i \in DOMAIN exact : q \in Range(exact[i])
        BY <1>6, <1>8, <3>2
      <4>2. exact[i] # <<>>
        BY <4>1, RangeOfOne
      <4>3. PICK y \in T : y.name = r[i].name /\ exact[i] = <<y>>
        BY <1>3, <1>5, <4>1, <4>2
      <4>4. q = y
        BY <4>1, <4>3, RangeOfOne
      <4>5. r[i] \in Range(r)
        BY <1>5 DEF Range
      <4>6. QED BY <4>3, <4>4, <4>5
    <3>3. QED BY <3>1, <3>2
  <2>2. PICK z \in Range(r) \cup {p} : z.name = q.name
    BY <2>1
  <2>3. Needs(w, x, z)
    BY <1>9, <2>2 DEF Needs
  <2>4. x \in Range(r)
    BY <1>1, <1>9, <2>2, <2>3 DEF Takes
  <2>5. PICK i \in DOMAIN r : r[i] = x
    BY <2>4 DEF Range
  <2>6. \E y \in T : y.name = x.name /\ y.version = x.version
    <3>1. Exact(w.installed, x.name, x.version) # <<>>
      BY <1>9 DEF IsExactlyInstalled
    <3>2. QED BY <1>2, <3>1, ExactFound
  <2>7. PICK y \in T : y.name = x.name /\ y.version = x.version /\ exact[i] = <<y>>
    BY <1>3, <2>5, <2>6
  <2>8. y \in Range(Concat(exact))
    <3>1. y \in Range(exact[i]) /\ i \in DOMAIN exact
      BY <1>5, <2>7, RangeOfOne
    <3>2. QED BY <1>6, <3>1
  <2>9. QED BY <1>8, <2>7, <2>8
<1>10. QED BY <1>8, <1>9

\* slapt_get_obsolete_pkgs: what requires an obsolete package is obsolete.
THEOREM ObsoleteCloses ==
  ASSUME NEW w, ListsRead(w)
  PROVE  /\ Obsolete(w) \in Seq(Range(w.installed))
         /\ ~w.conf.disable_dep_check =>
              \A q \in Range(Obsolete(w)), x \in Range(w.avail) :
                Sole(w, x) /\ Needs(w, x, q) /\ IsExactlyInstalled(w, x)
                  => \E y \in Range(Obsolete(w)) : y.name = x.name /\ y.version = x.version
<1> DEFINE T == Range(w.installed)
           of == [i \in DOMAIN w.installed |->
                    IF IsExcluded(w, w.installed[i]) \/ Newest(w.avail, w.installed[i].name) # <<>>
                    THEN <<>> ELSE Behind(w, w.installed[i])]
<1>1. w.installed \in Seq(Logged)
  BY DEF ListsRead
<1>2. \A i \in DOMAIN w.installed : w.installed[i] \in T
  BY <1>1, RangeType
<1>3. \A i \in DOMAIN w.installed :
         of[i] = <<>> \/ of[i] = Behind(w, w.installed[i])
  OBVIOUS
<1>4. \A i \in DOMAIN w.installed : of[i] \in Seq(T)
  <2>1. <<>> \in Seq(T)
    OBVIOUS
  <2> HIDE DEF of
  <2>2. QED BY <1>2, <1>3, <2>1, BehindCloses
<1>5. of \in Seq(Seq(T)) /\ DOMAIN of = DOMAIN w.installed
  <2> DEFINE n == Len(w.installed)
  <2>1. /\ n \in Nat /\ DOMAIN w.installed = 1..n
        /\ of = [i \in 1..n |-> of[i]] /\ DOMAIN of = DOMAIN w.installed
    BY <1>1
  <2> HIDE DEF of, T, n
  <2>2. of \in [1..n -> Seq(T)]
    BY <1>4, <2>1
  <2>3. of \in Seq(Seq(T))
    BY <2>1, <2>2, FunctionIsSeq, Zenon
  <2>4. QED BY <2>1, <2>3
<1>6. Obsolete(w) = Concat(of)
  BY BehindIs
<1> HIDE DEF of
<1>7. Concat(of) \in Seq(T) /\ Range(Concat(of)) = UNION {Range(of[i]) : i \in DOMAIN of}
  <2> HIDE DEF T
  <2>1. QED BY <1>5, ConcatRange
<1>8. ASSUME ~w.conf.disable_dep_check,
             NEW q \in Range(Obsolete(w)), NEW x \in Range(w.avail),
             Sole(w, x), Needs(w, x, q), IsExactlyInstalled(w, x)
      PROVE  \E y \in Range(Obsolete(w)) : y.name = x.name /\ y.version = x.version
  <2>1. PICK i \in DOMAIN of : q \in Range(of[i])
    BY <1>6, <1>7
  <2>2. of[i] # <<>>
    BY <2>1, RangeOfOne
  <2>3. of[i] = Behind(w, w.installed[i]) /\ w.installed[i] \in T
    BY <1>2, <1>3, <1>5, <2>2
  <2>4. \E y \in Range(of[i]) : y.name = x.name /\ y.version = x.version
    BY <1>8, <2>1, <2>3, BehindCloses
  <2>5. QED BY <1>6, <1>7, <2>4
<1>9. QED BY <1>6, <1>7, <1>8
=============================================================================
