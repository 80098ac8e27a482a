-------------------------- MODULE PackageListProofs --------------------------
(***************************************************************************)
(* Proofs about the lists of the sources and package_data, for any number  *)
(* of sources, any lists and checksums they may offer, and wherever the    *)
(* writer is killed.                                                       *)
(*                                                                         *)
(* The parser is understood as a function of the line it has come to,      *)
(* ReadFrom, and what is there of package_data as the first lines of what  *)
(* is written, the last of them cut.  A layout o says where the packages   *)
(* end: the lines of package k go from o[k - 1] + 1 to o[k].               *)
(***************************************************************************)
EXTENDS PackageList, TLAPS

-----------------------------------------------------------------------------
(* Sequences.                                                              *)

ConcatOp(a, b, c, d, e, acc, x) == acc \o x
ConcatFold == INSTANCE FoldProofs WITH Op <- ConcatOp

LEMMA ConcatIsFold ==
  \A seqs : Concat(seqs) = ConcatFold!Result(0, 0, 0, 0, 0, <<>>, seqs)
BY DEF Concat, ConcatFold!Result, ConcatOp, FoldLeft, MapThenFoldSet,
       ConcatFold!FoldLeft, ConcatFold!MapThenFoldSet, Max, ConcatFold!Max

LEMMA RangeType ==
  ASSUME NEW T, NEW seq \in Seq(T)
  PROVE  /\ Range(seq) \subseteq T
         /\ seq \in Seq(Range(seq))
         /\ \A i \in DOMAIN seq : seq[i] \in Range(seq)
BY DEF Range

LEMMA FunctionIsSeq ==
  ASSUME NEW T, NEW n \in Nat, NEW f \in [1..n -> T]
  PROVE  f \in Seq(T)
OBVIOUS

LEMMA RangeOfOne ==
  Range(<<>>) = {} /\ \A x : Range(<<x>>) = {x}
BY DEF Range

LEMMA RangeOfConcat ==
  ASSUME NEW T, NEW s \in Seq(T), NEW t \in Seq(T)
  PROVE  s \o t \in Seq(T) /\ Range(s \o t) = Range(s) \cup Range(t)
<1>1. \A i \in DOMAIN s : i \in DOMAIN (s \o t) /\ (s \o t)[i] = s[i]
  OBVIOUS
<1>2. \A i \in DOMAIN t : /\ Len(s) + i \in DOMAIN (s \o t)
                          /\ (s \o t)[Len(s) + i] = t[i]
  OBVIOUS
<1>3. \A i \in DOMAIN (s \o t) :
         i \in DOMAIN s \/ \E j \in DOMAIN t : i = Len(s) + j
  <2> TAKE i \in DOMAIN (s \o t)
  <2>1. i \in 1..(Len(s) + Len(t)) /\ Len(s) \in Nat /\ Len(t) \in Nat
    OBVIOUS
  <2>2. CASE i <= Len(s)
    BY <2>1, <2>2
  <2>3. CASE ~(i <= Len(s))
    <3>1. i - Len(s) \in DOMAIN t /\ i = Len(s) + (i - Len(s))
      BY <2>1, <2>3
    <3>2. QED BY <3>1
  <2>4. QED BY <2>2, <2>3
<1>4. Range(s \o t) \subseteq Range(s) \cup Range(t)
  <2> SUFFICES ASSUME NEW x \in Range(s \o t)
               PROVE  x \in Range(s) \cup Range(t)
    OBVIOUS
  <2>1. PICK i \in DOMAIN (s \o t) : x = (s \o t)[i]
    BY DEF Range
  <2>2. CASE i \in DOMAIN s
    BY <1>1, <2>1, <2>2 DEF Range
  <2>3. CASE \E j \in DOMAIN t : i = Len(s) + j
    BY <1>2, <2>1, <2>3 DEF Range
  <2>4. QED BY <1>3, <2>2, <2>3
<1>5. Range(s) \cup Range(t) \subseteq Range(s \o t)
  BY <1>1, <1>2 DEF Range
<1>6. QED BY <1>4, <1>5

-----------------------------------------------------------------------------
(* Where the parser looks.                                                 *)

HasLines(f) == f.lines \in Seq(Range(f.lines)) /\ f.ended \in BOOLEAN

\* No field of a record is in line b.
Ends(f, b) == b \in DOMAIN f.lines => f.lines[b].kind = "blank"

Keys == {"mirror", "priority", "location", "size_c", "size_u", "required",
         "conflicts", "suggests", "md5", "desc"}

LEMMA MinIs ==
  ASSUME NEW S, S \subseteq Nat, S # {}
  PROVE  Min(S) \in S /\ \A x \in S : Min(S) <= x
<1>1. \E x \in S : \A y \in S : x <= y
  BY ConcatFold!LeastNat
<1>2. QED BY <1>1 DEF Min

LEMMA LinesAre ==
  ASSUME NEW f, HasLines(f)
  PROVE  /\ Len(f.lines) \in Nat /\ DOMAIN f.lines = 1..Len(f.lines)
         /\ \A i \in DOMAIN f.lines : f.lines[i] \in Range(f.lines)
BY DEF HasLines

LEMMA PastIs ==
  ASSUME NEW f, NEW j \in Nat, NEW k
  PROVE  /\ Past(f, j, k) \in Nat
         /\ \/ Past(f, j, k) = j /\ ~Given(f, j, k)
            \/ /\ Past(f, j, k) = j + 1 /\ j \in DOMAIN f.lines /\ f.lines[j].kind = k
               /\ f.lines[j].val = Malformed => k \in Lenient
<1>1. CASE Given(f, j, k)
  <2>1. Past(f, j, k) = j + 1
    BY <1>1 DEF Past
  <2>2. QED BY <1>1, <2>1 DEF Given, Marked
<1>2. CASE ~Given(f, j, k) /\ k \in Lenient /\ Marked(f, j, k)
  <2>1. Past(f, j, k) = j + 1
    BY <1>2 DEF Past
  <2>2. QED BY <1>2, <2>1 DEF Marked
<1>3. CASE ~Given(f, j, k) /\ ~(k \in Lenient /\ Marked(f, j, k))
  <2>1. Past(f, j, k) = j
    BY <1>3 DEF Past
  <2>2. QED BY <1>3, <2>1
<1>4. QED BY <1>1, <1>2, <1>3

LEMMA PastGrows ==
  ASSUME NEW f, NEW j \in Nat, NEW k
  PROVE  j <= Past(f, j, k)
<1>1. Past(f, j, k) = j \/ Past(f, j, k) = j + 1
  BY PastIs
<1>2. QED BY <1>1

LEMMA PastStops ==
  ASSUME NEW f, NEW j \in Nat, NEW k \in Keys, NEW b \in Nat, Ends(f, b), j <= b
  PROVE  Past(f, j, k) <= b
<1>1. k # "blank"
  BY DEF Keys
<1>2. QED BY <1>1, PastIs DEF Ends

LEMMA SlotsAre ==
  ASSUME NEW f, NEW i \in Nat
  PROVE  LET s == Slots(f, i)
         IN  /\ s \in [Keys -> Nat]
             /\ s.mirror = i + 1 /\ s.priority = Past(f, s.mirror, "mirror")
             /\ s.location = Past(f, s.priority, "priority")
             /\ s.size_c = s.location + 1 /\ s.size_u = s.location + 2
             /\ s.required = s.location + 3
             /\ s.conflicts = Past(f, s.required, "required")
             /\ s.suggests = Past(f, s.conflicts, "conflicts")
             /\ s.md5 = Past(f, s.suggests, "suggests")
             /\ s.desc = Past(f, s.md5, "md5")
<1> DEFINE mirror == i + 1
           priority == Past(f, mirror, "mirror")
           location == Past(f, priority, "priority")
           required == location + 3
           conflicts == Past(f, required, "required")
           suggests == Past(f, conflicts, "conflicts")
           md5 == Past(f, suggests, "suggests")
           desc == Past(f, md5, "md5")
           s == [mirror |-> mirror, priority |-> priority, location |-> location,
                 size_c |-> location + 1, size_u |-> location + 2,
                 required |-> required, conflicts |-> conflicts, suggests |-> suggests,
                 md5 |-> md5, desc |-> desc]
<1>1. Slots(f, i) = s
  BY DEF Slots
<1>2. mirror \in Nat
  OBVIOUS
<1> HIDE DEF mirror
<1>3. priority \in Nat
  BY <1>2, PastIs
<1> HIDE DEF priority
<1>4. location \in Nat
  BY <1>3, PastIs
<1> HIDE DEF location
<1>5. required \in Nat /\ location + 1 \in Nat /\ location + 2 \in Nat
  BY <1>4
<1> HIDE DEF required
<1>6. conflicts \in Nat
  BY <1>5, PastIs
<1> HIDE DEF conflicts
<1>7. suggests \in Nat
  BY <1>6, PastIs
<1> HIDE DEF suggests
<1>8. md5 \in Nat
  BY <1>7, PastIs
<1> HIDE DEF md5
<1>9. desc \in Nat
  BY <1>8, PastIs
<1> HIDE DEF desc
<1>10. DOMAIN s = Keys /\ \A k \in Keys : s[k] \in Nat
  BY <1>2, <1>3, <1>4, <1>5, <1>6, <1>7, <1>8, <1>9 DEF Keys
<1>11. s \in [Keys -> Nat]
  <2>1. s = [k \in DOMAIN s |-> s[k]]
    OBVIOUS
  <2> HIDE DEF s
  <2>2. QED BY <1>10, <2>1
<1>12. QED
  BY <1>1, <1>11 DEF mirror, priority, location, required, conflicts, suggests, md5, desc

\* The slots of a record are in the order of the fields.
LEMMA SlotsRise ==
  ASSUME NEW f, NEW i \in Nat
  PROVE  LET s == Slots(f, i)
         IN  /\ i < s.mirror /\ s.mirror <= s.priority /\ s.priority <= s.location
             /\ s.location < s.size_c /\ s.size_c < s.size_u /\ s.size_u < s.required
             /\ s.required <= s.conflicts /\ s.conflicts <= s.suggests
             /\ s.suggests <= s.md5 /\ s.md5 <= s.desc
<1> DEFINE s == Slots(f, i)
<1>1. /\ s.mirror \in Nat /\ s.priority \in Nat /\ s.location \in Nat /\ s.required \in Nat
      /\ s.conflicts \in Nat /\ s.suggests \in Nat /\ s.md5 \in Nat /\ s.desc \in Nat
  BY SlotsAre DEF Keys
<1> HIDE DEF s
<1>2. \A j \in Nat : \A k : j <= Past(f, j, k)
  BY PastGrows
<1>3. s.mirror = i + 1
  BY SlotsAre DEF s
<1>4. s.mirror <= s.priority /\ s.priority <= s.location
  BY <1>1, <1>2, SlotsAre DEF s
<1>5. s.size_c = s.location + 1 /\ s.size_u = s.location + 2 /\ s.required = s.location + 3
  BY SlotsAre DEF s
<1>6. s.required <= s.conflicts /\ s.conflicts <= s.suggests
  BY <1>1, <1>2, SlotsAre DEF s
<1>7. s.suggests <= s.md5 /\ s.md5 <= s.desc
  BY <1>1, <1>2, SlotsAre DEF s
<1>8. QED BY <1>1, <1>3, <1>4, <1>5, <1>6, <1>7 DEF s

\* A record that is dropped is left at the line at fault, one that is found
\* has all it needs, both before the first line that no record has.
LEMMA RecordStops ==
  ASSUME NEW f, NEW i \in Nat, NEW b \in Nat, i < b, Ends(f, b)
  PROVE  LET s == Slots(f, i)
             faults == Faults(f, s)
         IN  /\ faults = {} => s.desc < b
             /\ faults # {} => /\ Min(faults) \in faults
                               /\ i < Min(faults) /\ Min(faults) <= b
<1> DEFINE s == Slots(f, i)
           faults == Faults(f, s)
<1>1. /\ s.mirror \in Nat /\ s.priority \in Nat /\ s.location \in Nat /\ s.size_c \in Nat
      /\ s.size_u \in Nat /\ s.required \in Nat /\ s.conflicts \in Nat /\ s.suggests \in Nat
      /\ s.md5 \in Nat /\ s.desc \in Nat
  BY SlotsAre DEF Keys
<1>2. /\ i < s.mirror /\ s.mirror <= s.priority /\ s.priority <= s.location
      /\ s.location < s.size_c /\ s.size_c < s.size_u /\ s.size_u < s.required
      /\ s.required <= s.conflicts /\ s.conflicts <= s.suggests
      /\ s.suggests <= s.md5 /\ s.md5 <= s.desc
  BY SlotsRise
<1>3. /\ s.mirror = i + 1 /\ s.priority = Past(f, s.mirror, "mirror")
      /\ s.location = Past(f, s.priority, "priority")
      /\ s.size_c = s.location + 1 /\ s.size_u = s.location + 2
      /\ s.required = s.location + 3
      /\ s.conflicts = Past(f, s.required, "required")
      /\ s.suggests = Past(f, s.conflicts, "conflicts")
      /\ s.md5 = Past(f, s.suggests, "suggests")
      /\ s.desc = Past(f, s.md5, "md5")
  BY SlotsAre
<1>4. faults = {s[k] : k \in {l \in {"location", "size_c", "size_u", "desc"} : ~Given(f, s[l], l)}}
                 \cup {s[k] : k \in {l \in {"priority", "md5"} : Val(f, s[l], l, NULL) = OutOfRange}}
  BY DEF Faults
<1> HIDE DEF s, faults
<1>5. \A k \in Keys, j \in Nat : j <= b => Past(f, j, k) <= b
  BY PastStops
<1>6. \A k \in Keys, j \in Nat : j <= b /\ Given(f, j, k) => j < b
  <2> TAKE k \in Keys, j \in Nat
  <2>1. k # "blank"
    BY DEF Keys
  <2>2. QED BY <2>1 DEF Ends, Given, Marked
<1>7. s.location <= b
  <2>1. s.mirror <= b
    BY <1>3
  <2>2. s.priority <= b
    BY <1>1, <1>3, <1>5, <2>1 DEF Keys
  <2>3. QED BY <1>1, <1>3, <1>5, <2>2 DEF Keys
<1>8. Given(f, s.location, "location") => s.size_c <= b
  BY <1>1, <1>3, <1>6, <1>7 DEF Keys
<1>9. s.size_c <= b /\ Given(f, s.size_c, "size_c") => s.size_u <= b
  BY <1>1, <1>3, <1>6 DEF Keys
<1>10. s.size_u <= b /\ Given(f, s.size_u, "size_u") => s.desc <= b
  <2> SUFFICES ASSUME s.size_u <= b, Given(f, s.size_u, "size_u") PROVE s.desc <= b
    OBVIOUS
  <2>1. s.required <= b
    BY <1>1, <1>3, <1>6 DEF Keys
  <2>2. s.conflicts <= b
    BY <1>1, <1>3, <1>5, <2>1 DEF Keys
  <2>3. s.suggests <= b
    BY <1>1, <1>3, <1>5, <2>2 DEF Keys
  <2>4. s.md5 <= b
    BY <1>1, <1>3, <1>5, <2>3 DEF Keys
  <2>5. QED BY <1>1, <1>3, <1>5, <2>4 DEF Keys
<1>11. s.desc <= b /\ Given(f, s.desc, "desc") => s.desc < b
  BY <1>1, <1>6 DEF Keys
<1>12. \A k \in {"location", "size_c", "size_u", "desc"} : ~Given(f, s[k], k) => s[k] \in faults
  BY <1>4
<1>13. faults = {} => s.desc < b
  <2> SUFFICES ASSUME faults = {} PROVE s.desc < b
    OBVIOUS
  <2>1. /\ Given(f, s.location, "location") /\ Given(f, s.size_c, "size_c")
        /\ Given(f, s.size_u, "size_u") /\ Given(f, s.desc, "desc")
    BY <1>12
  <2>2. QED BY <1>8, <1>9, <1>10, <1>11, <2>1
<1>14. \A j \in faults : j \in Nat /\ i < j /\ j <= s.desc
  <2>1. \A j \in faults : \E k \in {"location", "size_c", "size_u", "desc", "priority", "md5"} : j = s[k]
    BY <1>4
  <2>2. QED BY <1>1, <1>2, <2>1
<1>15. faults # {} => \E j \in faults : j <= b
  <2> SUFFICES ASSUME faults # {} PROVE \E j \in faults : j <= b
    OBVIOUS
  <2>1. CASE ~Given(f, s.location, "location")
    BY <1>7, <1>12, <2>1
  <2>2. CASE s.size_c <= b /\ ~Given(f, s.size_c, "size_c")
    BY <1>12, <2>2
  <2>3. CASE s.size_u <= b /\ ~Given(f, s.size_u, "size_u")
    BY <1>12, <2>3
  <2>4. CASE s.desc <= b
    BY <1>1, <1>14, <2>4
  <2>5. QED BY <1>8, <1>9, <1>10, <2>1, <2>2, <2>3, <2>4
<1>16. faults # {} => Min(faults) \in faults /\ i < Min(faults) /\ Min(faults) <= b
  <2>1. faults \subseteq Nat
    BY <1>14
  <2>2. faults # {} => Min(faults) \in faults /\ \A j \in faults : Min(faults) <= j
    BY <2>1, MinIs
  <2> SUFFICES ASSUME faults # {}
               PROVE  Min(faults) \in faults /\ i < Min(faults) /\ Min(faults) <= b
    OBVIOUS
  <2>3. PICK j \in faults : j <= b
    BY <1>15
  <2>4. Min(faults) \in faults /\ Min(faults) <= j
    BY <2>2
  <2>5. j \in Nat /\ Min(faults) \in Nat /\ i < Min(faults)
    BY <1>14, <2>4
  <2>6. QED BY <2>3, <2>4, <2>5
<1>17. QED BY <1>13, <1>16 DEF s, faults

LEMMA DescEndIs ==
  ASSUME NEW f, HasLines(f), NEW i \in DOMAIN f.lines
  PROVE  /\ DescEnd(f, i) \in Nat /\ i < DescEnd(f, i) /\ DescEnd(f, i) <= Len(f.lines) + 1
         /\ \/ DescEnd(f, i) = Len(f.lines) + 1
            \/ DescEnd(f, i) \in DOMAIN f.lines /\ f.lines[DescEnd(f, i)] = Blank
         /\ \A j \in DOMAIN f.lines : i < j /\ j < DescEnd(f, i) => f.lines[j] # Blank
<1> DEFINE S == {j \in DOMAIN f.lines : j > i /\ f.lines[j] = Blank} \cup {Len(f.lines) + 1}
<1>1. Len(f.lines) \in Nat /\ DOMAIN f.lines = 1..Len(f.lines)
  BY LinesAre
<1>2. S \subseteq Nat /\ S # {}
  BY <1>1
<1>3. DescEnd(f, i) = Min(S)
  BY DEF DescEnd
<1>4. Min(S) \in S /\ \A x \in S : Min(S) <= x
  <2> HIDE DEF S
  <2>1. QED BY <1>2, MinIs
<1>5. Min(S) \in Nat /\ i < Min(S) /\ Min(S) <= Len(f.lines) + 1
  BY <1>1, <1>2, <1>4
<1>6. Min(S) = Len(f.lines) + 1 \/ (Min(S) \in DOMAIN f.lines /\ f.lines[Min(S)] = Blank)
  BY <1>4
<1>7. ASSUME NEW j \in DOMAIN f.lines, i < j, j < Min(S)
      PROVE  f.lines[j] # Blank
  <2>1. f.lines[j] = Blank => j \in S
    BY <1>1, <1>7
  <2>2. j \in Nat
    BY <1>1
  <2> HIDE DEF S
  <2>3. QED BY <1>4, <1>5, <1>7, <2>1, <2>2
<1> HIDE DEF S
<1>8. QED BY <1>3, <1>5, <1>6, <1>7

\* The slots come after the name, and the last of them is the description.
LEMMA DescComesLast ==
  ASSUME NEW f, NEW i \in Nat
  PROVE  Slots(f, i).desc \in Nat /\ i < Slots(f, i).desc
<1> DEFINE s == Slots(f, i)
<1>1. /\ s.mirror \in Nat /\ s.priority \in Nat /\ s.location \in Nat /\ s.size_c \in Nat
      /\ s.size_u \in Nat /\ s.required \in Nat /\ s.conflicts \in Nat /\ s.suggests \in Nat
      /\ s.md5 \in Nat /\ s.desc \in Nat
  BY SlotsAre DEF Keys
<1>2. /\ i < s.mirror /\ s.mirror <= s.priority /\ s.priority <= s.location
      /\ s.location < s.size_c /\ s.size_c < s.size_u /\ s.size_u < s.required
      /\ s.required <= s.conflicts /\ s.conflicts <= s.suggests
      /\ s.suggests <= s.md5 /\ s.md5 <= s.desc
  BY SlotsRise
<1> HIDE DEF s
<1>3. i < s.priority
  BY <1>1, <1>2
<1>4. i < s.size_c
  <2>1. s.priority <= s.location /\ s.location < s.size_c
    BY <1>2
  <2>2. QED BY <1>1, <1>3, <2>1
<1>5. i < s.required
  <2>1. s.size_c < s.size_u /\ s.size_u < s.required
    BY <1>2
  <2>2. QED BY <1>1, <1>4, <2>1
<1>6. i < s.suggests
  <2>1. s.required <= s.conflicts /\ s.conflicts <= s.suggests
    BY <1>2
  <2>2. QED BY <1>1, <1>5, <2>1
<1>7. i < s.desc
  <2>1. s.suggests <= s.md5 /\ s.md5 <= s.desc
    BY <1>2
  <2>2. QED BY <1>1, <1>6, <2>1
<1>8. QED BY <1>1, <1>7 DEF s

\* However a record ends, the parser goes on after its name, and not after the
\* first line no record has.
LEMMA NextIs ==
  ASSUME NEW f, HasLines(f), NEW i \in DOMAIN f.lines
  PROVE  /\ Record(f, i).next \in (i + 1)..(Len(f.lines) + 2)
         /\ \A b \in DOMAIN f.lines : i < b /\ f.lines[b] = Blank => Record(f, i).next <= b + 1
<1> DEFINE s == Slots(f, i)
           faults == Faults(f, s)
           n == Len(f.lines)
<1>1. n \in Nat /\ DOMAIN f.lines = 1..n /\ i \in Nat /\ i <= n
  BY LinesAre
<1>2. Ends(f, n + 1)
  BY <1>1 DEF Ends
<1>3. \A b \in DOMAIN f.lines : f.lines[b] = Blank => Ends(f, b)
  BY DEF Ends, Blank, Line
<1>4. s.desc \in Nat /\ i < s.desc
  BY <1>1, DescComesLast
<1>5. CASE faults = {}
  <2>1. Record(f, i).next = DescEnd(f, s.desc) + 1
    BY <1>5 DEF Record
  <2>2. s.desc < n + 1
    BY <1>1, <1>2, <1>5, RecordStops
  <2>3. s.desc \in DOMAIN f.lines
    <3> HIDE DEF s, n
    <3>1. QED BY <1>1, <1>4, <2>2
  <2>4. /\ DescEnd(f, s.desc) \in Nat /\ s.desc < DescEnd(f, s.desc)
        /\ DescEnd(f, s.desc) <= n + 1
        /\ \A j \in DOMAIN f.lines : s.desc < j /\ j < DescEnd(f, s.desc) => f.lines[j] # Blank
    BY <2>3, DescEndIs
  <2>5. \A b \in DOMAIN f.lines : i < b /\ f.lines[b] = Blank => s.desc < b
    BY <1>1, <1>3, <1>5, RecordStops
  <2> HIDE DEF s, n
  <2>6. \A b \in DOMAIN f.lines : i < b /\ f.lines[b] = Blank => DescEnd(f, s.desc) <= b
    BY <1>1, <2>4, <2>5
  <2>7. QED BY <1>1, <1>4, <2>1, <2>4, <2>6 DEF n
<1>6. CASE faults # {}
  <2>1. Record(f, i).next = Min(faults) + 1
    BY <1>6 DEF Record
  <2>2. Min(faults) \in faults /\ i < Min(faults) /\ Min(faults) <= n + 1
    BY <1>1, <1>2, <1>6, RecordStops
  <2>3. \A b \in DOMAIN f.lines : i < b /\ f.lines[b] = Blank => Min(faults) <= b
    BY <1>1, <1>3, <1>6, RecordStops
  <2>4. Min(faults) \in Nat
    <3>1. s \in [Keys -> Nat]
      BY <1>1, SlotsAre
    <3>2. faults \subseteq Nat
      <4> HIDE DEF s
      <4>1. QED BY <3>1 DEF Faults, Keys
    <3>3. QED BY <2>2, <3>2
  <2> HIDE DEF faults, n
  <2>5. QED BY <1>1, <2>1, <2>2, <2>3, <2>4 DEF n
<1>7. QED BY <1>5, <1>6

-----------------------------------------------------------------------------
(* The parser as a function of the line it is at.                          *)

Body(g, f, i) ==
  IF i > Len(f.lines) THEN <<>>
  ELSE IF ~Given(f, i, "name") THEN g[i + 1]
  ELSE LET r == Record(f, i) IN r.found \o g[r.next]

IsParse(g, f) == g = [i \in 1..(Len(f.lines) + 2) |-> Body(g, f, i)]

LEMMA BodySame ==
  ASSUME NEW f, HasLines(f), NEW g, NEW h, NEW i \in 1..(Len(f.lines) + 2),
         \A j \in (i + 1)..(Len(f.lines) + 2) : g[j] = h[j]
  PROVE  Body(g, f, i) = Body(h, f, i)
<1>1. Len(f.lines) \in Nat /\ DOMAIN f.lines = 1..Len(f.lines)
  BY LinesAre
<1>2. CASE i > Len(f.lines)
  BY <1>2 DEF Body
<1>3. CASE ~(i > Len(f.lines))
  <2>1. i \in DOMAIN f.lines
    BY <1>1, <1>3
  <2>2. Record(f, i).next \in (i + 1)..(Len(f.lines) + 2)
    BY <2>1, NextIs
  <2>3. i + 1 \in (i + 1)..(Len(f.lines) + 2)
    BY <1>1, <2>1
  <2>4. g[Record(f, i).next] = h[Record(f, i).next] /\ g[i + 1] = h[i + 1]
    BY <2>2, <2>3
  <2>5. QED BY <2>4 DEF Body
<1>4. QED BY <1>2, <1>3

LEMMA ParseExists ==
  ASSUME NEW f, HasLines(f)
  PROVE  \E g : IsParse(g, f)
<1> DEFINE n == Len(f.lines) + 2
           From(g, m) == \A i \in 1..n : n - i < m => g[i] = Body(g, f, i)
           Bad == {m \in Nat : ~\E g : From(g, m)}
<1>1. n \in Nat /\ Len(f.lines) \in Nat
  BY LinesAre
<1>2. From(<<>>, 0)
  BY <1>1
<1>3. Bad = {}
  <2> SUFFICES ASSUME Bad # {} PROVE FALSE
    OBVIOUS
  <2>1. PICK m \in Bad : \A k \in Bad : m <= k
    <3>1. Bad \subseteq Nat
      OBVIOUS
    <3> HIDE DEF Bad
    <3>2. QED BY <3>1, ConcatFold!LeastNat
  <2>2. m \in Nat /\ ~\E g : From(g, m)
    OBVIOUS
  <2>3. m # 0
    BY <1>2, <2>2
  <2>4. m - 1 \in Nat /\ ~(m <= m - 1)
    <3> HIDE DEF Bad, From
    <3>1. QED BY <2>2, <2>3
  <2>5. m - 1 \notin Bad
    <3> HIDE DEF Bad
    <3>1. QED BY <2>1, <2>4
  <2>6. PICK g : From(g, m - 1)
    <3> HIDE DEF From
    <3>1. QED BY <2>4, <2>5
  <2> HIDE DEF Bad
  <2> DEFINE h == [i \in 1..n |-> IF n - i < m - 1 THEN g[i] ELSE Body(g, f, i)]
  <2>7. \A i \in 1..n : h[i] = IF n - i < m - 1 THEN g[i] ELSE Body(g, f, i)
    OBVIOUS
  <2>8. \A i \in 1..n : h[i] = Body(g, f, i)
    <3> HIDE DEF h
    <3>1. QED BY <2>6, <2>7
  <2>9. ASSUME NEW i \in 1..n, n - i < m
        PROVE  h[i] = Body(h, f, i)
    <3> HIDE DEF h
    <3>1. ASSUME NEW j \in (i + 1)..n
          PROVE  g[j] = h[j]
      <4>1. j \in 1..n /\ n - j < m - 1
        <5> HIDE DEF n
        <5>1. QED BY <1>1, <2>2, <2>9
      <4>2. QED BY <2>7, <4>1
    <3>2. Body(g, f, i) = Body(h, f, i)
      BY <3>1, BodySame
    <3>3. QED BY <2>8, <3>2
  <2>10. From(h, m)
    <3> HIDE DEF h
    <3>1. QED BY <2>9
  <2>11. QED
    <3> HIDE DEF h, From
    <3>1. QED BY <2>2, <2>10
<1>4. n \notin Bad
  BY <1>3
<1>5. PICK g : From(g, n)
  <2> HIDE DEF From, n
  <2>1. QED BY <1>1, <1>4
<1>6. \A i \in 1..n : g[i] = Body(g, f, i)
  <2> HIDE DEF n
  <2>1. QED BY <1>1, <1>5
<1> DEFINE h == [i \in 1..n |-> g[i]]
<1>7. \A i \in 1..n : h[i] = Body(h, f, i)
  <2> TAKE i \in 1..n
  <2>1. h[i] = Body(g, f, i)
    BY <1>6
  <2>2. \A j \in (i + 1)..n : g[j] = h[j]
    <3>1. \A j \in (i + 1)..n : j \in 1..n
      BY <1>1
    <3>2. QED BY <3>1
  <2> HIDE DEF h
  <2>3. QED BY <2>1, <2>2, BodySame
<1>8. h = [i \in 1..n |-> h[i]]
  OBVIOUS
<1> HIDE DEF h
<1>9. IsParse(h, f)
  BY <1>7, <1>8 DEF IsParse
<1>10. QED BY <1>9

\* What is read from line i on.
ReadFrom(f) == CHOOSE g : IsParse(g, f)

LEMMA ReadFromIs ==
  ASSUME NEW f, HasLines(f)
  PROVE  /\ ParsePackagesTxt(f) = ReadFrom(f)[1]
         /\ \A i \in 1..(Len(f.lines) + 2) :
              ReadFrom(f)[i] =
                IF i > Len(f.lines) THEN <<>>
                ELSE IF ~Given(f, i, "name") THEN ReadFrom(f)[i + 1]
                ELSE Record(f, i).found \o ReadFrom(f)[Record(f, i).next]
<1>1. IsParse(ReadFrom(f), f)
  BY ParseExists DEF ReadFrom
<1>2. ParsePackagesTxt(f) = ReadFrom(f)[1]
  BY DEF ParsePackagesTxt, ReadFrom, IsParse, Body
<1>3. QED BY <1>1, <1>2 DEF IsParse, Body

LEMMA Backwards ==
  ASSUME NEW n \in Nat, NEW P,
         \A i \in 1..n : (i + 1)..n \subseteq P => i \in P
  PROVE  1..n \subseteq P
<1> DEFINE Bad == {m \in Nat : m < n /\ n - m \notin P}
<1>1. Bad = {}
  <2> SUFFICES ASSUME Bad # {} PROVE FALSE
    OBVIOUS
  <2>1. PICK m \in Bad : \A k \in Bad : m <= k
    <3>1. Bad \subseteq Nat
      OBVIOUS
    <3> HIDE DEF Bad
    <3>2. QED BY <3>1, ConcatFold!LeastNat
  <2>2. n - m \in 1..n /\ n - m \notin P
    OBVIOUS
  <2>3. (n - m + 1)..n \subseteq P
    <3> SUFFICES ASSUME NEW j \in (n - m + 1)..n PROVE j \in P
      OBVIOUS
    <3>1. n - j \in Nat /\ n - j < n /\ ~(m <= n - j) /\ n - (n - j) = j
      OBVIOUS
    <3>2. n - j \notin Bad
      <4> HIDE DEF Bad
      <4>1. QED BY <2>1, <3>1
    <3>3. QED BY <3>1, <3>2
  <2>4. QED BY <2>2, <2>3
<1>2. ASSUME NEW i \in 1..n PROVE i \in P
  <2>1. n - i \in Nat /\ n - i < n /\ n - (n - i) = i
    OBVIOUS
  <2>2. QED BY <1>1, <2>1
<1>3. QED BY <1>2

\* The lines with a record that is not dropped.
Sound(f) == {i \in DOMAIN f.lines : Given(f, i, "name") /\ Faults(f, Slots(f, i)) = {}}
At(f, i) == Package(f, i, Slots(f, i))
Founds(f) == {At(f, i) : i \in Sound(f)}

LEMMA RecordFinds ==
  ASSUME NEW f, NEW i \in DOMAIN f.lines, Given(f, i, "name")
  PROVE  IF i \in Sound(f)
         THEN Record(f, i) = [found |-> <<At(f, i)>>, next |-> DescEnd(f, Slots(f, i).desc) + 1]
         ELSE Record(f, i).found = <<>>
<1>1. CASE Faults(f, Slots(f, i)) = {}
  <2>1. i \in Sound(f)
    BY <1>1 DEF Sound
  <2>2. QED BY <1>1, <2>1 DEF Record, At
<1>2. CASE Faults(f, Slots(f, i)) # {}
  <2>1. i \notin Sound(f)
    BY <1>2 DEF Sound
  <2>2. QED BY <1>2, <2>1 DEF Record
<1>3. QED BY <1>1, <1>2

LEMMA ReadIsFound ==
  ASSUME NEW f, HasLines(f)
  PROVE  \A i \in 1..(Len(f.lines) + 2) : ReadFrom(f)[i] \in Seq(Founds(f))
<1> DEFINE n == Len(f.lines) + 2
           P == {i \in 1..n : ReadFrom(f)[i] \in Seq(Founds(f))}
<1>1. n \in Nat /\ DOMAIN f.lines = 1..Len(f.lines) /\ Len(f.lines) \in Nat
  BY LinesAre
<1>2. ASSUME NEW i \in 1..n, (i + 1)..n \subseteq P
      PROVE  i \in P
  <2>1. CASE i > Len(f.lines)
    <3>1. ReadFrom(f)[i] = <<>>
      BY <2>1, ReadFromIs
    <3>2. <<>> \in Seq(Founds(f))
      OBVIOUS
    <3>3. QED BY <3>1, <3>2
  <2>2. CASE i \in DOMAIN f.lines /\ ~Given(f, i, "name")
    <3>1. i + 1 \in (i + 1)..n /\ ~(i > Len(f.lines))
      BY <1>1, <2>2
    <3>2. ReadFrom(f)[i] = ReadFrom(f)[i + 1]
      BY <2>2, <3>1, ReadFromIs
    <3>3. QED BY <1>2, <3>1, <3>2
  <2>3. CASE i \in DOMAIN f.lines /\ Given(f, i, "name")
    <3>1. Record(f, i).next \in (i + 1)..n /\ ~(i > Len(f.lines))
      BY <1>1, <2>3, NextIs
    <3>2. ReadFrom(f)[i] = Record(f, i).found \o ReadFrom(f)[Record(f, i).next]
      BY <2>3, <3>1, ReadFromIs
    <3>3. ReadFrom(f)[Record(f, i).next] \in Seq(Founds(f))
      BY <1>2, <3>1
    <3>4. Record(f, i).found \in Seq(Founds(f))
      <4>1. CASE i \in Sound(f)
        <5>1. Record(f, i).found = <<At(f, i)>>
          BY <2>3, <4>1, RecordFinds
        <5>2. At(f, i) \in Founds(f)
          BY <4>1 DEF Founds
        <5>3. QED BY <5>1, <5>2
      <4>2. CASE i \notin Sound(f)
        <5>1. Record(f, i).found = <<>>
          BY <2>3, <4>2, RecordFinds
        <5>2. QED BY <5>1
      <4>3. QED BY <4>1, <4>2
    <3>5. ReadFrom(f)[i] \in Seq(Founds(f))
      BY <3>2, <3>3, <3>4, RangeOfConcat
    <3>6. QED BY <3>5
  <2>4. QED BY <1>1, <2>1, <2>2, <2>3
<1>3. 1..n \subseteq P
  <2> HIDE DEF P, n
  <2>1. QED BY <1>1, <1>2, Backwards
<1>4. QED BY <1>3

LEMMA ParseIsFound ==
  ASSUME NEW f, HasLines(f)
  PROVE  ParsePackagesTxt(f) \in Seq(Founds(f))
<1>1. 1 \in 1..(Len(f.lines) + 2)
  BY LinesAre
<1>2. QED BY <1>1, ReadIsFound, ReadFromIs

-----------------------------------------------------------------------------
(* What a record says.                                                     *)

Pos(f, i) ==
  LET s == Slots(f, i)
  IN  <<i, s.mirror, s.priority, s.location, s.size_c, s.size_u,
        s.required, s.conflicts, s.suggests, s.md5, s.desc>>

LEMMA FieldsAre ==
  /\ Len(FieldOrder) = 11 /\ DOMAIN FieldOrder = 1..11
  /\ FieldOrder[1] = "name" /\ FieldOrder[2] = "mirror" /\ FieldOrder[3] = "priority"
  /\ FieldOrder[4] = "location" /\ FieldOrder[5] = "size_c" /\ FieldOrder[6] = "size_u"
  /\ FieldOrder[7] = "required" /\ FieldOrder[8] = "conflicts" /\ FieldOrder[9] = "suggests"
  /\ FieldOrder[10] = "md5" /\ FieldOrder[11] = "desc"
BY DEF FieldOrder

LEMMA FieldsDiffer ==
  ASSUME NEW r \in 1..11, NEW q \in 1..11, FieldOrder[r] = FieldOrder[q]
  PROVE  r = q
<1>1. r \in {1,2,3,4,5,6,7,8,9,10,11} /\ q \in {1,2,3,4,5,6,7,8,9,10,11}
  OBVIOUS
<1>2. QED BY <1>1, FieldsAre

LEMMA PosRises ==
  ASSUME NEW f, NEW i \in Nat
  PROVE  /\ \A r \in 1..11 : Pos(f, i)[r] \in Nat
         /\ \A r, q \in 1..11 : r <= q => Pos(f, i)[r] <= Pos(f, i)[q]
<1> DEFINE s == Slots(f, i)
           p == Pos(f, i)
<1>1. /\ p[1] = i /\ p[2] = s.mirror /\ p[3] = s.priority /\ p[4] = s.location
      /\ p[5] = s.size_c /\ p[6] = s.size_u /\ p[7] = s.required /\ p[8] = s.conflicts
      /\ p[9] = s.suggests /\ p[10] = s.md5 /\ p[11] = s.desc
  BY DEF Pos
<1>2. /\ s.mirror \in Nat /\ s.priority \in Nat /\ s.location \in Nat /\ s.size_c \in Nat
      /\ s.size_u \in Nat /\ s.required \in Nat /\ s.conflicts \in Nat /\ s.suggests \in Nat
      /\ s.md5 \in Nat /\ s.desc \in Nat
  BY SlotsAre DEF Keys
<1>3. /\ i < s.mirror /\ s.mirror <= s.priority /\ s.priority <= s.location
      /\ s.location < s.size_c /\ s.size_c < s.size_u /\ s.size_u < s.required
      /\ s.required <= s.conflicts /\ s.conflicts <= s.suggests
      /\ s.suggests <= s.md5 /\ s.md5 <= s.desc
  BY SlotsRise
<1> HIDE DEF s, p
<1>4. \A r \in 1..11 : r \in {1,2,3,4,5,6,7,8,9,10,11}
  OBVIOUS
<1>5. \A r \in 1..11 : p[r] \in Nat
  BY <1>1, <1>2, <1>4
<1>6. ASSUME NEW r \in 1..10 PROVE p[r] <= p[r + 1]
  <2>1. r \in {1,2,3,4,5,6,7,8,9,10}
    OBVIOUS
  <2>2. QED BY <1>1, <1>2, <1>3, <2>1
<1>7. \A r, q \in 1..11 : r <= q => p[r] <= p[q]
  BY <1>1, <1>2, <1>3, <1>4
<1>8. QED BY <1>5, <1>7 DEF p

\* Line x is the field number r of a record that is whole.
IsField(f, x, r) ==
  /\ x \in DOMAIN f.lines /\ f.lines[x].kind = FieldOrder[r]
  /\ f.lines[x].val = Malformed => FieldOrder[r] \in Lenient
  /\ FieldOrder[r] \in {"priority", "md5"} => f.lines[x].val # OutOfRange

LEMMA PosIs ==
  ASSUME NEW f, NEW i \in Nat
  PROVE  LET s == Slots(f, i)
             p == Pos(f, i)
         IN  /\ p[1] = i /\ p[2] = s.mirror /\ p[3] = s.priority /\ p[4] = s.location
             /\ p[5] = s.size_c /\ p[6] = s.size_u /\ p[7] = s.required /\ p[8] = s.conflicts
             /\ p[9] = s.suggests /\ p[10] = s.md5 /\ p[11] = s.desc
BY DEF Pos

\* The lines from the name of a record to its description are its fields.
LEMMA RecordHas ==
  ASSUME NEW f, HasLines(f), NEW i \in Sound(f)
  PROVE  LET p == Pos(f, i)
         IN  /\ p[11] \in DOMAIN f.lines /\ i <= p[11]
             /\ \A r \in 1..11 : FieldOrder[r] \in Mandatory => IsField(f, p[r], r)
             /\ \A x \in i..p[11] : \E r \in 1..11 : x = p[r] /\ IsField(f, x, r)
<1> DEFINE s == Slots(f, i)
           p == Pos(f, i)
<1>1. /\ Len(f.lines) \in Nat /\ DOMAIN f.lines = 1..Len(f.lines)
      /\ i \in DOMAIN f.lines /\ i \in Nat /\ Given(f, i, "name") /\ Faults(f, s) = {}
  BY LinesAre DEF Sound
<1>2. /\ p[1] = i /\ p[2] = s.mirror /\ p[3] = s.priority /\ p[4] = s.location
      /\ p[5] = s.size_c /\ p[6] = s.size_u /\ p[7] = s.required /\ p[8] = s.conflicts
      /\ p[9] = s.suggests /\ p[10] = s.md5 /\ p[11] = s.desc
  BY <1>1, PosIs
<1>3. /\ s.mirror \in Nat /\ s.priority \in Nat /\ s.location \in Nat /\ s.size_c \in Nat
      /\ s.size_u \in Nat /\ s.required \in Nat /\ s.conflicts \in Nat /\ s.suggests \in Nat
      /\ s.md5 \in Nat /\ s.desc \in Nat
  BY <1>1, SlotsAre DEF Keys
<1>4. /\ s.mirror = i + 1 /\ s.priority = Past(f, s.mirror, "mirror")
      /\ s.location = Past(f, s.priority, "priority")
      /\ s.size_c = s.location + 1 /\ s.size_u = s.location + 2
      /\ s.required = s.location + 3
      /\ s.conflicts = Past(f, s.required, "required")
      /\ s.suggests = Past(f, s.conflicts, "conflicts")
      /\ s.md5 = Past(f, s.suggests, "suggests")
      /\ s.desc = Past(f, s.md5, "md5")
  BY <1>1, SlotsAre
<1>5. /\ \A k \in {"location", "size_c", "size_u", "desc"} : Given(f, s[k], k)
      /\ \A k \in {"priority", "md5"} : Val(f, s[k], k, NULL) # OutOfRange
  BY <1>1 DEF Faults
<1>6. i <= s.desc
  <2>1. s.desc \in Nat /\ i < s.desc
    BY <1>1, DescComesLast
  <2> HIDE DEF s
  <2>2. QED BY <1>1, <2>1
<1>7. s.desc \in DOMAIN f.lines
  BY <1>5 DEF Given, Marked
<1> HIDE DEF s, p
<1>8. IsField(f, i, 1)
  BY <1>1, FieldsAre DEF IsField, Given, Marked
<1>9. /\ IsField(f, s.location, 4) /\ IsField(f, s.size_c, 5) /\ IsField(f, s.size_u, 6)
      /\ IsField(f, s.desc, 11)
  <2>1. /\ Given(f, s.location, "location") /\ Given(f, s.size_c, "size_c")
        /\ Given(f, s.size_u, "size_u") /\ Given(f, s.desc, "desc")
    BY <1>5
  <2>2. QED BY <2>1, FieldsAre DEF IsField, Given, Marked
<1>10. s.priority = s.mirror \/ (s.priority = s.mirror + 1 /\ IsField(f, s.mirror, 2))
  BY <1>3, <1>4, PastIs, FieldsAre DEF IsField
<1>11. s.location = s.priority \/ (s.location = s.priority + 1 /\ IsField(f, s.priority, 3))
  <2> SUFFICES ASSUME s.location # s.priority
               PROVE  s.location = s.priority + 1 /\ IsField(f, s.priority, 3)
    OBVIOUS
  <2>1. /\ s.location = s.priority + 1
        /\ s.priority \in DOMAIN f.lines /\ f.lines[s.priority].kind = "priority"
        /\ f.lines[s.priority].val # Malformed
    BY <1>3, <1>4, PastIs DEF Lenient
  <2>2. Val(f, s.priority, "priority", NULL) = f.lines[s.priority].val
    BY <2>1 DEF Val, Given, Marked
  <2>3. Val(f, s.priority, "priority", NULL) # OutOfRange
    BY <1>5
  <2>4. QED BY <2>1, <2>2, <2>3, FieldsAre DEF IsField
<1>12. s.conflicts = s.required \/ (s.conflicts = s.required + 1 /\ IsField(f, s.required, 7))
  BY <1>3, <1>4, PastIs, FieldsAre DEF IsField
<1>13. s.suggests = s.conflicts \/ (s.suggests = s.conflicts + 1 /\ IsField(f, s.conflicts, 8))
  BY <1>3, <1>4, PastIs, FieldsAre DEF IsField
<1>14. s.md5 = s.suggests \/ (s.md5 = s.suggests + 1 /\ IsField(f, s.suggests, 9))
  BY <1>3, <1>4, PastIs, FieldsAre DEF IsField
<1>15. s.desc = s.md5 \/ (s.desc = s.md5 + 1 /\ IsField(f, s.md5, 10))
  <2> SUFFICES ASSUME s.desc # s.md5
               PROVE  s.desc = s.md5 + 1 /\ IsField(f, s.md5, 10)
    OBVIOUS
  <2>1. /\ s.desc = s.md5 + 1 /\ s.md5 \in DOMAIN f.lines /\ f.lines[s.md5].kind = "md5"
    BY <1>3, <1>4, PastIs
  <2>2. Val(f, s.md5, "md5", NULL) # OutOfRange
    BY <1>5
  <2>3. f.lines[s.md5].val # OutOfRange
    BY <2>1, <2>2, TextAssumption DEF Val, Given, Marked
  <2>4. QED BY <2>1, <2>3, FieldsAre DEF IsField, Lenient
<1>16. ASSUME NEW x \in i..s.desc
       PROVE  \E r \in 1..11 : x = p[r] /\ IsField(f, x, r)
  <2>1. \/ x = i \/ (x = s.mirror /\ s.priority = s.mirror + 1)
        \/ (x = s.priority /\ s.location = s.priority + 1)
        \/ x = s.location \/ x = s.size_c \/ x = s.size_u
        \/ (x = s.required /\ s.conflicts = s.required + 1)
        \/ (x = s.conflicts /\ s.suggests = s.conflicts + 1)
        \/ (x = s.suggests /\ s.md5 = s.suggests + 1)
        \/ (x = s.md5 /\ s.desc = s.md5 + 1) \/ x = s.desc
    <3>1. x \in Nat /\ i <= x /\ x <= s.desc
      BY <1>1, <1>3
    <3>2. s.mirror = i + 1 /\ s.size_c = s.location + 1 /\ s.size_u = s.location + 2
          /\ s.required = s.location + 3
      BY <1>4
    <3>3. /\ s.priority = s.mirror \/ s.priority = s.mirror + 1
          /\ s.location = s.priority \/ s.location = s.priority + 1
      BY <1>10, <1>11
    <3>4. /\ s.conflicts = s.required \/ s.conflicts = s.required + 1
          /\ s.suggests = s.conflicts \/ s.suggests = s.conflicts + 1
      BY <1>12, <1>13
    <3>5. /\ s.md5 = s.suggests \/ s.md5 = s.suggests + 1
          /\ s.desc = s.md5 \/ s.desc = s.md5 + 1
      BY <1>14, <1>15
    <3>6. CASE x < s.location
      <4>1. x = i \/ (x = s.mirror /\ s.priority = s.mirror + 1)
            \/ (x = s.priority /\ s.location = s.priority + 1)
        <5>1. s.priority = i + 1 \/ s.priority = i + 2
          BY <1>1, <3>2, <3>3
        <5>2. CASE x = i
          BY <5>2
        <5>3. CASE x = i + 1
          BY <1>1, <1>3, <3>2, <3>3, <3>6, <5>3
        <5>4. CASE x = i + 2
          BY <1>1, <1>3, <3>2, <3>3, <3>6, <5>4
        <5>5. s.location <= i + 3
          BY <1>1, <1>3, <3>3, <5>1
        <5>6. x = i \/ x = i + 1 \/ x = i + 2
          <6>1. i \in Nat /\ s.location \in Nat
            BY <1>1, <1>3
          <6>2. QED BY <3>1, <3>6, <5>5, <6>1
        <5>7. QED BY <5>2, <5>3, <5>4, <5>6
      <4>2. QED BY <4>1
    <3>7. CASE s.location <= x /\ x < s.conflicts
      <4>1. x = s.location \/ x = s.size_c \/ x = s.size_u
            \/ (x = s.required /\ s.conflicts = s.required + 1)
        BY <1>3, <3>1, <3>2, <3>4, <3>7
      <4>2. QED BY <4>1
    <3>8. CASE s.conflicts <= x
      <4>1. \/ (x = s.conflicts /\ s.suggests = s.conflicts + 1)
            \/ (x = s.suggests /\ s.md5 = s.suggests + 1)
            \/ (x = s.md5 /\ s.desc = s.md5 + 1) \/ x = s.desc
        BY <1>3, <3>1, <3>4, <3>5, <3>8
      <4>2. QED BY <4>1
    <3>9. QED BY <1>3, <3>1, <3>6, <3>7, <3>8
  <2>2. CASE x = i
    BY <1>2, <1>8, <2>2
  <2>3. CASE x = s.mirror /\ s.priority = s.mirror + 1
    BY <1>2, <1>3, <1>10, <2>3
  <2>4. CASE x = s.priority /\ s.location = s.priority + 1
    BY <1>2, <1>3, <1>11, <2>4
  <2>5. CASE x = s.location \/ x = s.size_c \/ x = s.size_u \/ x = s.desc
    BY <1>2, <1>9, <2>5
  <2>6. CASE x = s.required /\ s.conflicts = s.required + 1
    BY <1>2, <1>3, <1>12, <2>6
  <2>7. CASE x = s.conflicts /\ s.suggests = s.conflicts + 1
    BY <1>2, <1>3, <1>13, <2>7
  <2>8. CASE x = s.suggests /\ s.md5 = s.suggests + 1
    BY <1>2, <1>3, <1>14, <2>8
  <2>9. CASE x = s.md5 /\ s.desc = s.md5 + 1
    BY <1>2, <1>3, <1>15, <2>9
  <2>10. QED BY <2>1, <2>2, <2>3, <2>4, <2>5, <2>6, <2>7, <2>8, <2>9
<1>17. ASSUME NEW r \in 1..11, FieldOrder[r] \in Mandatory
       PROVE  IsField(f, p[r], r)
  <2>1. r \in {1, 2, 3, 4, 5, 6, 7, 8, 9, 10, 11}
    OBVIOUS
  <2>2. r \in {1, 4, 5, 6, 11}
    BY <1>17, <2>1, FieldsAre DEF Mandatory
  <2>3. QED BY <1>2, <1>8, <1>9, <2>2
<1>18. QED BY <1>2, <1>6, <1>7, <1>16, <1>17 DEF p

-----------------------------------------------------------------------------
(* What a list states.                                                     *)

Rank(kind) == SelectInSeq(FieldOrder, LAMBDA k : k = kind)

LEMMA RankIs ==
  ASSUME NEW kind
  PROVE  \/ Rank(kind) \in 1..11 /\ FieldOrder[Rank(kind)] = kind
         \/ Rank(kind) = 0 /\ \A r \in 1..11 : FieldOrder[r] # kind
<1> DEFINE S == {r \in 1..Len(FieldOrder) : FieldOrder[r] = kind}
<1>1. Rank(kind) = IF S # {} THEN Min(S) ELSE 0
  BY DEF Rank, SelectInSeq
<1>2. S = {r \in 1..11 : FieldOrder[r] = kind}
  BY FieldsAre
<1>3. CASE S = {}
  BY <1>1, <1>2, <1>3
<1>4. CASE S # {}
  <2>1. S \subseteq Nat
    BY <1>2
  <2>2. Min(S) \in S
    <3> HIDE DEF S
    <3>1. QED BY <1>4, <2>1, MinIs
  <2>3. QED BY <1>1, <1>2, <1>4, <2>2
<1>5. QED BY <1>3, <1>4

LEMMA RankOf ==
  ASSUME NEW r \in 1..11, NEW kind, kind = FieldOrder[r]
  PROVE  Rank(kind) = r
<1>1. Rank(kind) \in 1..11 /\ FieldOrder[Rank(kind)] = kind
  BY RankIs
<1>2. QED BY <1>1, FieldsDiffer

\* The ranks of well-formed lines rise from each line to any later one.
LEMMA OrderedRises ==
  ASSUME NEW ranks, NEW m \in Nat, DOMAIN ranks = 1..m, Ordered(ranks),
         \A x \in 1..m : ranks[x] \in Nat
  PROVE  \A x, y \in 1..m : x < y => ranks[x] < ranks[y]
<1> DEFINE Bad == {y \in 1..m : \E x \in 1..m : x < y /\ ~(ranks[x] < ranks[y])}
<1>1. \A x \in 1..m : x > 1 => ranks[x - 1] < ranks[x]
  BY DEF Ordered
<1>2. Bad = {}
  <2> SUFFICES ASSUME Bad # {} PROVE FALSE
    OBVIOUS
  <2>1. Bad \subseteq Nat
    OBVIOUS
  <2>2. PICK y \in Bad : \A z \in Bad : y <= z
    <3> HIDE DEF Bad
    <3>1. QED BY <2>1, ConcatFold!LeastNat
  <2>3. y \in 1..m /\ \E x \in 1..m : x < y /\ ~(ranks[x] < ranks[y])
    OBVIOUS
  <2>4. PICK x \in 1..m : x < y /\ ~(ranks[x] < ranks[y])
    BY <2>3
  <2>5. y - 1 \in 1..m /\ ranks[y - 1] < ranks[y] /\ ~(y <= y - 1)
    BY <1>1, <2>3, <2>4
  <2>6. x # y - 1
    BY <2>4, <2>5
  <2>7. x < y - 1
    BY <2>3, <2>4, <2>6
  <2>8. y - 1 \notin Bad
    <3> HIDE DEF Bad
    <3>1. QED BY <2>2, <2>5
  <2>9. ranks[x] < ranks[y - 1]
    BY <2>4, <2>5, <2>7, <2>8
  <2> HIDE DEF Bad
  <2>10. ranks[x] \in Nat /\ ranks[y - 1] \in Nat /\ ranks[y] \in Nat
    BY <2>3, <2>4, <2>5
  <2>11. QED BY <2>4, <2>5, <2>9, <2>10
<1>3. QED BY <1>2

LEMMA BlockEndIs ==
  ASSUME NEW f, HasLines(f), NEW i \in DOMAIN f.lines
  PROVE  /\ BlockEnd(f, i) \in Nat /\ i - 1 <= BlockEnd(f, i) /\ BlockEnd(f, i) <= Len(f.lines)
         /\ \/ BlockEnd(f, i) = Len(f.lines)
            \/ BlockEnd(f, i) + 1 \in DOMAIN f.lines /\ f.lines[BlockEnd(f, i) + 1] = Blank
         /\ \A j \in i..BlockEnd(f, i) : j \in DOMAIN f.lines /\ f.lines[j] # Blank
<1> DEFINE S == {j \in DOMAIN f.lines : j >= i /\ f.lines[j] = Blank} \cup {Len(f.lines) + 1}
<1>1. Len(f.lines) \in Nat /\ DOMAIN f.lines = 1..Len(f.lines) /\ i \in Nat /\ i > 0
  BY LinesAre
<1>2. S \subseteq Nat /\ S # {}
  BY <1>1
<1>3. BlockEnd(f, i) = Min(S) - 1
  BY DEF BlockEnd
<1>4. Min(S) \in S /\ \A x \in S : Min(S) <= x
  <2> HIDE DEF S
  <2>1. QED BY <1>2, MinIs
<1>5. Min(S) \in Nat /\ i <= Min(S) /\ Min(S) <= Len(f.lines) + 1
  BY <1>1, <1>2, <1>4
<1>6. Min(S) = Len(f.lines) + 1 \/ (Min(S) \in DOMAIN f.lines /\ f.lines[Min(S)] = Blank)
  BY <1>4
<1>7. ASSUME NEW j \in i..(Min(S) - 1)
      PROVE  j \in DOMAIN f.lines /\ f.lines[j] # Blank
  <2>1. j \in Nat /\ i <= j /\ ~(Min(S) <= j) /\ j \in DOMAIN f.lines
    <3> HIDE DEF S
    <3>1. QED BY <1>1, <1>5
  <2>2. f.lines[j] = Blank => j \in S
    BY <2>1
  <2> HIDE DEF S
  <2>3. QED BY <1>4, <2>1, <2>2
<1> HIDE DEF S
<1>8. Min(S) - 1 + 1 = Min(S) /\ Min(S) - 1 \in Nat /\ i - 1 <= Min(S) - 1
      /\ Min(S) - 1 <= Len(f.lines)
  BY <1>1, <1>5
<1>9. Min(S) = Len(f.lines) + 1 => Min(S) - 1 = Len(f.lines)
  BY <1>1
<1>10. QED BY <1>3, <1>6, <1>7, <1>8, <1>9

LEMMA SubSeqIs ==
  ASSUME NEW T, NEW s \in Seq(T), NEW i \in DOMAIN s, NEW d \in i..Len(s)
  PROVE  /\ Len(SubSeq(s, i, d)) = d - i + 1 /\ DOMAIN SubSeq(s, i, d) = 1..(d - i + 1)
         /\ \A x \in 1..(d - i + 1) :
              SubSeq(s, i, d)[x] = s[i + x - 1] /\ i + x - 1 \in i..d
         /\ \A y \in i..d : /\ y - i + 1 \in 1..(d - i + 1)
                            /\ SubSeq(s, i, d)[y - i + 1] = s[y]
<1>1. i \in Nat /\ d \in Nat /\ i <= d /\ i > 0
  OBVIOUS
<1>2. \A y \in i..d : y - i + 1 \in 1..(d - i + 1) /\ i + (y - i + 1) - 1 = y
  BY <1>1
<1>3. /\ Len(SubSeq(s, i, d)) = d - i + 1 /\ DOMAIN SubSeq(s, i, d) = 1..(d - i + 1)
      /\ \A x \in 1..(d - i + 1) : SubSeq(s, i, d)[x] = s[i + x - 1]
  BY <1>1
<1>4. \A x \in 1..(d - i + 1) : i + x - 1 \in i..d
  BY <1>1
<1>5. QED BY <1>2, <1>3, <1>4

LEMMA HeadersIs ==
  ASSUME NEW f, HasLines(f), NEW i \in DOMAIN f.lines
  PROVE  \/ Headers(f, i) = <<>> /\ \A d \in i..BlockEnd(f, i) : f.lines[d].kind # "desc"
         \/ \E d \in i..BlockEnd(f, i) :
              /\ Headers(f, i) = SubSeq(f.lines, i, d) /\ f.lines[d].kind = "desc"
              /\ \A x \in i..BlockEnd(f, i) : f.lines[x].kind = "desc" => d <= x
<1> DEFINE D == {d \in i..BlockEnd(f, i) : f.lines[d].kind = "desc"}
<1>1. Headers(f, i) = IF D = {} THEN <<>> ELSE SubSeq(f.lines, i, Min(D))
  BY DEF Headers
<1>2. D = {} => \A d \in i..BlockEnd(f, i) : f.lines[d].kind # "desc"
  OBVIOUS
<1>3. D \subseteq Nat
  BY LinesAre, BlockEndIs
<1>4. D # {} => Min(D) \in D /\ \A x \in D : Min(D) <= x
  <2> HIDE DEF D
  <2>1. QED BY <1>3, MinIs
<1>5. QED BY <1>1, <1>2, <1>4

\* What a record is made of, seen from the lines: the lines from i to d are
\* the fields, in their order and each at most once.
IsBlock(f, i, d) ==
  /\ i \in DOMAIN f.lines /\ d \in i..Len(f.lines)
  /\ \A x \in i..d : \E r \in 1..11 : Rank(f.lines[x].kind) = r /\ IsField(f, x, r)
  /\ \A x, y \in i..d : x < y => Rank(f.lines[x].kind) < Rank(f.lines[y].kind)
  /\ \A r \in 1..11 :
       FieldOrder[r] \in Mandatory => \E x \in i..d : Rank(f.lines[x].kind) = r
  /\ Rank(f.lines[i].kind) = 1 /\ Rank(f.lines[d].kind) = 11

LEMMA NamesAreBlocks ==
  ASSUME NEW f, HasLines(f), NEW i \in Names(f)
  PROVE  \E d \in i..BlockEnd(f, i) :
           Headers(f, i) = SubSeq(f.lines, i, d) /\ IsBlock(f, i, d)
<1> DEFINE h == Headers(f, i)
<1>1. /\ Len(f.lines) \in Nat /\ DOMAIN f.lines = 1..Len(f.lines)
      /\ i \in DOMAIN f.lines /\ i \in Nat /\ Given(f, i, "name") /\ WellFormed(h)
      /\ f.lines \in Seq(Range(f.lines))
  BY LinesAre DEF Names, HasLines
<1>2. h # <<>>
  <2>1. "name" \in Mandatory
    BY DEF Mandatory
  <2>2. PICK x \in DOMAIN h : h[x].kind = "name"
    BY <1>1, <2>1 DEF WellFormed
  <2>3. QED BY <2>2
<1>3. PICK d \in i..BlockEnd(f, i) : h = SubSeq(f.lines, i, d) /\ f.lines[d].kind = "desc"
  BY <1>1, <1>2, HeadersIs
<1>4. d \in i..Len(f.lines) /\ d \in Nat /\ i <= d
  BY <1>1, <1>3, BlockEndIs
<1> DEFINE m == d - i + 1
<1>5. /\ DOMAIN h = 1..m
      /\ \A x \in 1..m : h[x] = f.lines[i + x - 1] /\ i + x - 1 \in i..d
      /\ \A y \in i..d : y - i + 1 \in 1..m /\ h[y - i + 1] = f.lines[y]
  <2>1. f.lines \in Seq(Range(f.lines)) /\ i \in DOMAIN f.lines /\ d \in i..Len(f.lines)
    BY <1>1, <1>4
  <2>2. DOMAIN SubSeq(f.lines, i, d) = 1..(d - i + 1)
    BY <2>1, SubSeqIs
  <2>3. \A x \in 1..(d - i + 1) :
          SubSeq(f.lines, i, d)[x] = f.lines[i + x - 1] /\ i + x - 1 \in i..d
    BY <2>1, SubSeqIs
  <2>4. \A y \in i..d : /\ y - i + 1 \in 1..(d - i + 1)
                        /\ SubSeq(f.lines, i, d)[y - i + 1] = f.lines[y]
    BY <2>1, SubSeqIs
  <2> HIDE DEF h
  <2>5. QED BY <1>3, <2>2, <2>3, <2>4
<1>6. m \in Nat
  BY <1>1, <1>4
<1> DEFINE ranks == [x \in DOMAIN h |-> Rank(h[x].kind)]
<1>7. Ordered(ranks)
  BY <1>1 DEF WellFormed, Rank
<1>8. \A x \in DOMAIN h :
         /\ h[x].val = Malformed => h[x].kind \in Lenient
         /\ h[x].kind \in {"priority", "md5"} => h[x].val # OutOfRange
  BY <1>1 DEF WellFormed
<1>9. Mandatory \subseteq {h[x].kind : x \in DOMAIN h}
  BY <1>1 DEF WellFormed
<1>10. /\ DOMAIN ranks = 1..m
       /\ \A x \in 1..m : ranks[x] = Rank(h[x].kind) /\ ranks[x] \in Nat /\ ranks[x] \in 1..11
  <2>1. \A x \in DOMAIN h : ranks[x] = Rank(h[x].kind) /\ ranks[x] > 0
    BY <1>7 DEF Ordered
  <2>2. \A x \in DOMAIN h : Rank(h[x].kind) \in 1..11 \/ Rank(h[x].kind) = 0
    BY RankIs
  <2>3. DOMAIN ranks = DOMAIN h
    OBVIOUS
  <2> HIDE DEF ranks, h
  <2>4. \A x \in DOMAIN h : ranks[x] \in 1..11
    BY <2>1, <2>2
  <2>5. \A x \in DOMAIN h : ranks[x] \in Nat
    BY <2>4
  <2> HIDE DEF m
  <2>6. QED BY <1>5, <2>1, <2>3, <2>4, <2>5
<1> HIDE DEF h, ranks, m
<1>11. \A x, y \in 1..m : x < y => ranks[x] < ranks[y]
  BY <1>6, <1>7, <1>10, OrderedRises
<1>12. \A y \in i..d : Rank(f.lines[y].kind) = ranks[y - i + 1]
  BY <1>5, <1>10
<1>13. ASSUME NEW x \in i..d
       PROVE  \E r \in 1..11 : Rank(f.lines[x].kind) = r /\ IsField(f, x, r)
  <2>1. Rank(f.lines[x].kind) \in 1..11
    BY <1>5, <1>10, <1>12
  <2>2. FieldOrder[Rank(f.lines[x].kind)] = f.lines[x].kind
    BY <2>1, RankIs
  <2>3. x \in DOMAIN f.lines
    BY <1>1, <1>4
  <2>4. /\ f.lines[x].val = Malformed => f.lines[x].kind \in Lenient
        /\ f.lines[x].kind \in {"priority", "md5"} => f.lines[x].val # OutOfRange
    <3>1. PICK z \in DOMAIN h : h[z] = f.lines[x]
      BY <1>5
    <3>2. QED BY <1>8, <3>1
  <2>5. QED BY <2>1, <2>2, <2>3, <2>4 DEF IsField
<1>14. ASSUME NEW x \in i..d, NEW y \in i..d, x < y
       PROVE  Rank(f.lines[x].kind) < Rank(f.lines[y].kind)
  <2>1. x - i + 1 < y - i + 1
    BY <1>1, <1>4, <1>14
  <2>2. QED BY <1>5, <1>11, <1>12, <2>1
<1>15. ASSUME NEW r \in 1..11, FieldOrder[r] \in Mandatory
       PROVE  \E x \in i..d : Rank(f.lines[x].kind) = r
  <2>1. PICK x \in 1..m : h[x].kind = FieldOrder[r]
    BY <1>5, <1>9, <1>15
  <2>2. Rank(h[x].kind) = r
    BY <2>1, RankOf
  <2>3. QED BY <1>5, <2>2
<1>16. Rank(f.lines[i].kind) = 1 /\ Rank(f.lines[d].kind) = 11
  <2>1. f.lines[i].kind = FieldOrder[1] /\ f.lines[d].kind = FieldOrder[11]
    BY <1>1, <1>3, FieldsAre DEF Given, Marked
  <2>2. QED BY <2>1, RankOf
<1>17. IsBlock(f, i, d)
  BY <1>1, <1>4, <1>13, <1>14, <1>15, <1>16 DEF IsBlock
<1>18. QED BY <1>3, <1>17 DEF h

\* Line y is the first one of a block that is field r or a later one.
Ready(f, i, d, y, r) ==
  /\ y \in i..d /\ Rank(f.lines[y].kind) >= r
  /\ \A z \in i..d : z < y => Rank(f.lines[z].kind) < r

LEMMA ReadyMandatory ==
  ASSUME NEW f, HasLines(f), NEW i, NEW d, IsBlock(f, i, d), NEW y, NEW r \in 1..11,
         Ready(f, i, d, y, r), FieldOrder[r] \in Mandatory
  PROVE  Rank(f.lines[y].kind) = r
<1>1. PICK x \in i..d : Rank(f.lines[x].kind) = r
  BY DEF IsBlock
<1>2. /\ y \in i..d /\ Rank(f.lines[y].kind) >= r
      /\ \A z \in i..d : z < y => Rank(f.lines[z].kind) < r
  BY DEF Ready
<1>3. y < x => Rank(f.lines[y].kind) < Rank(f.lines[x].kind)
  BY <1>1, <1>2 DEF IsBlock
<1>4. ~(x < y)
  BY <1>1, <1>2
<1>5. i \in Nat /\ d \in Nat
  BY LinesAre DEF IsBlock
<1>6. Rank(f.lines[y].kind) \in 1..11
  BY <1>2 DEF IsBlock
<1>7. CASE x = y
  BY <1>1, <1>7
<1>8. CASE y < x
  BY <1>1, <1>2, <1>3, <1>6, <1>8
<1>9. QED BY <1>1, <1>2, <1>4, <1>5, <1>7, <1>8

LEMMA ReadyNext ==
  ASSUME NEW f, HasLines(f), NEW i, NEW d, IsBlock(f, i, d), NEW y, NEW r \in 1..10,
         Ready(f, i, d, y, r), Rank(f.lines[y].kind) = r
  PROVE  Ready(f, i, d, y + 1, r + 1)
<1>1. i \in Nat /\ d \in Nat /\ y \in i..d /\ y \in Nat
  BY LinesAre DEF IsBlock, Ready
<1>2. y # d
  BY DEF IsBlock
<1>3. y + 1 \in i..d /\ y < y + 1
  BY <1>1, <1>2
<1>4. \A z \in i..d : Rank(f.lines[z].kind) \in 1..11
  BY DEF IsBlock
<1>5. Rank(f.lines[y].kind) < Rank(f.lines[y + 1].kind)
  BY <1>1, <1>3 DEF IsBlock
<1>6. Rank(f.lines[y + 1].kind) >= r + 1
  BY <1>3, <1>4, <1>5
<1>7. ASSUME NEW z \in i..d, z < y + 1
      PROVE  Rank(f.lines[z].kind) < r + 1
  <2>1. z = y \/ z < y
    BY <1>1, <1>7
  <2>2. z < y => Rank(f.lines[z].kind) < r
    BY DEF Ready
  <2>3. QED BY <1>4, <2>1, <2>2
<1>8. QED BY <1>3, <1>6, <1>7 DEF Ready

LEMMA ReadyPast ==
  ASSUME NEW f, HasLines(f), NEW i, NEW d, IsBlock(f, i, d), NEW y, NEW r \in 1..10,
         Ready(f, i, d, y, r)
  PROVE  Ready(f, i, d, Past(f, y, FieldOrder[r]), r + 1)
<1>1. /\ i \in Nat /\ d \in Nat /\ y \in i..d /\ y \in Nat /\ y \in DOMAIN f.lines
      /\ DOMAIN f.lines = 1..Len(f.lines) /\ Len(f.lines) \in Nat
  BY LinesAre DEF IsBlock, Ready
<1>2. PICK q \in 1..11 : Rank(f.lines[y].kind) = q /\ IsField(f, y, q)
  BY <1>1 DEF IsBlock
<1>3. CASE q = r
  <2>1. f.lines[y].kind = FieldOrder[r] /\ (f.lines[y].val = Malformed => FieldOrder[r] \in Lenient)
    BY <1>2, <1>3 DEF IsField
  <2>2. Past(f, y, FieldOrder[r]) = y + 1
    BY <1>1, <2>1 DEF Past, Given, Marked
  <2>3. QED BY <1>2, <1>3, <2>2, ReadyNext
<1>4. CASE q # r
  <2>1. r \in 1..11
    OBVIOUS
  <2>2. f.lines[y].kind # FieldOrder[r]
    BY <1>2, <1>4, <2>1, FieldsDiffer DEF IsField
  <2>3. Past(f, y, FieldOrder[r]) = y
    BY <1>1, <2>2 DEF Past, Given, Marked
  <2>4. q >= r + 1
    BY <1>2, <1>4 DEF Ready
  <2>5. \A z \in i..d : z < y => Rank(f.lines[z].kind) < r + 1
    <3>1. \A z \in i..d : Rank(f.lines[z].kind) \in 1..11
      BY DEF IsBlock
    <3>2. QED BY <3>1 DEF Ready
  <2>6. QED BY <1>1, <1>2, <2>3, <2>4, <2>5 DEF Ready
<1>5. QED BY <1>3, <1>4

\* Every record that a list states is read without a fault.
LEMMA NamesAreSound ==
  ASSUME NEW f, HasLines(f), NEW i \in Names(f)
  PROVE  i \in Sound(f)
<1> DEFINE s == Slots(f, i)
<1>1. i \in DOMAIN f.lines /\ i \in Nat /\ Given(f, i, "name")
  BY LinesAre DEF Names
<1>2. PICK d \in i..BlockEnd(f, i) : IsBlock(f, i, d)
  BY NamesAreBlocks
<1>3. /\ s.mirror = i + 1 /\ s.priority = Past(f, s.mirror, "mirror")
      /\ s.location = Past(f, s.priority, "priority")
      /\ s.size_c = s.location + 1 /\ s.size_u = s.location + 2
      /\ s.required = s.location + 3
      /\ s.conflicts = Past(f, s.required, "required")
      /\ s.suggests = Past(f, s.conflicts, "conflicts")
      /\ s.md5 = Past(f, s.suggests, "suggests")
      /\ s.desc = Past(f, s.md5, "md5")
  BY <1>1, SlotsAre
<1>4. s.location \in Nat
  BY <1>1, SlotsAre DEF Keys
<1> HIDE DEF s
<1>5. \A y : \A r \in 1..11 : Ready(f, i, d, y, r) /\ FieldOrder[r] \in Mandatory
                => Rank(f.lines[y].kind) = r
  BY <1>2, ReadyMandatory
<1>6. \A y : \A r \in 1..10 : Ready(f, i, d, y, r) /\ Rank(f.lines[y].kind) = r
                => Ready(f, i, d, y + 1, r + 1)
  BY <1>2, ReadyNext
<1>7. \A y : \A r \in 1..10 : Ready(f, i, d, y, r) => Ready(f, i, d, Past(f, y, FieldOrder[r]), r + 1)
  BY <1>2, ReadyPast
<1>8. /\ 1 \in 1..10 /\ 2 \in 1..10 /\ 3 \in 1..10 /\ 4 \in 1..10 /\ 5 \in 1..10 /\ 6 \in 1..10
      /\ 7 \in 1..10 /\ 8 \in 1..10 /\ 9 \in 1..10 /\ 10 \in 1..10 /\ 11 \in 1..11
      /\ \A r \in 1..10 : r \in 1..11
      /\ 1 + 1 = 2 /\ 2 + 1 = 3 /\ 3 + 1 = 4 /\ 4 + 1 = 5 /\ 5 + 1 = 6 /\ 6 + 1 = 7 /\ 7 + 1 = 8
      /\ 8 + 1 = 9 /\ 9 + 1 = 10 /\ 10 + 1 = 11
      /\ s.location + 1 + 1 = s.location + 2 /\ s.location + 2 + 1 = s.location + 3
  BY <1>4
<1>9. /\ FieldOrder[4] \in Mandatory /\ FieldOrder[5] \in Mandatory
      /\ FieldOrder[6] \in Mandatory /\ FieldOrder[11] \in Mandatory
  BY FieldsAre DEF Mandatory
<1>10. Ready(f, i, d, i, 1) /\ Rank(f.lines[i].kind) = 1
  <2>1. \A z \in i..d : ~(z < i)
    BY <1>1
  <2>2. i \in i..d /\ Rank(f.lines[i].kind) = 1
    BY <1>1, <1>2 DEF IsBlock
  <2>3. QED BY <2>1, <2>2 DEF Ready
<1>11. Ready(f, i, d, s.mirror, 2)
  BY <1>3, <1>6, <1>8, <1>10
<1>12. Ready(f, i, d, s.priority, 3)
  BY <1>3, <1>7, <1>8, <1>11, FieldsAre
<1>13. Ready(f, i, d, s.location, 4)
  BY <1>3, <1>7, <1>8, <1>12, FieldsAre
<1>14. Rank(f.lines[s.location].kind) = 4
  BY <1>5, <1>8, <1>9, <1>13
<1>15. Ready(f, i, d, s.size_c, 5)
  BY <1>3, <1>6, <1>8, <1>13, <1>14
<1>16. Rank(f.lines[s.size_c].kind) = 5
  BY <1>5, <1>8, <1>9, <1>15
<1>17. Ready(f, i, d, s.size_u, 6)
  <2>1. s.size_u = s.size_c + 1
    BY <1>3, <1>8
  <2>2. QED BY <1>6, <1>8, <1>15, <1>16, <2>1
<1>18. Rank(f.lines[s.size_u].kind) = 6
  BY <1>5, <1>8, <1>9, <1>17
<1>19. Ready(f, i, d, s.required, 7)
  <2>1. s.required = s.size_u + 1
    BY <1>3, <1>8
  <2>2. QED BY <1>6, <1>8, <1>17, <1>18, <2>1
<1>20. Ready(f, i, d, s.conflicts, 8)
  BY <1>3, <1>7, <1>8, <1>19, FieldsAre
<1>21. Ready(f, i, d, s.suggests, 9)
  BY <1>3, <1>7, <1>8, <1>20, FieldsAre
<1>22. Ready(f, i, d, s.md5, 10)
  BY <1>3, <1>7, <1>8, <1>21, FieldsAre
<1>23. Ready(f, i, d, s.desc, 11)
  BY <1>3, <1>7, <1>8, <1>22, FieldsAre
<1>24. Rank(f.lines[s.desc].kind) = 11
  BY <1>5, <1>8, <1>9, <1>23
<1>25. \A y \in i..d : IsField(f, y, Rank(f.lines[y].kind))
  BY <1>2 DEF IsBlock
<1>26. /\ s.priority \in i..d /\ s.location \in i..d /\ s.size_c \in i..d
       /\ s.size_u \in i..d /\ s.md5 \in i..d /\ s.desc \in i..d
  BY <1>12, <1>13, <1>15, <1>17, <1>22, <1>23 DEF Ready
<1>27. /\ IsField(f, s.location, 4) /\ IsField(f, s.size_c, 5)
       /\ IsField(f, s.size_u, 6) /\ IsField(f, s.desc, 11)
  BY <1>14, <1>16, <1>18, <1>24, <1>25, <1>26
<1>28. \A k \in {"location", "size_c", "size_u", "desc"} : Given(f, s[k], k)
  BY <1>27, FieldsAre DEF IsField, Given, Marked, Lenient
<1>29. \A k \in {"priority", "md5"} : Val(f, s[k], k, NULL) # OutOfRange
  <2>1. ASSUME NEW y \in i..d, NEW k \in {"priority", "md5"}, Given(f, y, k)
        PROVE  f.lines[y].val # OutOfRange
    <3>1. IsField(f, y, Rank(f.lines[y].kind)) /\ f.lines[y].kind = k
      BY <1>25, <2>1 DEF Given, Marked
    <3>2. QED BY <3>1 DEF IsField
  <2>2. \A y \in i..d : \A k \in {"priority", "md5"} : Val(f, y, k, NULL) # OutOfRange
    BY <2>1, TextAssumption DEF Val, Value
  <2>3. QED BY <1>26, <2>2
<1>30. Faults(f, s) = {}
  BY <1>28, <1>29 DEF Faults
<1>31. QED BY <1>1, <1>30 DEF Sound, s

\* The lines from the name of a record that is found to its description are
\* what the list states there.
LEMMA SoundHeaders ==
  ASSUME NEW f, HasLines(f), NEW i \in Sound(f)
  PROVE  LET d == Slots(f, i).desc
         IN  /\ i \in DOMAIN f.lines /\ d \in i..Len(f.lines)
             /\ Headers(f, i) = SubSeq(f.lines, i, d)
             /\ BlockEnd(f, i) + 1 = DescEnd(f, d)
<1> DEFINE p == Pos(f, i)
           d == Slots(f, i).desc
           n == Len(f.lines)
<1>1. /\ n \in Nat /\ DOMAIN f.lines = 1..n
      /\ i \in DOMAIN f.lines /\ i \in Nat /\ Given(f, i, "name")
  BY LinesAre DEF Sound
<1>2. p[11] = d
  BY <1>1, PosIs
<1>3. /\ p[11] \in DOMAIN f.lines /\ i <= p[11]
      /\ \A r \in 1..11 : FieldOrder[r] \in Mandatory => IsField(f, p[r], r)
      /\ \A x \in i..p[11] : \E r \in 1..11 : x = p[r] /\ IsField(f, x, r)
  BY RecordHas
<1>4. \A r, q \in 1..11 : r <= q => p[r] <= p[q]
  BY <1>1, PosRises
<1> HIDE DEF p, d
<1>5. d \in DOMAIN f.lines /\ d \in Nat /\ i <= d /\ d <= n /\ d \in i..n
  BY <1>1, <1>2, <1>3
<1>6. \A r \in 1..11 : FieldOrder[r] # "blank"
  <2>1. \A r \in 1..11 : r \in {1, 2, 3, 4, 5, 6, 7, 8, 9, 10, 11}
    OBVIOUS
  <2>2. QED BY <2>1, FieldsAre
<1>7. \A x \in i..d : f.lines[x] # Blank
  BY <1>2, <1>3, <1>6 DEF IsField, Blank, Line
<1>8. f.lines[d].kind = "desc"
  <2>1. IsField(f, p[11], 11)
    BY <1>3, FieldsAre DEF Mandatory
  <2>2. QED BY <1>2, <2>1, FieldsAre DEF IsField
<1>9. ASSUME NEW x \in i..d, f.lines[x].kind = "desc"
      PROVE  x = d
  <2>1. PICK r \in 1..11 : x = p[r] /\ IsField(f, x, r)
    BY <1>2, <1>3
  <2>2. FieldOrder[r] = FieldOrder[11] /\ 11 \in 1..11
    BY <1>9, <2>1, FieldsAre DEF IsField
  <2>3. r = 11
    BY <2>2, FieldsDiffer
  <2>4. QED BY <1>2, <2>1, <2>3
<1>10. /\ BlockEnd(f, i) \in Nat /\ i - 1 <= BlockEnd(f, i) /\ BlockEnd(f, i) <= n
       /\ \/ BlockEnd(f, i) = n
          \/ BlockEnd(f, i) + 1 \in DOMAIN f.lines /\ f.lines[BlockEnd(f, i) + 1] = Blank
       /\ \A j \in i..BlockEnd(f, i) : j \in DOMAIN f.lines /\ f.lines[j] # Blank
  BY <1>1, BlockEndIs
<1>11. /\ DescEnd(f, d) \in Nat /\ d < DescEnd(f, d) /\ DescEnd(f, d) <= n + 1
       /\ \/ DescEnd(f, d) = n + 1
          \/ DescEnd(f, d) \in DOMAIN f.lines /\ f.lines[DescEnd(f, d)] = Blank
       /\ \A j \in DOMAIN f.lines : d < j /\ j < DescEnd(f, d) => f.lines[j] # Blank
  BY <1>5, DescEndIs
<1> HIDE DEF n
<1> DEFINE b == BlockEnd(f, i)
           e == DescEnd(f, d)
<1> HIDE DEF b, e
<1>12. d <= b
  <2> SUFFICES ASSUME ~(d <= b) PROVE FALSE
    OBVIOUS
  <2>1. b \in Nat /\ b # n /\ b + 1 \in i..d
    BY <1>1, <1>5, <1>10 DEF b
  <2>2. f.lines[b + 1] = Blank
    BY <1>10, <2>1 DEF b
  <2>3. QED BY <1>7, <2>1, <2>2
<1>13. b + 1 = e
  <2>1. b \in Nat /\ e \in Nat /\ b <= n /\ e <= n + 1 /\ d < e
    BY <1>10, <1>11 DEF b, e
  <2>2. ~(b + 1 < e)
    <3> SUFFICES ASSUME b + 1 < e PROVE FALSE
      OBVIOUS
    <3>1. b # n /\ d < b + 1
      BY <1>1, <1>5, <1>12, <2>1
    <3>2. b + 1 \in DOMAIN f.lines /\ f.lines[b + 1] = Blank
      BY <1>10, <3>1 DEF b
    <3>3. QED BY <1>11, <3>1, <3>2 DEF e
  <2>3. ~(e < b + 1)
    <3> SUFFICES ASSUME e < b + 1 PROVE FALSE
      OBVIOUS
    <3>1. e # n + 1 /\ e \in i..b
      BY <1>1, <1>5, <2>1
    <3>2. f.lines[e] = Blank
      BY <1>11, <3>1 DEF e
    <3>3. QED BY <1>10, <3>1, <3>2 DEF b
  <2>4. QED BY <2>1, <2>2, <2>3
<1>14. Headers(f, i) = SubSeq(f.lines, i, d)
  <2>1. d \in i..b
    BY <1>1, <1>5, <1>10, <1>12 DEF b
  <2>2. PICK c \in i..b :
          /\ Headers(f, i) = SubSeq(f.lines, i, c) /\ f.lines[c].kind = "desc"
          /\ \A x \in i..b : f.lines[x].kind = "desc" => c <= x
    BY <1>1, <1>8, <2>1, HeadersIs DEF b
  <2>3. c <= d
    BY <1>8, <2>1, <2>2
  <2>4. c \in i..d
    BY <1>1, <1>5, <1>10, <2>3 DEF b
  <2>5. c = d
    BY <1>9, <2>2, <2>4
  <2>6. QED BY <2>2, <2>5
<1>15. QED BY <1>1, <1>5, <1>13, <1>14 DEF b, d, e, n

LEMMA SoundIsName ==
  ASSUME NEW f, HasLines(f), NEW i \in Sound(f)
  PROVE  i \in Names(f)
<1> DEFINE p == Pos(f, i)
           d == Slots(f, i).desc
           h == Headers(f, i)
           m == d - i + 1
<1>1. /\ Len(f.lines) \in Nat /\ DOMAIN f.lines = 1..Len(f.lines)
      /\ i \in DOMAIN f.lines /\ i \in Nat /\ Given(f, i, "name")
      /\ f.lines \in Seq(Range(f.lines))
  BY LinesAre DEF Sound, HasLines
<1>2. p[11] = d /\ p[1] = i
  BY <1>1, PosIs
<1>3. /\ \A r \in 1..11 : FieldOrder[r] \in Mandatory => IsField(f, p[r], r)
      /\ \A x \in i..p[11] : \E r \in 1..11 : x = p[r] /\ IsField(f, x, r)
  BY RecordHas
<1>4. \A r, q \in 1..11 : r <= q => p[r] <= p[q]
  BY <1>1, PosRises
<1>5. \A r \in 1..11 : p[r] \in Nat
  BY <1>1, PosRises
<1>6. d \in i..Len(f.lines) /\ h = SubSeq(f.lines, i, d)
  BY SoundHeaders
<1> HIDE DEF p, d
<1>7. d \in Nat
  BY <1>1, <1>6
<1>8. /\ DOMAIN h = 1..m
      /\ \A x \in 1..m : h[x] = f.lines[i + x - 1] /\ i + x - 1 \in i..d
      /\ \A y \in i..d : y - i + 1 \in 1..m /\ h[y - i + 1] = f.lines[y]
  <2>1. f.lines \in Seq(Range(f.lines)) /\ i \in DOMAIN f.lines /\ d \in i..Len(f.lines)
    BY <1>1, <1>6
  <2>2. DOMAIN SubSeq(f.lines, i, d) = 1..(d - i + 1)
    BY <2>1, SubSeqIs
  <2>3. \A x \in 1..(d - i + 1) :
          SubSeq(f.lines, i, d)[x] = f.lines[i + x - 1] /\ i + x - 1 \in i..d
    BY <2>1, SubSeqIs
  <2>4. \A y \in i..d : /\ y - i + 1 \in 1..(d - i + 1)
                        /\ SubSeq(f.lines, i, d)[y - i + 1] = f.lines[y]
    BY <2>1, SubSeqIs
  <2> HIDE DEF h
  <2>5. QED BY <1>6, <2>2, <2>3, <2>4
<1> HIDE DEF h
<1>9. ASSUME NEW x \in 1..m
      PROVE  \E r \in 1..11 : /\ i + x - 1 = p[r] /\ h[x].kind = FieldOrder[r]
                              /\ Rank(h[x].kind) = r
                              /\ h[x].val = Malformed => FieldOrder[r] \in Lenient
                              /\ FieldOrder[r] \in {"priority", "md5"} => h[x].val # OutOfRange
  <2>1. h[x] = f.lines[i + x - 1] /\ i + x - 1 \in i..d
    BY <1>8
  <2>2. PICK r \in 1..11 : i + x - 1 = p[r] /\ IsField(f, i + x - 1, r)
    BY <1>2, <1>3, <2>1
  <2>3. Rank(h[x].kind) = r
    BY <2>1, <2>2, RankOf DEF IsField
  <2>4. QED BY <2>1, <2>2, <2>3 DEF IsField
<1> DEFINE ranks == [x \in DOMAIN h |-> Rank(h[x].kind)]
<1>10. Ordered(ranks)
  <2>1. ASSUME NEW x \in 1..m
        PROVE  Rank(h[x].kind) > 0 /\ (x > 1 => Rank(h[x - 1].kind) < Rank(h[x].kind))
    <3>1. PICK r \in 1..11 : i + x - 1 = p[r] /\ Rank(h[x].kind) = r
      BY <1>9
    <3>2. ASSUME x > 1
          PROVE  Rank(h[x - 1].kind) < Rank(h[x].kind)
      <4>1. x - 1 \in 1..m
        BY <1>1, <1>7, <3>2
      <4>2. PICK q \in 1..11 : i + (x - 1) - 1 = p[q] /\ Rank(h[x - 1].kind) = q
        BY <1>9, <4>1
      <4>3. p[q] < p[r]
        BY <1>1, <3>1, <4>2
      <4>4. ~(r <= q)
        BY <1>4, <1>5, <4>3
      <4>5. QED BY <3>1, <4>2, <4>4
    <3>3. QED BY <3>1, <3>2
  <2>2. \A x \in 1..m : x > 1 => x - 1 \in 1..m
    BY <1>1, <1>7
  <2>3. DOMAIN ranks = 1..m /\ \A x \in 1..m : ranks[x] = Rank(h[x].kind)
    BY <1>8
  <2> HIDE DEF ranks, m
  <2>4. QED BY <2>1, <2>2, <2>3 DEF Ordered
<1>11. Mandatory \subseteq {h[x].kind : x \in DOMAIN h}
  <2>1. ASSUME NEW r \in 1..11, FieldOrder[r] \in Mandatory
        PROVE  \E x \in DOMAIN h : h[x].kind = FieldOrder[r]
    <3>1. IsField(f, p[r], r)
      BY <1>3, <2>1
    <3>2. p[1] <= p[r] /\ p[r] <= p[11] /\ p[r] \in Nat
      BY <1>4, <1>5
    <3>3. p[r] \in i..d
      BY <1>1, <1>2, <1>7, <3>2
    <3>4. PICK z \in DOMAIN h : h[z] = f.lines[p[r]]
      BY <1>8, <3>3
    <3>5. QED BY <3>1, <3>4 DEF IsField
  <2>2. \A k \in Mandatory : \E r \in 1..11 : FieldOrder[r] = k
    <3>1. 1 \in 1..11 /\ 4 \in 1..11 /\ 5 \in 1..11 /\ 6 \in 1..11 /\ 11 \in 1..11
      OBVIOUS
    <3>2. QED BY <3>1, FieldsAre DEF Mandatory
  <2>3. QED BY <2>1, <2>2
<1>12. ASSUME NEW x \in DOMAIN h
       PROVE  /\ h[x].val = Malformed => h[x].kind \in Lenient
              /\ h[x].kind \in {"priority", "md5"} => h[x].val # OutOfRange
  BY <1>8, <1>9
<1>13. WellFormed(h)
  BY <1>10, <1>11, <1>12 DEF WellFormed, Rank
<1>14. QED BY <1>1, <1>13 DEF Names, h

\* What is said of a field is what the parser takes for it.
LEMMA SaidIs ==
  ASSUME NEW f, HasLines(f), NEW i \in Sound(f), NEW r \in 1..11, NEW default
  PROVE  Said(Headers(f, i), FieldOrder[r], default)
           = Val(f, Pos(f, i)[r], FieldOrder[r], default)
<1> DEFINE p == Pos(f, i)
           d == Slots(f, i).desc
           h == Headers(f, i)
           k == FieldOrder[r]
           S == {x \in DOMAIN h : h[x].kind = k /\ h[x].val # Malformed}
<1>1. /\ i \in DOMAIN f.lines /\ i \in Nat /\ f.lines \in Seq(Range(f.lines))
      /\ DOMAIN f.lines = 1..Len(f.lines)
  BY LinesAre DEF Sound, HasLines
<1>2. p[11] = d /\ p[1] = i
  BY <1>1, PosIs
<1>3. \A x \in i..p[11] : \E q \in 1..11 : x = p[q] /\ IsField(f, x, q)
  BY RecordHas
<1>4. p[1] <= p[r] /\ p[r] <= p[11] /\ p[r] \in Nat
  <2>1. /\ \A q \in 1..11 : p[q] \in Nat
        /\ \A q, t \in 1..11 : q <= t => p[q] <= p[t]
    BY <1>1, PosRises
  <2>2. 1 \in 1..11 /\ 11 \in 1..11 /\ 1 <= r /\ r <= 11
    OBVIOUS
  <2> HIDE DEF p
  <2>3. QED BY <2>1, <2>2
<1>5. d \in i..Len(f.lines) /\ h = SubSeq(f.lines, i, d)
  BY SoundHeaders
<1> HIDE DEF p, d
<1>6. d \in Nat
  BY <1>1, <1>5
<1>7. p[r] \in i..d
  BY <1>1, <1>2, <1>4, <1>6
<1>8. /\ DOMAIN h = 1..(d - i + 1)
      /\ \A x \in 1..(d - i + 1) : h[x] = f.lines[i + x - 1] /\ i + x - 1 \in i..d
      /\ \A y \in i..d : y - i + 1 \in 1..(d - i + 1) /\ h[y - i + 1] = f.lines[y]
  <2>1. f.lines \in Seq(Range(f.lines)) /\ i \in DOMAIN f.lines /\ d \in i..Len(f.lines)
    BY <1>1, <1>5
  <2>2. DOMAIN SubSeq(f.lines, i, d) = 1..(d - i + 1)
    BY <2>1, SubSeqIs
  <2>3. \A x \in 1..(d - i + 1) :
          SubSeq(f.lines, i, d)[x] = f.lines[i + x - 1] /\ i + x - 1 \in i..d
    BY <2>1, SubSeqIs
  <2>4. \A y \in i..d : /\ y - i + 1 \in 1..(d - i + 1)
                        /\ SubSeq(f.lines, i, d)[y - i + 1] = f.lines[y]
    BY <2>1, SubSeqIs
  <2> HIDE DEF h
  <2>5. QED BY <1>5, <2>2, <2>3, <2>4
<1> HIDE DEF h, k
<1>9. ASSUME NEW x \in S
      PROVE  i + x - 1 = p[r] /\ h[x] = f.lines[p[r]] /\ Given(f, p[r], k)
  <2>1. x \in 1..(d - i + 1) /\ h[x].kind = k /\ h[x].val # Malformed
    BY <1>8
  <2>2. h[x] = f.lines[i + x - 1] /\ i + x - 1 \in i..d
    BY <1>8, <2>1
  <2>3. PICK q \in 1..11 : i + x - 1 = p[q] /\ IsField(f, i + x - 1, q)
    BY <1>2, <1>3, <2>2
  <2>4. FieldOrder[q] = FieldOrder[r]
    BY <2>1, <2>2, <2>3 DEF IsField, k
  <2>5. q = r
    BY <2>4, FieldsDiffer
  <2>6. p[r] \in DOMAIN f.lines
    BY <2>3, <2>5 DEF IsField
  <2>7. QED BY <2>1, <2>2, <2>3, <2>5, <2>6 DEF Given, Marked
<1>10. CASE S = {}
  <2>1. p[r] - i + 1 \in DOMAIN h /\ h[p[r] - i + 1] = f.lines[p[r]]
    BY <1>7, <1>8
  <2>2. p[r] - i + 1 \notin S
    BY <1>10
  <2>3. ~Given(f, p[r], k)
    BY <2>1, <2>2 DEF Given, Marked
  <2>4. Said(h, k, default) = default
    BY <1>10 DEF Said
  <2>5. QED BY <2>3, <2>4 DEF Val, p, h, k
<1>11. CASE S # {}
  <2>1. S \subseteq Nat
    BY <1>8
  <2>2. Min(S) \in S
    <3> HIDE DEF S
    <3>1. QED BY <1>11, <2>1, MinIs
  <2>3. Said(h, k, default) = h[Min(S)].val
    BY <1>11 DEF Said
  <2> HIDE DEF S
  <2>4. h[Min(S)] = f.lines[p[r]] /\ Given(f, p[r], k)
    BY <1>9, <2>2
  <2>5. QED BY <2>3, <2>4 DEF Val, p, h, k
<1>12. QED BY <1>10, <1>11

LEMMA StatedIsFound ==
  ASSUME NEW f, HasLines(f), NEW i \in Sound(f)
  PROVE  Stated(f, i) = At(f, i)
<1> DEFINE s == Slots(f, i)
           p == Pos(f, i)
           h == Headers(f, i)
<1>1. /\ i \in DOMAIN f.lines /\ i \in Nat /\ f.lines \in Seq(Range(f.lines))
      /\ DOMAIN f.lines = 1..Len(f.lines) /\ Given(f, i, "name") /\ Faults(f, s) = {}
      /\ Len(f.lines) \in Nat
  BY LinesAre DEF Sound, HasLines
<1>2. /\ p[1] = i /\ p[2] = s.mirror /\ p[3] = s.priority /\ p[4] = s.location
      /\ p[5] = s.size_c /\ p[6] = s.size_u /\ p[7] = s.required /\ p[8] = s.conflicts
      /\ p[9] = s.suggests /\ p[10] = s.md5 /\ p[11] = s.desc
  BY <1>1, PosIs
<1>3. /\ s.desc \in i..Len(f.lines) /\ h = SubSeq(f.lines, i, s.desc)
      /\ BlockEnd(f, i) + 1 = DescEnd(f, s.desc)
  BY SoundHeaders
<1>4. \A r \in 1..11 : \A default :
        Said(h, FieldOrder[r], default) = Val(f, p[r], FieldOrder[r], default)
  BY SaidIs
<1>5. s.desc \in Nat /\ s.desc \in DOMAIN f.lines
  BY <1>1, <1>3
<1>6. BlockEnd(f, i) \in Nat
  BY <1>1, BlockEndIs
<1>7. i + Len(h) = s.desc + 1
  <2>1. f.lines \in Seq(Range(f.lines)) /\ i \in DOMAIN f.lines /\ s.desc \in i..Len(f.lines)
    BY <1>1, <1>3
  <2>2. Len(SubSeq(f.lines, i, s.desc)) = s.desc - i + 1
    BY <2>1, SubSeqIs
  <2> HIDE DEF h, s
  <2>3. QED BY <1>1, <1>3, <1>5, <2>2
<1>8. \A k \in {"location", "size_c", "size_u"} : \A j : j = s[k] => Val(f, j, k, NULL) = f.lines[j].val
  <2>1. \A k \in {"location", "size_c", "size_u"} : Given(f, s[k], k)
    BY <1>1 DEF Faults
  <2>2. QED BY <2>1 DEF Val
<1> HIDE DEF s, p, h
<1>9. 1 \in 1..11 /\ 2 \in 1..11 /\ 3 \in 1..11 /\ 4 \in 1..11 /\ 5 \in 1..11 /\ 6 \in 1..11
      /\ 7 \in 1..11 /\ 8 \in 1..11 /\ 9 \in 1..11 /\ 10 \in 1..11
  OBVIOUS
<1>10. /\ Said(h, "name", NULL) = Val(f, i, "name", NULL)
       /\ Said(h, "mirror", NULL) = Val(f, s.mirror, "mirror", NULL)
       /\ Said(h, "priority", "0") = Val(f, s.priority, "priority", "0")
       /\ Said(h, "location", NULL) = Val(f, s.location, "location", NULL)
       /\ Said(h, "size_c", NULL) = Val(f, s.size_c, "size_c", NULL)
       /\ Said(h, "size_u", NULL) = Val(f, s.size_u, "size_u", NULL)
  BY <1>2, <1>4, <1>9, FieldsAre
<1>11. /\ Said(h, "required", NULL) = Val(f, s.required, "required", NULL)
       /\ Said(h, "conflicts", NULL) = Val(f, s.conflicts, "conflicts", NULL)
       /\ Said(h, "suggests", NULL) = Val(f, s.suggests, "suggests", NULL)
       /\ Said(h, "md5", NULL) = Val(f, s.md5, "md5", NULL)
  BY <1>2, <1>4, <1>9, FieldsAre
<1>12. Val(f, i, "name", NULL) = f.lines[i].val
  BY <1>1 DEF Val
<1>13. /\ Val(f, s.location, "location", NULL) = f.lines[s.location].val
       /\ Val(f, s.size_c, "size_c", NULL) = f.lines[s.size_c].val
       /\ Val(f, s.size_u, "size_u", NULL) = f.lines[s.size_u].val
  BY <1>8
<1>14. Description(f, s.desc) =
         [lines |-> SubSeq(f.lines, i + Len(h), BlockEnd(f, i)),
          ended |-> f.ended \/ BlockEnd(f, i) < Len(f.lines)]
  <2>1. DescEnd(f, s.desc) - 1 = BlockEnd(f, i)
    BY <1>3, <1>6
  <2>2. DescEnd(f, s.desc) <= Len(f.lines) <=> BlockEnd(f, i) < Len(f.lines)
    BY <1>1, <1>3, <1>6
  <2>3. QED BY <1>7, <2>1, <2>2 DEF Description
<1>15. QED
  BY <1>10, <1>11, <1>12, <1>13, <1>14 DEF Stated, At, Package, h, s

\* A record that comes first in its block is read from any line before it.
LEMMA FirstNamesAreRead ==
  ASSUME NEW f, HasLines(f), NEW i \in FirstNames(f)
  PROVE  At(f, i) \in Range(ParsePackagesTxt(f))
<1> DEFINE n == Len(f.lines) + 2
           read == ReadFrom(f)
           P == {a \in 1..n : a <= i => At(f, i) \in Range(read[a])}
<1>1. /\ n \in Nat /\ Len(f.lines) \in Nat /\ DOMAIN f.lines = 1..Len(f.lines)
      /\ i \in DOMAIN f.lines /\ i \in Nat /\ i \in Names(f) /\ Given(f, i, "name")
      /\ \A j \in 1..(i - 1) : f.lines[j].kind = "name" => BlockEnd(f, j) < i
  BY LinesAre DEF FirstNames, Names
<1>2. i \in Sound(f)
  BY <1>1, NamesAreSound
<1>3. \A a \in 1..n : read[a] \in Seq(Founds(f))
  BY ReadIsFound
<1>4. /\ ParsePackagesTxt(f) = read[1]
      /\ \A a \in 1..n :
           read[a] = IF a > Len(f.lines) THEN <<>>
                     ELSE IF ~Given(f, a, "name") THEN read[a + 1]
                     ELSE Record(f, a).found \o read[Record(f, a).next]
  BY ReadFromIs
<1> HIDE DEF read
<1>5. ASSUME NEW a \in 1..n, (a + 1)..n \subseteq P
      PROVE  a \in P
  <2> SUFFICES ASSUME a <= i PROVE At(f, i) \in Range(read[a])
    OBVIOUS
  <2>1. a \in DOMAIN f.lines /\ ~(a > Len(f.lines))
    BY <1>1
  <2>2. CASE ~Given(f, a, "name")
    <3>1. read[a] = read[a + 1]
      BY <1>4, <2>1, <2>2
    <3>2. a # i
      BY <1>1, <2>2
    <3>3. a + 1 \in (a + 1)..n /\ a + 1 <= i
      BY <1>1, <2>1, <3>2
    <3>4. QED BY <1>5, <3>1, <3>3
  <2>3. CASE Given(f, a, "name")
    <3>1. read[a] = Record(f, a).found \o read[Record(f, a).next]
      BY <1>4, <2>1, <2>3
    <3>2. Record(f, a).next \in (a + 1)..n
      BY <2>1, NextIs
    <3>3. read[Record(f, a).next] \in Seq(Founds(f))
      BY <1>1, <1>3, <3>2
    <3>4. Record(f, a).found \in Seq(Founds(f))
      <4>1. CASE a \in Sound(f)
        <5>1. Record(f, a).found = <<At(f, a)>>
          BY <2>1, <2>3, <4>1, RecordFinds
        <5>2. At(f, a) \in Founds(f)
          BY <4>1 DEF Founds
        <5>3. QED BY <5>1, <5>2
      <4>2. CASE a \notin Sound(f)
        <5>1. Record(f, a).found = <<>>
          BY <2>1, <2>3, <4>2, RecordFinds
        <5>2. QED BY <5>1
      <4>3. QED BY <4>1, <4>2
    <3>5. Range(read[a]) = Range(Record(f, a).found) \cup Range(read[Record(f, a).next])
      BY <3>1, <3>3, <3>4, RangeOfConcat
    <3>6. CASE a = i
      <4>1. Record(f, a).found = <<At(f, i)>>
        BY <1>2, <2>1, <2>3, <3>6, RecordFinds
      <4>2. QED BY <3>5, <4>1, RangeOfOne
    <3>7. CASE a # i
      <4>1. a \in 1..(i - 1) /\ f.lines[a].kind = "name"
        BY <1>1, <2>1, <2>3, <3>7 DEF Given, Marked
      <4>2. BlockEnd(f, a) < i
        BY <1>1, <4>1
      <4> DEFINE b == BlockEnd(f, a) + 1
      <4>3. /\ BlockEnd(f, a) \in Nat /\ a - 1 <= BlockEnd(f, a)
            /\ \/ BlockEnd(f, a) = Len(f.lines)
               \/ b \in DOMAIN f.lines /\ f.lines[b] = Blank
        BY <2>1, BlockEndIs
      <4>4. b \in DOMAIN f.lines /\ f.lines[b] = Blank /\ a <= b /\ b <= i
        BY <1>1, <2>1, <4>2, <4>3
      <4>5. b # a /\ b # i
        BY <1>1, <4>1, <4>4 DEF Given, Marked, Blank, Line
      <4> HIDE DEF b
      <4>6. a < b /\ b + 1 <= i
        BY <1>1, <2>1, <4>4, <4>5
      <4>7. Record(f, a).next <= i
        <5>1. Record(f, a).next <= b + 1
          BY <2>1, <4>4, <4>6, NextIs
        <5>2. QED BY <1>1, <3>2, <4>4, <4>6, <5>1
      <4>8. At(f, i) \in Range(read[Record(f, a).next])
        BY <1>5, <3>2, <4>7
      <4>9. QED BY <3>5, <4>8
    <3>8. QED BY <3>6, <3>7
  <2>4. QED BY <2>2, <2>3
<1>6. 1..n \subseteq P
  <2> HIDE DEF P, n
  <2>1. QED BY <1>1, <1>5, Backwards
<1>7. 1 \in 1..n /\ 1 <= i
  BY <1>1
<1>8. QED BY <1>4, <1>6, <1>7

\* RecordsAreFound says this of each list.
LEMMA ListIsFound ==
  ASSUME NEW f, HasLines(f)
  PROVE  LET found == Range(ParsePackagesTxt(f))
         IN  /\ {Stated(f, i) : i \in FirstNames(f)} \subseteq found
             /\ found \subseteq {Stated(f, i) : i \in Names(f)}
<1>1. ASSUME NEW i \in FirstNames(f)
      PROVE  Stated(f, i) \in Range(ParsePackagesTxt(f))
  <2>1. i \in Sound(f)
    BY NamesAreSound DEF FirstNames
  <2>2. QED BY <2>1, StatedIsFound, FirstNamesAreRead
<1>2. ASSUME NEW q \in Range(ParsePackagesTxt(f))
      PROVE  \E i \in Names(f) : q = Stated(f, i)
  <2>1. q \in Founds(f)
    BY ParseIsFound, RangeType
  <2>2. PICK i \in Sound(f) : q = At(f, i)
    BY <2>1 DEF Founds
  <2>3. QED BY <2>2, SoundIsName, StatedIsFound
<1>3. QED BY <1>1, <1>2

-----------------------------------------------------------------------------
(* What a package has.                                                     *)

IsDescription(d) ==
  /\ d = [lines |-> d.lines, ended |-> d.ended]
  /\ d.lines \in Seq(Range(d.lines)) /\ d.ended \in BOOLEAN
  /\ \A x \in DOMAIN d.lines : d.lines[x] # Blank

IsPackage(p) ==
  /\ p = [file |-> p.file, mirror |-> p.mirror, priority |-> p.priority,
          location |-> p.location, sizes |-> p.sizes, required |-> p.required,
          conflicts |-> p.conflicts, suggests |-> p.suggests, md5 |-> p.md5,
          description |-> p.description]
  /\ p.file \in DOMAIN Splits /\ p.file # Malformed
  /\ Value(p.mirror) /\ Value(p.priority) /\ Value(p.location) /\ Value(p.md5)
  /\ p.sizes = <<p.sizes[1], p.sizes[2]>>
  /\ p.sizes[1] # Malformed /\ p.sizes[2] # Malformed
  /\ p.required # Malformed /\ p.conflicts # Malformed /\ p.suggests # Malformed
  /\ IsDescription(p.description)

LEMMA SubSeqAny ==
  ASSUME NEW T, NEW s \in Seq(T), NEW a \in Nat, NEW b \in Nat,
         a > 0, a <= b + 1, b <= Len(s)
  PROVE  /\ SubSeq(s, a, b) \in Seq(T) /\ DOMAIN SubSeq(s, a, b) = 1..(b + 1 - a)
         /\ \A x \in 1..(b + 1 - a) : SubSeq(s, a, b)[x] = s[a + x - 1] /\ a + x - 1 \in a..b
<1>1. CASE a = b + 1
  <2>1. a > b /\ b + 1 - a = 0
    BY <1>1
  <2>2. SubSeq(s, a, b) = <<>>
    BY <2>1
  <2>3. QED BY <2>1, <2>2
<1>2. CASE a # b + 1
  <2>1. a <= b /\ a \in DOMAIN s /\ b \in a..Len(s) /\ b + 1 - a = b - a + 1
    BY <1>2
  <2>2. \A i \in a..b : s[i] \in T
    BY <2>1
  <2>3. SubSeq(s, a, b) \in Seq(T)
    BY <2>1, <2>2
  <2>4. /\ DOMAIN SubSeq(s, a, b) = 1..(b - a + 1)
        /\ \A x \in 1..(b - a + 1) : SubSeq(s, a, b)[x] = s[a + x - 1] /\ a + x - 1 \in a..b
    BY <2>1, SubSeqIs
  <2>5. QED BY <2>1, <2>3, <2>4
<1>3. QED BY <1>1, <1>2

LEMMA JoinIs ==
  ASSUME NEW T, NEW s \in Seq(T), NEW t \in Seq(T)
  PROVE  /\ s \o t \in Seq(T) /\ Len(s \o t) = Len(s) + Len(t)
         /\ \A x \in 1..Len(s) : (s \o t)[x] = s[x]
         /\ \A x \in 1..Len(t) : (s \o t)[Len(s) + x] = t[x]
OBVIOUS

LEMMA ValIs ==
  ASSUME NEW f, NEW j, NEW k, NEW default, default # Malformed
  PROVE  /\ Val(f, j, k, default) # Malformed
         /\ \/ Val(f, j, k, default) = default
            \/ /\ j \in DOMAIN f.lines /\ f.lines[j].kind = k
               /\ Val(f, j, k, default) = f.lines[j].val
BY DEF Val, Given, Marked

LEMMA FoundIsPackage ==
  ASSUME NEW f, IsFile(f), NEW i \in Sound(f)
  PROVE  IsPackage(At(f, i))
<1> DEFINE s == Slots(f, i)
           p == At(f, i)
<1>1. HasLines(f)
  BY DEF HasLines, IsFile
<1>2. /\ DOMAIN f.lines = 1..Len(f.lines) /\ Len(f.lines) \in Nat
      /\ f.lines \in Seq(Range(f.lines)) /\ f.ended \in BOOLEAN
      /\ \A j \in DOMAIN f.lines : f.lines[j] \in Range(f.lines)
  BY <1>1, LinesAre DEF HasLines
<1>3. i \in DOMAIN f.lines /\ i \in Nat /\ Given(f, i, "name") /\ Faults(f, s) = {}
  BY <1>2 DEF Sound
<1>4. \A l \in Range(f.lines) :
        /\ l.kind = "name" /\ l.val # Malformed => l.val \in DOMAIN Splits
        /\ l.val = OutOfRange => l.kind \in {"priority", "md5"}
  BY DEF IsFile
<1>5. /\ NULL # Malformed /\ NULL # OutOfRange /\ "0" # Malformed /\ "0" # OutOfRange
      /\ Malformed # OutOfRange
  BY TextAssumption DEF Value
<1>6. /\ Given(f, s.location, "location") /\ Given(f, s.size_c, "size_c")
      /\ Given(f, s.size_u, "size_u")
      /\ Val(f, s.priority, "priority", NULL) # OutOfRange
      /\ Val(f, s.md5, "md5", NULL) # OutOfRange
  BY <1>3 DEF Faults
<1> DEFINE desc == Description(f, s.desc)
<1>7. p = [file |-> f.lines[i].val, mirror |-> Val(f, s.mirror, "mirror", NULL),
           priority |-> Val(f, s.priority, "priority", "0"),
           location |-> f.lines[s.location].val,
           sizes |-> <<f.lines[s.size_c].val, f.lines[s.size_u].val>>,
           required |-> Val(f, s.required, "required", NULL),
           conflicts |-> Val(f, s.conflicts, "conflicts", NULL),
           suggests |-> Val(f, s.suggests, "suggests", NULL),
           md5 |-> Val(f, s.md5, "md5", NULL), description |-> desc]
  BY DEF At, Package
<1>8. s.desc \in DOMAIN f.lines
  <2>1. s.desc \in i..Len(f.lines)
    BY <1>1, SoundHeaders
  <2> HIDE DEF s
  <2>2. QED BY <1>2, <1>3, <2>1
<1> HIDE DEF s, p
<1>9. IsDescription(desc)
  <2> DEFINE e == DescEnd(f, s.desc)
  <2>1. /\ e \in Nat /\ s.desc < e /\ e <= Len(f.lines) + 1
        /\ \A j \in DOMAIN f.lines : s.desc < j /\ j < e => f.lines[j] # Blank
    BY <1>1, <1>8, DescEndIs
  <2> HIDE DEF e
  <2> DEFINE d == SubSeq(f.lines, s.desc + 1, e - 1)
  <2>2. s.desc \in Nat /\ s.desc + 1 \in 1..(Len(f.lines) + 1) /\ e - 1 \in 0..Len(f.lines)
    BY <1>2, <1>8, <2>1
  <2> DEFINE a == s.desc + 1
             b == e - 1
  <2>3. a \in Nat /\ b \in Nat /\ a > 0 /\ a <= b + 1 /\ b <= Len(f.lines)
    BY <1>2, <2>1, <2>2
  <2>4. \A y \in a..b : y \in DOMAIN f.lines /\ s.desc < y /\ y < e
    BY <1>2, <2>1, <2>2
  <2> HIDE DEF a, b
  <2>5. /\ d \in Seq(Range(f.lines)) /\ DOMAIN d = 1..(b + 1 - a)
        /\ \A x \in 1..(b + 1 - a) : d[x] = f.lines[a + x - 1] /\ a + x - 1 \in a..b
    BY <1>2, <2>3, SubSeqAny DEF a, b
  <2> HIDE DEF d
  <2>6. \A x \in DOMAIN d : d[x] # Blank
    BY <2>1, <2>4, <2>5
  <2>7. d \in Seq(Range(d))
    BY <2>5, RangeType
  <2>8. desc = [lines |-> d, ended |-> f.ended \/ e <= Len(f.lines)]
    BY DEF Description, d, e
  <2>9. QED BY <1>2, <2>6, <2>7, <2>8 DEF IsDescription
<1> HIDE DEF desc
<1>10. p.file \in DOMAIN Splits /\ p.file # Malformed
  <2>1. f.lines[i] \in Range(f.lines) /\ f.lines[i].kind = "name" /\ f.lines[i].val # Malformed
    BY <1>2, <1>3 DEF Given, Marked
  <2>2. QED BY <1>4, <1>7, <2>1
<1>11. \A j \in DOMAIN f.lines : f.lines[j].val = OutOfRange => f.lines[j].kind \in {"priority", "md5"}
  BY <1>2, <1>4
<1>12. Value(p.mirror)
  <2>1. \/ p.mirror = NULL
        \/ s.mirror \in DOMAIN f.lines /\ f.lines[s.mirror].kind = "mirror"
             /\ p.mirror = f.lines[s.mirror].val
    BY <1>5, <1>7, ValIs
  <2>2. p.mirror # Malformed
    BY <1>5, <1>7, ValIs
  <2>3. QED BY <1>5, <1>11, <2>1, <2>2 DEF Value
<1>13. Value(p.priority)
  <2>1. p.priority = "0" \/ p.priority = Val(f, s.priority, "priority", NULL)
    BY <1>7 DEF Val
  <2>2. p.priority # Malformed
    BY <1>5, <1>7, ValIs
  <2>3. QED BY <1>5, <1>6, <2>1, <2>2 DEF Value
<1>14. Value(p.location)
  <2>1. /\ s.location \in DOMAIN f.lines /\ f.lines[s.location].kind = "location"
        /\ f.lines[s.location].val # Malformed
    BY <1>6 DEF Given, Marked
  <2>2. f.lines[s.location].val # OutOfRange
    BY <1>11, <2>1
  <2>3. QED BY <1>7, <2>1, <2>2 DEF Value
<1>15. Value(p.md5)
  BY <1>5, <1>6, <1>7, ValIs DEF Value
<1>16. /\ p.sizes = <<p.sizes[1], p.sizes[2]>>
       /\ p.sizes[1] # Malformed /\ p.sizes[2] # Malformed
  <2>1. p.sizes = <<f.lines[s.size_c].val, f.lines[s.size_u].val>>
    BY <1>7
  <2>2. f.lines[s.size_c].val # Malformed /\ f.lines[s.size_u].val # Malformed
    BY <1>6 DEF Given
  <2>3. QED BY <2>1, <2>2
<1>17. p.required # Malformed /\ p.conflicts # Malformed /\ p.suggests # Malformed
  BY <1>5, <1>7, ValIs
<1>18. p = [file |-> p.file, mirror |-> p.mirror, priority |-> p.priority,
          location |-> p.location, sizes |-> p.sizes, required |-> p.required,
          conflicts |-> p.conflicts, suggests |-> p.suggests, md5 |-> p.md5,
          description |-> p.description] /\ p.description = desc
  BY <1>7
<1>19. QED
  BY <1>9, <1>10, <1>12, <1>13, <1>14, <1>15, <1>16, <1>17, <1>18 DEF IsPackage, p

-----------------------------------------------------------------------------
(* What is written.                                                        *)

LEMMA TextIs ==
  ASSUME NEW d, IsDescription(d)
  PROVE  LET t == DescText(d)
         IN  /\ t \in Seq(Range(t)) /\ Len(t) > 0
             /\ \A x \in DOMAIN t : t[x] # Blank
<1>1. CASE IsShort(d)
  <2>1. DescText(d) = <<Line("text", "no description")>>
    BY <1>1 DEF DescText
  <2>2. Line("text", "no description") # Blank
    BY DEF Blank, Line
  <2> DEFINE l == Line("text", "no description")
  <2> HIDE DEF l
  <2>3. Range(<<l>>) = {l}
    BY RangeOfOne
  <2>4. <<l>> \in Seq({l}) /\ Len(<<l>>) = 1 /\ DOMAIN <<l>> = {1} /\ <<l>>[1] = l
    OBVIOUS
  <2> DEFINE t == DescText(d)
  <2>5. t = <<l>> /\ l # Blank
    BY <2>1, <2>2 DEF l
  <2> HIDE DEF t
  <2>6. Range(t) = {l} /\ t \in Seq({l}) /\ Len(t) = 1 /\ DOMAIN t = {1} /\ t[1] = l
    BY <2>3, <2>4, <2>5
  <2>7. t \in Seq(Range(t)) /\ Len(t) > 0 /\ \A x \in DOMAIN t : t[x] # Blank
    BY <2>5, <2>6
  <2>8. QED BY <2>7 DEF t
<1>2. CASE ~IsShort(d)
  <2>1. DescText(d) = d.lines
    BY <1>2 DEF DescText
  <2>2. Len(d.lines) # 0 /\ Len(d.lines) \in Nat
    BY <1>2 DEF IsShort, IsDescription
  <2>3. QED BY <2>1, <2>2 DEF IsDescription
<1>3. QED BY <1>1, <1>2

\* The first eleven lines of a package are its fields, in order; then comes
\* its description, and a blank line at most at its end.
LEMMA LinesIs ==
  ASSUME NEW p, IsPackage(p)
  PROVE  LET g == Lines(p)
             t == DescText(p.description)
         IN  /\ g \in Seq(Range(g)) /\ Len(g) \in Nat
             /\ g[1] = Line("name", p.file) /\ g[2] = Line("mirror", p.mirror)
             /\ g[3] = Line("priority", p.priority) /\ g[4] = Line("location", p.location)
             /\ g[5] = Line("size_c", p.sizes[1]) /\ g[6] = Line("size_u", p.sizes[2])
             /\ g[7] = Line("required", p.required) /\ g[8] = Line("conflicts", p.conflicts)
             /\ g[9] = Line("suggests", p.suggests) /\ g[10] = Line("md5", p.md5)
             /\ g[11] = Line("desc", NULL)
             /\ \A x \in DOMAIN t : g[11 + x] = t[x]
             /\ \/ Len(g) = 11 + Len(t) /\ ~p.description.ended
                \/ Len(g) = 12 + Len(t) /\ g[Len(g)] = Blank
<1> DEFINE g == Lines(p)
           d == p.description
           t == DescText(d)
           last == IF IsShort(d) \/ d.ended THEN <<Blank>> ELSE <<>>
           head == <<Line("name", p.file), Line("mirror", p.mirror),
                     Line("priority", p.priority), Line("location", p.location),
                     Line("size_c", p.sizes[1]), Line("size_u", p.sizes[2]),
                     Line("required", p.required), Line("conflicts", p.conflicts),
                     Line("suggests", p.suggests), Line("md5", p.md5), Line("desc", NULL)>>
           T == Range(head) \cup Range(t) \cup {Blank}
<1>1. g = head \o (t \o last)
  BY DEF Lines, DescLines
<1>2. t \in Seq(Range(t)) /\ Len(t) \in Nat
  BY TextIs DEF IsPackage
<1>3. Len(head) = 11 /\ DOMAIN head = 1..11
  OBVIOUS
<1>4. /\ head[1] = Line("name", p.file) /\ head[2] = Line("mirror", p.mirror)
      /\ head[3] = Line("priority", p.priority) /\ head[4] = Line("location", p.location)
      /\ head[5] = Line("size_c", p.sizes[1]) /\ head[6] = Line("size_u", p.sizes[2])
      /\ head[7] = Line("required", p.required) /\ head[8] = Line("conflicts", p.conflicts)
      /\ head[9] = Line("suggests", p.suggests) /\ head[10] = Line("md5", p.md5)
      /\ head[11] = Line("desc", NULL)
  OBVIOUS
<1>5. head \in Seq(Range(head))
  <2>1. \A r \in 1..11 : head[r] \in Range(head)
    BY <1>3 DEF Range
  <2>2. head = [r \in 1..11 |-> head[r]]
    BY <1>3
  <2> HIDE DEF head
  <2>3. QED BY <2>1, <2>2, FunctionIsSeq
<1> HIDE DEF head, t, g
<1>6. head \in Seq(T) /\ t \in Seq(T)
  <2>1. head \in Seq(Range(head)) /\ Range(head) \subseteq T
    BY <1>5
  <2>2. t \in Seq(Range(t)) /\ Range(t) \subseteq T
    BY <1>2
  <2> HIDE DEF T
  <2>3. QED BY <2>1, <2>2
<1>7. last \in Seq(T) /\ (last = <<Blank>> \/ (last = <<>> /\ d.ended = FALSE))
  <2>1. d.ended \in BOOLEAN
    BY DEF IsPackage, IsDescription
  <2>2. Blank \in T
    OBVIOUS
  <2> HIDE DEF T
  <2>3. <<Blank>> \in Seq(T) /\ <<>> \in Seq(T)
    BY <2>2
  <2>4. CASE IsShort(d) \/ d.ended
    <3>1. last = <<Blank>>
      BY <2>4
    <3>2. QED BY <2>3, <3>1
  <2>5. CASE ~(IsShort(d) \/ d.ended)
    <3>1. last = <<>> /\ d.ended = FALSE
      BY <2>1, <2>5
    <3>2. QED BY <2>3, <3>1
  <2>6. QED BY <2>4, <2>5
<1> HIDE DEF last, T
<1>8. /\ t \o last \in Seq(T) /\ Len(t \o last) = Len(t) + Len(last)
      /\ \A x \in DOMAIN t : (t \o last)[x] = t[x]
  BY <1>6, <1>7
<1>9. last = <<Blank>> => Len(last) = 1 /\ (t \o last)[Len(t) + 1] = Blank
  BY <1>2, <1>6, <1>7
<1>10. last = <<>> => Len(last) = 0
  OBVIOUS
<1> DEFINE u == t \o last
<1> HIDE DEF u
<1>11. u \in Seq(T) /\ Len(u) = Len(t) + Len(last) /\ \A x \in DOMAIN t : u[x] = t[x]
  BY <1>8 DEF u
<1>12. g = head \o u
  BY <1>1 DEF u
<1>13. /\ g \in Seq(T) /\ Len(g) = 11 + Len(u)
       /\ \A r \in 1..11 : g[r] = head[r]
       /\ \A x \in 1..Len(u) : g[11 + x] = u[x]
  <2>1. /\ head \o u \in Seq(T) /\ Len(head \o u) = Len(head) + Len(u)
        /\ \A x \in 1..Len(head) : (head \o u)[x] = head[x]
        /\ \A x \in 1..Len(u) : (head \o u)[Len(head) + x] = u[x]
    <3>1. head \in Seq(T) /\ u \in Seq(T)
      BY <1>6, <1>11
    <3>2. QED BY <3>1
  <2>2. QED BY <1>3, <1>12, <2>1
<1>14. g \in Seq(Range(g))
  BY <1>13, RangeType
<1>15. /\ g[1] = head[1] /\ g[2] = head[2] /\ g[3] = head[3] /\ g[4] = head[4]
       /\ g[5] = head[5] /\ g[6] = head[6] /\ g[7] = head[7] /\ g[8] = head[8]
       /\ g[9] = head[9] /\ g[10] = head[10] /\ g[11] = head[11]
  BY <1>13
<1>16. \A x \in DOMAIN t : g[11 + x] = t[x]
  <2>1. DOMAIN t = 1..Len(t) /\ Len(last) \in Nat
    BY <1>2, <1>7
  <2>2. \A x \in DOMAIN t : x \in 1..Len(u)
    BY <1>2, <1>11, <2>1
  <2>3. QED BY <1>11, <1>13, <2>2
<1>17. \/ Len(g) = 11 + Len(t) /\ ~d.ended
       \/ Len(g) = 12 + Len(t) /\ g[Len(g)] = Blank
  <2>1. CASE last = <<>> /\ d.ended = FALSE
    BY <1>2, <1>10, <1>11, <1>13, <2>1
  <2>2. CASE last = <<Blank>>
    <3>1. Len(u) = Len(t) + 1 /\ u[Len(t) + 1] = Blank
      BY <1>9, <1>11, <2>2 DEF u
    <3>2. Len(t) + 1 \in 1..Len(u) /\ Len(g) = 12 + Len(t) /\ 11 + (Len(t) + 1) = Len(g)
      BY <1>2, <1>13, <3>1
    <3>3. g[11 + (Len(t) + 1)] = Blank
      BY <1>13, <3>1, <3>2
    <3>4. QED BY <3>2, <3>3
  <2>3. QED BY <1>7, <2>1, <2>2
<1>18. Len(g) \in Nat
  BY <1>14
<1>19. QED BY <1>4, <1>14, <1>15, <1>16, <1>17, <1>18 DEF g, t

-----------------------------------------------------------------------------
(* Where the lines of each package are.                                    *)

\* In s, the sequences seqs[1] to seqs[n] follow one another; o[k] is where
\* seqs[k] ends.
IsLayout(o, seqs, s, n) ==
  /\ o \in [0..n -> Nat] /\ o[0] = 0 /\ Len(s) = o[n]
  /\ \A k \in 1..n : o[k] = o[k - 1] + Len(seqs[k])
  /\ \A j, k \in 0..n : j <= k => o[j] <= o[k]
  /\ \A k \in 1..n : \A r \in 1..Len(seqs[k]) : s[o[k - 1] + r] = seqs[k][r]
  /\ \A x \in 1..Len(s) : \E k \in 1..n : \E r \in 1..Len(seqs[k]) : x = o[k - 1] + r

LEMMA LayoutGrows ==
  ASSUME NEW T, NEW seqs \in Seq(Seq(T)), NEW n \in 1..Len(seqs), NEW s \in Seq(T),
         NEW o, IsLayout(o, seqs, s, n - 1)
  PROVE  \E u : IsLayout(u, seqs, s \o seqs[n], n)
<1> DEFINE t == seqs[n]
           u == [k \in 0..n |-> IF k < n THEN o[k] ELSE o[n - 1] + Len(t)]
           v == s \o t
<1>1. n \in Nat /\ n > 0 /\ n - 1 \in Nat
  OBVIOUS
<1>2. t \in Seq(T) /\ Len(t) \in Nat
  OBVIOUS
<1>3. /\ v \in Seq(T) /\ Len(v) = Len(s) + Len(t)
      /\ \A x \in 1..Len(s) : v[x] = s[x]
      /\ \A x \in 1..Len(t) : v[Len(s) + x] = t[x]
  <2> HIDE DEF t
  <2>1. QED BY <1>2, JoinIs
<1>4. /\ o \in [0..(n - 1) -> Nat] /\ o[0] = 0 /\ Len(s) = o[n - 1]
      /\ \A k \in 1..(n - 1) : o[k] = o[k - 1] + Len(seqs[k])
      /\ \A j, k \in 0..(n - 1) : j <= k => o[j] <= o[k]
  BY DEF IsLayout
<1>5. /\ \A k \in 1..(n - 1) : \A r \in 1..Len(seqs[k]) : s[o[k - 1] + r] = seqs[k][r]
      /\ \A x \in 1..Len(s) :
           \E k \in 1..(n - 1) : \E r \in 1..Len(seqs[k]) : x = o[k - 1] + r
  BY DEF IsLayout
<1>6. /\ \A k \in 0..(n - 1) : u[k] = o[k] /\ u[k] \in Nat
      /\ u[n] = o[n - 1] + Len(t) /\ u[n] \in Nat
      /\ u = [k \in 0..n |-> u[k]]
  <2>1. \A k \in 0..(n - 1) : k \in 0..n /\ k < n /\ o[k] \in Nat
    BY <1>1, <1>4
  <2>2. n \in 0..n /\ ~(n < n) /\ n - 1 \in 0..(n - 1)
    BY <1>1
  <2>3. u[n] = o[n - 1] + Len(t)
    BY <2>2
  <2>4. \A k \in 0..(n - 1) : u[k] = o[k]
    BY <2>1
  <2>5. o[n - 1] \in Nat
    BY <2>1, <2>2
  <2> HIDE DEF t
  <2>6. o[n - 1] + Len(t) \in Nat
    BY <1>2, <2>5
  <2>7. QED BY <2>1, <2>3, <2>4, <2>6
<1> HIDE DEF t, u, v
<1>7. /\ \A k \in 0..n : k \in 0..(n - 1) \/ k = n
      /\ \A k \in 1..n : k \in 1..(n - 1) \/ k = n
      /\ \A k \in 1..n : k - 1 \in 0..(n - 1) /\ k \in 0..n
      /\ \A k \in 1..(n - 1) : k \in 0..(n - 1) /\ k \in 1..n
      /\ 0 \in 0..(n - 1) /\ n - 1 \in 0..(n - 1) /\ n \in 1..n
  BY <1>1
<1>8. u \in [0..n -> Nat] /\ u[0] = 0 /\ Len(v) = u[n]
  <2>1. \A k \in 0..n : u[k] \in Nat
    BY <1>6, <1>7
  <2>2. QED BY <1>3, <1>4, <1>6, <1>7, <2>1
<1>9. \A k \in 1..n : u[k] = u[k - 1] + Len(seqs[k])
  <2> TAKE k \in 1..n
  <2>1. u[k - 1] = o[k - 1]
    BY <1>6, <1>7
  <2>2. CASE k \in 1..(n - 1)
    BY <1>4, <1>6, <1>7, <2>1, <2>2
  <2>3. CASE k = n
    BY <1>6, <2>1, <2>3 DEF t
  <2>4. QED BY <1>7, <2>2, <2>3
<1>10. \A j, k \in 0..n : j <= k => u[j] <= u[k]
  <2> TAKE j \in 0..n, k \in 0..n
  <2> SUFFICES ASSUME j <= k PROVE u[j] <= u[k]
    OBVIOUS
  <2>1. CASE k \in 0..(n - 1)
    <3>1. j \in 0..(n - 1)
      BY <2>1
    <3>2. QED BY <1>4, <1>6, <2>1, <3>1
  <2>2. CASE k = n /\ j = n
    BY <1>6, <2>2
  <2>3. CASE k = n /\ j \in 0..(n - 1)
    <3>1. o[j] <= o[n - 1] /\ o[j] \in Nat /\ o[n - 1] \in Nat
      BY <1>4, <1>7, <2>3
    <3>2. u[j] = o[j] /\ u[k] = o[n - 1] + Len(t)
      BY <1>6, <2>3
    <3>3. QED BY <1>2, <3>1, <3>2
  <2>4. QED BY <1>7, <2>1, <2>2, <2>3
<1>11. ASSUME NEW k \in 1..n, NEW r \in 1..Len(seqs[k])
       PROVE  v[u[k - 1] + r] = seqs[k][r]
  <2>1. u[k - 1] = o[k - 1] /\ o[k - 1] \in Nat
    BY <1>6, <1>7
  <2>2. CASE k \in 1..(n - 1)
    <3>1. o[k] = o[k - 1] + Len(seqs[k]) /\ o[k] <= o[n - 1] /\ o[k] \in Nat /\ o[n - 1] \in Nat
      BY <1>4, <1>7, <2>2
    <3>2. Len(seqs[k]) \in Nat
      OBVIOUS
    <3>3. Len(s) = o[n - 1] /\ o[k - 1] + r <= o[k] /\ o[k - 1] + r > 0
      <4>1. Len(s) = o[n - 1]
        BY <1>4
      <4>2. r \in Nat /\ r > 0 /\ r <= Len(seqs[k])
        BY <3>2
      <4>3. QED BY <2>1, <3>1, <3>2, <4>1, <4>2
    <3>4. o[k - 1] + r \in 1..Len(s)
      <4>1. PICK y, z : y = o[k - 1] + r /\ z = Len(s)
        OBVIOUS
      <4>2. y \in Nat
        BY <2>1, <4>1
      <4>3. z \in Nat /\ y <= z /\ y > 0
        BY <3>1, <3>3, <4>1, <4>2
      <4>4. y \in 1..z
        BY <4>2, <4>3
      <4>5. QED BY <4>1, <4>4
    <3>5. QED BY <1>3, <1>5, <2>1, <2>2, <3>4
  <2>3. CASE k = n
    BY <1>3, <1>4, <2>1, <2>3 DEF t
  <2>4. QED BY <1>7, <2>2, <2>3
<1>12. ASSUME NEW x \in 1..Len(v)
       PROVE  \E k \in 1..n : \E r \in 1..Len(seqs[k]) : x = u[k - 1] + r
  <2>1. CASE x \in 1..Len(s)
    <3>1. PICK k \in 1..(n - 1) : \E r \in 1..Len(seqs[k]) : x = o[k - 1] + r
      BY <1>5, <2>1
    <3>2. u[k - 1] = o[k - 1] /\ k \in 1..n
      BY <1>6, <1>7
    <3>3. QED BY <3>1, <3>2
  <2>2. CASE x \notin 1..Len(s)
    <3>1. Len(s) \in Nat
      OBVIOUS
    <3>2. x - Len(s) \in 1..Len(t) /\ x = Len(s) + (x - Len(s))
      BY <1>2, <1>3, <2>2, <3>1
    <3>3. u[n - 1] = Len(s) /\ n \in 1..n
      BY <1>4, <1>6, <1>7
    <3>4. QED BY <3>2, <3>3 DEF t
  <2>3. QED BY <2>1, <2>2
<1>13. IsLayout(u, seqs, v, n)
  BY <1>8, <1>9, <1>10, <1>11, <1>12 DEF IsLayout
<1>14. QED BY <1>13 DEF v, t

LEMMA ConcatLayout ==
  ASSUME NEW T, NEW seqs \in Seq(Seq(T))
  PROVE  /\ Concat(seqs) \in Seq(T)
         /\ \E o : IsLayout(o, seqs, Concat(seqs), Len(seqs))
<1> DEFINE I == [n \in 0..Len(seqs) |-> {s \in Seq(T) : \E o : IsLayout(o, seqs, s, n)}]
<1>1. Len(seqs) \in Nat /\ \A n \in 1..Len(seqs) : seqs[n] \in Seq(T)
  OBVIOUS
<1>2. <<>> \in I[0]
  <2> DEFINE o == [k \in 0..0 |-> 0]
  <2>1. o \in [0..0 -> Nat] /\ o[0] = 0 /\ Len(<<>>) = o[0]
    OBVIOUS
  <2>2. \A j, k \in 0..0 : j <= k => o[j] <= o[k]
    OBVIOUS
  <2>3. 1..0 = {} /\ 1..Len(<<>>) = {}
    OBVIOUS
  <2> HIDE DEF o
  <2>4. IsLayout(o, seqs, <<>>, 0)
    BY <2>1, <2>2, <2>3 DEF IsLayout
  <2>5. QED BY <1>1, <2>4
<1>3. \A n \in 1..Len(seqs) : \A s \in I[n - 1] : ConcatOp(0, 0, 0, 0, 0, s, seqs[n]) \in I[n]
  <2> TAKE n \in 1..Len(seqs)
  <2>1. n - 1 \in 0..Len(seqs) /\ n \in 0..Len(seqs)
    BY <1>1
  <2> TAKE s \in I[n - 1]
  <2>2. s \in Seq(T) /\ \E o : IsLayout(o, seqs, s, n - 1)
    BY <2>1
  <2>3. \E u : IsLayout(u, seqs, s \o seqs[n], n)
    BY <2>2, LayoutGrows
  <2>4. s \o seqs[n] \in Seq(T)
    BY <1>1, <2>2
  <2>5. QED BY <2>1, <2>3, <2>4 DEF ConcatOp
<1>4. I[Len(seqs)] = {s \in Seq(T) : \E o : IsLayout(o, seqs, s, Len(seqs))}
  BY <1>1
<1> HIDE DEF I
<1>5. ConcatFold!Result(0, 0, 0, 0, 0, <<>>, seqs) \in I[Len(seqs)]
  BY <1>2, <1>3, ConcatFold!FoldSteps
<1>6. QED BY <1>4, <1>5, ConcatIsFold

-----------------------------------------------------------------------------
(* Reading what there is of package_data.                                  *)

\* L is what is written for the packages ps, and o where the lines of each end.
IsWritten(ps, L, o) ==
  /\ ps \in Seq(Range(ps)) /\ L \in Seq(Range(L))
  /\ \A k \in DOMAIN ps : IsPackage(ps[k])
  /\ IsLayout(o, [k \in DOMAIN ps |-> Lines(ps[k])], L, Len(ps))

\* What is there of it: a last line may be incomplete.
IsPart(f, L) ==
  /\ HasLines(f) /\ Len(f.lines) <= Len(L)
  /\ \A x \in DOMAIN f.lines :
       \/ f.lines[x] = L[x]
       \/ x = Len(f.lines) /\ L[x] # Blank /\ f.lines[x] \in Cuts(L[x])

LEMMA CutIs ==
  ASSUME NEW l, l # Blank, NEW c \in Cuts(l)
  PROVE  c # Blank /\ (c.kind = "text" \/ c.kind = l.kind)
<1>1. "cut" # NULL /\ Malformed # NULL
  BY TextAssumption DEF Value
<1>2. QED BY <1>1 DEF Cuts, Line, Blank

LEMMA PackagesLayout ==
  ASSUME NEW ps, ps \in Seq(Range(ps)), \A k \in DOMAIN ps : IsPackage(ps[k])
  PROVE  \E o : IsWritten(ps, Concat([k \in DOMAIN ps |-> Lines(ps[k])]), o)
<1> DEFINE blocks == [k \in DOMAIN ps |-> Lines(ps[k])]
           T == UNION {Range(Lines(ps[k])) : k \in DOMAIN ps}
<1>1. Len(ps) \in Nat /\ DOMAIN ps = 1..Len(ps)
  OBVIOUS
<1>2. ASSUME NEW k \in DOMAIN ps
      PROVE  Lines(ps[k]) \in Seq(T)
  <2>1. Lines(ps[k]) \in Seq(Range(Lines(ps[k])))
    BY LinesIs
  <2>2. Range(Lines(ps[k])) \subseteq T
    OBVIOUS
  <2> HIDE DEF T
  <2>3. QED BY <2>1, <2>2
<1>3. blocks \in Seq(Seq(T))
  <2>1. blocks \in [1..Len(ps) -> Seq(T)]
    BY <1>1, <1>2
  <2> HIDE DEF blocks, T
  <2>2. QED BY <1>1, <2>1, FunctionIsSeq
<1>4. Len(blocks) = Len(ps)
  <2>1. DOMAIN blocks = 1..Len(ps)
    BY <1>1
  <2> HIDE DEF blocks, T
  <2>2. QED BY <1>1, <1>3, <2>1
<1> HIDE DEF blocks, T
<1>5. Concat(blocks) \in Seq(T)
  BY <1>3, ConcatLayout
<1>6. PICK o : IsLayout(o, blocks, Concat(blocks), Len(blocks))
  BY <1>3, ConcatLayout
<1>7. Concat(blocks) \in Seq(Range(Concat(blocks)))
  BY <1>5, RangeType
<1>8. IsWritten(ps, Concat(blocks), o)
  BY <1>4, <1>6, <1>7 DEF IsWritten, blocks
<1>9. QED BY <1>8 DEF blocks

\* Nothing is read where there is no name.
LEMMA NothingRead ==
  ASSUME NEW f, HasLines(f), NEW a \in 1..(Len(f.lines) + 2),
         \A x \in DOMAIN f.lines : x >= a => ~Given(f, x, "name")
  PROVE  ReadFrom(f)[a] = <<>>
<1> DEFINE n == Len(f.lines) + 2
           P == {x \in 1..n : x >= a => ReadFrom(f)[x] = <<>>}
<1>1. n \in Nat /\ Len(f.lines) \in Nat /\ DOMAIN f.lines = 1..Len(f.lines) /\ a \in 1..n
  BY LinesAre
<1>2. ASSUME NEW x \in 1..n, (x + 1)..n \subseteq P
      PROVE  x \in P
  <2> SUFFICES ASSUME x >= a PROVE ReadFrom(f)[x] = <<>>
    OBVIOUS
  <2>1. CASE x > Len(f.lines)
    BY <2>1, ReadFromIs
  <2>2. CASE ~(x > Len(f.lines))
    <3>1. x \in DOMAIN f.lines /\ ~Given(f, x, "name")
      BY <1>1, <2>2
    <3>2. ReadFrom(f)[x] = ReadFrom(f)[x + 1]
      BY <2>2, <3>1, ReadFromIs
    <3>3. x + 1 \in (x + 1)..n /\ x + 1 >= a
      BY <1>1, <2>2
    <3>4. QED BY <1>2, <3>2, <3>3
  <2>3. QED BY <2>1, <2>2
<1>3. 1..n \subseteq P
  <2> HIDE DEF P, n
  <2>1. QED BY <1>1, <1>2, Backwards
<1>4. QED BY <1>1, <1>3

\* Where the first ten lines of a package are, it is read as it was written,
\* save its description.
LEMMA HeaderIsRead ==
  ASSUME NEW f, HasLines(f), NEW p, IsPackage(p), NEW a \in Nat,
         \A r \in 1..10 : a + r - 1 \in DOMAIN f.lines /\ f.lines[a + r - 1] = Lines(p)[r]
  PROVE  /\ Given(f, a, "name")
         /\ Slots(f, a).desc = a + 10
         /\ Given(f, a + 10, "desc") => a \in Sound(f)
         /\ At(f, a) = [p EXCEPT !.description = Description(f, a + 10)]
<1> DEFINE s == Slots(f, a)
           g == Lines(p)
<1>1. /\ s.mirror = a + 1 /\ s.priority = Past(f, s.mirror, "mirror")
      /\ s.location = Past(f, s.priority, "priority")
      /\ s.size_c = s.location + 1 /\ s.size_u = s.location + 2
      /\ s.required = s.location + 3
      /\ s.conflicts = Past(f, s.required, "required")
      /\ s.suggests = Past(f, s.conflicts, "conflicts")
      /\ s.md5 = Past(f, s.suggests, "suggests")
      /\ s.desc = Past(f, s.md5, "md5")
  BY SlotsAre
<1>2. /\ g[1] = Line("name", p.file) /\ g[2] = Line("mirror", p.mirror)
      /\ g[3] = Line("priority", p.priority) /\ g[4] = Line("location", p.location)
      /\ g[5] = Line("size_c", p.sizes[1]) /\ g[6] = Line("size_u", p.sizes[2])
      /\ g[7] = Line("required", p.required) /\ g[8] = Line("conflicts", p.conflicts)
      /\ g[9] = Line("suggests", p.suggests) /\ g[10] = Line("md5", p.md5)
  BY LinesIs
<1> HIDE DEF s, g
<1>3. \A y \in Nat : \A r \in 1..10 : y = a + r - 1 => y \in DOMAIN f.lines /\ f.lines[y] = g[r]
  BY DEF g
<1>4. /\ a = a + 1 - 1 /\ a + 1 = a + 2 - 1 /\ a + 2 = a + 3 - 1 /\ a + 3 = a + 4 - 1
      /\ a + 4 = a + 5 - 1 /\ a + 5 = a + 6 - 1 /\ a + 6 = a + 7 - 1 /\ a + 7 = a + 8 - 1
      /\ a + 8 = a + 9 - 1 /\ a + 9 = a + 10 - 1
      /\ a + 1 \in Nat /\ a + 2 \in Nat /\ a + 3 \in Nat /\ a + 4 \in Nat /\ a + 5 \in Nat
      /\ a + 6 \in Nat /\ a + 7 \in Nat /\ a + 8 \in Nat /\ a + 9 \in Nat
  OBVIOUS
<1>5. /\ 1 \in 1..10 /\ 2 \in 1..10 /\ 3 \in 1..10 /\ 4 \in 1..10 /\ 5 \in 1..10
      /\ 6 \in 1..10 /\ 7 \in 1..10 /\ 8 \in 1..10 /\ 9 \in 1..10 /\ 10 \in 1..10
  OBVIOUS
<1>6. /\ a \in DOMAIN f.lines /\ a + 1 \in DOMAIN f.lines /\ a + 2 \in DOMAIN f.lines
      /\ a + 3 \in DOMAIN f.lines /\ a + 4 \in DOMAIN f.lines /\ a + 5 \in DOMAIN f.lines
      /\ a + 6 \in DOMAIN f.lines /\ a + 7 \in DOMAIN f.lines /\ a + 8 \in DOMAIN f.lines
      /\ a + 9 \in DOMAIN f.lines
  BY <1>3, <1>4, <1>5
<1>7. /\ f.lines[a] = g[1] /\ f.lines[a + 1] = g[2] /\ f.lines[a + 2] = g[3]
      /\ f.lines[a + 3] = g[4] /\ f.lines[a + 4] = g[5] /\ f.lines[a + 5] = g[6]
      /\ f.lines[a + 6] = g[7] /\ f.lines[a + 7] = g[8] /\ f.lines[a + 8] = g[9]
      /\ f.lines[a + 9] = g[10]
  BY <1>3, <1>4, <1>5
<1>8. /\ p.file # Malformed /\ p.mirror # Malformed /\ p.priority # Malformed
      /\ p.location # Malformed /\ p.sizes[1] # Malformed /\ p.sizes[2] # Malformed
      /\ p.required # Malformed /\ p.conflicts # Malformed /\ p.suggests # Malformed
      /\ p.md5 # Malformed /\ p.md5 # OutOfRange /\ p.priority # OutOfRange
  BY DEF IsPackage, Value
<1>9. /\ Given(f, a, "name") /\ f.lines[a].val = p.file
      /\ Given(f, a + 1, "mirror") /\ f.lines[a + 1].val = p.mirror
      /\ Given(f, a + 2, "priority") /\ f.lines[a + 2].val = p.priority
      /\ Given(f, a + 3, "location") /\ f.lines[a + 3].val = p.location
      /\ Given(f, a + 4, "size_c") /\ f.lines[a + 4].val = p.sizes[1]
  BY <1>2, <1>6, <1>7, <1>8 DEF Given, Marked, Line
<1>10. /\ Given(f, a + 5, "size_u") /\ f.lines[a + 5].val = p.sizes[2]
       /\ Given(f, a + 6, "required") /\ f.lines[a + 6].val = p.required
       /\ Given(f, a + 7, "conflicts") /\ f.lines[a + 7].val = p.conflicts
       /\ Given(f, a + 8, "suggests") /\ f.lines[a + 8].val = p.suggests
       /\ Given(f, a + 9, "md5") /\ f.lines[a + 9].val = p.md5
  BY <1>2, <1>6, <1>7, <1>8 DEF Given, Marked, Line
<1>11. \A y \in Nat : \A k : Given(f, y, k) => Past(f, y, k) = y + 1
  BY DEF Past
<1>12. s.mirror = a + 1 /\ s.priority = a + 2 /\ s.location = a + 3
  <2>1. s.priority = a + 1 + 1 /\ a + 1 + 1 = a + 2
    BY <1>1, <1>4, <1>9, <1>11
  <2>2. s.location = a + 2 + 1 /\ a + 2 + 1 = a + 3
    BY <1>1, <1>4, <1>9, <1>11, <2>1
  <2>3. QED BY <1>1, <2>1, <2>2
<1>13. s.size_c = a + 4 /\ s.size_u = a + 5 /\ s.required = a + 6
  BY <1>1, <1>12
<1>14. s.conflicts = a + 7 /\ s.suggests = a + 8 /\ s.md5 = a + 9 /\ s.desc = a + 10
  <2>1. s.conflicts = a + 6 + 1 /\ a + 6 + 1 = a + 7
    BY <1>1, <1>4, <1>10, <1>11, <1>13
  <2>2. s.suggests = a + 7 + 1 /\ a + 7 + 1 = a + 8
    BY <1>1, <1>4, <1>10, <1>11, <2>1
  <2>3. s.md5 = a + 8 + 1 /\ a + 8 + 1 = a + 9
    BY <1>1, <1>4, <1>10, <1>11, <2>2
  <2>4. s.desc = a + 9 + 1 /\ a + 9 + 1 = a + 10
    BY <1>1, <1>4, <1>10, <1>11, <2>3
  <2>5. QED BY <2>1, <2>2, <2>3, <2>4
<1>15. \A y, k, default : Given(f, y, k) => Val(f, y, k, default) = f.lines[y].val
  BY DEF Val
<1>16. ASSUME Given(f, a + 10, "desc") PROVE a \in Sound(f)
  <2>1. \A k \in {"location", "size_c", "size_u", "desc"} : Given(f, s[k], k)
    BY <1>9, <1>10, <1>12, <1>13, <1>14, <1>16
  <2>2. \A k \in {"priority", "md5"} : Val(f, s[k], k, NULL) # OutOfRange
    BY <1>8, <1>9, <1>10, <1>12, <1>14, <1>15
  <2>3. Faults(f, s) = {}
    BY <2>1, <2>2 DEF Faults
  <2>4. QED BY <1>6, <1>9, <2>3 DEF Sound, s
<1>17. At(f, a) =
         [file |-> p.file, mirror |-> p.mirror, priority |-> p.priority,
          location |-> p.location, sizes |-> <<p.sizes[1], p.sizes[2]>>,
          required |-> p.required, conflicts |-> p.conflicts, suggests |-> p.suggests,
          md5 |-> p.md5, description |-> Description(f, a + 10)]
  <2>1. At(f, a) =
         [file |-> f.lines[a].val, mirror |-> Val(f, s.mirror, "mirror", NULL),
          priority |-> Val(f, s.priority, "priority", "0"),
          location |-> f.lines[s.location].val,
          sizes |-> <<f.lines[s.size_c].val, f.lines[s.size_u].val>>,
          required |-> Val(f, s.required, "required", NULL),
          conflicts |-> Val(f, s.conflicts, "conflicts", NULL),
          suggests |-> Val(f, s.suggests, "suggests", NULL),
          md5 |-> Val(f, s.md5, "md5", NULL), description |-> Description(f, s.desc)]
    BY DEF At, Package, s
  <2>2. /\ Val(f, s.mirror, "mirror", NULL) = p.mirror
        /\ Val(f, s.priority, "priority", "0") = p.priority
        /\ f.lines[s.location].val = p.location
        /\ f.lines[s.size_c].val = p.sizes[1] /\ f.lines[s.size_u].val = p.sizes[2]
    BY <1>9, <1>10, <1>12, <1>13, <1>15
  <2>3. /\ Val(f, s.required, "required", NULL) = p.required
        /\ Val(f, s.conflicts, "conflicts", NULL) = p.conflicts
        /\ Val(f, s.suggests, "suggests", NULL) = p.suggests
        /\ Val(f, s.md5, "md5", NULL) = p.md5
    BY <1>10, <1>13, <1>14, <1>15
  <2>4. QED BY <1>9, <1>14, <2>1, <2>2, <2>3
<1>18. /\ p = [file |-> p.file, mirror |-> p.mirror, priority |-> p.priority,
          location |-> p.location, sizes |-> p.sizes, required |-> p.required,
          conflicts |-> p.conflicts, suggests |-> p.suggests, md5 |-> p.md5,
          description |-> p.description]
       /\ p.sizes = <<p.sizes[1], p.sizes[2]>>
  BY DEF IsPackage
<1>19. At(f, a) = [p EXCEPT !.description = Description(f, a + 10)]
  <2> DEFINE d == Description(f, a + 10)
  <2> HIDE DEF d
  <2>1. [p EXCEPT !.description = d] =
         [file |-> p.file, mirror |-> p.mirror, priority |-> p.priority,
          location |-> p.location, sizes |-> p.sizes, required |-> p.required,
          conflicts |-> p.conflicts, suggests |-> p.suggests, md5 |-> p.md5,
          description |-> d]
    BY <1>18
  <2>2. QED BY <1>17, <1>18, <2>1 DEF d
<1>20. QED BY <1>9, <1>14, <1>16, <1>19 DEF s

LEMMA WrittenIs ==
  ASSUME NEW ps, NEW L, NEW o, IsWritten(ps, L, o)
  PROVE  /\ DOMAIN ps = 1..Len(ps) /\ Len(ps) \in Nat /\ DOMAIN L = 1..Len(L) /\ Len(L) \in Nat
         /\ \A k \in 0..Len(ps) : o[k] \in Nat
         /\ o[0] = 0 /\ Len(L) = o[Len(ps)]
         /\ \A j, k \in 0..Len(ps) : j <= k => o[j] <= o[k]
         /\ \A k \in 1..Len(ps) :
              /\ IsPackage(ps[k]) /\ k - 1 \in 0..Len(ps) /\ k \in 0..Len(ps)
              /\ o[k - 1] \in Nat /\ o[k] \in Nat
              /\ o[k] = o[k - 1] + Len(Lines(ps[k]))
              /\ \A r \in 1..Len(Lines(ps[k])) : L[o[k - 1] + r] = Lines(ps[k])[r]
         /\ \A x \in 1..Len(L) :
              \E k \in 1..Len(ps) : \E r \in 1..Len(Lines(ps[k])) : x = o[k - 1] + r
<1> DEFINE g == [k \in DOMAIN ps |-> Lines(ps[k])]
<1>1. /\ DOMAIN ps = 1..Len(ps) /\ Len(ps) \in Nat /\ DOMAIN L = 1..Len(L) /\ Len(L) \in Nat
      /\ \A k \in 1..Len(ps) : IsPackage(ps[k]) /\ g[k] = Lines(ps[k])
  BY DEF IsWritten
<1>2. IsLayout(o, g, L, Len(ps))
  BY DEF IsWritten
<1> HIDE DEF g
<1>3. /\ o \in [0..Len(ps) -> Nat] /\ o[0] = 0 /\ Len(L) = o[Len(ps)]
      /\ \A k \in 1..Len(ps) : o[k] = o[k - 1] + Len(g[k])
      /\ \A j, k \in 0..Len(ps) : j <= k => o[j] <= o[k]
  BY <1>2 DEF IsLayout
<1>4. /\ \A k \in 1..Len(ps) : \A r \in 1..Len(g[k]) : L[o[k - 1] + r] = g[k][r]
      /\ \A x \in 1..Len(L) : \E k \in 1..Len(ps) : \E r \in 1..Len(g[k]) : x = o[k - 1] + r
  BY <1>2 DEF IsLayout
<1>5. \A k \in 1..Len(ps) : k - 1 \in 0..Len(ps) /\ k \in 0..Len(ps)
  BY <1>1
<1>6. \A k \in 0..Len(ps) : o[k] \in Nat
  BY <1>3
<1>7. ASSUME NEW k \in 1..Len(ps)
      PROVE  /\ IsPackage(ps[k]) /\ o[k - 1] \in Nat /\ o[k] \in Nat
             /\ o[k] = o[k - 1] + Len(Lines(ps[k]))
             /\ \A r \in 1..Len(Lines(ps[k])) : L[o[k - 1] + r] = Lines(ps[k])[r]
  BY <1>1, <1>3, <1>4, <1>5, <1>6
<1>8. ASSUME NEW x \in 1..Len(L)
      PROVE  \E k \in 1..Len(ps) : \E r \in 1..Len(Lines(ps[k])) : x = o[k - 1] + r
  BY <1>1, <1>4
<1>9. QED BY <1>1, <1>3, <1>5, <1>6, <1>7, <1>8

LEMMA HeaderIs ==
  ASSUME NEW p, IsPackage(p), NEW r \in 1..11
  PROVE  /\ Lines(p)[r] # Blank
         /\ r # 1 => Lines(p)[r].kind # "name"
         /\ r # 11 => Lines(p)[r].kind # "desc"
<1> DEFINE l == Lines(p)
<1>1. /\ l[1].kind = "name" /\ l[2].kind = "mirror" /\ l[3].kind = "priority"
      /\ l[4].kind = "location" /\ l[5].kind = "size_c" /\ l[6].kind = "size_u"
      /\ l[7].kind = "required" /\ l[8].kind = "conflicts" /\ l[9].kind = "suggests"
      /\ l[10].kind = "md5" /\ l[11].kind = "desc"
  <2>1. /\ l[1] = Line("name", p.file) /\ l[2] = Line("mirror", p.mirror)
        /\ l[3] = Line("priority", p.priority) /\ l[4] = Line("location", p.location)
        /\ l[5] = Line("size_c", p.sizes[1]) /\ l[6] = Line("size_u", p.sizes[2])
        /\ l[7] = Line("required", p.required) /\ l[8] = Line("conflicts", p.conflicts)
        /\ l[9] = Line("suggests", p.suggests) /\ l[10] = Line("md5", p.md5)
        /\ l[11] = Line("desc", NULL)
    BY LinesIs
  <2> HIDE DEF l
  <2>2. QED BY <2>1 DEF Line
<1>2. Blank.kind = "blank"
  BY DEF Blank, Line
<1> HIDE DEF l
<1>3. r \in {1, 2, 3, 4, 5, 6, 7, 8, 9, 10, 11}
  OBVIOUS
<1>4. l[r].kind # "blank" /\ (r # 1 => l[r].kind # "name") /\ (r # 11 => l[r].kind # "desc")
  BY <1>1, <1>3
<1>5. QED BY <1>2, <1>4 DEF l

\* The blank lines of what is written end packages.
LEMMA BlanksEnd ==
  ASSUME NEW ps, NEW L, NEW o, IsWritten(ps, L, o)
  PROVE  /\ \A x \in DOMAIN L : L[x] = Blank => \E k \in 1..Len(ps) : x = o[k]
         /\ \A k \in 1..Len(ps) : ps[k].description.ended => L[o[k]] = Blank
<1>1. DOMAIN ps = 1..Len(ps) /\ Len(ps) \in Nat /\ DOMAIN L = 1..Len(L)
  BY WrittenIs
<1>2. \A k \in 1..Len(ps) :
        /\ IsPackage(ps[k]) /\ o[k] = o[k - 1] + Len(Lines(ps[k]))
        /\ \A r \in 1..Len(Lines(ps[k])) : L[o[k - 1] + r] = Lines(ps[k])[r]
  BY WrittenIs
<1>3. ASSUME NEW k \in 1..Len(ps), NEW r \in 1..Len(Lines(ps[k])), Lines(ps[k])[r] = Blank
      PROVE  r = Len(Lines(ps[k]))
  <2> DEFINE t == DescText(ps[k].description)
             l == Lines(ps[k])
  <2>1. IsPackage(ps[k])
    BY <1>2
  <2>2. /\ Len(l) \in Nat
        /\ \A x \in DOMAIN t : l[11 + x] = t[x]
        /\ (Len(l) = 11 + Len(t) \/ Len(l) = 12 + Len(t))
    BY <2>1, LinesIs
  <2>3. /\ t \in Seq(Range(t)) /\ \A x \in DOMAIN t : t[x] # Blank
    BY <2>1, TextIs DEF IsPackage
  <2>4. DOMAIN t = 1..Len(t) /\ Len(t) \in Nat
    BY <2>3
  <2> HIDE DEF t, l
  <2>5. r \in Nat /\ r >= 1 /\ r <= Len(l) /\ l[r] = Blank
    BY <1>3 DEF l
  <2>6. ~(r \in 1..11)
    <3> SUFFICES ASSUME r \in 1..11 PROVE FALSE
      OBVIOUS
    <3>1. l[r] # Blank
      BY <2>1, HeaderIs DEF l
    <3>2. QED BY <2>5, <3>1
  <2>7. ~(r - 11 \in DOMAIN t)
    <3> SUFFICES ASSUME r - 11 \in DOMAIN t PROVE FALSE
      OBVIOUS
    <3>1. l[11 + (r - 11)] = t[r - 11] /\ 11 + (r - 11) = r
      BY <2>2, <2>5
    <3>2. QED BY <2>3, <2>5, <3>1
  <2>8. r = Len(l)
    <3>1. r > 11 /\ ~(r - 11 <= Len(t))
      BY <2>4, <2>5, <2>6, <2>7
    <3>2. Len(l) = 11 + Len(t) \/ Len(l) = 12 + Len(t)
      BY <2>2
    <3>3. r \in Nat /\ r <= Len(l) /\ Len(t) \in Nat
      BY <2>4, <2>5
    <3>4. QED BY <3>1, <3>2, <3>3
  <2>9. QED BY <2>8 DEF l
<1>4. ASSUME NEW x \in DOMAIN L, L[x] = Blank
      PROVE  \E k \in 1..Len(ps) : x = o[k]
  <2>1. PICK k \in 1..Len(ps) : \E r \in 1..Len(Lines(ps[k])) : x = o[k - 1] + r
    <3>1. \A y \in 1..Len(L) :
            \E k \in 1..Len(ps) : \E r \in 1..Len(Lines(ps[k])) : y = o[k - 1] + r
      BY WrittenIs
    <3>2. QED BY <1>1, <3>1
  <2>2. PICK r \in 1..Len(Lines(ps[k])) : x = o[k - 1] + r
    BY <2>1
  <2>3. Lines(ps[k])[r] = Blank
    BY <1>2, <1>4, <2>2
  <2>4. r = Len(Lines(ps[k]))
    BY <1>3, <2>3
  <2>5. x = o[k]
    BY <1>2, <2>2, <2>4
  <2>6. QED BY <2>5
<1>5. ASSUME NEW k \in 1..Len(ps), ps[k].description.ended
      PROVE  L[o[k]] = Blank
  <2> DEFINE t == DescText(ps[k].description)
             l == Lines(ps[k])
  <2>1. IsPackage(ps[k])
    BY <1>2
  <2>2. Len(l) \in Nat /\ Len(l) = 12 + Len(t) /\ l[Len(l)] = Blank
    BY <1>5, <2>1, LinesIs
  <2>3. Len(t) \in Nat
    BY <2>1, TextIs DEF IsPackage
  <2> HIDE DEF t, l
  <2>4. Len(l) \in 1..Len(l)
    BY <2>2, <2>3
  <2>5. QED BY <1>2, <2>2, <2>4 DEF l
<1>6. QED BY <1>4, <1>5

\* From line a on, there is the header of a package, as far as f goes; its last
\* line may be incomplete.
HeaderAt(f, a, p) ==
  \A x \in DOMAIN f.lines : a <= x /\ x <= a + 10 =>
    /\ x # a => f.lines[x].kind # "name"
    /\ x # a + 10 => f.lines[x].kind # "desc"
    /\ x # Len(f.lines) => f.lines[x] = Lines(p)[x - a + 1]

LEMMA Within ==
  ASSUME NEW a \in Nat, NEW r \in 1..11
  PROVE  /\ a + r - 1 \in Nat /\ a <= a + r - 1 /\ a + r - 1 <= a + 10
         /\ a + r - 1 - a + 1 = r
OBVIOUS

\* What the parser makes of a header.
LEMMA HeaderIsParsed ==
  ASSUME NEW f, HasLines(f), NEW p, IsPackage(p), NEW a \in Nat,
         a \in DOMAIN f.lines, HeaderAt(f, a, p)
  PROVE  \/ ReadFrom(f)[a] = <<>> /\ Len(f.lines) <= a + 10
         \/ /\ a + 10 \in DOMAIN f.lines
            /\ ReadFrom(f)[a] = <<[p EXCEPT !.description = Description(f, a + 10)]>>
                                  \o ReadFrom(f)[DescEnd(f, a + 10) + 1]
<1> DEFINE n == Len(f.lines)
           l == Lines(p)
<1>1. n \in Nat /\ DOMAIN f.lines = 1..n
  BY LinesAre
<1>2. l[11] = Line("desc", NULL)
  BY LinesIs
<1>3. ReadFrom(f)[a] = IF Given(f, a, "name")
                       THEN Record(f, a).found \o ReadFrom(f)[Record(f, a).next]
                       ELSE ReadFrom(f)[a + 1]
  <2>1. a \in 1..(Len(f.lines) + 2) /\ ~(a > Len(f.lines))
    BY <1>1
  <2>2. QED BY <1>1, <2>1, ReadFromIs
<1>4. ASSUME NEW r \in 1..11, a + r - 1 \in DOMAIN f.lines, a + r - 1 # n
      PROVE  f.lines[a + r - 1] = l[r]
  <2>1. PICK y \in DOMAIN f.lines : y = a + r - 1
    BY <1>4
  <2>2. a <= y /\ y <= a + 10 /\ y - a + 1 = r
    BY <2>1, Within
  <2> HIDE DEF l
  <2>3. y # n => f.lines[y] = l[y - a + 1]
    BY <2>2 DEF HeaderAt, l
  <2>4. QED BY <1>4, <2>1, <2>2, <2>3
<1> HIDE DEF n, l
<1>5. CASE a \in Sound(f)
  <2>1. Given(f, a, "name")
    BY <1>5 DEF Sound
  <2>2. a + 10 <= n
    <3> DEFINE e == Pos(f, a)[11]
    <3>1. e \in DOMAIN f.lines /\ a <= e /\ f.lines[e].kind = "desc"
      <4>1. e \in DOMAIN f.lines /\ a <= e /\ IsField(f, e, 11)
        BY <1>5, RecordHas, FieldsAre DEF Mandatory
      <4>2. QED BY <4>1, FieldsAre DEF IsField
    <3> HIDE DEF e
    <3>2. ~(e <= a + 10) \/ e = a + 10
      BY <3>1 DEF HeaderAt
    <3>3. e \in Nat /\ e <= n
      BY <1>1, <3>1
    <3>4. QED BY <1>1, <3>2, <3>3
  <2>3. \A r \in 1..10 : a + r - 1 \in DOMAIN f.lines /\ a + r - 1 # n /\ r \in 1..11
    BY <1>1, <2>2
  <2>4. \A r \in 1..10 : a + r - 1 \in DOMAIN f.lines /\ f.lines[a + r - 1] = Lines(p)[r]
    BY <1>4, <2>3 DEF l
  <2>5. Slots(f, a).desc = a + 10
    BY <2>4, HeaderIsRead
  <2>6. At(f, a) = [p EXCEPT !.description = Description(f, a + 10)]
    BY <2>4, HeaderIsRead
  <2>7. Record(f, a) = [found |-> <<At(f, a)>>, next |-> DescEnd(f, a + 10) + 1]
    BY <1>5, <2>1, <2>5, RecordFinds
  <2>8. ReadFrom(f)[a] = <<At(f, a)>> \o ReadFrom(f)[DescEnd(f, a + 10) + 1]
    BY <1>3, <2>1, <2>7
  <2>9. a + 10 \in DOMAIN f.lines
    BY <1>1, <2>2
  <2>10. QED BY <2>6, <2>8, <2>9
<1>6. CASE a \notin Sound(f)
  <2>1. n <= a + 10
    <3> SUFFICES ASSUME ~(n <= a + 10) PROVE FALSE
      OBVIOUS
    <3>1. \A r \in 1..11 : a + r - 1 \in DOMAIN f.lines /\ a + r - 1 # n
      BY <1>1
    <3>2. \A r \in 1..11 : f.lines[a + r - 1] = l[r]
      BY <1>4, <3>1
    <3>3. 11 \in 1..11 /\ a + 11 - 1 = a + 10 /\ \A r \in 1..10 : r \in 1..11
      OBVIOUS
    <3>4. f.lines[a + 10] = l[11] /\ a + 10 \in DOMAIN f.lines
      BY <3>1, <3>2, <3>3
    <3>5. Given(f, a + 10, "desc")
      BY <1>2, <3>4, TextAssumption DEF Given, Marked, Line, Value
    <3>6. \A r \in 1..10 : a + r - 1 \in DOMAIN f.lines /\ f.lines[a + r - 1] = Lines(p)[r]
      BY <3>1, <3>2, <3>3 DEF l
    <3>7. a \in Sound(f)
      BY <3>5, <3>6, HeaderIsRead
    <3>8. QED BY <1>6, <3>7
  <2>2. ASSUME NEW x \in DOMAIN f.lines, x >= a + 1
        PROVE  ~Given(f, x, "name")
    <3>1. a <= x /\ x <= a + 10 /\ x # a
      BY <1>1, <2>1, <2>2
    <3>2. f.lines[x].kind # "name"
      BY <3>1 DEF HeaderAt
    <3>3. QED BY <3>2 DEF Given, Marked
  <2>3. \A y \in 1..(n + 2) : y >= a + 1 => ReadFrom(f)[y] = <<>>
    <3> TAKE y \in 1..(n + 2)
    <3> SUFFICES ASSUME y >= a + 1 PROVE ReadFrom(f)[y] = <<>>
      OBVIOUS
    <3>1. \A x \in DOMAIN f.lines : x >= y => ~Given(f, x, "name")
      BY <1>1, <2>2
    <3>2. QED BY <1>1, <3>1, NothingRead DEF n
  <2>4. CASE ~Given(f, a, "name")
    <3>1. a + 1 \in 1..(n + 2) /\ a + 1 >= a + 1
      BY <1>1
    <3>2. ReadFrom(f)[a] = <<>>
      BY <1>3, <2>3, <2>4, <3>1
    <3>3. QED BY <2>1, <3>2 DEF n
  <2>5. CASE Given(f, a, "name")
    <3>1. Record(f, a).next \in (a + 1)..(n + 2)
      BY <1>1, NextIs DEF n
    <3>2. Record(f, a).found = <<>>
      BY <1>6, <2>5, RecordFinds
    <3>3. Record(f, a).next \in 1..(n + 2) /\ Record(f, a).next >= a + 1
      BY <1>1, <3>1
    <3>4. ReadFrom(f)[a] = <<>> \o <<>>
      BY <1>3, <2>3, <2>5, <3>2, <3>3
    <3>5. <<>> \o <<>> = <<>>
      OBVIOUS
    <3>6. QED BY <2>1, <3>4, <3>5 DEF n
  <2>6. QED BY <2>4, <2>5
<1>7. QED BY <1>5, <1>6

\* Where the lines of package k begin.
Begin(o, k) == o[k - 1] + 1

LEMMA PackageHeader ==
  ASSUME NEW ps, NEW L, NEW o, IsWritten(ps, L, o), NEW f, IsPart(f, L),
         NEW k \in 1..Len(ps)
  PROVE  Begin(o, k) \in Nat /\ Begin(o, k) > 0 /\ HeaderAt(f, Begin(o, k), ps[k])
<1> DEFINE n == Len(f.lines)
           a == Begin(o, k)
           b == o[k - 1]
           l == Lines(ps[k])
<1>1. /\ DOMAIN f.lines = 1..n /\ n \in Nat
      /\ \A x \in DOMAIN f.lines :
           f.lines[x] = L[x] \/ (x = n /\ L[x] # Blank /\ f.lines[x] \in Cuts(L[x]))
  BY LinesAre DEF IsPart
<1>2. IsPackage(ps[k])
  BY WrittenIs
<1>3. b \in Nat /\ \A r \in 1..Len(l) : L[b + r] = l[r]
  BY WrittenIs
<1>4. Len(l) \in Nat /\ Len(l) > 11
  <2> DEFINE t == DescText(ps[k].description)
  <2>1. Len(t) \in Nat /\ Len(t) > 0
    BY <1>2, TextIs DEF IsPackage
  <2>2. Len(l) = 11 + Len(t) \/ Len(l) = 12 + Len(t)
    BY <1>2, LinesIs
  <2> HIDE DEF t, l
  <2>3. QED BY <2>1, <2>2
<1>5. a = b + 1
  BY DEF Begin
<1> HIDE DEF n, a, b, l
<1>6. ASSUME NEW x \in DOMAIN f.lines, a <= x, x <= a + 10
      PROVE  /\ x # a => f.lines[x].kind # "name"
             /\ x # a + 10 => f.lines[x].kind # "desc"
             /\ x # n => f.lines[x] = l[x - a + 1]
  <2> DEFINE r == x - a + 1
  <2>1. /\ r \in 1..11 /\ r \in 1..Len(l) /\ b + r = x
        /\ (x # a => r # 1) /\ (x # a + 10 => r # 11)
    <3>1. x \in Nat
      BY <1>1
    <3>2. b \in Nat /\ Len(l) \in Nat /\ Len(l) > 11
      BY <1>3, <1>4
    <3>3. a = b + 1 /\ a <= x /\ x <= a + 10
      BY <1>5, <1>6
    <3>4. /\ x - a + 1 \in 1..11 /\ x - a + 1 \in 1..Len(l) /\ b + (x - a + 1) = x
          /\ (x # a => x - a + 1 # 1) /\ (x # a + 10 => x - a + 1 # 11)
      <4> HIDE DEF r
      <4>1. PICK m : m = Len(l)
        OBVIOUS
      <4>2. m \in Nat /\ m > 11
        BY <3>2, <4>1
      <4>3. a \in Nat /\ x - a + 1 \in Nat /\ x - a + 1 >= 1 /\ x - a + 1 <= 11
        BY <3>1, <3>2, <3>3
      <4>4. b + (x - a + 1) = x
        BY <3>1, <3>2, <3>3
      <4>5. (x # a => x - a + 1 # 1) /\ (x # a + 10 => x - a + 1 # 11)
        BY <3>1, <4>3
      <4>6. x - a + 1 \in 1..11 /\ x - a + 1 \in 1..m
        BY <4>2, <4>3
      <4>7. QED BY <4>1, <4>4, <4>5, <4>6
    <3>5. QED BY <3>4
  <2> HIDE DEF r
  <2>2. L[x] = l[r]
    BY <1>3, <2>1
  <2>3. l[r] # Blank /\ (r # 1 => l[r].kind # "name") /\ (r # 11 => l[r].kind # "desc")
    BY <1>2, <2>1, HeaderIs DEF l
  <2>4. CASE f.lines[x] = L[x]
    BY <2>1, <2>2, <2>3, <2>4 DEF r
  <2>5. CASE x = n /\ f.lines[x] \in Cuts(L[x])
    <3>1. f.lines[x].kind = "text" \/ f.lines[x].kind = l[r].kind
      BY <2>2, <2>3, <2>5, CutIs
    <3>2. QED BY <2>1, <2>3, <2>5, <3>1
  <2>6. QED BY <1>1, <2>4, <2>5
<1>7. HeaderAt(f, a, ps[k])
  BY <1>6 DEF HeaderAt, n, l
<1>8. QED BY <1>3, <1>5, <1>7 DEF a

LEMMA PartIs ==
  ASSUME NEW ps, NEW L, NEW o, IsWritten(ps, L, o), NEW f, IsPart(f, L)
  PROVE  /\ HasLines(f) /\ Len(f.lines) \in Nat /\ DOMAIN f.lines = 1..Len(f.lines)
         /\ Len(f.lines) <= o[Len(ps)] /\ o[Len(ps)] \in Nat
         /\ \A x \in DOMAIN f.lines :
              /\ x \in DOMAIN L /\ (f.lines[x] = Blank <=> L[x] = Blank)
              /\ x # Len(f.lines) => f.lines[x] = L[x]
<1>1. /\ DOMAIN L = 1..Len(L) /\ Len(L) \in Nat /\ Len(L) = o[Len(ps)]
  BY WrittenIs
<1>2. /\ HasLines(f) /\ Len(f.lines) \in Nat /\ DOMAIN f.lines = 1..Len(f.lines)
      /\ Len(f.lines) <= Len(L)
  BY LinesAre DEF IsPart
<1>3. ASSUME NEW x \in DOMAIN f.lines
      PROVE  /\ x \in DOMAIN L /\ (f.lines[x] = Blank <=> L[x] = Blank)
             /\ x # Len(f.lines) => f.lines[x] = L[x]
  <2>1. x \in DOMAIN L
    BY <1>1, <1>2
  <2>2. \/ f.lines[x] = L[x]
        \/ x = Len(f.lines) /\ L[x] # Blank /\ f.lines[x] \in Cuts(L[x])
    BY DEF IsPart
  <2>3. CASE f.lines[x] = L[x]
    BY <2>1, <2>3
  <2>4. CASE x = Len(f.lines) /\ L[x] # Blank /\ f.lines[x] \in Cuts(L[x])
    BY <2>1, <2>4, CutIs
  <2>5. QED BY <2>2, <2>3, <2>4
<1>4. QED BY <1>1, <1>2, <1>3

LEMMA LinesAreMany ==
  ASSUME NEW p, IsPackage(p)
  PROVE  Len(Lines(p)) \in Nat /\ Len(Lines(p)) > 11
<1> DEFINE t == DescText(p.description)
<1>1. Len(t) \in Nat /\ Len(t) > 0
  BY TextIs DEF IsPackage
<1>2. Len(Lines(p)) = 11 + Len(t) \/ Len(Lines(p)) = 12 + Len(t)
  BY LinesIs
<1> HIDE DEF t
<1>3. QED BY <1>1, <1>2

\* Line d is the last before the description of package k.
Precedes(d, o, k) == d = o[k - 1] + 11

\* From line d on, there is the description of package k: it ends where that
\* of a package ends, or with f.
LEMMA EndOfPackage ==
  ASSUME NEW ps, NEW L, NEW o, IsWritten(ps, L, o), NEW f, IsPart(f, L),
         NEW k \in 1..Len(ps), NEW d \in DOMAIN f.lines, Precedes(d, o, k)
  PROVE  LET n == Len(f.lines)
             e == DescEnd(f, d)
         IN  /\ e \in Nat
             /\ \/ e = n + 1
                \/ \E j \in 1..Len(ps) : k <= j /\ e = o[j] /\ o[j] <= n
             /\ ps[k].description.ended /\ o[k] <= n => e = o[k]
             /\ n < o[k] => e = n + 1
<1> DEFINE n == Len(f.lines)
           e == DescEnd(f, d)
<1>0. d = o[k - 1] + 11
  BY DEF Precedes
<1>1. /\ HasLines(f) /\ n \in Nat /\ DOMAIN f.lines = 1..n
      /\ \A x \in DOMAIN f.lines : x \in DOMAIN L /\ (f.lines[x] = Blank <=> L[x] = Blank)
  BY PartIs
<1>2. /\ e \in Nat /\ d < e /\ e <= n + 1
      /\ e = n + 1 \/ (e \in DOMAIN f.lines /\ f.lines[e] = Blank)
      /\ \A j \in DOMAIN f.lines : d < j /\ j < e => f.lines[j] # Blank
  BY <1>1, DescEndIs
<1>3. /\ o[k] = o[k - 1] + Len(Lines(ps[k])) /\ o[k - 1] \in Nat /\ o[k] \in Nat
      /\ IsPackage(ps[k]) /\ k - 1 \in 0..Len(ps) /\ Len(ps) \in Nat
  BY WrittenIs
<1>4. \A j \in 1..Len(ps) : j \in 0..Len(ps) /\ o[j] \in Nat
  BY WrittenIs
<1>5. \A i, j \in 0..Len(ps) : i <= j => o[i] <= o[j]
  BY WrittenIs
<1>6. d < o[k]
  <2>1. Len(Lines(ps[k])) \in Nat /\ Len(Lines(ps[k])) > 11
    BY <1>3, LinesAreMany
  <2>2. QED BY <1>0, <1>3, <2>1
<1> HIDE DEF n, e
<1>7. ASSUME e # n + 1
      PROVE  \E j \in 1..Len(ps) : k <= j /\ e = o[j] /\ o[j] <= n
  <2>1. e \in DOMAIN L /\ L[e] = Blank
    BY <1>1, <1>2, <1>7
  <2>2. PICK j \in 1..Len(ps) : e = o[j]
    BY <2>1, BlanksEnd
  <2>3. ~(j <= k - 1)
    <3> SUFFICES ASSUME j <= k - 1 PROVE FALSE
      OBVIOUS
    <3>1. o[j] <= o[k - 1]
      BY <1>3, <1>4, <1>5
    <3>2. QED BY <1>0, <1>2, <1>3, <1>4, <2>2, <3>1
  <2>4. k <= j
    BY <1>3, <2>3
  <2>5. o[j] <= n
    BY <1>1, <1>2, <1>7, <2>2
  <2>6. QED BY <2>2, <2>4, <2>5
<1>8. ASSUME e # n + 1 PROVE o[k] <= e /\ e <= n
  <2>1. PICK j \in 1..Len(ps) : k <= j /\ e = o[j] /\ o[j] <= n
    BY <1>7, <1>8
  <2>2. o[k] <= o[j]
    BY <1>4, <1>5, <2>1
  <2>3. QED BY <2>1, <2>2
<1>9. ASSUME ps[k].description.ended, o[k] <= n PROVE e = o[k]
  <2>1. o[k] \in DOMAIN f.lines
    BY <1>1, <1>3, <1>6, <1>9
  <2>2. L[o[k]] = Blank
    BY <1>9, BlanksEnd
  <2>3. ~(o[k] < e)
    BY <1>1, <1>2, <1>6, <2>1, <2>2
  <2>4. e # n + 1
    BY <1>1, <1>3, <1>9, <2>3
  <2>5. QED BY <1>2, <1>3, <1>8, <2>3, <2>4
<1>10. n < o[k] => e = n + 1
  BY <1>1, <1>2, <1>3, <1>8
<1>11. QED BY <1>2, <1>7, <1>9, <1>10 DEF n, e

\* A newline ends package k, and all of it is there.
IsThere(f, ps, o, k) == ps[k].description.ended /\ o[k] <= Len(f.lines)

\* What is there to its end is read as it was written.
LEMMA WholeDescription ==
  ASSUME NEW ps, NEW L, NEW o, IsWritten(ps, L, o), NEW f, IsPart(f, L),
         NEW k \in 1..Len(ps), NEW d \in DOMAIN f.lines, Precedes(d, o, k), IsThere(f, ps, o, k)
  PROVE  Description(f, d) = [lines |-> DescText(ps[k].description), ended |-> TRUE]
<1> DEFINE n == Len(f.lines)
           t == DescText(ps[k].description)
           l == Lines(ps[k])
           s == SubSeq(f.lines, d + 1, o[k] - 1)
<1>1. DescEnd(f, d) = o[k]
  BY EndOfPackage DEF IsThere
<1>2. /\ HasLines(f) /\ n \in Nat /\ DOMAIN f.lines = 1..n
      /\ \A x \in DOMAIN f.lines : x # n => f.lines[x] = L[x]
  BY PartIs
<1>3. /\ o[k] = o[k - 1] + Len(l) /\ o[k - 1] \in Nat /\ o[k] \in Nat /\ IsPackage(ps[k])
      /\ \A r \in 1..Len(l) : L[o[k - 1] + r] = l[r]
  BY WrittenIs
<1>4. t \in Seq(Range(t)) /\ Len(t) \in Nat /\ DOMAIN t = 1..Len(t) /\ Len(t) > 0
  BY <1>3, TextIs DEF IsPackage
<1>5. Len(l) = 12 + Len(t) /\ \A x \in DOMAIN t : l[11 + x] = t[x]
  BY <1>3, LinesIs DEF IsThere
<1>6. Description(f, d) = [lines |-> s, ended |-> TRUE]
  BY <1>1, <1>2 DEF Description, HasLines, IsThere
<1>7. f.lines \in Seq(Range(f.lines))
  BY <1>2 DEF HasLines
<1> HIDE DEF n, t, l
<1>8. /\ d + 1 \in Nat /\ o[k] - 1 \in Nat /\ d + 1 > 0 /\ d + 1 <= o[k] - 1 + 1
      /\ o[k] - 1 <= n /\ o[k] - 1 + 1 - (d + 1) = Len(t)
      /\ \A x \in 1..Len(t) : \A y : y = d + 1 + x - 1 =>
           y = o[k - 1] + (11 + x) /\ 11 + x \in 1..Len(l) /\ y \in 1..n /\ y # n
  <2>1. PICK b, c, m, v, w : b = o[k - 1] /\ c = o[k] /\ m = Len(l) /\ v = Len(t) /\ w = n
    OBVIOUS
  <2>2. /\ b \in Nat /\ c \in Nat /\ m \in Nat /\ v \in Nat /\ w \in Nat
        /\ c = b + m /\ m = 12 + v /\ v > 0 /\ c <= w /\ d = b + 11
    <3>1. c <= w /\ d = b + 11
      BY <2>1 DEF n, Precedes, IsThere
    <3>2. b \in Nat /\ c \in Nat /\ c = b + m
      BY <1>3, <2>1
    <3>3. v \in Nat /\ v > 0 /\ w \in Nat
      BY <1>2, <1>4, <2>1
    <3>4. m = 12 + v
      BY <1>5, <2>1
    <3>5. QED BY <3>1, <3>2, <3>3, <3>4
  <2>3. d \in Nat
    BY <2>2
  <2>4. /\ d + 1 \in Nat /\ c - 1 \in Nat /\ d + 1 > 0 /\ d + 1 <= c - 1 + 1
        /\ c - 1 <= w /\ c - 1 + 1 - (d + 1) = v
        /\ \A x \in 1..v : \A y : y = d + 1 + x - 1 =>
             y = b + (11 + x) /\ 11 + x \in 1..m /\ y \in 1..w /\ y # w
    <3>1. /\ d + 1 \in Nat /\ c - 1 \in Nat /\ d + 1 > 0 /\ d + 1 <= c - 1 + 1
          /\ c - 1 <= w /\ c - 1 + 1 - (d + 1) = v
      <4>1. c = d + 1 + v
        BY <2>2
      <4>2. c - 1 \in Nat /\ d + 1 \in Nat /\ d + 1 > 0 /\ d + 1 <= c - 1 + 1
        BY <2>2, <2>3, <4>1
      <4>3. c - 1 <= w
        BY <2>2
      <4>4. c - 1 + 1 - (d + 1) = v
        BY <2>2, <2>3, <4>1
      <4>5. QED BY <4>2, <4>3, <4>4
    <3>2. ASSUME NEW x \in 1..v
          PROVE  d + 1 + x - 1 = b + (11 + x) /\ 11 + x \in 1..m
      BY <2>2, <2>3
    <3>3. ASSUME NEW x \in 1..v
          PROVE  b + (11 + x) \in 1..w /\ b + (11 + x) # w
      BY <2>2, <2>3
    <3>4. QED BY <3>1, <3>2, <3>3
  <2>5. QED BY <2>1, <2>4
<1>9. /\ s \in Seq(Range(f.lines)) /\ DOMAIN s = 1..Len(t)
      /\ \A x \in 1..Len(t) : s[x] = f.lines[d + 1 + x - 1] /\ d + 1 + x - 1 \in (d + 1)..(o[k] - 1)
  <2> DEFINE a == d + 1
             b == o[k] - 1
  <2>1. a \in Nat /\ b \in Nat /\ a > 0 /\ a <= b + 1 /\ b <= Len(f.lines) /\ b + 1 - a = Len(t)
    BY <1>8 DEF n
  <2> HIDE DEF a, b
  <2>2. /\ SubSeq(f.lines, a, b) \in Seq(Range(f.lines))
        /\ DOMAIN SubSeq(f.lines, a, b) = 1..(b + 1 - a)
        /\ \A x \in 1..(b + 1 - a) : SubSeq(f.lines, a, b)[x] = f.lines[a + x - 1] /\ a + x - 1 \in a..b
    BY <1>7, <2>1, SubSeqAny
  <2>3. QED BY <2>1, <2>2 DEF a, b
<1> HIDE DEF s
<1>10. ASSUME NEW x \in 1..Len(t) PROVE s[x] = t[x]
  <2>1. PICK y : y = d + 1 + x - 1
    OBVIOUS
  <2>2. s[x] = f.lines[y] /\ y \in (d + 1)..(o[k] - 1)
    BY <1>9, <2>1
  <2>3. y = o[k - 1] + (11 + x) /\ 11 + x \in 1..Len(l) /\ y \in 1..n /\ y # n
    BY <1>8, <2>1
  <2>5. f.lines[y] = L[y]
    BY <1>2, <2>3
  <2>6. L[y] = l[11 + x]
    BY <1>3, <2>3
  <2>7. l[11 + x] = t[x]
    BY <1>4, <1>5
  <2>8. QED BY <2>2, <2>5, <2>6, <2>7
<1>11. s = t
  <2>1. s = [x \in 1..Len(t) |-> s[x]] /\ t = [x \in 1..Len(t) |-> t[x]]
    BY <1>4, <1>9
  <2>2. QED BY <1>10, <2>1
<1>12. QED BY <1>6, <1>11 DEF s, t

\* What is read of package k from its first line on.
IsReadAt(f, ps, o, k) ==
  \/ ReadFrom(f)[Begin(o, k)] = <<>> /\ Len(f.lines) < o[k]
  \/ \E d : \E e \in Nat :
       /\ ReadFrom(f)[Begin(o, k)] =
            <<[ps[k] EXCEPT !.description = d]>> \o ReadFrom(f)[e + 1]
       /\ \/ e = Len(f.lines) + 1
          \/ \E j \in 1..Len(ps) : k <= j /\ e = o[j] /\ o[j] <= Len(f.lines)
       /\ IsThere(f, ps, o, k) =>
            e = o[k] /\ d = [lines |-> DescText(ps[k].description), ended |-> TRUE]
       /\ Len(f.lines) < o[k] => e = Len(f.lines) + 1

LEMMA PackageIsRead ==
  ASSUME NEW ps, NEW L, NEW o, IsWritten(ps, L, o), NEW f, IsPart(f, L),
         NEW k \in 1..Len(ps), Begin(o, k) \in DOMAIN f.lines
  PROVE  IsReadAt(f, ps, o, k)
<1> DEFINE n == Len(f.lines)
           a == Begin(o, k)
           c == a + 10
<1>1. HasLines(f) /\ n \in Nat /\ DOMAIN f.lines = 1..n
  BY PartIs
<1>2. a \in Nat /\ HeaderAt(f, a, ps[k])
  BY PackageHeader
<1>3. /\ IsPackage(ps[k]) /\ o[k - 1] \in Nat /\ o[k] \in Nat
      /\ o[k] = o[k - 1] + Len(Lines(ps[k]))
  BY WrittenIs
<1>4. Len(Lines(ps[k])) \in Nat /\ Len(Lines(ps[k])) > 11
  BY <1>3, LinesAreMany
<1>5. c = o[k - 1] + 11 /\ c < o[k]
  BY <1>3, <1>4 DEF Begin
<1>6. \/ ReadFrom(f)[a] = <<>> /\ n <= c
      \/ /\ c \in DOMAIN f.lines
         /\ ReadFrom(f)[a] = <<[ps[k] EXCEPT !.description = Description(f, c)]>>
                               \o ReadFrom(f)[DescEnd(f, c) + 1]
  BY <1>1, <1>2, <1>3, HeaderIsParsed
<1> HIDE DEF a, c, n
<1>7. CASE ReadFrom(f)[a] = <<>> /\ n <= c
  <2>1. c \in Nat
    BY <1>3, <1>5
  <2>2. n < o[k]
    BY <1>1, <1>3, <1>5, <1>7, <2>1
  <2>3. QED BY <1>7, <2>2 DEF a, n, IsReadAt
<1>8. CASE /\ c \in DOMAIN f.lines
           /\ ReadFrom(f)[a] = <<[ps[k] EXCEPT !.description = Description(f, c)]>>
                                 \o ReadFrom(f)[DescEnd(f, c) + 1]
  <2>1. IsThere(f, ps, o, k) =>
          Description(f, c) = [lines |-> DescText(ps[k].description), ended |-> TRUE]
    <3>1. c \in DOMAIN f.lines /\ Precedes(c, o, k)
      BY <1>5, <1>8 DEF Precedes
    <3>2. QED BY <3>1, WholeDescription
  <2> DEFINE e == DescEnd(f, c)
  <2>2. /\ e \in Nat
        /\ \/ e = Len(f.lines) + 1
           \/ \E j \in 1..Len(ps) : k <= j /\ e = o[j] /\ o[j] <= Len(f.lines)
        /\ IsThere(f, ps, o, k) => e = o[k]
        /\ Len(f.lines) < o[k] => e = Len(f.lines) + 1
    <3>1. c \in DOMAIN f.lines /\ Precedes(c, o, k)
      BY <1>5, <1>8 DEF Precedes
    <3>2. QED BY <3>1, EndOfPackage DEF IsThere
  <2> DEFINE d == Description(f, c)
  <2>3. ReadFrom(f)[Begin(o, k)] = <<[ps[k] EXCEPT !.description = d]>> \o ReadFrom(f)[e + 1]
    BY <1>8 DEF a
  <2>4. IsThere(f, ps, o, k) =>
          d = [lines |-> DescText(ps[k].description), ended |-> TRUE]
    BY <2>1
  <2> HIDE DEF d, e
  <2>5. QED BY <2>2, <2>3, <2>4 DEF IsReadAt
<1>9. QED BY <1>6, <1>7, <1>8

-----------------------------------------------------------------------------
(* Everything that is read of package_data.                                *)

\* What is read from the first line of package k on, if it is there.
Rest(f, o, k) == IF Begin(o, k) <= Len(f.lines) THEN ReadFrom(f)[Begin(o, k)] ELSE <<>>

LEMMA RestIs ==
  ASSUME NEW ps, NEW L, NEW o, IsWritten(ps, L, o), NEW f, IsPart(f, L),
         NEW k \in 1..(Len(ps) + 1)
  PROVE  /\ Rest(f, o, k) \in Seq(Founds(f)) /\ Begin(o, k) \in Nat /\ Begin(o, k) > 0
         /\ Begin(o, k) <= Len(f.lines) + 1 => ReadFrom(f)[Begin(o, k)] = Rest(f, o, k)
<1> DEFINE n == Len(f.lines)
           a == Begin(o, k)
<1>1. HasLines(f) /\ n \in Nat
  BY PartIs
<1>2. \A i \in 1..(n + 2) : ReadFrom(f)[i] \in Seq(Founds(f)) /\ (i > n => ReadFrom(f)[i] = <<>>)
  BY <1>1, ReadIsFound, ReadFromIs
<1>3. a \in Nat /\ a > 0
  <2>1. k - 1 \in 0..Len(ps)
    BY WrittenIs
  <2>2. o[k - 1] \in Nat
    BY <2>1, WrittenIs
  <2>3. QED BY <2>2 DEF Begin
<1>4. <<>> \in Seq(Founds(f))
  OBVIOUS
<1> HIDE DEF n, a
<1>5. CASE a <= n
  <2>1. a \in 1..(n + 2) /\ Rest(f, o, k) = ReadFrom(f)[a]
    BY <1>1, <1>3, <1>5 DEF Rest, a, n
  <2>2. QED BY <1>2, <1>3, <2>1 DEF a
<1>6. CASE ~(a <= n)
  <2>1. Rest(f, o, k) = <<>>
    BY <1>6 DEF Rest, a, n
  <2>2. ASSUME a <= n + 1 PROVE ReadFrom(f)[a] = <<>>
    <3>1. a \in 1..(n + 2) /\ a > n
      BY <1>1, <1>3, <1>6, <2>2
    <3>2. QED BY <1>2, <3>1
  <2>3. QED BY <1>3, <1>4, <2>1, <2>2 DEF a, n
<1>7. QED BY <1>5, <1>6

LEMMA ParseIsRest ==
  ASSUME NEW ps, NEW L, NEW o, IsWritten(ps, L, o), NEW f, IsPart(f, L)
  PROVE  ParsePackagesTxt(f) = Rest(f, o, 1)
<1>1. HasLines(f) /\ Len(f.lines) \in Nat
  BY PartIs
<1>2. o[0] = 0 /\ Len(ps) \in Nat
  BY WrittenIs
<1>3. Begin(o, 1) = 1 /\ 1 \in 1..(Len(ps) + 1) /\ 1 <= Len(f.lines) + 1
  BY <1>1, <1>2 DEF Begin
<1>4. ReadFrom(f)[1] = Rest(f, o, 1)
  BY <1>3, RestIs
<1>5. QED BY <1>1, <1>4, ReadFromIs

\* What is read from package k on is that package and what is read after it.
IsRestAt(f, ps, o, k) ==
  \/ Rest(f, o, k) = <<>> /\ Len(f.lines) < o[k]
  \/ \E d, t :
       /\ Rest(f, o, k) = <<[ps[k] EXCEPT !.description = d]>> \o t
       /\ t = <<>> \/ \E j \in 1..Len(ps) : k <= j /\ t = Rest(f, o, j + 1)
       /\ IsThere(f, ps, o, k) =>
            /\ t = Rest(f, o, k + 1)
            /\ d = [lines |-> DescText(ps[k].description), ended |-> TRUE]
       /\ Len(f.lines) < o[k] => t = <<>>

LEMMA RestOfPackage ==
  ASSUME NEW ps, NEW L, NEW o, IsWritten(ps, L, o), NEW f, IsPart(f, L),
         NEW k \in 1..Len(ps)
  PROVE  IsRestAt(f, ps, o, k)
<1> DEFINE n == Len(f.lines)
           a == Begin(o, k)
<1>1. HasLines(f) /\ n \in Nat /\ DOMAIN f.lines = 1..n
  BY PartIs
<1>2. /\ o[k - 1] \in Nat /\ o[k] \in Nat /\ Len(ps) \in Nat /\ IsPackage(ps[k])
      /\ o[k] = o[k - 1] + Len(Lines(ps[k]))
  <2>1. Len(ps) \in Nat
    BY WrittenIs
  <2>2. /\ o[k - 1] \in Nat /\ o[k] \in Nat /\ IsPackage(ps[k])
        /\ o[k] = o[k - 1] + Len(Lines(ps[k]))
    BY WrittenIs
  <2>3. QED BY <2>1, <2>2
<1>3. Len(Lines(ps[k])) \in Nat /\ Len(Lines(ps[k])) > 11
  BY <1>2, LinesAreMany
<1>4. ASSUME NEW j \in 1..Len(ps), o[j] <= n
      PROVE  ReadFrom(f)[o[j] + 1] = Rest(f, o, j + 1)
  <2>1. j + 1 \in 1..(Len(ps) + 1) /\ j + 1 - 1 = j
    BY <1>2
  <2>2. Begin(o, j + 1) = o[j] + 1
    BY <2>1 DEF Begin
  <2>3. o[j] \in Nat
    BY WrittenIs
  <2>4. Begin(o, j + 1) <= Len(f.lines) + 1
    BY <1>1, <1>4, <2>2, <2>3
  <2>5. ReadFrom(f)[Begin(o, j + 1)] = Rest(f, o, j + 1)
    BY <2>1, <2>4, RestIs
  <2>6. QED BY <2>2, <2>5
<1>5. n + 2 \in 1..(n + 2) /\ n + 2 > n /\ n + 1 + 1 = n + 2
  BY <1>1
<1>6. ReadFrom(f)[n + 2] = <<>>
  BY <1>1, <1>5, ReadFromIs
<1> HIDE DEF n, a
<1>7. CASE ~(a <= n)
  <2>1. Rest(f, o, k) = <<>>
    BY <1>7 DEF Rest, a, n
  <2>2. n < o[k]
    BY <1>1, <1>2, <1>3, <1>7 DEF Begin, a
  <2>3. QED BY <2>1, <2>2 DEF n, IsRestAt
<1>8. CASE a <= n
  <2>1. Rest(f, o, k) = ReadFrom(f)[a]
    BY <1>8 DEF Rest, a, n
  <2>2. Begin(o, k) \in DOMAIN f.lines
    BY <1>1, <1>2, <1>8 DEF Begin, a
  <2>3. \/ ReadFrom(f)[Begin(o, k)] = <<>> /\ Len(f.lines) < o[k]
        \/ \E d : \E e \in Nat :
             /\ ReadFrom(f)[Begin(o, k)] =
                  <<[ps[k] EXCEPT !.description = d]>> \o ReadFrom(f)[e + 1]
             /\ \/ e = Len(f.lines) + 1
                \/ \E j \in 1..Len(ps) : k <= j /\ e = o[j] /\ o[j] <= Len(f.lines)
             /\ IsThere(f, ps, o, k) =>
                  e = o[k] /\ d = [lines |-> DescText(ps[k].description), ended |-> TRUE]
             /\ Len(f.lines) < o[k] => e = Len(f.lines) + 1
    <3>1. IsReadAt(f, ps, o, k)
      BY <2>2, PackageIsRead
    <3>2. QED BY <3>1 DEF IsReadAt
  <2>4. CASE ReadFrom(f)[a] = <<>> /\ n < o[k]
    BY <2>1, <2>4 DEF n, IsRestAt
  <2>5. ASSUME NEW d, NEW e \in Nat,
               ReadFrom(f)[a] = <<[ps[k] EXCEPT !.description = d]>> \o ReadFrom(f)[e + 1],
               \/ e = n + 1
               \/ \E j \in 1..Len(ps) : k <= j /\ e = o[j] /\ o[j] <= n,
               IsThere(f, ps, o, k) =>
                 e = o[k] /\ d = [lines |-> DescText(ps[k].description), ended |-> TRUE],
               n < o[k] => e = n + 1
        PROVE  IsRestAt(f, ps, o, k)
    <3> DEFINE t == ReadFrom(f)[e + 1]
    <3>1. e = n + 1 => t = <<>>
      BY <1>5, <1>6
    <3>2. ASSUME NEW j \in 1..Len(ps), k <= j, e = o[j], o[j] <= n
          PROVE  t = Rest(f, o, j + 1)
      BY <1>4, <3>2
    <3>3. t = <<>> \/ \E j \in 1..Len(ps) : k <= j /\ t = Rest(f, o, j + 1)
      BY <2>5, <3>1, <3>2
    <3>4. ASSUME IsThere(f, ps, o, k)
          PROVE  /\ t = Rest(f, o, k + 1)
                 /\ d = [lines |-> DescText(ps[k].description), ended |-> TRUE]
      <4>1. o[k] <= n
        BY <3>4 DEF IsThere, n
      <4>2. e = o[k] /\ d = [lines |-> DescText(ps[k].description), ended |-> TRUE]
        BY <2>5, <3>4
      <4>3. QED BY <1>4, <4>1, <4>2
    <3>5. Rest(f, o, k) = <<[ps[k] EXCEPT !.description = d]>> \o t
      BY <2>1, <2>5
    <3>6. n < o[k] => t = <<>>
      BY <2>5, <3>1
    <3> HIDE DEF t
    <3>7. QED BY <3>3, <3>4, <3>5, <3>6 DEF IsRestAt, n
  <2>6. QED BY <2>3, <2>4, <2>5 DEF n, a
<1>9. QED BY <1>7, <1>8

\* NothingInvented says this of what is there of package_data.
LEMMA ReadsPackages ==
  ASSUME NEW ps, NEW L, NEW o, IsWritten(ps, L, o), NEW f, IsPart(f, L),
         NEW q \in Range(ParsePackagesTxt(f))
  PROVE  \E k \in 1..Len(ps) : q = [ps[k] EXCEPT !.description = q.description]
<1> DEFINE N == Len(ps) + 1
           Good == {At(f, i) : i \in Sound(f)}
           IsOne(p) == \E k \in 1..Len(ps) : p = [ps[k] EXCEPT !.description = p.description]
           P == {k \in 1..N : \A p \in Range(Rest(f, o, k)) : IsOne(p)}
<1>1. Len(ps) \in Nat /\ N \in Nat /\ 1 \in 1..N
  BY WrittenIs
<1> HIDE DEF IsOne
<1>2. ASSUME NEW k \in 1..N, (k + 1)..N \subseteq P
      PROVE  \A p \in Range(Rest(f, o, k)) : IsOne(p)
  <2>1. CASE k = N
    <3>1. Rest(f, o, k) = <<>>
      <4>1. o[Len(ps)] \in Nat /\ Len(f.lines) \in Nat /\ Len(f.lines) <= o[Len(ps)]
        BY PartIs
      <4>2. Begin(o, k) = o[Len(ps)] + 1
        BY <1>1, <2>1 DEF Begin
      <4>3. ~(Begin(o, k) <= Len(f.lines))
        BY <4>1, <4>2
      <4>4. QED BY <4>3 DEF Rest
    <3>2. QED BY <3>1, RangeOfOne
  <2>2. CASE k # N
    <3>1. k \in 1..Len(ps)
      BY <1>1, <2>2
    <3>2. IsRestAt(f, ps, o, k)
      BY <3>1, RestOfPackage
    <3>3. CASE Rest(f, o, k) = <<>>
      BY <3>3, RangeOfOne
    <3>4. ASSUME NEW d, NEW t, Rest(f, o, k) = <<[ps[k] EXCEPT !.description = d]>> \o t,
                 t = <<>> \/ \E j \in 1..Len(ps) : k <= j /\ t = Rest(f, o, j + 1)
          PROVE  \A p \in Range(Rest(f, o, k)) : IsOne(p)
      <4> DEFINE x == [ps[k] EXCEPT !.description = d]
      <4>1. IsOne(x)
        <5>1. IsPackage(ps[k])
          BY <3>1, WrittenIs
        <5>2. x.description = d
          BY <5>1 DEF IsPackage
        <5>3. x = [ps[k] EXCEPT !.description = x.description]
          BY <5>2
        <5> HIDE DEF x
        <5>4. QED BY <3>1, <5>3 DEF IsOne
      <4>2. \A p \in Range(t) : IsOne(p)
        <5>1. CASE t = <<>>
          BY <5>1, RangeOfOne
        <5>2. ASSUME NEW j \in 1..Len(ps), k <= j, t = Rest(f, o, j + 1)
              PROVE  \A p \in Range(t) : IsOne(p)
          <6>1. j + 1 \in (k + 1)..N
            BY <1>1, <3>1, <5>2
          <6>2. QED BY <1>2, <5>2, <6>1
        <5>3. QED BY <3>4, <5>1, <5>2
      <4>3. t \in Seq(Range(t))
        <5>1. CASE t = <<>>
          BY <5>1
        <5>2. ASSUME NEW j \in 1..Len(ps), t = Rest(f, o, j + 1)
              PROVE  t \in Seq(Range(t))
          <6>1. j + 1 \in 1..(Len(ps) + 1)
            BY <1>1
          <6>2. t \in Seq(Founds(f))
            BY <5>2, <6>1, RestIs
          <6>3. QED BY <6>2, RangeType
        <5>3. QED BY <3>4, <5>1, <5>2
      <4> HIDE DEF x
      <4>4. Range(<<x>> \o t) = {x} \cup Range(t)
        <5> DEFINE T == {x} \cup Range(t)
        <5>1. <<x>> \in Seq(T)
          OBVIOUS
        <5>2. t \in Seq(T)
          <6>1. Range(t) \subseteq T
            OBVIOUS
          <6> HIDE DEF T
          <6>2. QED BY <4>3, <6>1
        <5> HIDE DEF T
        <5>3. Range(<<x>> \o t) = Range(<<x>>) \cup Range(t)
          BY <5>1, <5>2, RangeOfConcat
        <5>4. QED BY <5>3, RangeOfOne
      <4>5. QED BY <3>4, <4>1, <4>2, <4>4 DEF x
    <3>5. QED BY <3>2, <3>3, <3>4 DEF IsRestAt
  <2>3. QED BY <2>1, <2>2
<1>3. 1..N \subseteq P
  <2>1. \A k \in 1..N : (k + 1)..N \subseteq P => k \in P
    BY <1>2
  <2> HIDE DEF P, N
  <2>2. QED BY <1>1, <2>1, Backwards
<1>4. ParsePackagesTxt(f) = Rest(f, o, 1)
  BY ParseIsRest
<1>5. QED BY <1>1, <1>3, <1>4 DEF IsOne

\* What is written of a package, save the newline after its description.
Written(p) == [p EXCEPT !.description.lines = DescText(p.description)]

Told(p, d) == [p EXCEPT !.description = d]

\* The list s has packages from k on, the last one with another description.
IsTail(s, ps, k) ==
  /\ Len(s) <= Len(ps) - k + 1
  /\ \A i \in 1..(Len(s) - 1) : s[i] = Written(ps[k - 1 + i])
  /\ Len(s) > 0 =>
       s[Len(s)] = Told(Written(ps[k - 1 + Len(s)]), s[Len(s)].description)

\* The list s has all packages from k on.
IsWholeTail(s, ps, k) ==
  /\ Len(s) = Len(ps) - k + 1
  /\ \A i \in 1..Len(s) : s[i] = Written(ps[k - 1 + i])

LEMMA WrittenExcept ==
  ASSUME NEW p, IsPackage(p)
  PROVE  /\ \A d : [p EXCEPT !.description = d]
                     = [Written(p) EXCEPT !.description = [p EXCEPT !.description = d].description]
         /\ p.description.ended =>
              [p EXCEPT !.description = [lines |-> DescText(p.description), ended |-> TRUE]]
                = Written(p)
         /\ Written(p) = [Written(p) EXCEPT !.description = Written(p).description]
<1>1. p = [file |-> p.file, mirror |-> p.mirror, priority |-> p.priority,
          location |-> p.location, sizes |-> p.sizes, required |-> p.required,
          conflicts |-> p.conflicts, suggests |-> p.suggests, md5 |-> p.md5,
          description |-> p.description]
  BY DEF IsPackage
<1>2. /\ p.description = [lines |-> p.description.lines, ended |-> p.description.ended]
      /\ p.description.ended \in BOOLEAN
  BY DEF IsPackage, IsDescription
<1>3. PICK e, t : e = p.description /\ t = DescText(p.description)
  OBVIOUS
<1>4. Written(p) = [p EXCEPT !.description = [e EXCEPT !.lines = t]]
  BY <1>3 DEF Written
<1>5. e = [lines |-> e.lines, ended |-> e.ended] /\ e.ended \in BOOLEAN
  BY <1>2, <1>3
<1>6. [e EXCEPT !.lines = t] = [lines |-> t, ended |-> e.ended]
  BY <1>5
<1>7. Written(p) = [p EXCEPT !.description = [lines |-> t, ended |-> e.ended]]
  BY <1>4, <1>6
<1>8. \A c, d : /\ [p EXCEPT !.description = c].description = c
                /\ [[p EXCEPT !.description = c] EXCEPT !.description = d]
                     = [p EXCEPT !.description = d]
  BY <1>1
<1>9. \A d : [p EXCEPT !.description = d]
               = [Written(p) EXCEPT !.description = [p EXCEPT !.description = d].description]
  BY <1>7, <1>8
<1>10. Written(p) = [Written(p) EXCEPT !.description = Written(p).description]
  BY <1>7, <1>8
<1>11. ASSUME p.description.ended
       PROVE  [p EXCEPT !.description = [lines |-> DescText(p.description), ended |-> TRUE]]
                = Written(p)
  <2>1. e.ended = TRUE
    BY <1>3, <1>5, <1>11
  <2>2. QED BY <1>3, <1>7, <2>1
<1>12. QED BY <1>9, <1>10, <1>11

LEMMA TailGrows ==
  ASSUME NEW ps, Len(ps) \in Nat, NEW k \in 1..Len(ps), IsPackage(ps[k]),
         NEW T, NEW s \in Seq(T)
  PROVE  LET v == <<Written(ps[k])>> \o s
         IN  /\ IsTail(s, ps, k + 1) => IsTail(v, ps, k)
             /\ IsWholeTail(s, ps, k + 1) => IsWholeTail(v, ps, k)
<1> DEFINE x == Written(ps[k])
           v == <<x>> \o s
           m == Len(s)
<1>1. m \in Nat
  OBVIOUS
<1>2. /\ v \in Seq(T \cup {x}) /\ Len(v) = m + 1
      /\ v[1] = x /\ \A i \in 1..m : v[1 + i] = s[i]
  <2> DEFINE U == T \cup {x}
  <2>1. <<x>> \in Seq(U) /\ s \in Seq(U) /\ Len(<<x>>) = 1 /\ <<x>>[1] = x
    <3>1. T \subseteq U /\ x \in U
      OBVIOUS
    <3> HIDE DEF U, x
    <3>2. QED BY <3>1
  <2> HIDE DEF U
  <2>2. /\ v \in Seq(U) /\ Len(v) = 1 + m
        /\ \A i \in 1..1 : v[i] = <<x>>[i]
        /\ \A i \in 1..m : v[1 + i] = s[i]
    <3> HIDE DEF x
    <3>1. QED BY <2>1, JoinIs
  <2>3. QED BY <1>1, <2>1, <2>2 DEF U
<1>3. x = Told(x, x.description)
  BY WrittenExcept DEF Told
<1>4. x = Written(ps[k - 1 + 1]) /\ k - 1 + 1 = k
  <2>1. k - 1 + 1 = k
    OBVIOUS
  <2>2. QED BY <2>1
<1> HIDE DEF x, v, m
<1>5. ASSUME NEW i \in 1..(m + 1), i # 1
      PROVE  /\ i - 1 \in 1..m /\ v[i] = s[i - 1] /\ k - 1 + i = k + 1 - 1 + (i - 1)
  <2>1. PICK j : j = i - 1
    OBVIOUS
  <2>2. j \in 1..m /\ i = 1 + j
    BY <1>1, <1>5, <2>1
  <2>3. v[1 + j] = s[j]
    BY <1>2, <2>2
  <2>4. k - 1 + i = k + 1 - 1 + (i - 1)
    BY <1>1
  <2>5. QED BY <2>1, <2>2, <2>3, <2>4
<1>6. ASSUME NEW i \in 1..(m + 1), i # 1, s[i - 1] = Written(ps[k + 1 - 1 + (i - 1)])
      PROVE  v[i] = Written(ps[k - 1 + i])
  BY <1>5, <1>6
<1>7. ASSUME IsTail(s, ps, k + 1)
      PROVE  IsTail(v, ps, k)
  <2>1. /\ m <= Len(ps) - (k + 1) + 1
        /\ \A i \in 1..(m - 1) : s[i] = Written(ps[k + 1 - 1 + i])
        /\ m > 0 => s[m] = Told(Written(ps[k + 1 - 1 + m]), s[m].description)
    BY <1>7 DEF IsTail, m
  <2>2. Len(v) <= Len(ps) - k + 1
    <3>1. Len(v) = m + 1
      BY <1>2
    <3>2. QED BY <1>1, <2>1, <3>1
  <2>3. ASSUME NEW i \in 1..(Len(v) - 1)
        PROVE  v[i] = Written(ps[k - 1 + i])
    <3>1. i \in 1..m /\ i \in 1..(m + 1)
      BY <1>1, <1>2
    <3>2. CASE i = 1
      BY <1>2, <1>4, <3>2
    <3>3. CASE i # 1
      <4>1. i - 1 \in 1..(m - 1)
        BY <1>1, <3>1, <3>3
      <4>2. s[i - 1] = Written(ps[k + 1 - 1 + (i - 1)])
        BY <2>1, <4>1
      <4>3. QED BY <1>6, <3>1, <3>3, <4>2
    <3>4. QED BY <3>2, <3>3
  <2>4. v[Len(v)] = Told(Written(ps[k - 1 + Len(v)]), v[Len(v)].description)
    <3>1. PICK i : i = m + 1
      OBVIOUS
    <3>2. i \in 1..(m + 1) /\ Len(v) = i
      BY <1>1, <1>2, <3>1
    <3>3. CASE i = 1
      BY <1>2, <1>3, <1>4, <3>2, <3>3
    <3>4. CASE i # 1
      <4>1. v[i] = s[i - 1] /\ k - 1 + i = k + 1 - 1 + (i - 1)
        BY <1>5, <3>2, <3>4
      <4>2. i - 1 = m /\ m > 0
        BY <1>1, <3>1, <3>4
      <4>3. k - 1 + i = k + 1 - 1 + m /\ v[i] = s[m]
        BY <4>1, <4>2
      <4>4. s[m] = Told(Written(ps[k - 1 + i]), s[m].description)
        BY <2>1, <4>2, <4>3
      <4>5. QED BY <3>2, <4>3, <4>4
    <3>5. QED BY <3>3, <3>4
  <2>5. QED BY <2>2, <2>3, <2>4 DEF IsTail
<1>8. ASSUME IsWholeTail(s, ps, k + 1)
      PROVE  IsWholeTail(v, ps, k)
  <2>1. /\ m = Len(ps) - (k + 1) + 1
        /\ \A i \in 1..m : s[i] = Written(ps[k + 1 - 1 + i])
    BY <1>8 DEF IsWholeTail, m
  <2>2. Len(v) = Len(ps) - k + 1
    <3>1. Len(v) = m + 1
      BY <1>2
    <3>2. QED BY <1>1, <2>1, <3>1
  <2>3. ASSUME NEW i \in 1..Len(v)
        PROVE  v[i] = Written(ps[k - 1 + i])
    <3>1. i \in 1..(m + 1)
      BY <1>1, <1>2
    <3>2. CASE i = 1
      BY <1>2, <1>4, <3>2
    <3>3. CASE i # 1
      <4>1. i - 1 \in 1..m
        BY <1>5, <3>1, <3>3
      <4>2. s[i - 1] = Written(ps[k + 1 - 1 + (i - 1)])
        BY <2>1, <4>1
      <4>3. QED BY <1>6, <3>1, <3>3, <4>2
    <3>4. QED BY <3>2, <3>3
  <2>4. QED BY <2>2, <2>3 DEF IsWholeTail
<1>9. QED BY <1>7, <1>8 DEF v, x

\* A newline ends each package.
AllEnded(ps) == \A k \in 1..Len(ps) : ps[k].description.ended

LEMMA TailsAreRead ==
  ASSUME NEW ps, NEW L, NEW o, IsWritten(ps, L, o), NEW f, IsPart(f, L), AllEnded(ps)
  PROVE  \A k \in 1..(Len(ps) + 1) :
           /\ IsTail(Rest(f, o, k), ps, k)
           /\ Len(f.lines) = o[Len(ps)] => IsWholeTail(Rest(f, o, k), ps, k)
<1> DEFINE N == Len(ps) + 1
           P == {k \in 1..N :
                   /\ IsTail(Rest(f, o, k), ps, k)
                   /\ Len(f.lines) = o[Len(ps)] => IsWholeTail(Rest(f, o, k), ps, k)}
<1>1. Len(ps) \in Nat /\ N \in Nat
  BY WrittenIs
<1>2. Len(f.lines) \in Nat /\ o[Len(ps)] \in Nat /\ Len(f.lines) <= o[Len(ps)]
  BY PartIs
<1>3. ASSUME NEW k \in 1..N PROVE IsTail(<<>>, ps, k)
  <2>1. Len(<<>>) = 0 /\ 1..(Len(<<>>) - 1) = {}
    OBVIOUS
  <2>2. 0 <= Len(ps) - k + 1
    BY <1>1
  <2>3. QED BY <2>1, <2>2 DEF IsTail
<1>4. ASSUME NEW k \in 1..N, (k + 1)..N \subseteq P
      PROVE  k \in P
  <2>1. CASE k = N
    <3>1. Begin(o, k) = o[Len(ps)] + 1
      BY <1>1, <2>1 DEF Begin
    <3>2. ~(Begin(o, k) <= Len(f.lines))
      BY <1>2, <3>1
    <3>3. Rest(f, o, k) = <<>>
      BY <3>2 DEF Rest
    <3>4. IsWholeTail(<<>>, ps, k)
      <4>1. Len(<<>>) = 0 /\ 1..Len(<<>>) = {}
        OBVIOUS
      <4>2. 0 = Len(ps) - k + 1
        BY <1>1, <2>1
      <4>3. QED BY <4>1, <4>2 DEF IsWholeTail
    <3>5. QED BY <1>3, <3>3, <3>4
  <2>2. CASE k # N
    <3>1. k \in 1..Len(ps) /\ k + 1 \in (k + 1)..N /\ k + 1 \in 1..(Len(ps) + 1)
      BY <1>1, <2>2
    <3>2. IsPackage(ps[k]) /\ o[k] \in Nat
      BY <3>1, WrittenIs
    <3>3. IsRestAt(f, ps, o, k)
      BY <3>1, RestOfPackage
    <3>4. o[k] <= o[Len(ps)]
      <4>1. \A i, j \in 0..Len(ps) : i <= j => o[i] <= o[j]
        BY WrittenIs
      <4>2. k \in 0..Len(ps) /\ Len(ps) \in 0..Len(ps) /\ k <= Len(ps)
        BY <1>1, <3>1
      <4>3. QED BY <4>1, <4>2
    <3>5. CASE Len(f.lines) < o[k]
      <4>1. Len(f.lines) # o[Len(ps)]
        BY <1>2, <3>2, <3>4, <3>5
      <4>2. CASE Rest(f, o, k) = <<>>
        BY <1>3, <4>1, <4>2
      <4>3. CASE \E d : Rest(f, o, k) = <<[ps[k] EXCEPT !.description = d]>> \o <<>>
        <5>1. PICK d : Rest(f, o, k) = <<[ps[k] EXCEPT !.description = d]>> \o <<>>
          BY <4>3
        <5> DEFINE x == [ps[k] EXCEPT !.description = d]
        <5>2. x = Told(Written(ps[k]), x.description)
          BY <3>2, WrittenExcept DEF Told
        <5> HIDE DEF x
        <5>3. Rest(f, o, k) = <<x>>
          <6>1. <<x>> \o <<>> = <<x>>
            OBVIOUS
          <6>2. QED BY <5>1, <6>1 DEF x
        <5>4. IsTail(<<x>>, ps, k)
          <6>1. Len(<<x>>) = 1 /\ 1..(Len(<<x>>) - 1) = {} /\ <<x>>[1] = x
            OBVIOUS
          <6>2. 1 <= Len(ps) - k + 1 /\ k - 1 + 1 = k
            BY <1>1, <3>1
          <6>3. QED BY <5>2, <6>1, <6>2 DEF IsTail
        <5>5. QED BY <4>1, <5>3, <5>4
      <4>4. QED BY <3>3, <3>5, <4>2, <4>3 DEF IsRestAt
    <3>6. CASE ~(Len(f.lines) < o[k])
      <4>1. IsThere(f, ps, o, k)
        <5>1. o[k] <= Len(f.lines)
          BY <1>2, <3>2, <3>6
        <5>2. QED BY <3>1, <5>1 DEF IsThere, AllEnded
      <4>2. Rest(f, o, k) =
              <<[ps[k] EXCEPT !.description =
                   [lines |-> DescText(ps[k].description), ended |-> TRUE]]>>
              \o Rest(f, o, k + 1)
        BY <3>3, <3>6, <4>1 DEF IsRestAt
      <4>3. [ps[k] EXCEPT !.description = [lines |-> DescText(ps[k].description), ended |-> TRUE]]
              = Written(ps[k])
        <5>1. ps[k].description.ended
          BY <4>1 DEF IsThere
        <5>2. QED BY <3>2, <5>1, WrittenExcept
      <4>4. Rest(f, o, k) = <<Written(ps[k])>> \o Rest(f, o, k + 1)
        BY <4>2, <4>3
      <4>5. Rest(f, o, k + 1) \in Seq(Founds(f))
        BY <3>1, RestIs
      <4>6. /\ IsTail(Rest(f, o, k + 1), ps, k + 1)
            /\ Len(f.lines) = o[Len(ps)] => IsWholeTail(Rest(f, o, k + 1), ps, k + 1)
        BY <1>4, <3>1
      <4>7. /\ IsTail(Rest(f, o, k), ps, k)
            /\ Len(f.lines) = o[Len(ps)] => IsWholeTail(Rest(f, o, k), ps, k)
        BY <1>1, <3>1, <3>2, <4>4, <4>5, <4>6, TailGrows
      <4>8. QED BY <4>7
    <3>7. QED BY <3>5, <3>6
  <2>3. QED BY <2>1, <2>2
<1>5. 1..N \subseteq P
  <2>1. \A k \in 1..N : (k + 1)..N \subseteq P => k \in P
    BY <1>4
  <2> HIDE DEF P, N
  <2>2. QED BY <1>1, <2>1, Backwards
<1>6. QED BY <1>5

-----------------------------------------------------------------------------
(* The checksums.                                                          *)

EnterOp(a, b, c, d, e, acc, x) == Enter(acc, x)
EnterFold == INSTANCE FoldProofs WITH Op <- EnterOp

LEMMA GetMd5sumsIsFold ==
  \A list, sums : GetMd5sums(list, sums) = EnterFold!Result(0, 0, 0, 0, 0, list, sums)
BY DEF GetMd5sums, EnterFold!Result, EnterOp, FoldLeft, MapThenFoldSet,
       EnterFold!FoldLeft, EnterFold!MapThenFoldSet, Max, EnterFold!Max

Summed(p, c) == [p EXCEPT !.md5 = c]

\* Package i is the first one that entry e matches.
Enters(list, e, i) == Matches(e, list[i]) /\ \A j \in 1..(i - 1) : ~Matches(e, list[j])

\* The checksums that package i may get from the entries S.
SumsOf(list, S, i) ==
  IF \A e \in S : ~Enters(list, e, i) THEN {list[i].md5}
  ELSE {e.sum : e \in {x \in S : Enters(list, x, i)}}

LEMMA SummedIs ==
  ASSUME NEW p, IsPackage(p)
  PROVE  /\ p = Summed(p, p.md5)
         /\ \A c : /\ Summed(p, c).file = p.file /\ Summed(p, c).location = p.location
                   /\ Summed(p, c).md5 = c
                   /\ \A d : Summed(Summed(p, c), d) = Summed(p, d)
BY DEF IsPackage, Summed

LEMMA EntersOne ==
  ASSUME NEW list, NEW e, NEW i \in Nat, NEW j \in Nat, i > 0, j > 0,
         Enters(list, e, i), Enters(list, e, j)
  PROVE  i = j
<1>1. ~(i < j)
  <2> SUFFICES ASSUME i < j PROVE FALSE
    OBVIOUS
  <2>1. i \in 1..(j - 1)
    OBVIOUS
  <2>2. QED BY <2>1 DEF Enters
<1>2. ~(j < i)
  <2> SUFFICES ASSUME j < i PROVE FALSE
    OBVIOUS
  <2>1. j \in 1..(i - 1)
    OBVIOUS
  <2>2. QED BY <2>1 DEF Enters
<1>3. QED BY <1>1, <1>2

\* As far as the entries S have gone, l is the list.
IsSummed(l, list, S) ==
  /\ DOMAIN l = DOMAIN list
  /\ \A i \in DOMAIN list : \E c \in SumsOf(list, S, i) : l[i] = Summed(list[i], c)

IsList(v, n) == v = [i \in 1..n |-> v[i]]

LEMMA EnterSums ==
  ASSUME NEW list, NEW n \in Nat, DOMAIN list = 1..n, \A i \in 1..n : IsPackage(list[i]),
         NEW S, NEW e, NEW l, IsSummed(l, list, S)
  PROVE  /\ IsSummed(Enter(l, e), list, S \cup {e})
         /\ IsList(Enter(l, e), n) \/ Enter(l, e) = l
<1> DEFINE M == {i \in DOMAIN l : Matches(e, l[i])}
           v == Enter(l, e)
<1>1. DOMAIN l = 1..n
  BY DEF IsSummed
<1>2. ASSUME NEW i \in 1..n
      PROVE  Matches(e, l[i]) <=> Matches(e, list[i])
  <2>1. PICK c : l[i] = Summed(list[i], c)
    BY DEF IsSummed
  <2>2. l[i].file = list[i].file /\ l[i].location = list[i].location
    BY <2>1, SummedIs
  <2>3. QED BY <2>2 DEF Matches
<1>3. M = {i \in 1..n : Matches(e, list[i])}
  BY <1>1, <1>2
<1>4. v = IF M = {} THEN l ELSE [l EXCEPT ![Min(M)].md5 = e.sum]
  BY DEF Enter
<1> HIDE DEF M, v
<1>5. CASE M = {}
  <2>1. ASSUME NEW i \in 1..n PROVE ~Enters(list, e, i)
    BY <1>3, <1>5 DEF Enters
  <2>2. ASSUME NEW i \in 1..n PROVE SumsOf(list, S \cup {e}, i) = SumsOf(list, S, i)
    BY <2>1 DEF SumsOf
  <2>3. v = l
    BY <1>4, <1>5
  <2>4. IsSummed(l, list, S \cup {e})
    BY <2>2 DEF IsSummed
  <2>5. QED BY <2>3, <2>4 DEF v
<1>6. CASE M # {}
  <2> DEFINE m == Min(M)
  <2>1. m \in M /\ \A i \in M : m <= i
    <3>1. M \subseteq Nat
      BY <1>3
    <3>2. QED BY <1>6, <3>1, MinIs
  <2>2. v = [i \in 1..n |-> IF i = m THEN Summed(l[i], e.sum) ELSE l[i]]
    BY <1>1, <1>4, <1>6 DEF Summed
  <2> HIDE DEF m
  <2>3. m \in 1..n /\ Matches(e, list[m])
    BY <1>3, <2>1
  <2>4. ASSUME NEW j \in 1..(m - 1) PROVE ~Matches(e, list[j])
    <3>1. j \in 1..n /\ ~(m <= j)
      BY <2>3
    <3>2. QED BY <1>3, <2>1, <3>1
  <2>5. Enters(list, e, m)
    BY <2>3, <2>4 DEF Enters
  <2>6. ASSUME NEW i \in 1..n, i # m PROVE ~Enters(list, e, i)
    BY <2>3, <2>5, <2>6, EntersOne
  <2>7. ASSUME NEW i \in 1..n
        PROVE  \E c \in SumsOf(list, S \cup {e}, i) : v[i] = Summed(list[i], c)
    <3>1. CASE i = m
      <4>1. e.sum \in SumsOf(list, S \cup {e}, i)
        BY <2>5, <3>1 DEF SumsOf
      <4>2. PICK c : l[i] = Summed(list[i], c)
        BY DEF IsSummed
      <4>3. v[i] = Summed(list[i], e.sum)
        BY <2>2, <3>1, <4>2, SummedIs
      <4>4. QED BY <4>1, <4>3
    <3>2. CASE i # m
      <4>1. SumsOf(list, S \cup {e}, i) = SumsOf(list, S, i)
        BY <2>6, <3>2 DEF SumsOf
      <4>2. v[i] = l[i]
        BY <2>2, <3>2
      <4>3. QED BY <4>1, <4>2 DEF IsSummed
    <3>3. QED BY <3>1, <3>2
  <2>8. DOMAIN v = 1..n /\ v = [i \in 1..n |-> v[i]]
    BY <2>2
  <2>9. QED BY <2>7, <2>8 DEF IsSummed, IsList, v
<1>7. QED BY <1>5, <1>6

LEMMA SumsAre ==
  ASSUME NEW list, NEW n \in Nat, DOMAIN list = 1..n, \A i \in 1..n : IsPackage(list[i]),
         IsList(list, n),
         NEW sums, sums \in Seq(Range(sums))
  PROVE  LET l == GetMd5sums(list, sums)
         IN  IsList(l, n) /\ IsSummed(l, list, Range(sums))
<1> DEFINE C == {list[i].md5 : i \in 1..n} \cup {e.sum : e \in Range(sums)}
           T == {Summed(list[i], c) : i \in 1..n, c \in C}
           J(j) == {sums[x] : x \in 1..j}
           I == [j \in 0..Len(sums) |-> {l \in [1..n -> T] : IsSummed(l, list, J(j))}]
<1>1. Len(sums) \in Nat /\ DOMAIN sums = 1..Len(sums) /\ \A j \in 1..Len(sums) : sums[j] \in Range(sums)
  BY RangeType
<1>2. ASSUME NEW j \in 0..Len(sums), NEW l, IsList(l, n), IsSummed(l, list, J(j))
      PROVE  l \in [1..n -> T]
  <2>1. ASSUME NEW i \in 1..n PROVE l[i] \in T
    <3>1. PICK c \in SumsOf(list, J(j), i) : l[i] = Summed(list[i], c)
      BY <1>2 DEF IsSummed
    <3>2. \A e \in J(j) : e \in Range(sums)
      BY <1>1
    <3> HIDE DEF J
    <3>3. c \in C
      BY <3>1, <3>2 DEF SumsOf
    <3> HIDE DEF C
    <3>4. QED BY <3>1, <3>3
  <2> HIDE DEF T
  <2>2. QED BY <1>2, <2>1 DEF IsList
<1>3. list \in I[0]
  <2>1. J(0) = {} /\ 0 \in 0..Len(sums)
    BY <1>1
  <2>2. IsSummed(list, list, {})
    <3>1. ASSUME NEW i \in 1..n PROVE list[i].md5 \in SumsOf(list, {}, i) /\ list[i] = Summed(list[i], list[i].md5)
      BY SummedIs DEF SumsOf
    <3>2. QED BY <3>1 DEF IsSummed
  <2>3. IsSummed(list, list, J(0))
    BY <2>1, <2>2
  <2> HIDE DEF J, T
  <2>4. list \in [1..n -> T]
    BY <1>2, <2>1, <2>3
  <2>5. QED BY <2>1, <2>3, <2>4
<1>4. ASSUME NEW j \in 1..Len(sums), NEW l \in I[j - 1]
      PROVE  EnterOp(0, 0, 0, 0, 0, l, sums[j]) \in I[j]
  <2>1. j - 1 \in 0..Len(sums) /\ j \in 0..Len(sums)
    BY <1>1
  <2>2. J(j) = J(j - 1) \cup {sums[j]}
    <3>1. \A x : x \in 1..j <=> (x \in 1..(j - 1) \/ x = j)
      BY <1>1
    <3>2. QED BY <3>1
  <2> HIDE DEF J, T
  <2>3. l \in [1..n -> T] /\ IsSummed(l, list, J(j - 1))
    BY <2>1
  <2> DEFINE v == Enter(l, sums[j])
  <2>4. IsSummed(v, list, J(j)) /\ (IsList(v, n) \/ v = l)
    <3> DEFINE S == J(j - 1)
               e == sums[j]
    <3>1. IsSummed(l, list, S)
      BY <2>3
    <3> HIDE DEF S, e
    <3>2. /\ IsSummed(Enter(l, e), list, S \cup {e})
          /\ IsList(Enter(l, e), n) \/ Enter(l, e) = l
      BY <3>1, EnterSums
    <3>3. J(j) = S \cup {e} /\ Enter(l, e) = v
      BY <2>2 DEF S, e
    <3> HIDE DEF v
    <3>4. QED BY <3>2, <3>3
  <2>5. IsList(v, n)
    BY <2>3, <2>4 DEF IsList
  <2> HIDE DEF v
  <2>6. v \in [1..n -> T]
    BY <1>2, <2>1, <2>4, <2>5
  <2>7. QED BY <2>1, <2>4, <2>6 DEF EnterOp, v
<1>5. J(Len(sums)) = Range(sums)
  BY <1>1 DEF Range
<1>6. I[Len(sums)] = {l \in [1..n -> T] : IsSummed(l, list, Range(sums))}
  <2> HIDE DEF T, J
  <2>1. Len(sums) \in 0..Len(sums)
    BY <1>1
  <2>2. QED BY <1>5, <2>1
<1> HIDE DEF I, T
<1>7. EnterFold!Result(0, 0, 0, 0, 0, list, sums) \in I[Len(sums)]
  BY <1>3, <1>4, EnterFold!FoldSteps
<1>8. QED BY <1>6, <1>7, GetMd5sumsIsFold DEF IsList

\* What a source has.
IsSource(s) ==
  /\ IsFile(s.list) /\ Value(s.url) /\ Value(s.priority)
  /\ s.sums \in Seq(Range(s.sums)) /\ \A e \in Range(s.sums) : IsEntry(e)

LEMMA ParsedIs ==
  ASSUME NEW f, IsFile(f)
  PROVE  LET list == ParsePackagesTxt(f)
         IN  /\ Len(list) \in Nat /\ DOMAIN list = 1..Len(list)
             /\ IsList(list, Len(list))
             /\ \A i \in 1..Len(list) : IsPackage(list[i])
<1> DEFINE list == ParsePackagesTxt(f)
<1>1. HasLines(f)
  BY DEF IsFile, HasLines
<1>2. list \in Seq(Founds(f))
  BY <1>1, ParseIsFound
<1> HIDE DEF list
<1>3. /\ Len(list) \in Nat /\ DOMAIN list = 1..Len(list)
      /\ list = [i \in 1..Len(list) |-> list[i]]
      /\ \A i \in 1..Len(list) : list[i] \in Founds(f)
  BY <1>2
<1>4. \A p \in Founds(f) : IsPackage(p)
  BY FoundIsPackage DEF Founds
<1>5. QED BY <1>3, <1>4 DEF IsList, list

LEMMA SumsAreValues ==
  ASSUME NEW list, NEW i, IsPackage(list[i]), NEW S, \A e \in S : IsEntry(e),
         NEW c \in SumsOf(list, S, i)
  PROVE  Value(c)
<1>1. \A e \in S : Value(e.sum)
  BY DEF IsEntry
<1>2. Value(list[i].md5)
  BY DEF IsPackage
<1>3. c = list[i].md5 \/ \E e \in S : c = e.sum
  BY DEF SumsOf
<1>4. QED BY <1>1, <1>2, <1>3

Tagged(p, m, r) == [p EXCEPT !.mirror = m, !.priority = r]

LEMMA CollectedPackage ==
  ASSUME NEW p, IsPackage(p), NEW c, Value(c), NEW m, Value(m), NEW r, Value(r)
  PROVE  IsPackage(Tagged(Summed(p, c), m, r)) /\ Tagged(Summed(p, c), m, r).md5 = c
<1> DEFINE q == [file |-> p.file, mirror |-> m, priority |-> r,
                 location |-> p.location, sizes |-> p.sizes, required |-> p.required,
                 conflicts |-> p.conflicts, suggests |-> p.suggests, md5 |-> c,
                 description |-> p.description]
<1>1. p = [file |-> p.file, mirror |-> p.mirror, priority |-> p.priority,
          location |-> p.location, sizes |-> p.sizes, required |-> p.required,
          conflicts |-> p.conflicts, suggests |-> p.suggests, md5 |-> p.md5,
          description |-> p.description]
  BY DEF IsPackage
<1>2. Summed(p, c) =
        [file |-> p.file, mirror |-> p.mirror, priority |-> p.priority,
          location |-> p.location, sizes |-> p.sizes, required |-> p.required,
          conflicts |-> p.conflicts, suggests |-> p.suggests, md5 |-> c,
          description |-> p.description]
  BY <1>1 DEF Summed
<1>3. Tagged(Summed(p, c), m, r) = q
  <2>1. PICK x : x = [Summed(p, c) EXCEPT !.mirror = m]
    OBVIOUS
  <2>2. x = [file |-> p.file, mirror |-> m, priority |-> p.priority,
             location |-> p.location, sizes |-> p.sizes, required |-> p.required,
             conflicts |-> p.conflicts, suggests |-> p.suggests, md5 |-> c,
             description |-> p.description]
    BY <1>2, <2>1
  <2>3. [x EXCEPT !.priority = r] = q
    BY <2>2
  <2>4. Tagged(Summed(p, c), m, r) = [x EXCEPT !.priority = r]
    BY <2>1 DEF Tagged
  <2> HIDE DEF q
  <2>5. QED BY <2>3, <2>4
<1>4. /\ q = [file |-> q.file, mirror |-> q.mirror, priority |-> q.priority,
          location |-> q.location, sizes |-> q.sizes, required |-> q.required,
          conflicts |-> q.conflicts, suggests |-> q.suggests, md5 |-> q.md5,
          description |-> q.description]
      /\ q.file = p.file /\ q.mirror = m /\ q.priority = r /\ q.location = p.location
      /\ q.sizes = p.sizes /\ q.required = p.required /\ q.conflicts = p.conflicts
      /\ q.suggests = p.suggests /\ q.md5 = c /\ q.description = p.description
  OBVIOUS
<1> HIDE DEF q
<1>5. IsPackage(q)
  BY <1>4 DEF IsPackage
<1>6. QED BY <1>3, <1>4, <1>5

LEMMA CollectedIs ==
  ASSUME NEW s, IsSource(s)
  PROVE  LET list == ParsePackagesTxt(s.list)
             v == Collected(s)
         IN  /\ IsList(v, Len(list))
             /\ \A i \in 1..Len(list) :
                  IsPackage(v[i]) /\ v[i].md5 \in SumsOf(list, Range(s.sums), i)
<1> DEFINE list == ParsePackagesTxt(s.list)
           n == Len(list)
           l == GetMd5sums(list, s.sums)
           v == Collected(s)
<1>1. /\ n \in Nat /\ DOMAIN list = 1..n /\ IsList(list, n)
      /\ \A i \in 1..n : IsPackage(list[i])
  BY ParsedIs DEF IsSource
<1>2. s.sums \in Seq(Range(s.sums))
  BY DEF IsSource
<1>3. IsList(l, n) /\ IsSummed(l, list, Range(s.sums))
  <2> HIDE DEF list, n
  <2>1. QED BY <1>1, <1>2, SumsAre
<1>4. v = [i \in DOMAIN l |->
             [l[i] EXCEPT !.mirror = IF @ = NULL THEN s.url ELSE @, !.priority = s.priority]]
  BY DEF Collected
<1> HIDE DEF list, n, l, v
<1>5. DOMAIN l = 1..n
  BY <1>1, <1>3 DEF IsSummed
<1>6. ASSUME NEW i \in 1..n
      PROVE  IsPackage(v[i]) /\ v[i].md5 \in SumsOf(list, Range(s.sums), i)
  <2>1. PICK c \in SumsOf(list, Range(s.sums), i) : l[i] = Summed(list[i], c)
    BY <1>1, <1>3 DEF IsSummed
  <2>2. Value(c)
    <3>1. \A e \in Range(s.sums) : IsEntry(e)
      BY DEF IsSource
    <3>2. QED BY <1>1, <3>1, SumsAreValues
  <2>3. PICK m : m = IF list[i].mirror = NULL THEN s.url ELSE list[i].mirror
    OBVIOUS
  <2>4. Value(m) /\ Value(s.priority) /\ IsPackage(list[i])
    BY <1>1, <2>3 DEF IsPackage, IsSource
  <2>5. l[i].mirror = list[i].mirror
    BY <2>1, <2>4 DEF IsPackage, Summed
  <2>6. v[i] = [l[i] EXCEPT !.mirror = IF @ = NULL THEN s.url ELSE @, !.priority = s.priority]
    BY <1>4, <1>5
  <2>7. v[i] = Tagged(Summed(list[i], c), m, s.priority)
    BY <2>1, <2>3, <2>5, <2>6 DEF Tagged
  <2>8. IsPackage(v[i]) /\ v[i].md5 = c
    <3> DEFINE q == Tagged(Summed(list[i], c), m, s.priority)
    <3>1. IsPackage(q) /\ q.md5 = c
      BY <2>2, <2>4, CollectedPackage
    <3> HIDE DEF q
    <3>2. v[i] = q
      BY <2>7 DEF q
    <3>3. QED BY <3>1, <3>2
  <2>9. QED BY <2>8
<1>7. IsList(v, n)
  BY <1>4, <1>5 DEF IsList
<1>8. QED BY <1>6, <1>7 DEF v, n, list

\* Where files that look alike are the same, the first of them gets its own
\* entries, and only these.
LEMMA SumsAreOwn ==
  ASSUME NEW list, NEW n \in Nat, DOMAIN list = 1..n, NEW S,
         \A x, y \in Range(list) \cup S : LookAlike(x, y) => x.file = y.file,
         NEW i \in 1..n
  PROVE  LET own == {e \in S : e.file = list[i].file /\ e.location = list[i].location}
             first == \A j \in 1..(i - 1) : ~LookAlike(list[j], list[i])
         IN  SumsOf(list, S, i) =
               IF own = {} \/ ~first THEN {list[i].md5} ELSE {e.sum : e \in own}
<1> DEFINE own == {e \in S : e.file = list[i].file /\ e.location = list[i].location}
           first == \A j \in 1..(i - 1) : ~LookAlike(list[j], list[i])
<1>1. \A j \in 1..n : list[j] \in Range(list)
  BY DEF Range
<1>2. ASSUME NEW e \in S
      PROVE  Matches(e, list[i]) <=> e \in own
  <2>1. ASSUME Matches(e, list[i]) PROVE e \in own
    <3>1. LookAlike(list[i], e) /\ list[i].location = e.location
      BY <2>1 DEF Matches, LookAlike
    <3>2. list[i].file = e.file
      BY <1>1, <3>1
    <3>3. QED BY <3>1, <3>2
  <2>2. ASSUME e \in own PROVE Matches(e, list[i])
    BY <2>2 DEF Matches
  <2>3. QED BY <2>1, <2>2
<1>3. ASSUME NEW e \in own, NEW j
      PROVE  Matches(e, list[j]) <=> LookAlike(list[j], list[i])
  BY DEF Matches, LookAlike
<1>4. ASSUME first, NEW e \in S PROVE Enters(list, e, i) <=> e \in own
  BY <1>2, <1>3, <1>4 DEF Enters
<1>5. ASSUME ~first, NEW e \in S PROVE ~Enters(list, e, i)
  BY <1>2, <1>3, <1>5 DEF Enters
<1>6. \A e \in own : e \in S
  OBVIOUS
<1> HIDE DEF own, first
<1>7. CASE first
  <2>1. {x \in S : Enters(list, x, i)} = own
    BY <1>4, <1>6, <1>7
  <2>2. (\A e \in S : ~Enters(list, e, i)) <=> own = {}
    BY <2>1
  <2>3. QED BY <1>7, <2>1, <2>2 DEF SumsOf, own, first
<1>8. CASE ~first
  <2>1. SumsOf(list, S, i) = {list[i].md5}
    BY <1>5, <1>8 DEF SumsOf
  <2>2. QED BY <1>8, <2>1 DEF own, first
<1>9. QED BY <1>7, <1>8

-----------------------------------------------------------------------------
(* What is written, line by line.                                          *)

LEMMA MoveHead ==
  ASSUME NEW T, NEW s \in Seq(T), NEW t \in Seq(T), t # <<>>
  PROVE  /\ Append(s, Head(t)) \in Seq(T) /\ Tail(t) \in Seq(T)
         /\ Append(s, Head(t)) \o Tail(t) = s \o t
<1> DEFINE u == Append(s, Head(t))
           w == Tail(t)
           m == Len(s)
           n == Len(t)
<1>1. /\ m \in Nat /\ n \in Nat /\ n > 0 /\ DOMAIN s = 1..m /\ DOMAIN t = 1..n
      /\ Head(t) = t[1] /\ Head(t) \in T
  OBVIOUS
<1>2. /\ u \in Seq(T) /\ Len(u) = m + 1 /\ u[m + 1] = t[1]
      /\ \A x \in 1..m : u[x] = s[x]
  BY <1>1
<1>3. /\ w \in Seq(T) /\ Len(w) = n - 1 /\ \A x \in 1..(n - 1) : w[x] = t[x + 1]
  BY <1>1
<1> HIDE DEF u, w
<1>4. /\ u \o w \in Seq(T) /\ Len(u \o w) = m + 1 + (n - 1)
      /\ \A x \in 1..(m + 1) : (u \o w)[x] = u[x]
      /\ \A x \in 1..(n - 1) : (u \o w)[m + 1 + x] = w[x]
  <2>1. /\ u \o w \in Seq(T) /\ Len(u \o w) = Len(u) + Len(w)
        /\ \A x \in 1..Len(u) : (u \o w)[x] = u[x]
        /\ \A x \in 1..Len(w) : (u \o w)[Len(u) + x] = w[x]
    <3>1. u \in Seq(T) /\ w \in Seq(T)
      BY <1>2, <1>3
    <3>2. QED BY <3>1, JoinIs
  <2>2. QED BY <1>2, <1>3, <2>1
<1>5. /\ s \o t \in Seq(T) /\ Len(s \o t) = m + n
      /\ \A x \in 1..m : (s \o t)[x] = s[x]
      /\ \A x \in 1..n : (s \o t)[m + x] = t[x]
  BY JoinIs
<1> DEFINE v == u \o w
           z == s \o t
<1> HIDE DEF m, n, v, z
<1>6. Len(v) = m + n /\ Len(z) = m + n /\ m + n \in Nat /\ v \in Seq(T) /\ z \in Seq(T)
  BY <1>1, <1>4, <1>5 DEF v, z
<1>7. ASSUME NEW x \in 1..(m + n) PROVE v[x] = z[x]
  <2>1. CASE x <= m
    <3>1. x \in 1..m /\ x \in 1..(m + 1)
      BY <1>1, <2>1
    <3>2. QED BY <1>2, <1>4, <1>5, <3>1 DEF v, z
  <2>2. CASE x = m + 1
    <3>1. x \in 1..(m + 1) /\ 1 \in 1..n /\ x = m + 1
      BY <1>1, <2>2
    <3>2. v[x] = u[x] /\ u[x] = t[1]
      BY <1>2, <1>4, <3>1 DEF v
    <3>3. z[x] = t[1]
      BY <1>5, <3>1 DEF z
    <3>4. QED BY <3>2, <3>3
  <2>3. CASE x > m + 1
    <3>1. PICK y : y = x - (m + 1)
      OBVIOUS
    <3>2. y \in 1..(n - 1) /\ y + 1 \in 1..n /\ x = m + 1 + y /\ x = m + (y + 1)
      BY <1>1, <2>3, <3>1
    <3>3. v[x] = w[y] /\ w[y] = t[y + 1]
      BY <1>3, <1>4, <3>2 DEF v
    <3>4. z[x] = t[y + 1]
      BY <1>5, <3>2 DEF z
    <3>5. QED BY <3>3, <3>4
  <2>4. x \in Nat
    BY <1>1
  <2>5. QED BY <1>1, <2>1, <2>2, <2>3, <2>4
<1>8. v = z
  BY <1>6, <1>7
<1>9. QED BY <1>2, <1>3, <1>8 DEF u, w, v, z

LEMMA EmptyJoin ==
  ASSUME NEW T, NEW s \in Seq(T)
  PROVE  s \o <<>> = s /\ <<>> \o s = s
OBVIOUS

LEMMA FirstIsPart ==
  ASSUME NEW T, NEW s \in Seq(T), NEW t \in Seq(T), NEW f, f.lines = s, f.ended \in BOOLEAN
  PROVE  IsPart(f, s \o t)
<1>1. /\ s \o t \in Seq(T) /\ Len(s \o t) = Len(s) + Len(t)
      /\ \A x \in 1..Len(s) : (s \o t)[x] = s[x]
  BY JoinIs
<1>2. Len(s) \in Nat /\ Len(t) \in Nat /\ DOMAIN s = 1..Len(s) /\ s \in Seq(Range(s))
  BY RangeType
<1>3. Len(s) <= Len(s \o t)
  BY <1>1, <1>2
<1>4. QED BY <1>1, <1>2, <1>3 DEF IsPart, HasLines

LEMMA CutIsPart ==
  ASSUME NEW T, NEW s \in Seq(T), NEW t \in Seq(T), t # <<>>, Head(t) # Blank,
         NEW l \in Cuts(Head(t)), NEW f, f = [lines |-> Append(s, l), ended |-> FALSE]
  PROVE  IsPart(f, s \o t)
<1> DEFINE v == Append(s, l)
           L == s \o t
           m == Len(s)
           U == T \cup {l}
<1>1. /\ L \in Seq(T) /\ Len(L) = m + Len(t)
      /\ \A x \in 1..m : L[x] = s[x]
      /\ \A x \in 1..Len(t) : L[m + x] = t[x]
  BY JoinIs
<1>2. m \in Nat /\ Len(t) \in Nat /\ Len(t) > 0 /\ Head(t) = t[1]
  OBVIOUS
<1>3. v \in Seq(U) /\ Len(v) = m + 1 /\ v[m + 1] = l /\ \A x \in 1..m : v[x] = s[x]
  <2>1. T \subseteq U /\ l \in U
    OBVIOUS
  <2> HIDE DEF U
  <2>2. s \in Seq(U)
    BY <2>1
  <2>3. QED BY <2>1, <2>2
<1> HIDE DEF L, m, U, v
<1>4. f.lines = v /\ f.ended = FALSE
  BY DEF v
<1>5. v \in Seq(Range(v)) /\ DOMAIN v = 1..(m + 1)
  BY <1>3, RangeType
<1>6. Len(v) <= Len(L)
  BY <1>1, <1>2, <1>3
<1>7. ASSUME NEW x \in 1..(m + 1)
      PROVE  v[x] = L[x] \/ (x = Len(v) /\ L[x] # Blank /\ v[x] \in Cuts(L[x]))
  <2>1. CASE x \in 1..m
    BY <1>1, <1>3, <2>1
  <2>2. CASE x = m + 1
    <3>1. L[m + 1] = Head(t)
      BY <1>1, <1>2
    <3>2. QED BY <1>3, <2>2, <3>1
  <2>3. QED BY <1>2, <2>1, <2>2
<1>8. QED BY <1>4, <1>5, <1>6, <1>7 DEF IsPart, HasLines, L

LEMMA SortsIs ==
  ASSUME NEW list, list \in Seq(Range(list)), \A i \in DOMAIN list : IsPackage(list[i]),
         NEW v \in Sorts(list)
  PROVE  /\ v \in Seq(Range(v)) /\ DOMAIN v = DOMAIN list
         /\ \A i \in DOMAIN v : IsPackage(v[i])
<1>1. Len(list) \in Nat /\ DOMAIN list = 1..Len(list)
  OBVIOUS
<1>2. PICK b \in [DOMAIN list -> DOMAIN list] : v = [i \in DOMAIN list |-> list[b[i]]]
  BY DEF Sorts, Bijection, Injection, Surjection
<1>3. /\ DOMAIN v = 1..Len(list) /\ v = [i \in 1..Len(list) |-> v[i]]
      /\ \A i \in DOMAIN v : IsPackage(v[i])
  BY <1>1, <1>2
<1>4. \A i \in 1..Len(list) : v[i] \in Range(v)
  BY <1>3 DEF Range
<1>5. v \in [1..Len(list) -> Range(v)]
  BY <1>3, <1>4
<1>6. QED BY <1>1, <1>3, <1>5, FunctionIsSeq

-----------------------------------------------------------------------------
(* The invariant.                                                          *)

\* What is there of package_data is part of what is written for the packages.
IsWriting ==
  \E L, o :
    /\ IsWritten(pkgs, L, o) /\ IsPart(data, L)
    /\ pc = "write" => /\ L = data.lines \o todo /\ data.ended = TRUE
                       /\ todo \in Seq(Range(L)) /\ data.lines \in Seq(Range(L))
    /\ pc = "done" => data.lines = L

IInv ==
  /\ sources \in Sources /\ at \in 1..(Len(sources) + 1)
  /\ pc \in {"collect", "write", "done", "killed"}
  /\ pkgs \in Seq(Range(pkgs)) /\ \A i \in DOMAIN pkgs : IsPackage(pkgs[i])
  /\ pc = "collect" => data = Empty
  /\ pc # "collect" => IsWriting

LEMMA SourcesAre ==
  ASSUME NEW srcs \in Sources
  PROVE  /\ srcs \in Seq(Range(srcs)) /\ Len(srcs) \in Nat /\ DOMAIN srcs = 1..Len(srcs)
         /\ \A s \in Range(srcs) : IsSource(s)
         /\ \A i \in DOMAIN srcs : srcs[i] \in Range(srcs)
<1>1. srcs \in Seq(Range(srcs)) /\ \A s \in Range(srcs) : IsSource(s)
  BY SourcesAssumption DEF IsSource
<1>2. QED BY <1>1

LEMMA InitIInv == Init => IInv
<1> SUFFICES ASSUME Init PROVE IInv
  OBVIOUS
<1>1. /\ sources \in Sources /\ at = 1 /\ pc = "collect" /\ pkgs = <<>> /\ data = Empty
  BY DEF Init
<1>2. Len(sources) \in Nat
  BY <1>1, SourcesAre
<1>3. pkgs \in Seq(Range(pkgs)) /\ DOMAIN pkgs = {}
  BY <1>1
<1>4. at \in 1..(Len(sources) + 1)
  BY <1>1, <1>2
<1>5. QED BY <1>1, <1>3, <1>4 DEF IInv

LEMMA CollectIInv ==
  ASSUME IInv, Collect
  PROVE  IInv'
<1> DEFINE v == Collected(sources[at])
           T == Range(pkgs) \cup Range(v)
<1>1. /\ sources \in Sources /\ at \in DOMAIN sources /\ pc = "collect"
      /\ pkgs' = pkgs \o v /\ at' = at + 1
      /\ sources' = sources /\ data' = data /\ todo' = todo /\ pc' = pc
  BY DEF IInv, Collect
<1>2. IsSource(sources[at]) /\ Len(sources) \in Nat /\ DOMAIN sources = 1..Len(sources)
  BY <1>1, SourcesAre
<1>3. /\ v \in Seq(Range(v)) /\ \A i \in DOMAIN v : IsPackage(v[i])
  <2> DEFINE n == Len(ParsePackagesTxt(sources[at].list))
  <2>1. n \in Nat
    BY <1>2, ParsedIs DEF IsSource
  <2>2. IsList(v, n) /\ \A i \in 1..n : IsPackage(v[i])
    BY <1>2, CollectedIs
  <2> HIDE DEF v, n
  <2>3. v = [i \in 1..n |-> v[i]] /\ DOMAIN v = 1..n
    BY <2>2 DEF IsList
  <2>4. v \in [1..n -> Range(v)]
    BY <2>3 DEF Range
  <2>5. v \in Seq(Range(v))
    BY <2>1, <2>4, FunctionIsSeq
  <2>6. QED BY <2>2, <2>3, <2>5
<1> HIDE DEF v
<1>4. pkgs \in Seq(Range(pkgs)) /\ \A i \in DOMAIN pkgs : IsPackage(pkgs[i])
  BY DEF IInv
<1>5. \A p \in T : IsPackage(p)
  BY <1>3, <1>4 DEF Range
<1>6. pkgs \in Seq(T) /\ v \in Seq(T)
  <2>1. Range(pkgs) \subseteq T /\ Range(v) \subseteq T
    OBVIOUS
  <2> HIDE DEF T
  <2>2. QED BY <1>3, <1>4, <2>1
<1> HIDE DEF T
<1>7. pkgs' \in Seq(T)
  BY <1>1, <1>6
<1>8. pkgs' \in Seq(Range(pkgs')) /\ \A i \in DOMAIN pkgs' : IsPackage(pkgs'[i])
  <2>1. \A i \in DOMAIN pkgs' : pkgs'[i] \in T
    BY <1>7
  <2>2. QED BY <1>5, <1>7, <2>1, RangeType
<1>9. at' \in 1..(Len(sources) + 1)
  BY <1>1, <1>2
<1>10. data = Empty
  BY <1>1 DEF IInv
<1>11. QED BY <1>1, <1>8, <1>9, <1>10 DEF IInv

LEMMA OpenDataIInv ==
  ASSUME IInv, OpenData
  PROVE  IInv'
<1> DEFINE L == Concat([i \in DOMAIN pkgs' |-> Lines(pkgs'[i])])
<1>1. /\ pkgs \in Seq(Range(pkgs)) /\ \A i \in DOMAIN pkgs : IsPackage(pkgs[i])
      /\ pkgs' \in Sorts(pkgs) /\ data' = Empty /\ pc' = "write"
      /\ todo' = Concat([i \in DOMAIN pkgs |-> Lines(pkgs'[i])])
      /\ sources' = sources /\ at' = at
      /\ sources \in Sources /\ at \in 1..(Len(sources) + 1)
  BY DEF IInv, OpenData
<1>2. /\ pkgs' \in Seq(Range(pkgs')) /\ DOMAIN pkgs' = DOMAIN pkgs
      /\ \A i \in DOMAIN pkgs' : IsPackage(pkgs'[i])
  BY <1>1, SortsIs
<1>3. todo' = L
  BY <1>1, <1>2
<1>4. \E o : IsWritten(pkgs', L, o)
  BY <1>2, PackagesLayout
<1> HIDE DEF L
<1>5. PICK o : IsWritten(pkgs', L, o)
  BY <1>4
<1>6. L \in Seq(Range(L))
  BY <1>5 DEF IsWritten
<1>7. data'.lines = <<>> /\ data'.ended = TRUE /\ <<>> \in Seq(Range(L))
  BY <1>1 DEF Empty
<1>8. L = <<>> \o L
  BY <1>6, EmptyJoin
<1>9. IsPart(data', <<>> \o L)
  BY <1>6, <1>7, FirstIsPart
<1>10. IsWriting'
  <2>1. pc' # "done"
    BY <1>1
  <2>2. L = data'.lines \o todo'
    BY <1>3, <1>7, <1>8
  <2>3. IsPart(data', L)
    BY <1>8, <1>9
  <2>4. QED BY <1>3, <1>5, <1>6, <1>7, <2>1, <2>2, <2>3 DEF IsWriting
<1>11. QED BY <1>1, <1>2, <1>10 DEF IInv

LEMMA WritingIs ==
  ASSUME IInv, pc = "write"
  PROVE  \E L, o :
           /\ IsWritten(pkgs, L, o) /\ IsPart(data, L)
           /\ L = data.lines \o todo /\ data.ended = TRUE
           /\ todo \in Seq(Range(L)) /\ data.lines \in Seq(Range(L))
BY DEF IInv, IsWriting

LEMMA WriteLineIInv ==
  ASSUME IInv, WriteLine
  PROVE  IInv'
<1>1. /\ pc = "write" /\ todo # <<>> /\ data' = [data EXCEPT !.lines = Append(@, Head(todo))]
      /\ todo' = Tail(todo) /\ sources' = sources /\ at' = at /\ pkgs' = pkgs /\ pc' = pc
  BY DEF WriteLine
<1>2. PICK L, o : /\ IsWritten(pkgs, L, o) /\ IsPart(data, L)
                  /\ L = data.lines \o todo /\ data.ended = TRUE
                  /\ todo \in Seq(Range(L)) /\ data.lines \in Seq(Range(L))
  BY <1>1, WritingIs
<1> DEFINE s == data.lines
           t == todo
           R == Range(L)
<1>3. s \in Seq(R) /\ t \in Seq(R) /\ t # <<>> /\ L = s \o t
  BY <1>1, <1>2
<1> HIDE DEF s, t, R
<1>4. /\ Append(s, Head(t)) \in Seq(R) /\ Tail(t) \in Seq(R)
      /\ Append(s, Head(t)) \o Tail(t) = L
  BY <1>3, MoveHead
<1>5. data'.lines = Append(s, Head(t)) /\ data'.ended = TRUE /\ todo' = Tail(t)
  BY <1>1, <1>2 DEF s, t
<1>6. IsPart(data', Append(s, Head(t)) \o Tail(t))
  BY <1>4, <1>5, FirstIsPart
<1>7. IsWriting'
  <2>1. IsPart(data', L) /\ L = data'.lines \o todo' /\ pc' = "write" /\ pc' # "done"
    BY <1>1, <1>4, <1>5, <1>6
  <2>2. IsWritten(pkgs', L, o) /\ todo' \in Seq(Range(L)) /\ data'.lines \in Seq(Range(L))
    BY <1>1, <1>2, <1>4, <1>5 DEF R
  <2>3. QED BY <1>5, <2>1, <2>2 DEF IsWriting
<1>8. QED BY <1>1, <1>7 DEF IInv

LEMMA CloseIInv ==
  ASSUME IInv, Close
  PROVE  IInv'
<1>1. /\ pc = "write" /\ todo = <<>> /\ pc' = "done" /\ sources' = sources /\ at' = at
      /\ pkgs' = pkgs /\ data' = data /\ todo' = todo
  BY DEF Close
<1>2. PICK L, o : /\ IsWritten(pkgs, L, o) /\ IsPart(data, L)
                  /\ L = data.lines \o todo /\ data.ended = TRUE
                  /\ todo \in Seq(Range(L)) /\ data.lines \in Seq(Range(L))
  BY <1>1, WritingIs
<1>3. data'.lines = L
  BY <1>1, <1>2, EmptyJoin
<1>4. IsWritten(pkgs', L, o) /\ IsPart(data', L) /\ pc' # "write"
  BY <1>1, <1>2
<1>5. IsWriting'
  BY <1>3, <1>4 DEF IsWriting
<1>6. QED BY <1>1, <1>5 DEF IInv

LEMMA KillIInv ==
  ASSUME IInv, Kill
  PROVE  IInv'
<1>1. /\ pc = "write" /\ pc' = "killed" /\ sources' = sources /\ at' = at
      /\ pkgs' = pkgs /\ todo' = todo
  BY DEF Kill
<1>2. \/ data' = data
      \/ /\ todo # <<>> /\ Head(todo) # Blank
         /\ \E l \in Cuts(Head(todo)) : data' = [lines |-> Append(data.lines, l), ended |-> FALSE]
  BY DEF Kill
<1>3. PICK L, o : /\ IsWritten(pkgs, L, o) /\ IsPart(data, L)
                  /\ L = data.lines \o todo /\ data.ended = TRUE
                  /\ todo \in Seq(Range(L)) /\ data.lines \in Seq(Range(L))
  BY <1>1, WritingIs
<1>4. IsPart(data', L)
  <2>1. CASE data' = data
    BY <1>3, <2>1
  <2>2. ASSUME todo # <<>>, Head(todo) # Blank, NEW l \in Cuts(Head(todo)),
               data' = [lines |-> Append(data.lines, l), ended |-> FALSE]
        PROVE  IsPart(data', L)
    <3> DEFINE s == data.lines
               t == todo
               f == data'
               R == Range(L)
    <3>1. /\ s \in Seq(R) /\ t \in Seq(R) /\ t # <<>> /\ Head(t) # Blank
          /\ l \in Cuts(Head(t)) /\ f = [lines |-> Append(s, l), ended |-> FALSE]
          /\ L = s \o t
      BY <1>3, <2>2
    <3> HIDE DEF s, t, f, R
    <3>2. IsPart(f, s \o t)
      BY <3>1, CutIsPart
    <3>3. QED BY <3>1, <3>2 DEF f
  <2>3. QED BY <1>2, <2>1, <2>2
<1>5. IsWritten(pkgs', L, o) /\ pc' # "write" /\ pc' # "done"
  BY <1>1, <1>3
<1>6. IsWriting'
  BY <1>4, <1>5 DEF IsWriting
<1>7. QED BY <1>1, <1>6 DEF IInv

LEMMA NextIInv == IInv /\ [Next]_vars => IInv'
<1> SUFFICES ASSUME IInv, [Next]_vars PROVE IInv'
  OBVIOUS
<1>1. CASE Collect
  BY <1>1, CollectIInv
<1>2. CASE OpenData
  BY <1>2, OpenDataIInv
<1>3. CASE WriteLine
  BY <1>3, WriteLineIInv
<1>4. CASE Close
  BY <1>4, CloseIInv
<1>5. CASE Kill
  BY <1>5, KillIInv
<1>6. CASE UNCHANGED vars
  BY <1>6 DEF vars, IInv, IsWriting
<1>7. QED BY <1>1, <1>2, <1>3, <1>4, <1>5, <1>6 DEF Next

THEOREM IInvHolds == Spec => []IInv
BY InitIInv, NextIInv, PTL DEF Spec

-----------------------------------------------------------------------------
(* The properties.                                                         *)

LEMMA NothingIsRead == HasLines(Empty) /\ ParsePackagesTxt(Empty) = <<>>
<1>1. /\ Empty.lines = <<>> /\ Empty.ended = TRUE /\ <<>> \in Seq(Range(<<>>))
      /\ Len(<<>>) = 0 /\ 1 \in 1..(0 + 2) /\ 1 > 0
  BY DEF Empty
<1>2. HasLines(Empty)
  BY <1>1 DEF HasLines
<1>3. QED BY <1>1, <1>2, ReadFromIs

\* Whatever is read of package_data is one of the packages, save its
\* description.
LEMMA DataIsPackages ==
  ASSUME IInv, NEW q \in Range(ParsePackagesTxt(data))
  PROVE  \E k \in DOMAIN pkgs : q = [pkgs[k] EXCEPT !.description = q.description]
<1>1. CASE pc = "collect"
  <2>1. data = Empty
    BY <1>1 DEF IInv
  <2>2. QED BY <2>1, NothingIsRead, RangeOfOne
<1>2. CASE pc # "collect"
  <2>1. PICK L, o : IsWritten(pkgs, L, o) /\ IsPart(data, L)
    BY <1>2 DEF IInv, IsWriting
  <2>2. DOMAIN pkgs = 1..Len(pkgs)
    BY <2>1, WrittenIs
  <2>3. QED BY <2>1, <2>2, ReadsPackages
<1>3. QED BY <1>1, <1>2

LEMMA IInvType == IInv => TypeOK
<1> SUFFICES ASSUME IInv PROVE TypeOK
  OBVIOUS
<1>1. /\ sources \in Sources /\ at \in 1..(Len(sources) + 1)
      /\ pc \in {"collect", "write", "done", "killed"}
      /\ \A i \in DOMAIN pkgs : IsPackage(pkgs[i])
  BY DEF IInv
<1>2. ASSUME NEW p, IsPackage(p)
      PROVE  /\ p.file \in DOMAIN Splits
             /\ \A v \in {p.mirror, p.priority, p.location, p.md5} : Value(v)
  BY <1>2 DEF IsPackage
<1>3. ASSUME NEW p, IsPackage(p), NEW q, q = [p EXCEPT !.description = q.description]
      PROVE  /\ q.file \in DOMAIN Splits
             /\ \A v \in {q.mirror, q.priority, q.location, q.md5} : Value(v)
  <2>1. PICK d : d = q.description
    OBVIOUS
  <2>2. q = [p EXCEPT !.description = d]
    BY <1>3, <2>1
  <2>3. /\ q.file = p.file /\ q.mirror = p.mirror /\ q.priority = p.priority
        /\ q.location = p.location /\ q.md5 = p.md5
    BY <1>3, <2>2 DEF IsPackage
  <2>4. QED BY <1>2, <1>3, <2>3
<1>4. ASSUME NEW p \in Range(pkgs)
      PROVE  /\ p.file \in DOMAIN Splits
             /\ \A v \in {p.mirror, p.priority, p.location, p.md5} : Value(v)
  <2>1. IsPackage(p)
    BY <1>1 DEF Range
  <2>2. QED BY <1>2, <2>1
<1>5. ASSUME NEW q \in Range(ParsePackagesTxt(data))
      PROVE  /\ q.file \in DOMAIN Splits
             /\ \A v \in {q.mirror, q.priority, q.location, q.md5} : Value(v)
  <2>1. PICK k \in DOMAIN pkgs : q = [pkgs[k] EXCEPT !.description = q.description]
    BY DataIsPackages
  <2>2. IsPackage(pkgs[k])
    BY <1>1
  <2>3. QED BY <1>3, <2>1, <2>2
<1>6. QED BY <1>1, <1>4, <1>5 DEF TypeOK

LEMMA IInvFound == IInv => RecordsAreFound
<1> SUFFICES ASSUME IInv PROVE RecordsAreFound
  OBVIOUS
<1> DEFINE F == IF pc = "collect" THEN {s.list : s \in Range(sources)} ELSE {data}
<1>1. ASSUME NEW f \in F PROVE HasLines(f)
  <2>1. CASE pc = "collect"
    <3>1. PICK s \in Range(sources) : f = s.list
      BY <1>1, <2>1
    <3>2. IsSource(s)
      BY SourcesAre DEF IInv
    <3>3. QED BY <3>1, <3>2 DEF IsSource, IsFile, HasLines
  <2>2. CASE pc # "collect"
    <3>1. PICK L, o : IsWritten(pkgs, L, o) /\ IsPart(data, L)
      BY <2>2 DEF IInv, IsWriting
    <3>2. f = data
      BY <1>1, <2>2
    <3>3. QED BY <3>1, <3>2 DEF IsPart
  <2>3. QED BY <2>1, <2>2
<1>2. ASSUME NEW f \in F
      PROVE  LET found == Range(ParsePackagesTxt(f))
             IN  /\ {Stated(f, i) : i \in FirstNames(f)} \subseteq found
                 /\ found \subseteq {Stated(f, i) : i \in Names(f)}
  <2> HIDE DEF F
  <2>1. QED BY <1>1, ListIsFound
<1>3. QED BY <1>2 DEF RecordsAreFound

LEMMA IInvInvented == IInv => NothingInvented
<1> SUFFICES ASSUME IInv, NEW q \in Range(ParsePackagesTxt(data))
             PROVE  \E p \in Range(pkgs) : q = [p EXCEPT !.description = q.description]
  BY DEF NothingInvented
<1>1. PICK k \in DOMAIN pkgs : q = [pkgs[k] EXCEPT !.description = q.description]
  BY DataIsPackages
<1>2. pkgs[k] \in Range(pkgs)
  BY DEF Range
<1>3. QED BY <1>1, <1>2

LEMMA IInvTorn == IInv => TornIsPrefix
<1> DEFINE read == ParsePackagesTxt(data)
           written == [i \in DOMAIN pkgs |->
                         [pkgs[i] EXCEPT !.description.lines = DescText(pkgs[i].description)]]
           n == Len(read)
<1> SUFFICES ASSUME IInv, pc # "collect", \A p \in Range(pkgs) : p.description.ended
             PROVE  /\ n <= Len(pkgs)
                    /\ \A i \in 1..(n - 1) : read[i] = written[i]
                    /\ n > 0 => read[n] = [written[n] EXCEPT !.description = read[n].description]
                    /\ pc = "done" => read = written
  BY DEF TornIsPrefix
<1>1. PICK L, o : /\ IsWritten(pkgs, L, o) /\ IsPart(data, L)
                  /\ pc = "done" => data.lines = L
  BY DEF IInv, IsWriting
<1>2. /\ DOMAIN pkgs = 1..Len(pkgs) /\ Len(pkgs) \in Nat /\ Len(L) = o[Len(pkgs)]
  BY <1>1, WrittenIs
<1>3. AllEnded(pkgs)
  BY <1>2 DEF AllEnded, Range
<1>4. 1 \in 1..(Len(pkgs) + 1)
  BY <1>2
<1>5. read = Rest(data, o, 1)
  BY <1>1, ParseIsRest
<1>6. /\ IsTail(read, pkgs, 1)
      /\ Len(data.lines) = o[Len(pkgs)] => IsWholeTail(read, pkgs, 1)
  BY <1>1, <1>3, <1>4, <1>5, TailsAreRead
<1>7. read \in Seq(Founds(data))
  BY <1>1, <1>4, <1>5, RestIs
<1>8. \A i \in 1..Len(pkgs) : written[i] = Written(pkgs[i])
  BY <1>2 DEF Written
<1>9. DOMAIN written = 1..Len(pkgs) /\ written = [i \in 1..Len(pkgs) |-> written[i]]
  BY <1>2
<1> HIDE DEF read, written
<1>10. n \in Nat /\ DOMAIN read = 1..n /\ read = [i \in 1..n |-> read[i]]
  BY <1>7
<1>11. /\ n <= Len(pkgs) - 1 + 1
       /\ \A i \in 1..(n - 1) : read[i] = Written(pkgs[1 - 1 + i])
       /\ n > 0 => read[n] = Told(Written(pkgs[1 - 1 + n]), read[n].description)
  BY <1>6 DEF IsTail
<1> HIDE DEF n
<1>12. n <= Len(pkgs)
  BY <1>2, <1>10, <1>11
<1>13. ASSUME NEW i \in 1..n PROVE 1 - 1 + i = i /\ i \in 1..Len(pkgs)
  BY <1>2, <1>10, <1>12
<1>14. ASSUME NEW i \in 1..(n - 1) PROVE read[i] = written[i]
  <2>1. i \in 1..n
    BY <1>10
  <2>2. QED BY <1>8, <1>11, <1>13, <2>1
<1>15. ASSUME n > 0
       PROVE  read[n] = [written[n] EXCEPT !.description = read[n].description]
  <2>1. n \in 1..n
    BY <1>10, <1>15
  <2>2. 1 - 1 + n = n /\ written[n] = Written(pkgs[n])
    BY <1>8, <1>13, <2>1
  <2>3. read[n] = Told(written[n], read[n].description)
    BY <1>11, <1>15, <2>2
  <2>4. QED BY <2>3 DEF Told
<1>16. ASSUME pc = "done" PROVE read = written
  <2>1. IsWholeTail(read, pkgs, 1)
    BY <1>1, <1>2, <1>6, <1>16
  <2>2. n = Len(pkgs) - 1 + 1 /\ \A i \in 1..n : read[i] = Written(pkgs[1 - 1 + i])
    BY <2>1 DEF IsWholeTail, n
  <2>3. n = Len(pkgs)
    BY <1>2, <1>10, <2>2
  <2>4. \A i \in 1..n : read[i] = written[i]
    BY <1>8, <1>13, <2>2
  <2>5. QED BY <1>9, <1>10, <2>3, <2>4
<1>17. QED BY <1>12, <1>14, <1>15, <1>16

LEMMA IInvOwn == IInv => OwnChecksum
<1> SUFFICES ASSUME IInv, pc = "collect", NEW s \in Range(sources),
                    \A x, y \in Range(ParsePackagesTxt(s.list)) \cup Range(s.sums) :
                      LookAlike(x, y) => x.file = y.file,
                    NEW i \in DOMAIN ParsePackagesTxt(s.list)
             PROVE  LET list == ParsePackagesTxt(s.list)
                        own == {e \in Range(s.sums) :
                                  e.file = list[i].file /\ e.location = list[i].location}
                        first == \A j \in 1..(i - 1) : ~LookAlike(list[j], list[i])
                    IN  Collected(s)[i].md5 \in
                          IF own = {} \/ ~first THEN {list[i].md5} ELSE {e.sum : e \in own}
  BY DEF OwnChecksum
<1> DEFINE list == ParsePackagesTxt(s.list)
           S == Range(s.sums)
           n == Len(list)
<1>1. IsSource(s)
  BY SourcesAre DEF IInv
<1>2. n \in Nat /\ DOMAIN list = 1..n
  BY <1>1, ParsedIs DEF IsSource
<1>3. i \in 1..n
  BY <1>2
<1>4. Collected(s)[i].md5 \in SumsOf(list, S, i)
  BY <1>1, <1>3, CollectedIs
<1>5. \A x, y \in Range(list) \cup S : LookAlike(x, y) => x.file = y.file
  OBVIOUS
<1> DEFINE own == {e \in S : e.file = list[i].file /\ e.location = list[i].location}
           first == \A j \in 1..(i - 1) : ~LookAlike(list[j], list[i])
<1>6. SumsOf(list, S, i) = IF own = {} \/ ~first THEN {list[i].md5} ELSE {e.sum : e \in own}
  <2> HIDE DEF list, S, n
  <2>1. QED BY <1>2, <1>3, <1>5, SumsAreOwn
<1>7. QED BY <1>4, <1>6

-----------------------------------------------------------------------------

\* Every package that is collected, or read from what there is of
\* package_data, has values in the fields that a record cannot do without
\* (slapt_parse_packages_txt).
THEOREM TypeOKHolds == Spec => []TypeOK
BY IInvHolds, IInvType, PTL

\* A malformed record costs only itself (slapt_parse_packages_txt).
THEOREM RecordsAreFoundHolds == Spec => []RecordsAreFound
BY IInvHolds, IInvFound, PTL

\* Wherever the writer was killed, what is left of package_data gives only
\* packages of the sources (slapt_write_pkg_data).
THEOREM NothingInventedHolds == Spec => []NothingInvented
BY IInvHolds, IInvInvented, PTL

\* What is read back is what was written, as far as it goes
\* (slapt_write_pkg_data).
THEOREM TornIsPrefixHolds == Spec => []TornIsPrefix
BY IInvHolds, IInvTorn, PTL

\* A package has the checksum of its own entry (slapt_get_md5sums).
THEOREM OwnChecksumHolds == Spec => []OwnChecksum
BY IInvHolds, IInvOwn, PTL

=============================================================================
