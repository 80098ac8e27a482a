------------------------ MODULE TransactionRunProofs ------------------------
(***************************************************************************)
(* Proofs about a run of the transaction for any set of packages, plans,   *)
(* options and listings and any number of cleanings.                       *)
(***************************************************************************)
EXTENDS TransactionRun, TLAPS

-----------------------------------------------------------------------------
(* The lists of a plan. *)

\* The targets of a list are packages, one for each member.
LEMMA TargetsAreSequences ==
  ASSUME NEW t, IsPlan(t), NEW l \in QueuedLists
  PROVE  /\ Targets(t, l) \in Seq(Pkg)
         /\ Len(Targets(t, l)) = Len(t[l])
         /\ DOMAIN t[l] = 1..Len(t[l]) /\ Len(t[l]) \in Nat
         /\ \A i \in 1..Len(t[l]) : Targets(t, l)[i] = Member(t, l, i)
<1>1. /\ DOMAIN t[l] = 1..Len(t[l]) /\ Len(t[l]) \in Nat
      /\ \A i \in DOMAIN t[l] : Member(t, l, i) \in Pkg
  <2>1. CASE l = "install"
    <3>1. t[l] \in Seq(Pkg)
      BY <2>1 DEF IsPlan, PkgLists
    <3>2. \A i : Member(t, l, i) = t[l][i]
      BY <2>1 DEF Member, UpgradeLists
    <3>3. QED BY <3>1, <3>2
  <2>2. CASE l \in UpgradeLists
    <3> DEFINE R == [installed : Pkg, upgrade : Pkg]
    <3>1. t[l] \in Seq(R)
      BY <2>2 DEF IsPlan
    <3>2. \A i : Member(t, l, i) = t[l][i].upgrade
      BY <2>2 DEF Member
    <3>3. \A r \in R : r.upgrade \in Pkg
      OBVIOUS
    <3> HIDE DEF R
    <3>4. /\ DOMAIN t[l] = 1..Len(t[l]) /\ Len(t[l]) \in Nat
          /\ \A i \in DOMAIN t[l] : t[l][i] \in R
      BY <3>1
    <3>5. QED BY <3>2, <3>3, <3>4
  <2>3. QED BY <2>1, <2>2 DEF QueuedLists, UpgradeLists
<1>2. Targets(t, l) = [i \in 1..Len(t[l]) |-> Member(t, l, i)]
  BY <1>1 DEF Targets
<1>3. QED BY <1>1, <1>2

\* Where the members of two, and of three, sequences are in the whole.
LEMMA TwoPlaces ==
  ASSUME NEW S, NEW a \in Seq(S), NEW b \in Seq(S), NEW i \in DOMAIN (a \o b)
  PROVE  \/ i \in DOMAIN a /\ (a \o b)[i] = a[i]
         \/ \E k \in DOMAIN b : i = k + Len(a) /\ (a \o b)[i] = b[k]
<1>1. CASE i <= Len(a)
  BY <1>1
<1>2. CASE i > Len(a)
  <2> DEFINE k == i - Len(a)
  <2>1. k \in DOMAIN b /\ i = k + Len(a)
    BY <1>2
  <2>2. (a \o b)[i] = b[k]
    BY <1>2, <2>1
  <2>3. QED BY <2>1, <2>2
<1>3. QED BY <1>1, <1>2

LEMMA PlacesOfTwo ==
  ASSUME NEW S, NEW a \in Seq(S), NEW b \in Seq(S)
  PROVE  /\ a \o b \in Seq(S)
         /\ Len(a \o b) = Len(a) + Len(b)
         /\ \A k \in DOMAIN a : k \in DOMAIN (a \o b) /\ (a \o b)[k] = a[k]
         /\ \A k \in DOMAIN b : /\ k + Len(a) \in DOMAIN (a \o b)
                               /\ (a \o b)[k + Len(a)] = b[k]
OBVIOUS

\* Where the package at a place of the downloads comes from.
Origin(t, i, l, k) ==
  /\ l \in QueuedLists
  /\ k \in DOMAIN t[l]
  /\ Fetches(t)[i] = Member(t, l, k)
  /\ i = k + (CASE l = "install" -> 0
                [] l = "upgrade" -> Len(t.install)
                [] l = "reinstall" -> Len(t.install) + Len(t.upgrade))

\* Every download is of a member of a list, every member is downloaded.
LEMMA FetchesHaveOrigins ==
  ASSUME NEW t, IsPlan(t)
  PROVE  /\ Fetches(t) \in Seq(Pkg)
         /\ \A i \in DOMAIN Fetches(t) : \E l, k : Origin(t, i, l, k)
         /\ \A l \in QueuedLists : \A k \in DOMAIN t[l] :
               \E i \in DOMAIN Fetches(t) : Fetches(t)[i] = Member(t, l, k)
<1> DEFINE a == Targets(t, "install")
           b == Targets(t, "upgrade")
           c == Targets(t, "reinstall")
<1>1. /\ a \in Seq(Pkg) /\ Len(a) = Len(t.install) /\ DOMAIN a = DOMAIN t.install
      /\ \A k \in DOMAIN a : a[k] = Member(t, "install", k)
  BY TargetsAreSequences DEF QueuedLists
<1>2. /\ b \in Seq(Pkg) /\ Len(b) = Len(t.upgrade) /\ DOMAIN b = DOMAIN t.upgrade
      /\ \A k \in DOMAIN b : b[k] = Member(t, "upgrade", k)
  BY TargetsAreSequences DEF QueuedLists
<1>3. /\ c \in Seq(Pkg) /\ Len(c) = Len(t.reinstall) /\ DOMAIN c = DOMAIN t.reinstall
      /\ \A k \in DOMAIN c : c[k] = Member(t, "reinstall", k)
  BY TargetsAreSequences DEF QueuedLists
<1> DEFINE ab == a \o b
<1>4. Fetches(t) = ab \o c
  BY DEF Fetches
<1> HIDE DEF a, b, c
<1>5. /\ ab \in Seq(Pkg) /\ Len(ab) = Len(t.install) + Len(t.upgrade)
      /\ \A k \in DOMAIN a : k \in DOMAIN ab /\ ab[k] = a[k]
      /\ \A k \in DOMAIN b : /\ k + Len(t.install) \in DOMAIN ab
                            /\ ab[k + Len(t.install)] = b[k]
  <2>1. /\ ab \in Seq(Pkg) /\ Len(ab) = Len(a) + Len(b)
        /\ \A k \in DOMAIN a : k \in DOMAIN ab /\ ab[k] = a[k]
        /\ \A k \in DOMAIN b : k + Len(a) \in DOMAIN ab /\ ab[k + Len(a)] = b[k]
    <3>1. a \in Seq(Pkg) /\ b \in Seq(Pkg)
      BY <1>1, <1>2
    <3>2. QED BY <3>1
  <2>2. QED BY <1>1, <1>2, <2>1
<1>6. ASSUME NEW i \in DOMAIN ab
      PROVE  \/ i \in DOMAIN a /\ ab[i] = a[i]
             \/ \E k \in DOMAIN b : i = k + Len(t.install) /\ ab[i] = b[k]
  BY <1>1, <1>2, TwoPlaces
<1> HIDE DEF ab
<1>7. /\ Fetches(t) \in Seq(Pkg)
      /\ \A k \in DOMAIN ab : k \in DOMAIN Fetches(t) /\ Fetches(t)[k] = ab[k]
      /\ \A k \in DOMAIN c : /\ k + Len(ab) \in DOMAIN Fetches(t)
                            /\ Fetches(t)[k + Len(ab)] = c[k]
  <2>1. ab \in Seq(Pkg) /\ c \in Seq(Pkg)
    BY <1>3, <1>5
  <2>2. QED BY <1>4, <2>1
<1>8. ASSUME NEW i \in DOMAIN Fetches(t) PROVE \E l, k : Origin(t, i, l, k)
  <2>1. \/ i \in DOMAIN ab /\ Fetches(t)[i] = ab[i]
        \/ \E k \in DOMAIN c : i = k + Len(ab) /\ Fetches(t)[i] = c[k]
    <3>1. ab \in Seq(Pkg) /\ c \in Seq(Pkg) /\ i \in DOMAIN (ab \o c)
      BY <1>3, <1>4, <1>5
    <3>2. QED BY <1>4, <3>1
  <2>2. CASE i \in DOMAIN ab /\ Fetches(t)[i] = ab[i]
    <3>1. CASE i \in DOMAIN a /\ ab[i] = a[i]
      <4>1. Origin(t, i, "install", i)
        BY <1>1, <2>2, <3>1 DEF Origin, QueuedLists
      <4>2. QED BY <4>1
    <3>2. ASSUME NEW k \in DOMAIN b, i = k + Len(t.install), ab[i] = b[k]
          PROVE  Origin(t, i, "upgrade", k)
      BY <1>2, <2>2, <3>2 DEF Origin, QueuedLists
    <3>3. QED BY <1>6, <2>2, <3>1, <3>2
  <2>3. ASSUME NEW k \in DOMAIN c, i = k + Len(ab), Fetches(t)[i] = c[k]
        PROVE  Origin(t, i, "reinstall", k)
    BY <1>3, <1>5, <2>3 DEF Origin, QueuedLists
  <2>4. QED BY <2>1, <2>2, <2>3
<1>9. ASSUME NEW l \in QueuedLists, NEW k \in DOMAIN t[l]
      PROVE  \E i \in DOMAIN Fetches(t) : Fetches(t)[i] = Member(t, l, k)
  <2>1. CASE l = "install"
    BY <1>1, <1>5, <1>7, <2>1
  <2>2. CASE l = "upgrade"
    BY <1>2, <1>5, <1>7, <2>2
  <2>3. CASE l = "reinstall"
    BY <1>3, <1>7, <2>3
  <2>4. QED BY <2>1, <2>2, <2>3 DEF QueuedLists
<1>10. QED BY <1>7, <1>8, <1>9

\* No package is downloaded twice.
LEMMA FetchesOnce ==
  ASSUME NEW t, IsPlan(t), NEW i \in DOMAIN Fetches(t), NEW j \in DOMAIN Fetches(t),
         Fetches(t)[i] = Fetches(t)[j]
  PROVE  i = j
<1>1. PICK l, k : Origin(t, i, l, k)
  BY FetchesHaveOrigins
<1>2. PICK m, n : Origin(t, j, m, n)
  BY FetchesHaveOrigins
<1>3. SamePkg(Member(t, l, k), Member(t, m, n))
  BY <1>1, <1>2 DEF Origin, SamePkg
<1>4. l = m /\ k = n
  BY <1>1, <1>2, <1>3
     DEF Origin, IsPlan, Once, Lists, QueuedLists, PkgLists, UpgradeLists
<1>5. QED BY <1>1, <1>2, <1>4 DEF Origin

\* What the package tools are run for: first the packages to remove, then the
\* queue; each pointer of the queue leads to a package that is downloaded.
LEMMA RemoveOpsAreOperations ==
  ASSUME NEW t, IsPlan(t)
  PROVE  /\ RemoveOps(t) \in Seq(OpType)
         /\ Len(RemoveOps(t)) = Len(t.remove)
         /\ Len(t.remove) \in Nat
         /\ \A i \in DOMAIN RemoveOps(t) : RemoveOps(t)[i].op = "remove"
<1>1. t.remove \in Seq(Pkg)
  BY DEF IsPlan, PkgLists
<1>2. RemoveOps(t) = [i \in 1..Len(t.remove) |-> [op |-> "remove", pkg |-> t.remove[i]]]
  BY <1>1 DEF RemoveOps
<1>3. \A p \in Pkg : [op |-> "remove", pkg |-> p] \in OpType
  BY DEF OpType
<1>4. QED BY <1>1, <1>2, <1>3

LEMMA QueueIsOfPointers ==
  ASSUME NEW t, IsPlan(t)
  PROVE  /\ Len(t.queue) \in Nat /\ DOMAIN t.queue = 1..Len(t.queue)
         /\ \A k \in DOMAIN t.queue : t.queue[k].list \in QueuedLists
<1> DEFINE Pointer == [list : QueuedLists, index : Nat \ {0}]
<1>1. t.queue \in Seq(Pointer)
  BY DEF IsPlan
<1>2. \A q \in Pointer : q.list \in QueuedLists
  OBVIOUS
<1> HIDE DEF Pointer
<1>3. QED BY <1>1, <1>2

LEMMA QueueOpsAreOperations ==
  ASSUME NEW t, IsPlan(t)
  PROVE  /\ QueueOps(t) \in Seq(OpType)
         /\ Len(QueueOps(t)) = Len(t.queue)
         /\ Len(t.queue) \in Nat
         /\ \A k \in DOMAIN QueueOps(t) :
               QueueOps(t)[k].op # "remove" /\ QueueOps(t)[k].pkg \in ToFetch(t)
         /\ \A p \in ToFetch(t) : \E k \in DOMAIN QueueOps(t) : QueueOps(t)[k].pkg = p
<1>3. /\ Len(t.queue) \in Nat /\ DOMAIN t.queue = 1..Len(t.queue)
      /\ \A k \in 1..Len(t.queue) : t.queue[k].list \in QueuedLists
  BY QueueIsOfPointers
<1>4. QueueOps(t) = [k \in 1..Len(t.queue) |-> QueueOp(t, t.queue[k])]
  BY <1>3 DEF QueueOps
<1>5. ASSUME NEW k \in 1..Len(t.queue)
      PROVE  /\ QueueOp(t, t.queue[k]) \in OpType
             /\ QueueOp(t, t.queue[k]).op # "remove"
             /\ QueueOp(t, t.queue[k]).pkg \in ToFetch(t)
  <2>1. t.queue[k].index \in DOMAIN t[t.queue[k].list]
    BY <1>3 DEF IsPlan, Planned
  <2>2. Member(t, t.queue[k].list, t.queue[k].index) \in ToFetch(t)
    BY <1>3, <2>1, FetchesHaveOrigins DEF ToFetch
  <2>3. ToFetch(t) \subseteq Pkg
    BY FetchesHaveOrigins DEF ToFetch
  <2>4. QED BY <2>2, <2>3 DEF QueueOp, OpType
<1>6. ASSUME NEW p \in ToFetch(t)
      PROVE  \E k \in 1..Len(t.queue) : QueueOp(t, t.queue[k]).pkg = p
  <2>1. PICK i \in DOMAIN Fetches(t) : Fetches(t)[i] = p
    BY DEF ToFetch
  <2>2. PICK l, n : Origin(t, i, l, n)
    BY <2>1, FetchesHaveOrigins
  <2>3. PICK k \in DOMAIN t.queue : t.queue[k] = [list |-> l, index |-> n]
    BY <2>2 DEF IsPlan, Planned, Origin
  <2>4. QueueOp(t, t.queue[k]).pkg = p
    BY <2>1, <2>2, <2>3 DEF Origin, QueueOp
  <2>5. QED BY <1>3, <2>3, <2>4
<1>7. QED BY <1>3, <1>4, <1>5, <1>6

\* The suggestions change neither the downloads nor the operations.
LEMMA SuggestKeepsPlan ==
  ASSUME NEW t, IsPlan(t)
  PROVE  /\ IsPlan(Suggest(t))
         /\ Fetches(Suggest(t)) = Fetches(t)
         /\ RemoveOps(Suggest(t)) = RemoveOps(t)
         /\ QueueOps(Suggest(t)) = QueueOps(t)
         /\ Suggest(t).remove = t.remove /\ Suggest(t).queue = t.queue
<1> DEFINE u == Suggest(t)
<1>1. \A f \in Lists \cup {"queue"} : u[f] = t[f]
  BY DEF IsPlan, EmptyTrxn, Suggest, Lists, PkgLists, UpgradeLists
<1>2. u = [f \in DOMAIN EmptyTrxn |-> u[f]]
  BY DEF IsPlan, Suggest
<1> HIDE DEF u
<1>3. u.remove = t.remove /\ u.queue = t.queue
  BY <1>1 DEF Lists, PkgLists
<1>4. \A l \in Lists : u[l] = t[l]
  BY <1>1
<1>5. \A l \in Lists : \A i : Member(u, l, i) = Member(t, l, i)
  BY <1>4 DEF Member
<1>6. /\ QueuedLists \subseteq Lists
      /\ \A k \in DOMAIN t.queue : t.queue[k].list \in Lists
  BY QueueIsOfPointers DEF QueuedLists, Lists, PkgLists, UpgradeLists
<1>7. IsPlan(u)
  <2>1. Once(u)
    <3>1. Once(t) BY DEF IsPlan
    <3>2. QED BY <1>4, <1>5, <3>1 DEF Once
  <2>2. Planned(u)
    <3>1. Planned(t) BY DEF IsPlan
    <3>2. \A k \in DOMAIN t.queue : t.queue[k].list \in Lists
      BY <1>6
    <3>3. \A l \in QueuedLists : u[l] = t[l]
      BY <1>4, <1>6
    <3>4. QED BY <1>3, <1>4, <3>1, <3>2, <3>3 DEF Planned
  <2>3. QED BY <1>1, <1>2, <1>3, <2>1, <2>2 DEF IsPlan, Lists
<1>8. \A l \in QueuedLists : Targets(u, l) = Targets(t, l)
  BY <1>4, <1>5, <1>6 DEF Targets
<1>9. Fetches(u) = Fetches(t)
  BY <1>8 DEF Fetches, QueuedLists
<1>10. RemoveOps(u) = RemoveOps(t)
  BY <1>3 DEF RemoveOps
<1>11. QueueOps(u) = QueueOps(t)
  <2>1. \A k \in DOMAIN t.queue : QueueOp(u, t.queue[k]) = QueueOp(t, t.queue[k])
    BY <1>5, <1>6 DEF QueueOp
  <2>2. QED BY <1>3, <2>1 DEF QueueOps
<1>12. QED BY <1>3, <1>7, <1>9, <1>10, <1>11 DEF u

-----------------------------------------------------------------------------
(* The inductive invariant. *)

Before == {"report", "prompt"}
Writing == {"open", "resume", "transfer", "gap"}
Trying == Writing \cup {"again", "check"}
Fetching == Trying \cup {"fetch"}
Performing == {"remove", "queue"}

\* p was verified, and nothing but a cleaning has taken it away since.
Held(p) ==
  conf.no_md5 \/ (p.md5 /\ (file[p] = "good" \/ (cleanings > 0 /\ file[p] = "none")))

\* A download is tried within the limit, and written to only if it does not
\* verify: what it does to the file cannot spoil a package that is held.
TryInv ==
  /\ pc \in Trying => tries < conf.retry
  /\ pc \in Writing => ~Verified(Current)

\* What the loop has left behind is held, in the end all of it.
HeldInv ==
  /\ pc \in Fetching =>
       /\ at <= Len(Fetches(trxn)) + 1
       /\ \A i \in DOMAIN Fetches(trxn) : i < at => Held(Fetches(trxn)[i])
  /\ pc \in Performing \/ done # <<>> => \A p \in ToFetch(trxn) : Held(p)

\* The tools have been run for the operations before the current one.
DoneInv ==
  /\ pc \in Before \cup Fetching => done = <<>>
  /\ pc = "remove" => Len(done) + 1 = at /\ Len(done) <= Len(trxn.remove)
  /\ pc = "queue" => Len(done) + 1 = Len(trxn.remove) + at

IInv ==
  /\ TypeOK
  /\ IsPlan(trxn)
  /\ TryInv
  /\ HeldInv
  /\ DoneInv
  /\ cleaner # {} => cleanings > 0

-----------------------------------------------------------------------------
(* It is inductive. *)

LEMMA PlanFacts ==
  ASSUME IsPlan(trxn)
  PROVE  /\ Fetches(trxn) \in Seq(Pkg)
         /\ Len(Fetches(trxn)) \in Nat /\ DOMAIN Fetches(trxn) = 1..Len(Fetches(trxn))
         /\ \A i \in DOMAIN Fetches(trxn) :
               Fetches(trxn)[i] \in Pkg /\ Fetches(trxn)[i] \in ToFetch(trxn)
         /\ \A i, j \in DOMAIN Fetches(trxn) : Fetches(trxn)[i] = Fetches(trxn)[j] => i = j
         /\ \A p \in ToFetch(trxn) : \E i \in DOMAIN Fetches(trxn) : Fetches(trxn)[i] = p
<1>1. Fetches(trxn) \in Seq(Pkg)
  BY FetchesHaveOrigins
<1>2. \A i, j \in DOMAIN Fetches(trxn) : Fetches(trxn)[i] = Fetches(trxn)[j] => i = j
  BY FetchesOnce
<1>3. QED BY <1>1, <1>2 DEF ToFetch

LEMMA AppendedIsState ==
  ASSUME Receiving, NEW f \in FileStates
  PROVE  Appended(f) \subseteq FileStates
BY DEF Receiving, Appended, FileStates

\* A change of the file that is fetched leaves what has been fetched alone.
LEMMA ElsewhereHeld ==
  ASSUME IInv, pc \in Trying \cup {"fetch"}, UNCHANGED <<trxn, conf, at, cleanings>>,
         at \in DOMAIN Fetches(trxn), \E f : file' = [file EXCEPT ![Current] = f]
  PROVE  /\ at <= Len(Fetches(trxn)) + 1
         /\ \A i \in DOMAIN Fetches(trxn) : i < at => Held(Fetches(trxn)[i])'
<1>1. ASSUME NEW i \in DOMAIN Fetches(trxn), i < at
      PROVE  Held(Fetches(trxn)[i])'
  <2>1. Fetches(trxn)[i] # Current /\ Fetches(trxn)[i] \in Pkg
    BY <1>1, PlanFacts DEF Current, IInv, TypeOK
  <2>2. Held(Fetches(trxn)[i])
    BY <1>1 DEF IInv, HeldInv, Fetching
  <2>3. file'[Fetches(trxn)[i]] = file[Fetches(trxn)[i]]
    BY <2>1 DEF IInv, TypeOK
  <2>4. QED BY <2>2, <2>3 DEF Held
<1>2. QED BY <1>1 DEF IInv, HeldInv, Fetching

LEMMA BeginKeeps == ASSUME IInv, Begin /\ UNCHANGED cleaning PROVE IInv'
<1>1. TypeOK'
  BY ConfAssumption DEF Begin, cleaning, IInv, TypeOK, Locations
<1>2. IsPlan(trxn')
  BY PlanAssumption DEF Begin
<1>3. TryInv'
  BY ConfAssumption DEF Begin, TryInv, Writing
<1>4. HeldInv'
  BY DEF Begin, HeldInv, Writing, Trying, Fetching, Performing
<1>5. DoneInv'
  BY DEF Begin, DoneInv
<1>6. (cleaner # {} => cleanings > 0)'
  BY <1>1 DEF IInv, cleaning
<1>7. QED BY <1>1, <1>2, <1>3, <1>4, <1>5, <1>6 DEF IInv

LEMMA ReportKeeps == ASSUME IInv, Report /\ UNCHANGED cleaning PROVE IInv'
<1>1. TypeOK'
  BY ConfAssumption DEF Report, Goto, cleaning, IInv, TypeOK, Stopped, Locations
<1>2. IsPlan(trxn')
  BY SuggestKeepsPlan DEF Report, IInv
<1>3. TryInv'
  BY DEF Report, Goto, TryInv, Writing, Trying
<1>4. HeldInv'
  BY DEF Report, Goto, IInv, HeldInv, DoneInv, Before, Trying, Fetching, Performing
<1>5. DoneInv'
  BY DEF Report, Goto, IInv, DoneInv, Before
<1>6. (cleaner # {} => cleanings > 0)'
  BY <1>1 DEF IInv, cleaning
<1>7. QED BY <1>1, <1>2, <1>3, <1>4, <1>5, <1>6 DEF IInv

LEMMA PromptKeeps == ASSUME IInv, Prompt /\ UNCHANGED cleaning PROVE IInv'
<1>1. TypeOK'
  BY ConfAssumption DEF Prompt, Goto, cleaning, IInv, TypeOK, Stopped, Locations
<1>2. IsPlan(trxn')
  BY DEF Prompt, IInv
<1>3. TryInv'
  BY DEF Prompt, Goto, TryInv, Writing, Trying
<1>4. HeldInv'
  BY PlanFacts DEF Prompt, Goto, IInv, HeldInv, DoneInv, Before, Performing
<1>5. DoneInv'
  BY DEF Prompt, Goto, IInv, DoneInv, Before
<1>6. (cleaner # {} => cleanings > 0)'
  BY <1>1 DEF IInv, cleaning
<1>7. QED BY <1>1, <1>2, <1>3, <1>4, <1>5, <1>6 DEF IInv

LEMMA AlreadyThereKeeps == ASSUME IInv, AlreadyThere /\ UNCHANGED cleaning PROVE IInv'
<1>1. TypeOK'
  BY ConfAssumption DEF AlreadyThere, Success, cleaning, IInv, TypeOK, Locations
<1>2. IsPlan(trxn')
  BY DEF AlreadyThere, IInv
<1>3. TryInv'
  BY DEF AlreadyThere, Success, TryInv, Writing, Trying
<1>4. HeldInv'
  BY PlanFacts
     DEF AlreadyThere, Attempting, Success, cleaning, IInv, HeldInv, Held, Verified,
         Current, Trying, Fetching, Performing
<1>5. DoneInv'
  BY DEF AlreadyThere, Attempting, Success, IInv, DoneInv, Trying, Fetching
<1>6. (cleaner # {} => cleanings > 0)'
  BY <1>1 DEF IInv, cleaning
<1>7. QED BY <1>1, <1>2, <1>3, <1>4, <1>5, <1>6 DEF IInv

LEMMA MeasureKeeps == ASSUME IInv, Measure /\ UNCHANGED cleaning PROVE IInv'
<1>1. TypeOK'
  BY DEF Measure, Attempting, cleaning, IInv, TypeOK, FileStates, Locations
<1>2. IsPlan(trxn')
  BY DEF Measure, IInv
<1>3. TryInv'
  BY DEF Measure, Attempting, IInv, TryInv, Verified, Current, Trying
<1>4. HeldInv'
  <2>1. pc \in Trying \cup {"fetch"} /\ at \in DOMAIN Fetches(trxn)
    BY DEF Measure, Attempting, IInv, TypeOK, Trying, Writing
  <2>2. done' = <<>> /\ pc' \in Fetching
    BY DEF Measure, Attempting, IInv, DoneInv, Fetching, Trying, Writing
  <2>3. QED
    BY <2>1, <2>2, ElsewhereHeld
       DEF Measure, Attempting, cleaning, HeldInv, Performing, Fetching, Trying, Writing
<1>5. DoneInv'
  BY DEF Measure, Attempting, IInv, DoneInv, Trying, Fetching
<1>6. (cleaner # {} => cleanings > 0)'
  BY <1>1 DEF IInv, cleaning
<1>7. QED BY <1>1, <1>2, <1>3, <1>4, <1>5, <1>6 DEF IInv

LEMMA OpenKeeps == ASSUME IInv, Open /\ UNCHANGED cleaning PROVE IInv'
<1>1. TypeOK'
  BY DEF Open, cleaning, IInv, TypeOK, FileStates, Locations
<1>2. IsPlan(trxn')
  BY DEF Open, IInv
<1>3. TryInv'
  BY DEF Open, IInv, TryInv, Verified, Current, Writing, Trying
<1>4. HeldInv'
  <2>1. pc \in Trying \cup {"fetch"} /\ at \in DOMAIN Fetches(trxn)
    BY DEF Open, IInv, TypeOK, Trying, Writing
  <2>2. done' = <<>> /\ pc' \in Fetching
    BY DEF Open, IInv, DoneInv, Fetching, Trying, Writing
  <2>3. QED
    BY <2>1, <2>2, ElsewhereHeld
       DEF Open, cleaning, HeldInv, Performing, Fetching, Trying, Writing
<1>5. DoneInv'
  BY DEF Open, IInv, DoneInv, Writing, Trying, Fetching
<1>6. (cleaner # {} => cleanings > 0)'
  BY <1>1 DEF IInv, cleaning
<1>7. QED BY <1>1, <1>2, <1>3, <1>4, <1>5, <1>6 DEF IInv

LEMMA CannotWriteKeeps == ASSUME IInv, CannotWrite /\ UNCHANGED cleaning PROVE IInv'
<1>1. TypeOK'
  BY ConfAssumption DEF CannotWrite, Goto, cleaning, IInv, TypeOK, Stopped
<1>2. IsPlan(trxn')
  BY DEF CannotWrite, IInv
<1>3. TryInv'
  BY DEF CannotWrite, Goto, TryInv, Writing, Trying
<1>4. HeldInv'
  BY PlanFacts DEF CannotWrite, Goto, cleaning, IInv, HeldInv, Held, Performing
<1>5. DoneInv'
  BY DEF CannotWrite, Goto, DoneInv, Before, Writing, Trying, Fetching
<1>6. (cleaner # {} => cleanings > 0)'
  BY <1>1 DEF IInv, cleaning
<1>7. QED BY <1>1, <1>2, <1>3, <1>4, <1>5, <1>6 DEF IInv

LEMMA ArrivedKeeps == ASSUME IInv, Arrived /\ UNCHANGED cleaning PROVE IInv'
<1>1. TypeOK'
  <2>1. /\ Current \in Pkg /\ file[Current] \in FileStates
        /\ \E f \in FileStates : file' = [file EXCEPT ![Current] = f]
    BY PlanFacts, AppendedIsState DEF Arrived, IInv, TypeOK, Receiving, Receive, Current
  <2>2. file' \in [Pkg -> FileStates]
    BY <2>1 DEF IInv, TypeOK
  <2>3. QED
    BY <2>2 DEF Arrived, cleaning, Receiving, Receive, IInv, TypeOK, Locations
<1>2. IsPlan(trxn')
  BY DEF Arrived, IInv, Receive
<1>3. TryInv'
  BY DEF Arrived, Receiving, Receive, IInv, TryInv, Writing, Trying
<1>4. HeldInv'
  <2>1. pc \in Trying \cup {"fetch"} /\ at \in DOMAIN Fetches(trxn)
    BY DEF Arrived, Receiving, Receive, IInv, TypeOK, Trying, Writing
  <2>2. done' = <<>> /\ pc' \in Fetching
    BY DEF Arrived, Receiving, Receive, IInv, DoneInv, Fetching, Trying, Writing
  <2>3. QED
    BY <2>1, <2>2, ElsewhereHeld
       DEF Arrived, Receiving, Receive, cleaning, HeldInv, Performing, Fetching, Trying, Writing
<1>5. DoneInv'
  BY DEF Arrived, Receiving, Receive, IInv, DoneInv, Writing, Trying, Fetching
<1>6. (cleaner # {} => cleanings > 0)'
  BY <1>1 DEF IInv, cleaning
<1>7. QED BY <1>1, <1>2, <1>3, <1>4, <1>5, <1>6 DEF IInv

LEMMA CannotResumeKeeps == ASSUME IInv, CannotResume /\ UNCHANGED cleaning PROVE IInv'
<1>1. TypeOK'
  BY ConfAssumption
     DEF CannotResume, Receiving, Receive, Failure, Goto, Appended, cleaning, IInv,
         TypeOK, TryInv, FileStates, Stopped, Locations, Writing, Trying
<1>2. IsPlan(trxn')
  BY DEF CannotResume, IInv, Receive
<1>3. TryInv'
  BY DEF CannotResume, Receiving, Receive, Failure, Goto, IInv, TryInv, Writing, Trying
<1>4. HeldInv'
  <2>1. pc \in Trying /\ at \in DOMAIN Fetches(trxn)
    BY DEF CannotResume, Receiving, IInv, TypeOK, Trying, Writing
  <2>2. done' = <<>> /\ pc' \in Fetching \cup {"exit"}
    BY DEF CannotResume, Receiving, Receive, Failure, Goto, IInv, DoneInv, Fetching, Trying, Writing
  <2>3. CASE pc' = "exit"
    BY <2>2, <2>3 DEF HeldInv, Performing, Fetching, Trying, Writing
  <2>4. CASE pc' # "exit"
    BY <2>1, <2>2, <2>4, ElsewhereHeld
       DEF CannotResume, Receiving, Receive, Failure, Goto, cleaning, HeldInv, Performing, Fetching, Trying, Writing
  <2>5. QED BY <2>3, <2>4
<1>5. DoneInv'
  BY DEF CannotResume, Receiving, Receive, Failure, Goto, IInv, DoneInv, Writing,
         Trying, Fetching
<1>6. (cleaner # {} => cleanings > 0)'
  BY <1>1 DEF IInv, cleaning
<1>7. QED BY <1>1, <1>2, <1>3, <1>4, <1>5, <1>6 DEF IInv

LEMMA TransferFailsKeeps == ASSUME IInv, TransferFails /\ UNCHANGED cleaning PROVE IInv'
<1>1. TypeOK'
  <2>1. /\ Current \in Pkg /\ file[Current] \in FileStates
        /\ \E f \in FileStates : file' = [file EXCEPT ![Current] = f]
    BY PlanFacts, AppendedIsState
       DEF TransferFails, IInv, TypeOK, Receiving, Receive, Current
  <2>2. file' \in [Pkg -> FileStates]
    BY <2>1 DEF IInv, TypeOK
  <2>3. QED
    BY <2>2, ConfAssumption
       DEF TransferFails, cleaning, Receiving, Receive, Failure, IInv, TypeOK, TryInv,
           Locations, Trying, Writing
<1>2. IsPlan(trxn')
  BY DEF TransferFails, IInv, Receive
<1>3. TryInv'
  BY DEF TransferFails, Failure, TryInv, Writing, Trying
<1>4. HeldInv'
  <2>1. pc \in Trying \cup {"fetch"} /\ at \in DOMAIN Fetches(trxn)
    BY DEF TransferFails, Receiving, Receive, Failure, IInv, TypeOK, Trying, Writing
  <2>2. done' = <<>> /\ pc' \in Fetching
    BY DEF TransferFails, Receiving, Receive, Failure, IInv, DoneInv, Fetching, Trying, Writing
  <2>3. QED
    BY <2>1, <2>2, ElsewhereHeld
       DEF TransferFails, Receiving, Receive, Failure, cleaning, HeldInv, Performing, Fetching, Trying, Writing
<1>5. DoneInv'
  BY DEF TransferFails, Receiving, Receive, Failure, IInv, DoneInv, Writing, Trying,
         Fetching
<1>6. (cleaner # {} => cleanings > 0)'
  BY <1>1 DEF IInv, cleaning
<1>7. QED BY <1>1, <1>2, <1>3, <1>4, <1>5, <1>6 DEF IInv

LEMMA CheckKeeps == ASSUME IInv, Check /\ UNCHANGED cleaning PROVE IInv'
<1>1. TypeOK'
  BY ConfAssumption
     DEF Check, Success, Failure, cleaning, IInv, TypeOK, TryInv, Locations, Trying
<1>2. IsPlan(trxn')
  BY DEF Check, IInv
<1>3. TryInv'
  BY DEF Check, Success, Failure, TryInv, Writing, Trying
<1>4. HeldInv'
  BY PlanFacts
     DEF Check, Success, Failure, cleaning, IInv, TypeOK, TryInv, HeldInv, Held,
         Verified, Current, Trying, Fetching, Performing
<1>5. DoneInv'
  BY DEF Check, Success, Failure, IInv, DoneInv, Trying, Fetching
<1>6. (cleaner # {} => cleanings > 0)'
  BY <1>1 DEF IInv, cleaning
<1>7. QED BY <1>1, <1>2, <1>3, <1>4, <1>5, <1>6 DEF IInv

LEMMA GiveUpKeeps == ASSUME IInv, GiveUp /\ UNCHANGED cleaning PROVE IInv'
<1>1. TypeOK'
  BY DEF GiveUp, Goto, cleaning, IInv, TypeOK, Stopped
<1>2. IsPlan(trxn')
  BY DEF GiveUp, IInv
<1>3. TryInv'
  BY DEF GiveUp, Goto, TryInv, Writing, Trying
<1>4. HeldInv'
  BY DEF GiveUp, Goto, IInv, HeldInv, DoneInv, Fetching, Performing
<1>5. DoneInv'
  BY DEF GiveUp, Goto, DoneInv, Before, Writing, Trying, Fetching
<1>6. (cleaner # {} => cleanings > 0)'
  BY <1>1 DEF IInv, cleaning
<1>7. QED BY <1>1, <1>2, <1>3, <1>4, <1>5, <1>6 DEF IInv

LEMMA AllFetchedKeeps == ASSUME IInv, AllFetched /\ UNCHANGED cleaning PROVE IInv'
<1>1. TypeOK'
  BY ConfAssumption DEF AllFetched, Goto, cleaning, IInv, TypeOK, Stopped, Locations
<1>2. IsPlan(trxn')
  BY DEF AllFetched, IInv
<1>3. TryInv'
  BY DEF AllFetched, Goto, TryInv, Writing, Trying
<1>4. HeldInv'
  BY PlanFacts DEF AllFetched, Goto, cleaning, IInv, TypeOK, HeldInv, Held, Fetching
<1>5. DoneInv'
  BY DEF AllFetched, Goto, IInv, DoneInv, Fetching
<1>6. (cleaner # {} => cleanings > 0)'
  BY <1>1 DEF IInv, cleaning
<1>7. QED BY <1>1, <1>2, <1>3, <1>4, <1>5, <1>6 DEF IInv

LEMMA RemovePkgKeeps == ASSUME IInv, RemovePkg /\ UNCHANGED cleaning PROVE IInv'
<1>1. TypeOK'
  <2>1. RemoveOps(trxn)[at] \in OpType
    BY RemoveOpsAreOperations DEF RemovePkg, Tool, IInv
  <2>2. done' \in Seq(OpType)
    BY <2>1 DEF RemovePkg, Tool, IInv, TypeOK
  <2>3. QED
    BY <2>2 DEF RemovePkg, cleaning, Tool, IInv, TypeOK
<1>2. IsPlan(trxn')
  BY DEF RemovePkg, IInv, Tool
<1>3. TryInv'
  BY DEF RemovePkg, Tool, TryInv, Writing, Trying
<1>4. HeldInv'
  BY DEF RemovePkg, Tool, cleaning, IInv, HeldInv, Held, Writing, Trying, Fetching,
         Performing
<1>5. DoneInv'
  <2>1. Len(done') = Len(done) + 1 /\ Len(done) \in Nat /\ at \in Nat
    BY DEF RemovePkg, Tool
  <2>2. DOMAIN RemoveOps(trxn) = 1..Len(RemoveOps(trxn))
    OBVIOUS
  <2>3. QED
    BY <2>1, <2>2, RemoveOpsAreOperations
       DEF RemovePkg, Tool, IInv, DoneInv, Before, Fetching, Trying, Writing
<1>6. (cleaner # {} => cleanings > 0)'
  BY <1>1 DEF IInv, cleaning
<1>7. QED BY <1>1, <1>2, <1>3, <1>4, <1>5, <1>6 DEF IInv

LEMMA RemovesDoneKeeps == ASSUME IInv, RemovesDone /\ UNCHANGED cleaning PROVE IInv'
<1>1. TypeOK'
  BY ConfAssumption DEF RemovesDone, Goto, cleaning, IInv, TypeOK, Locations
<1>2. IsPlan(trxn')
  BY DEF RemovesDone, IInv
<1>3. TryInv'
  BY DEF RemovesDone, Goto, TryInv, Writing, Trying
<1>4. HeldInv'
  BY PlanFacts DEF RemovesDone, Goto, cleaning, IInv, HeldInv, Held, Performing
<1>5. DoneInv'
  BY DEF RemovesDone, Goto, IInv, DoneInv, Before, Writing, Trying, Fetching
<1>6. (cleaner # {} => cleanings > 0)'
  BY <1>1 DEF IInv, cleaning
<1>7. QED BY <1>1, <1>2, <1>3, <1>4, <1>5, <1>6 DEF IInv

LEMMA InstallPkgKeeps == ASSUME IInv, InstallPkg /\ UNCHANGED cleaning PROVE IInv'
<1>1. TypeOK'
  <2>1. QueueOps(trxn)[at] \in OpType
    BY QueueOpsAreOperations DEF InstallPkg, IInv
  <2>2. done' \in Seq(OpType)
    BY <2>1 DEF InstallPkg, Tool, IInv, TypeOK
  <2>3. QED
    BY <2>2 DEF InstallPkg, cleaning, Tool, IInv, TypeOK
<1>2. IsPlan(trxn')
  BY DEF InstallPkg, IInv, Tool
<1>3. TryInv'
  BY DEF InstallPkg, Tool, TryInv, Writing, Trying
<1>4. HeldInv'
  BY DEF InstallPkg, Tool, cleaning, IInv, HeldInv, Held, Writing, Trying, Fetching,
         Performing
<1>5. DoneInv'
  <2> DEFINE before == Len(trxn.remove)
  <2>1. /\ pc = "queue" /\ pc' = "queue" /\ at' = at + 1 /\ at \in Nat
        /\ trxn' = trxn /\ before \in Nat
        /\ Len(done') = Len(done) + 1 /\ Len(done) \in Nat
    BY DEF InstallPkg, Tool
  <2>2. Len(done) + 1 = before + at
    BY <2>1 DEF IInv, DoneInv
  <2>3. before' = before
    BY <2>1
  <2> HIDE DEF before
  <2>4. Len(done') + 1 = before + at'
    BY <2>1, <2>2
  <2>5. QED
    BY <2>1, <2>3, <2>4 DEF DoneInv, Before, Fetching, Trying, Writing, before
<1>6. (cleaner # {} => cleanings > 0)'
  BY <1>1 DEF IInv, cleaning
<1>7. QED BY <1>1, <1>2, <1>3, <1>4, <1>5, <1>6 DEF IInv

LEMMA ToolFailsKeeps == ASSUME IInv, ToolFails /\ UNCHANGED cleaning PROVE IInv'
<1>1. TypeOK'
  BY ConfAssumption DEF ToolFails, Goto, cleaning, IInv, TypeOK, Stopped
<1>2. IsPlan(trxn')
  BY DEF ToolFails, IInv
<1>3. TryInv'
  BY DEF ToolFails, Goto, TryInv, Writing, Trying
<1>4. HeldInv'
  BY PlanFacts DEF ToolFails, Goto, cleaning, IInv, HeldInv, Held, Performing
<1>5. DoneInv'
  BY DEF ToolFails, Goto, DoneInv, Before, Writing, Trying, Fetching
<1>6. (cleaner # {} => cleanings > 0)'
  BY <1>1 DEF IInv, cleaning
<1>7. QED BY <1>1, <1>2, <1>3, <1>4, <1>5, <1>6 DEF IInv

LEMMA QueueDoneKeeps == ASSUME IInv, QueueDone /\ UNCHANGED cleaning PROVE IInv'
<1>1. TypeOK'
  BY ConfAssumption DEF QueueDone, Goto, cleaning, IInv, TypeOK, Stopped
<1>2. IsPlan(trxn')
  BY DEF QueueDone, IInv
<1>3. TryInv'
  BY DEF QueueDone, Goto, TryInv, Writing, Trying
<1>4. HeldInv'
  BY PlanFacts DEF QueueDone, Goto, cleaning, IInv, HeldInv, Held, Performing
<1>5. DoneInv'
  BY DEF QueueDone, Goto, DoneInv, Before, Writing, Trying, Fetching
<1>6. (cleaner # {} => cleanings > 0)'
  BY <1>1 DEF IInv, cleaning
<1>7. QED BY <1>1, <1>2, <1>3, <1>4, <1>5, <1>6 DEF IInv

LEMMA KillKeeps == ASSUME IInv, Kill /\ UNCHANGED cleaning PROVE IInv'
<1>1. TypeOK'
  BY ConfAssumption
     DEF Kill, Goto, Receiving, Appended, cleaning, IInv, TypeOK, FileStates, Stopped
<1>2. IsPlan(trxn')
  BY DEF Kill, IInv
<1>3. TryInv'
  BY DEF Kill, Goto, TryInv, Writing, Trying
<1>4. HeldInv'
  BY DEF Kill, Goto, Receiving, cleaning, IInv, HeldInv, DoneInv, Held, Writing, Trying,
         Fetching, Performing
<1>5. DoneInv'
  BY DEF Kill, Goto, DoneInv, Before, Writing, Trying, Fetching
<1>6. (cleaner # {} => cleanings > 0)'
  BY <1>1 DEF IInv, cleaning
<1>7. QED BY <1>1, <1>2, <1>3, <1>4, <1>5, <1>6 DEF IInv

LEMMA CleaningKeeps == ASSUME IInv, Cleaning PROVE IInv'
<1>1. TypeOK'
  BY CleaningAssumption
     DEF Cleaning, Clean, Autoclean, CleaningBegins, Unlink, CleaningEnds, cleaning,
         IInv, TypeOK, FileStates, Stopped
<1>2. IsPlan(trxn')
  BY DEF Cleaning, IInv
<1>3. TryInv'
  BY PlanFacts
     DEF Cleaning, Clean, Autoclean, CleaningBegins, Unlink, CleaningEnds, IInv, TypeOK,
         TryInv, Verified, Current, Writing
<1>4. HeldInv'
  <2>1. cleanings' \in Nat /\ cleanings \in Nat /\ cleanings <= cleanings'
    BY <1>1
       DEF Cleaning, Clean, Autoclean, CleaningBegins, Unlink, CleaningEnds, cleaning,
           IInv, TypeOK
  <2>2. ASSUME NEW p \in Pkg, Held(p) PROVE Held(p)'
    <3>1. CASE UNCHANGED file
      BY <2>1, <2>2, <3>1 DEF Cleaning, Held
    <3>2. CASE Unlink
      BY <2>2, <3>2 DEF Cleaning, Unlink, cleaning, Held, IInv
    <3>3. QED BY <3>1, <3>2 DEF Cleaning, Clean, Autoclean, CleaningBegins, CleaningEnds
  <2>3. QED
    BY <2>2, PlanFacts DEF Cleaning, IInv, HeldInv
<1>5. DoneInv'
  BY DEF Cleaning, IInv, DoneInv
<1>6. (cleaner # {} => cleanings > 0)'
  BY <1>1
     DEF Cleaning, Clean, Autoclean, CleaningBegins, Unlink, CleaningEnds, cleaning,
         IInv, TypeOK
<1>7. QED BY <1>1, <1>2, <1>3, <1>4, <1>5, <1>6 DEF IInv

LEMMA InvariantHolds == Init => IInv
<1> SUFFICES ASSUME Init PROVE IInv
  OBVIOUS
<1>1. IsPlan(trxn)
  BY DEF Init, IsPlan, EmptyTrxn, PkgLists, UpgradeLists, Lists, QueuedLists, Once,
         Planned
<1>2. TypeOK
  BY ConfAssumption, CleaningAssumption DEF Init, TypeOK, FileStates, Stopped
<1>3. ToFetch(trxn) = {} /\ Fetches(trxn) \in Seq(Pkg)
  <2>1. \A l \in QueuedLists : DOMAIN trxn[l] = {}
    BY DEF Init, EmptyTrxn, QueuedLists
  <2>2. DOMAIN Fetches(trxn) = {}
    BY <1>1, <2>1, FetchesHaveOrigins DEF Origin
  <2>3. QED BY <1>1, <2>2 DEF ToFetch
<1>4. TryInv /\ HeldInv /\ DoneInv
  BY <1>3 DEF Init, TryInv, HeldInv, DoneInv, Writing, Trying
<1>5. QED BY <1>1, <1>2, <1>4 DEF Init, IInv

LEMMA InvariantKept == IInv /\ [Next]_vars => IInv'
<1> SUFFICES ASSUME IInv, [Next]_vars PROVE IInv'
  OBVIOUS
<1>1. CASE UNCHANGED vars
  BY <1>1 DEF vars, IInv, TypeOK, TryInv, HeldInv, DoneInv, Held, Verified, Current
<1>2. CASE (Begin \/ Kill) /\ UNCHANGED cleaning
  BY <1>2, BeginKeeps, KillKeeps
<1>3. CASE RunStep
  BY <1>3, ReportKeeps, PromptKeeps, AlreadyThereKeeps, MeasureKeeps, OpenKeeps,
     CannotWriteKeeps, ArrivedKeeps, CannotResumeKeeps, TransferFailsKeeps, CheckKeeps,
     GiveUpKeeps, AllFetchedKeeps, RemovePkgKeeps, RemovesDoneKeeps, InstallPkgKeeps,
     ToolFailsKeeps, QueueDoneKeeps
     DEF RunStep, Step
<1>4. CASE Cleaning
  BY <1>4, CleaningKeeps
<1>5. QED BY <1>1, <1>2, <1>3, <1>4 DEF Next

LEMMA Invariant == Spec => []IInv
BY InvariantHolds, InvariantKept, PTL DEF Spec

-----------------------------------------------------------------------------
(* The theorems. *)

\* The loops stay within their lists and the retry count within its limit.
THEOREM RunTypeOK == Spec => []TypeOK
<1>1. IInv => TypeOK
  BY DEF IInv
<1>2. QED BY <1>1, Invariant, PTL

\* FAQ #26: nothing is done before every package is there and verified, and
\* then only a cleaning can take one away; whatever was tried, failed, was
\* killed or cleaned away before.
THEOREM RunFetchedFirst == Spec => []FetchedFirst
<1>1. IInv => FetchedFirst
  BY DEF IInv, HeldInv, Held, FetchedFirst
<1>2. QED BY <1>1, Invariant, PTL

-----------------------------------------------------------------------------
(* What a step may do to a file. *)

\* But for a cleaning, only the file of the package that is fetched changes,
\* and only if it does not verify.
LEMMA FileChanges ==
  ASSUME IInv, RunStep \/ Kill
  PROVE  \/ UNCHANGED file
         \/ /\ ~Verified(Current)
            /\ \E f : file' = [file EXCEPT ![Current] = f]
<1>1. ASSUME Receiving PROVE ~Verified(Current)
  BY <1>1 DEF IInv, TryInv, Receiving, Writing
<1>2. CASE Measure
  BY <1>2 DEF Measure
<1>3. CASE Open
  BY <1>3 DEF Open, IInv, TryInv, Writing
<1>4. CASE Arrived \/ TransferFails
  BY <1>1, <1>4 DEF Arrived, TransferFails, Receive
<1>5. CASE CannotResume
  BY <1>1, <1>5 DEF CannotResume, Receive
<1>6. CASE Kill
  BY <1>1, <1>6 DEF Kill
<1>7. CASE \/ Report \/ Prompt \/ AlreadyThere \/ CannotWrite \/ Check \/ GiveUp
           \/ AllFetched \/ RemovePkg \/ RemovesDone \/ InstallPkg \/ ToolFails \/ QueueDone
  BY <1>7
     DEF Report, Prompt, AlreadyThere, CannotWrite, Check, GiveUp, AllFetched,
         RemovePkg, RemovesDone, InstallPkg, ToolFails, QueueDone, Tool
<1>8. QED BY <1>2, <1>3, <1>4, <1>5, <1>6, <1>7 DEF RunStep, Step

\* No invocation, retry or crash spoils a file that verifies; a cleaning
\* removes it as a whole.
THEOREM RunVerifiedStays == Spec => VerifiedStays
<1>1. ASSUME IInv, [Next]_vars, NEW p \in Pkg, p.md5, file[p] = "good"
      PROVE  file'[p] = "good" \/ (p \in cleaner /\ file'[p] = "none")
  <2>1. CASE UNCHANGED file
    BY <1>1, <2>1
  <2>2. CASE RunStep \/ Kill
    <3>1. CASE ~Verified(Current) /\ \E f : file' = [file EXCEPT ![Current] = f]
      <4>1. p # Current
        BY <1>1, <3>1 DEF Verified
      <4>2. QED BY <1>1, <3>1, <4>1
    <3>2. QED BY <1>1, <2>1, <2>2, <3>1, FileChanges
  <2>3. CASE Cleaning
    <3>1. CASE Unlink
      BY <1>1, <3>1 DEF Unlink
    <3>2. QED
      BY <2>1, <2>3, <3>1 DEF Cleaning, Clean, Autoclean, CleaningBegins, CleaningEnds
  <2>4. QED BY <1>1, <2>1, <2>2, <2>3 DEF Next, Begin, vars
<1>2. IInv /\ [Next]_vars
        => [\A p \in Pkg : p.md5 /\ file[p] = "good" =>
              file'[p] = "good" \/ (p \in cleaner /\ file'[p] = "none")]_vars
  BY <1>1
<1>3. QED BY <1>2, Invariant, PTL DEF Spec, VerifiedStays

-----------------------------------------------------------------------------
(* The run implements the promise. *)

\* What the promise needs is what is downloaded.
LEMMA NeededIsFetched ==
  ASSUME NEW t, IsPlan(t)
  PROVE  /\ Ops(t) \in Seq(OpType)
         /\ Len(Ops(t)) = Len(t.remove) + Len(t.queue)
         /\ \A i \in DOMAIN RemoveOps(t) : i \in DOMAIN Ops(t) /\ Ops(t)[i] = RemoveOps(t)[i]
         /\ \A k \in DOMAIN QueueOps(t) :
               /\ k + Len(t.remove) \in DOMAIN Ops(t)
               /\ Ops(t)[k + Len(t.remove)] = QueueOps(t)[k]
         /\ {Ops(t)[i].pkg : i \in {j \in DOMAIN Ops(t) : Ops(t)[j].op # "remove"}} = ToFetch(t)
<1> DEFINE a == RemoveOps(t)
           b == QueueOps(t)
<1>1. /\ a \in Seq(OpType) /\ Len(a) = Len(t.remove)
      /\ \A i \in DOMAIN a : a[i].op = "remove"
  BY RemoveOpsAreOperations
<1>2. /\ b \in Seq(OpType) /\ Len(b) = Len(t.queue)
      /\ \A k \in DOMAIN b : b[k].op # "remove" /\ b[k].pkg \in ToFetch(t)
      /\ \A p \in ToFetch(t) : \E k \in DOMAIN b : b[k].pkg = p
  BY QueueOpsAreOperations
<1>3. Ops(t) = a \o b
  BY DEF Ops
<1> HIDE DEF a, b
<1>4. /\ Ops(t) \in Seq(OpType)
      /\ Len(Ops(t)) = Len(a) + Len(b)
      /\ \A i \in DOMAIN a : i \in DOMAIN Ops(t) /\ Ops(t)[i] = a[i]
      /\ \A k \in DOMAIN b : k + Len(a) \in DOMAIN Ops(t) /\ Ops(t)[k + Len(a)] = b[k]
  <2>1. a \in Seq(OpType) /\ b \in Seq(OpType)
    BY <1>1, <1>2
  <2>2. QED BY <1>3, <2>1
<1>5. ASSUME NEW i \in DOMAIN Ops(t), Ops(t)[i].op # "remove"
      PROVE  Ops(t)[i].pkg \in ToFetch(t)
  <2>1. a \in Seq(OpType) /\ b \in Seq(OpType) /\ i \in DOMAIN (a \o b)
    BY <1>1, <1>2, <1>3
  <2>2. \/ i \in DOMAIN a /\ Ops(t)[i] = a[i]
        \/ \E k \in DOMAIN b : i = k + Len(a) /\ Ops(t)[i] = b[k]
    BY <1>3, <2>1
  <2>3. QED BY <1>1, <1>2, <1>5, <2>2
<1>6. ASSUME NEW p \in ToFetch(t)
      PROVE  \E i \in DOMAIN Ops(t) : Ops(t)[i].op # "remove" /\ Ops(t)[i].pkg = p
  BY <1>2, <1>4
<1>7. {Ops(t)[i].pkg : i \in {j \in DOMAIN Ops(t) : Ops(t)[j].op # "remove"}} = ToFetch(t)
  BY <1>5, <1>6
<1>8. QED BY <1>1, <1>2, <1>4, <1>7 DEF a, b

Good == {p \in Pkg : Verified(p)}

\* The four kinds of steps that keep the plan, in terms of the run.
LEMMA PromiseSteps ==
  ASSUME IsPlan(trxn), Ops(trxn') = Ops(trxn)
  PROVE  /\ Seen' = Seen /\ UNCHANGED done /\ (ToFetch(trxn) \subseteq Seen => Good' \subseteq Good)
              => Promise!Change
         /\ UNCHANGED done /\ Good' = Good /\ (\E p \in Good : Seen' = Seen \cup {p})
              => Promise!Verify
         /\ Seen' = {} /\ UNCHANGED done => Promise!Stop
         /\ Seen' = Seen /\ Good' = Good /\ ToFetch(trxn) \subseteq Seen
            /\ (\E i \in DOMAIN Ops(trxn) :
                   /\ i = Len(done) + 1
                   /\ Ops(trxn)[i].op # "remove" => Ops(trxn)[i].pkg \in Good
                   /\ done' = Append(done, Ops(trxn)[i]))
            /\ done \in Seq(OpType)
              => Promise!Perform
<1>1. Promise!Needed = ToFetch(trxn)
  BY NeededIsFetched DEF Promise!Needed
<1>2. \A i \in DOMAIN Ops(trxn) : i = Len(done) + 1 /\ done \in Seq(OpType)
         => Len(done) < Len(Ops(trxn))
  OBVIOUS
<1>3. Good' \in SUBSET Pkg
  BY DEF Good
<1>4. QED
  BY <1>1, <1>2, <1>3
     DEF Good, Promise!Change, Promise!Verify, Promise!Stop, Promise!Perform

\* The package that is fetched has not been seen.
LEMMA CurrentUnseen ==
  ASSUME IInv, pc \in Fetching, at \in DOMAIN Fetches(trxn)
  PROVE  Current \in Pkg /\ Current \in ToFetch(trxn) /\ Current \notin Seen
<1>1. Seen = {Fetches(trxn)[i] : i \in 1..(at - 1)}
  BY DEF Seen, Fetching, Trying, Writing
<1>2. \A i \in 1..(at - 1) : i \in DOMAIN Fetches(trxn) /\ i # at
  BY PlanFacts DEF IInv
<1>3. QED BY <1>1, <1>2, PlanFacts DEF Current, IInv

\* Getting on to the next package, having verified one.
LEMMA SuccessVerifies ==
  ASSUME IInv, pc \in Fetching, at \in DOMAIN Fetches(trxn), Verified(Current),
         Success, UNCHANGED <<trxn, conf, file, done>>
  PROVE  Promise!Verify
<1>1. Seen = {Fetches(trxn)[i] : i \in 1..(at - 1)}
  BY DEF Seen, Fetching, Trying, Writing
<1>2. Seen' = {Fetches(trxn)[i] : i \in 1..at}
  <2>1. pc' = "fetch" /\ trxn' = trxn /\ at' = at + 1 /\ at' - 1 = at
    BY DEF Success, IInv, TypeOK
  <2>2. QED BY <2>1 DEF Seen
<1>3. 1..at = (1..(at - 1)) \cup {at}
  BY DEF IInv, TypeOK
<1>4. Seen' = Seen \cup {Current}
  BY <1>1, <1>2, <1>3 DEF Current
<1>5. Current \in Good /\ Good' = Good
  BY CurrentUnseen DEF Good, Verified
<1>6. QED BY <1>4, <1>5, PromiseSteps DEF IInv

\* Whatever happens to the file of the package that is fetched.
LEMMA FetchingChanges ==
  ASSUME IInv, pc \in Fetching, at \in DOMAIN Fetches(trxn),
         pc' \in Fetching, UNCHANGED <<trxn, at, done>>
  PROVE  Promise!Change
<1>1. Seen' = Seen
  BY DEF Seen, Fetching, Trying, Writing
<1>2. ~(ToFetch(trxn) \subseteq Seen)
  BY CurrentUnseen
<1>3. QED BY <1>1, <1>2, PromiseSteps DEF IInv

\* Wherever it ends.
LEMMA EndingStops ==
  ASSUME IInv, pc' \in Stopped, Ops(trxn') = Ops(trxn), UNCHANGED done
  PROVE  Promise!Stop
<1>1. Seen' = {}
  BY DEF Seen, Stopped
<1>2. QED BY <1>1, PromiseSteps DEF IInv

LEMMA BeginBegins == ASSUME Begin PROVE Promise!Begin
<1>1. Ops(trxn') \in Seq(OpType)
  BY PlanAssumption, NeededIsFetched DEF Begin
<1>2. Seen' = {}
  BY DEF Begin, Seen
<1>3. QED BY <1>1, <1>2 DEF Begin, Promise!Begin, Promise!Operation, OpType

LEMMA CleaningChanges == ASSUME IInv, Cleaning PROVE Promise!Change
<1>1. Seen' = Seen
  BY DEF Cleaning, Seen
<1>2. Good' \subseteq Good
  <2>1. CASE UNCHANGED file
    BY <2>1 DEF Cleaning, Good, Verified
  <2>2. CASE Unlink
    BY <2>2 DEF Cleaning, Unlink, Good, Verified
  <2>3. QED BY <2>1, <2>2 DEF Cleaning, Clean, Autoclean, CleaningBegins, CleaningEnds
<1>3. QED BY <1>1, <1>2, PromiseSteps DEF Cleaning, IInv

LEMMA RemovePkgPerforms == ASSUME IInv, RemovePkg PROVE Promise!Perform
<1>1. Seen' = Seen /\ Seen = ToFetch(trxn)
  BY DEF RemovePkg, Tool, Seen
<1>2. Good' = Good
  BY DEF RemovePkg, Tool, Good, Verified
<1>3. /\ at \in DOMAIN Ops(trxn) /\ Ops(trxn)[at] = RemoveOps(trxn)[at]
      /\ Ops(trxn)[at].op = "remove"
  <2>1. at \in DOMAIN RemoveOps(trxn) /\ IsPlan(trxn)
    BY DEF RemovePkg, Tool, IInv
  <2>2. RemoveOps(trxn)[at].op = "remove"
    BY <2>1, RemoveOpsAreOperations
  <2>3. at \in DOMAIN Ops(trxn) /\ Ops(trxn)[at] = RemoveOps(trxn)[at]
    BY <2>1, NeededIsFetched
  <2>4. QED BY <2>2, <2>3
<1>4. at = Len(done) + 1
  BY DEF RemovePkg, IInv, DoneInv
<1>5. QED BY <1>1, <1>2, <1>3, <1>4, PromiseSteps DEF RemovePkg, Tool, IInv, TypeOK

LEMMA InstallPkgPerforms == ASSUME IInv, InstallPkg PROVE Promise!Perform
<1> DEFINE i == at + Len(trxn.remove)
<1>1. Seen' = Seen /\ Seen = ToFetch(trxn)
  BY DEF InstallPkg, Tool, Seen
<1>2. Good' = Good
  BY DEF InstallPkg, Tool, Good, Verified
<1>3. i \in DOMAIN Ops(trxn) /\ Ops(trxn)[i] = QueueOps(trxn)[at]
  BY NeededIsFetched DEF InstallPkg, Tool, IInv
<1>4. Ops(trxn)[i].pkg \in Good
  <2>1. QueueOps(trxn)[at].pkg \in ToFetch(trxn) /\ file[QueueOps(trxn)[at].pkg] # "none"
    BY QueueOpsAreOperations DEF InstallPkg, IInv
  <2>2. Held(QueueOps(trxn)[at].pkg)
    BY <2>1 DEF InstallPkg, IInv, HeldInv, Performing
  <2>3. QueueOps(trxn)[at].pkg \in Pkg
    BY <2>1, PlanFacts DEF IInv
  <2>4. QED BY <1>3, <2>1, <2>2, <2>3 DEF Held, Good, Verified
<1>5. i = Len(done) + 1
  <2>1. Len(trxn.remove) \in Nat /\ at \in Nat
    BY DEF IInv, TypeOK
  <2>2. Len(done) + 1 = Len(trxn.remove) + at
    BY DEF InstallPkg, IInv, DoneInv
  <2>3. QED BY <2>1, <2>2
<1> HIDE DEF i
<1>6. QED
  BY <1>1, <1>2, <1>3, <1>4, <1>5, PromiseSteps DEF InstallPkg, Tool, IInv, TypeOK

LEMMA StepsKeepPromise ==
  ASSUME IInv, [Next]_vars
  PROVE  [Promise!Next]_<<Ops(trxn), done, Seen, {p \in Pkg : Verified(p)}>>
<1> DEFINE Stutter == UNCHANGED <<Ops(trxn), done, Seen, {p \in Pkg : Verified(p)}>>
<1> SUFFICES Promise!Next \/ Stutter
  OBVIOUS
<1>1. CASE UNCHANGED vars
  BY <1>1 DEF vars, Seen, Verified
<1>2. CASE Begin
  BY <1>2, BeginBegins DEF Promise!Next
<1>3. CASE Kill
  <2>1. Promise!Stop
    BY <1>3, EndingStops DEF Kill, Goto, Stopped
  <2>2. QED BY <2>1 DEF Promise!Next
<1>4. CASE Cleaning
  BY <1>4, CleaningChanges DEF Promise!Next
<1>5. CASE Report
  <2>1. Ops(trxn') = Ops(trxn)
    BY <1>5, SuggestKeepsPlan DEF Report, Ops, IInv
  <2>2. QED BY <1>5, <2>1 DEF Report, Goto, Seen, Verified
<1>6. CASE Prompt
  <2>1. pc' \in {"returned", "aborted"} \/ (pc' = "fetch" /\ at' = 1)
    BY <1>6 DEF Prompt, Goto
  <2>2. Seen = {} /\ Seen' = {}
    BY <1>6, <2>1 DEF Prompt, Seen
  <2>3. QED BY <1>6, <2>2 DEF Prompt, Verified
<1>7. CASE AlreadyThere
  <2>1. Promise!Verify
    BY <1>7, SuccessVerifies DEF AlreadyThere, Attempting, Fetching, Trying
  <2>2. QED BY <2>1 DEF Promise!Next
<1>8. CASE Measure \/ Open
  <2>1. Promise!Change
    BY <1>8, FetchingChanges
       DEF Measure, Open, Attempting, IInv, TypeOK, Fetching, Trying, Writing
  <2>2. QED BY <2>1 DEF Promise!Next
<1>9. CASE CannotWrite \/ GiveUp \/ ToolFails \/ QueueDone
  <2>1. Promise!Stop
    BY <1>9, EndingStops DEF CannotWrite, GiveUp, ToolFails, QueueDone, Goto, Stopped
  <2>2. QED BY <2>1 DEF Promise!Next
<1>10. CASE Arrived \/ CannotResume \/ TransferFails
  <2>1. CASE pc' = "exit"
    <3>1. Promise!Stop
      BY <1>10, <2>1, EndingStops
         DEF Arrived, CannotResume, TransferFails, Receive, Stopped
    <3>2. QED BY <3>1 DEF Promise!Next
  <2>2. CASE pc' # "exit"
    <3>1. Promise!Change
      BY <1>10, <2>2, FetchingChanges
         DEF Arrived, CannotResume, TransferFails, Receive, Receiving, Failure, Goto,
             IInv, TypeOK, Fetching, Trying, Writing
    <3>2. QED BY <3>1 DEF Promise!Next
  <2>3. QED BY <2>1, <2>2
<1>11. CASE Check
  <2>1. pc \in Fetching /\ at \in DOMAIN Fetches(trxn)
    BY <1>11 DEF Check, Fetching, Trying, IInv, TypeOK
  <2>2. CASE Verified(Current)
    <3>1. Promise!Verify
      BY <1>11, <2>1, <2>2, SuccessVerifies DEF Check
    <3>2. QED BY <3>1 DEF Promise!Next
  <2>3. CASE ~Verified(Current)
    <3>1. Promise!Change
      BY <1>11, <2>1, <2>3, FetchingChanges DEF Check, Failure, Fetching
    <3>2. QED BY <3>1 DEF Promise!Next
  <2>4. QED BY <2>2, <2>3
<1>12. CASE AllFetched
  <2>1. CASE pc' = "returned"
    <3>1. Promise!Stop
      BY <1>12, <2>1, EndingStops DEF AllFetched, Stopped
    <3>2. QED BY <3>1 DEF Promise!Next
  <2>2. CASE pc' = "remove"
    <3>1. at - 1 = Len(Fetches(trxn)) /\ DOMAIN Fetches(trxn) = 1..(at - 1)
      BY <1>12 DEF AllFetched, IInv, TypeOK, HeldInv, Fetching
    <3>2. Seen' = Seen
      BY <1>12, <2>2, <3>1 DEF AllFetched, Seen, ToFetch
    <3>3. QED BY <1>12, <3>2 DEF AllFetched, Verified
  <2>3. QED BY <1>12, <2>1, <2>2 DEF AllFetched, Goto
<1>13. CASE RemovePkg \/ InstallPkg
  BY <1>13, RemovePkgPerforms, InstallPkgPerforms DEF Promise!Next
<1>14. CASE RemovesDone
  BY <1>14 DEF RemovesDone, Goto, Seen, Verified
<1>15. QED
  BY <1>1, <1>2, <1>3, <1>4, <1>5, <1>6, <1>7, <1>8, <1>9, <1>10, <1>11, <1>12, <1>13, <1>14
     DEF Next, RunStep, Step

\* FAQ #26 as a whole: the run implements TransactionPromise.
THEOREM RunKeepsPromise == Spec => KeepsPromise
<1>1. Init => Promise!Init
  <2>1. ASSUME Init PROVE Ops(trxn) = <<>>
    BY <2>1 DEF Init, EmptyTrxn, Ops, RemoveOps, QueueOps
  <2>2. QED BY <2>1 DEF Init, Promise!Init, Seen
<1>2. QED
  BY <1>1, StepsKeepPromise, Invariant, PTL DEF Spec, KeepsPromise, Promise!Spec
=============================================================================
