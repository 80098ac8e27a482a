---------------------------- MODULE PlannerProofs ----------------------------
(***************************************************************************)
(* Proofs about the plan an invocation makes, whatever package lists it    *)
(* has read, with whatever options, and however the essential packages and *)
(* the base set are chosen.                                                *)
(*                                                                         *)
(* Sound and Complete are what every pass keeps true of the transaction;   *)
(* the rest of the invariant says how far the loop that runs has come.     *)
(***************************************************************************)
EXTENDS Planner, ResolverProofs

-----------------------------------------------------------------------------
(* What a pass keeps true of the transaction.  v stands for w.             *)

PackagesOf(v) == Range(v.installed) \cup Range(v.avail)
PairsOf(v) == [installed : Range(v.installed), upgrade : Range(v.avail)]
Pointer == [list : QueuedLists, index : Nat]

TrxnType(v) ==
  [install : Seq(Range(v.avail)), upgrade : Seq(PairsOf(v)),
   reinstall : Seq(PairsOf(v)), remove : Seq(PackagesOf(v)),
   exclude : Seq(PackagesOf(v)), queue : Seq(Pointer),
   suggests : SUBSET STRING, missing_err : Seq(Note), conflict_err : Seq(Note)]

\* The packages to be installed.
Members(t) ==
  UNION {{Member(t, l, i) : i \in DOMAIN t[l]} : l \in QueuedLists}

\* The package the k-th item of the queue points to.
Due(t, k) == Member(t, t.queue[k].list, t.queue[k].index)

\* The queue points to the members of the queued lists, and to all of them.
Pointed(t) ==
  /\ \A k \in DOMAIN t.queue : t.queue[k].index \in DOMAIN t[t.queue[k].list]
  /\ \A l \in QueuedLists : \A i \in DOMAIN t[l] :
        \E k \in DOMAIN t.queue : t.queue[k] = [list |-> l, index |-> i]

ForcedBy(v) ==
  IF v.cmd = "upgrade" /\ v.conf.dist_upgrade
  THEN {SlaptGet} \cup {Essentials[i].name : i \in DOMAIN Essentials} ELSE {}

\* May be planned to be installed, or to replace inst.
Allowed(v, p) ==
  ~v.conf.ignore_dep /\ IsExcluded(v, p) => p.name \in ForcedBy(v)

GoesForward(v, inst, p) ==
  ~v.conf.re_install =>
    /\ inst.name = p.name
    /\ \A q \in Range(v.installed) : q.name = p.name => Cmp(q, inst) <= 0
    /\ \/ Cmp(inst, p) < 0
       \/ v.conf.dist_upgrade /\ Cmp(inst, p) = 0

Sound(v, t) ==
  /\ t \in TrxnType(v)
  /\ Pointed(t)
  /\ \A p \in Members(t) : Allowed(v, p)
  /\ \A pair \in Range(t.upgrade) : GoesForward(v, pair.installed, pair.upgrade)

\* Nothing is left out or removed, and dependencies count.
Whole(v, t) ==
  /\ t.exclude = <<>> /\ t.remove = <<>>
  /\ ~v.conf.ignore_dep /\ ~v.conf.disable_dep_check

Here(v, t, name) == \E x \in Range(v.installed) \cup Members(t) : x.name = name
Provided(v, t, p) ==
  \A k \in DOMAIN p.depends : \E i \in DOMAIN p.depends[k] :
     Here(v, t, p.depends[k][i].name)

Complete(v, t) ==
  Whole(v, t) => \A p \in Members(t) : p.name \in ForcedBy(v) \/ Provided(v, t, p)

-----------------------------------------------------------------------------
(* The inductive invariant.                                                *)

\* --upgrade: the updates seen to.
SeenTo(v, t, p) ==
  LET update == Newest(v.avail, p.name)
  IN  Newest(v.installed, p.name) = <<p>> /\ update # <<>>
        /\ Cmp(p, update[1]) < 0
        => SearchByPkg(t, update[1])

UpdateInv ==
  w.cmd = "upgrade" =>
    /\ pc = "upgrade" =>
         \A p \in Range(w.installed) : p \in Range(todo) \/ SeenTo(w, trxn, p)
    /\ pc = "run" => \A p \in Range(w.installed) : SeenTo(w, trxn, p)

\* --remove: what requires q goes as well.
Covered(v, t, q) ==
  \A p \in Range(v.avail) :
    Sole(v, p) /\ Needs(v, p, q) /\ IsExactlyInstalled(v, p) => SearchByPkg(t, p)

RemoveInv ==
  w.cmd = "remove" =>
    /\ Members(trxn) = {}
    /\ ~w.conf.disable_dep_check =>
         /\ pc = "remove" => Range(trxn.remove) \subseteq Range(Scheduled)
         /\ pc = "dependents" =>
              \A q \in Range(trxn.remove) : q \in Range(todo) \/ Covered(w, trxn, q)
         /\ pc = "obsolete" =>
              /\ \A q \in Range(trxn.remove) :
                    q \in Range(Items("obsolete")) \/ Covered(w, trxn, q)
              /\ \A x \in Range(Items("obsolete")) :
                    x \in Range(todo) \/ SearchByPkg(trxn, x)
         /\ pc = "run" => \A q \in Range(trxn.remove) : Covered(w, trxn, q)

\* --dist-upgrade: the essential packages lead the queue.
EssentialDone(v, t, e) ==
  LET inst == Newest(v.installed, e.name)
      avail == Newest(v.avail, e.name)
  IN  /\ avail # <<>>
      /\ IF inst = <<>> THEN ~e.upgrade_only ELSE Cmp(inst[1], avail[1]) < 0
      => SearchByPkg(t, avail[1])

Lead(E, t) ==
  /\ \A p \in E : SearchByPkg(t, p)
  /\ \A j, k \in DOMAIN t.queue :
      j < k /\ Due(t, k) \in E => Due(t, j) \in E

EssentialInv ==
  w.cmd = "upgrade" /\ w.conf.dist_upgrade =>
    /\ pc = "essentials" =>
         /\ Members(trxn) \subseteq EssentialPkgs
         /\ \A e \in Range(Essentials) : e \in Range(todo) \/ EssentialDone(w, trxn, e)
    /\ pc \in {"base", "obsolete", "slapt-get", "upgrade", "run"} =>
         Lead(EssentialPkgs, trxn)

LoopInv ==
  /\ pc \in Range(Loops) \cup {"read", "run", "exit"}
  /\ pc = "read" => trxn = EmptyTrxn
  /\ pc \in Range(Loops) => todo \in Seq(Range(Items(pc)))

IInv ==
  /\ w \in Worlds
  /\ Sound(w, trxn)
  /\ Complete(w, trxn)
  /\ LoopInv
  /\ UpdateInv
  /\ RemoveInv
  /\ EssentialInv

-----------------------------------------------------------------------------
(* Operations that add to a transaction.                                   *)

\* From t to u every list and the queue only grow, the queue by packages
\* that t had nowhere.
Grows(t, u) ==
  /\ \A l \in Lists : \A i \in DOMAIN t[l] : i \in DOMAIN u[l] /\ u[l][i] = t[l][i]
  /\ \A k \in DOMAIN t.queue : k \in DOMAIN u.queue /\ u.queue[k] = t.queue[k]
  /\ \A k \in DOMAIN u.queue \ DOMAIN t.queue : ~SearchByPkg(t, Due(u, k))

LEMMA ListTypes ==
  ASSUME NEW v, NEW t \in TrxnType(v)
  PROVE  /\ t.remove \in Seq(PackagesOf(v)) /\ t.exclude \in Seq(PackagesOf(v))
         /\ t.install \in Seq(Range(v.avail))
         /\ t.upgrade \in Seq(PairsOf(v)) /\ t.reinstall \in Seq(PairsOf(v))
         /\ t.queue \in Seq(Pointer)
         /\ \A l \in Lists : t[l] \in Seq(PackagesOf(v) \cup PairsOf(v))
BY DEF TrxnType, Lists, PkgLists, UpgradeLists, PackagesOf

LEMMA MembersType ==
  ASSUME NEW v, NEW t \in TrxnType(v)
  PROVE  Members(t) \subseteq Range(v.avail)
<1>1. \A l \in QueuedLists : \A i \in DOMAIN t[l] : Member(t, l, i) \in Range(v.avail)
  <2> TAKE l \in QueuedLists
  <2> TAKE i \in DOMAIN t[l]
  <2>1. CASE l = "install"
    <3>1. t[l] \in Seq(Range(v.avail)) /\ l \notin UpgradeLists
      BY <2>1, ListTypes DEF UpgradeLists
    <3>2. t[l][i] \in Range(v.avail)
      BY <3>1
    <3>3. QED BY <3>1, <3>2 DEF Member
  <2>2. CASE l \in UpgradeLists
    <3>1. t[l] \in Seq(PairsOf(v))
      BY <2>2, ListTypes DEF UpgradeLists
    <3>2. t[l][i] \in PairsOf(v)
      BY <3>1
    <3>3. QED BY <2>2, <3>2 DEF Member, PairsOf
  <2>3. QED BY <2>1, <2>2 DEF QueuedLists, UpgradeLists
<1>2. QED BY <1>1 DEF Members

LEMMA MembersGrow ==
  ASSUME NEW t, NEW u, Grows(t, u)
  PROVE  /\ Members(t) \subseteq Members(u)
         /\ Range(t.remove) \subseteq Range(u.remove)
         /\ Range(t.exclude) \subseteq Range(u.exclude)
         /\ \A p : SearchByPkg(t, p) => SearchByPkg(u, p)
<1>1. \A l \in Lists : \A i \in DOMAIN t[l] :
         i \in DOMAIN u[l] /\ u[l][i] = t[l][i] /\ Member(u, l, i) = Member(t, l, i)
  BY DEF Grows, Member
<1>2. QueuedLists \subseteq Lists /\ "remove" \in Lists /\ "exclude" \in Lists
  BY DEF QueuedLists, Lists, PkgLists, UpgradeLists
<1>3. Members(t) \subseteq Members(u)
  BY <1>1, <1>2 DEF Members
<1>4. Range(t.remove) \subseteq Range(u.remove) /\ Range(t.exclude) \subseteq Range(u.exclude)
  BY <1>1, <1>2 DEF Range
<1>5. \A p : SearchByPkg(t, p) => SearchByPkg(u, p)
  BY <1>1 DEF SearchByPkg
<1>6. QED BY <1>3, <1>4, <1>5

LEMMA DueStays ==
  ASSUME NEW v, NEW u, Sound(v, u), NEW k \in DOMAIN u.queue
  PROVE  /\ Due(u, k) \in Members(u)
         /\ \A x : Grows(u, x) => Due(x, k) = Due(u, k)
<1>1. u.queue[k] \in Pointer
  <2>1. u \in TrxnType(v)
    BY DEF Sound
  <2>2. u.queue \in Seq(Pointer)
    BY <2>1, ListTypes
  <2>3. QED BY <2>2
<1>2. /\ u.queue[k].list \in Lists /\ u.queue[k].list \in QueuedLists
      /\ u.queue[k].index \in DOMAIN u[u.queue[k].list]
  BY <1>1 DEF Sound, Pointed, Pointer, QueuedLists, Lists, PkgLists, UpgradeLists
<1>3. Due(u, k) \in Members(u)
  BY <1>2 DEF Due, Members
<1>4. ASSUME NEW x, Grows(u, x)
      PROVE  Due(x, k) = Due(u, k)
  BY <1>2, <1>4 DEF Due, Member, Grows
<1>5. QED BY <1>3, <1>4

LEMMA GrowsFurther ==
  ASSUME NEW v, NEW t, NEW u, NEW x, Sound(v, u), Grows(t, u), Grows(u, x)
  PROVE  Grows(t, x)
<1>1. \A k \in DOMAIN u.queue : Due(x, k) = Due(u, k)
  BY DueStays
<1>2. ASSUME NEW k \in DOMAIN x.queue \ DOMAIN t.queue
      PROVE  ~SearchByPkg(t, Due(x, k))
  <2>1. CASE k \in DOMAIN u.queue
    BY <1>1, <1>2, <2>1 DEF Grows
  <2>2. CASE k \notin DOMAIN u.queue
    <3>1. ~SearchByPkg(u, Due(x, k))
      BY <1>2, <2>2 DEF Grows
    <3>2. QED BY <3>1, MembersGrow
  <2>3. QED BY <2>1, <2>2
<1>3. QED BY <1>2 DEF Grows

LEMMA GrowsNot ==
  ASSUME NEW t
  PROVE  Grows(t, t)
BY DEF Grows

\* u is t with one item at the end of list l, and queued if l is a queued list.
Grown(t, u, l, item) ==
  /\ u[l] = Append(t[l], item)
  /\ \A m \in Lists \ {l} : u[m] = t[m]
  /\ u.queue = IF l \in QueuedLists
               THEN Append(t.queue, [list |-> l, index |-> Len(t[l]) + 1])
               ELSE t.queue

\* The package a list is searched by.
Subject(l, item) == IF l \in UpgradeLists THEN item.upgrade ELSE item

LEMMA GrownBy ==
  ASSUME NEW v, NEW t \in TrxnType(v), Pointed(t), NEW u, NEW l \in Lists, NEW item,
         Grown(t, u, l, item), ~SearchByPkg(t, Subject(l, item))
  PROVE  /\ Grows(t, u) /\ SearchByPkg(u, Subject(l, item)) /\ Pointed(u)
         /\ Members(u) = IF l \in QueuedLists THEN Members(t) \cup {Subject(l, item)}
                         ELSE Members(t)
<1> DEFINE last == Len(t[l]) + 1
           ptr == [list |-> l, index |-> last]
           p == Subject(l, item)
<1> USE DEF Grown
<1>0. ~SearchByPkg(t, p) /\ p = IF l \in UpgradeLists THEN item.upgrade ELSE item
  BY DEF Subject
<1> HIDE DEF p
<1>1. /\ \A m \in Lists : t[m] \in Seq(PackagesOf(v) \cup PairsOf(v))
      /\ t.queue \in Seq(Pointer)
  BY ListTypes
<1>2. \A m \in Lists : \A i \in DOMAIN t[m] : i \in DOMAIN u[m] /\ u[m][i] = t[m][i]
  <2>1. \A i \in DOMAIN t[l] : i \in DOMAIN u[l] /\ u[l][i] = t[l][i]
    BY <1>1
  <2>2. QED BY <2>1
<1>3. last \in DOMAIN u[l] /\ u[l][last] = item
  BY <1>1
<1>4. \A m \in Lists : \A i \in DOMAIN u[m] :
         i \in DOMAIN t[m] \/ (m = l /\ i = last)
  <2>1. \A i \in DOMAIN u[l] : i \in DOMAIN t[l] \/ i = last
    BY <1>1
  <2>2. QED BY <2>1
<1>5. Member(u, l, last) = p
  BY <1>0, <1>3 DEF Member
<1>6. \A m \in Lists : \A i \in DOMAIN t[m] : Member(u, m, i) = Member(t, m, i)
  BY <1>2 DEF Member
<1>7. /\ \A k \in DOMAIN t.queue : k \in DOMAIN u.queue /\ u.queue[k] = t.queue[k]
      /\ \A k \in DOMAIN u.queue \ DOMAIN t.queue : l \in QueuedLists /\ u.queue[k] = ptr
      /\ l \in QueuedLists => \E k \in DOMAIN u.queue : u.queue[k] = ptr
  <2>1. CASE l \in QueuedLists
    <3>1. u.queue = Append(t.queue, ptr)
      BY <2>1
    <3>2. Len(t.queue) + 1 \in DOMAIN u.queue /\ u.queue[Len(t.queue) + 1] = ptr
      BY <1>1, <3>1
    <3>3. QED BY <1>1, <3>1, <3>2, <2>1
  <2>2. CASE l \notin QueuedLists
    BY <2>2
  <2>3. QED BY <2>1, <2>2
<1> HIDE DEF last
<1>8. QueuedLists \subseteq Lists
  BY DEF QueuedLists, Lists, PkgLists, UpgradeLists
<1>9. Grows(t, u)
  <2>1. \A k \in DOMAIN u.queue \ DOMAIN t.queue : Due(u, k) = p
    BY <1>5, <1>7 DEF Due
  <2>2. QED BY <1>0, <1>2, <1>7, <2>1 DEF Grows
<1>10. SearchByPkg(u, p)
  BY <1>3, <1>5 DEF SearchByPkg, SamePkg
<1>11. Pointed(u)
  <2>1. \A k \in DOMAIN u.queue : u.queue[k].index \in DOMAIN u[u.queue[k].list]
    <3> TAKE k \in DOMAIN u.queue
    <3>1. CASE k \in DOMAIN t.queue
      <4>1. t.queue[k] \in Pointer
        BY <1>1, <3>1
      <4>2. QED BY <1>2, <1>7, <1>8, <3>1, <4>1 DEF Pointed, Pointer
    <3>2. CASE k \notin DOMAIN t.queue
      <4>1. u.queue[k] = ptr
        BY <1>7, <3>2
      <4>2. u.queue[k].index = last /\ u.queue[k].list = l
        BY <4>1
      <4>3. QED BY <1>3, <4>2
    <3>3. QED BY <3>1, <3>2
  <2>2. \A m \in QueuedLists : \A i \in DOMAIN u[m] :
           \E k \in DOMAIN u.queue : u.queue[k] = [list |-> m, index |-> i]
    <3> TAKE m \in QueuedLists
    <3> TAKE i \in DOMAIN u[m]
    <3>1. CASE i \in DOMAIN t[m]
      BY <1>7, <3>1 DEF Pointed
    <3>2. CASE m = l /\ i = last
      BY <1>7, <3>2
    <3>3. QED BY <1>4, <1>8, <3>1, <3>2
  <2>3. QED BY <2>1, <2>2 DEF Pointed
<1>12. Members(u) = IF l \in QueuedLists THEN Members(t) \cup {p} ELSE Members(t)
  <2>1. \A x : x \in Members(u) <=>
          \E m \in QueuedLists : \E i \in DOMAIN u[m] : x = Member(u, m, i)
    BY DEF Members
  <2>2. \A x : x \in Members(t) <=>
          \E m \in QueuedLists : \E i \in DOMAIN t[m] : x = Member(t, m, i)
    BY DEF Members
  <2>3. \A x \in Members(u) : x \in Members(t) \/ (l \in QueuedLists /\ x = p)
    <3> TAKE x \in Members(u)
    <3>4. PICK m \in QueuedLists : \E i \in DOMAIN u[m] : x = Member(u, m, i)
      BY <2>1
    <3>1. PICK i \in DOMAIN u[m] : x = Member(u, m, i)
      BY <3>4
    <3>2. CASE i \in DOMAIN t[m]
      <4>1. x = Member(t, m, i)
        BY <1>6, <1>8, <3>1, <3>2
      <4>2. QED BY <2>2, <3>2, <4>1
    <3>3. CASE m = l /\ i = last
      BY <1>5, <3>1, <3>3
    <3>5. QED BY <1>4, <1>8, <3>2, <3>3
  <2>4. \A x \in Members(t) : x \in Members(u)
    BY <1>2, <1>6, <1>8, <2>1, <2>2
  <2>5. l \in QueuedLists => p \in Members(u)
    BY <1>3, <1>5, <2>1
  <2>6. QED BY <2>3, <2>4, <2>5
<1>13. QED BY <1>9, <1>10, <1>11, <1>12 DEF p

\* From t to u packages of D may have been added to be installed.
Adds(v, t, u, D) ==
  Sound(v, u) /\ Grows(t, u) /\ Members(u) \subseteq Members(t) \cup D

LEMMA AddRemoveAdds ==
  ASSUME NEW v, NEW t, Sound(v, t), NEW p \in PackagesOf(v)
  PROVE  LET u == AddRemove(t, p)
         IN  /\ Adds(v, t, u, {}) /\ SearchByPkg(u, p)
             /\ Range(u.remove) \subseteq Range(t.remove) \cup {p}
             /\ u.exclude = t.exclude
<1> DEFINE u == AddRemove(t, p)
<1>1. CASE SearchByPkg(t, p)
  BY <1>1, GrowsNot DEF AddRemove, Adds
<1>2. CASE ~SearchByPkg(t, p)
  <2>1. u = [t EXCEPT !.remove = Append(@, p)]
    BY <1>2 DEF AddRemove
  <2> HIDE DEF u
  <2>2. t \in TrxnType(v) /\ Pointed(t) /\ t.remove \in Seq(PackagesOf(v))
    BY ListTypes DEF Sound
  <2>3. /\ Append(t.remove, p) \in Seq(PackagesOf(v))
        /\ Range(Append(t.remove, p)) = Range(t.remove) \cup {p}
    BY <2>2, RangeOfAppend
  <2>4. /\ u \in TrxnType(v)
        /\ u.remove = Append(t.remove, p)
        /\ u.queue = t.queue /\ u.upgrade = t.upgrade /\ u.exclude = t.exclude
        /\ \A m \in Lists \ {"remove"} : u[m] = t[m]
    BY <2>1, <2>2, <2>3 DEF TrxnType, Lists, PkgLists, UpgradeLists
  <2>5. "remove" \in Lists /\ "remove" \notin QueuedLists /\ "remove" \notin UpgradeLists
    BY DEF Lists, PkgLists, QueuedLists, UpgradeLists
  <2>6. /\ Grows(t, u) /\ SearchByPkg(u, p) /\ Pointed(u)
        /\ Members(u) = Members(t)
    <3>1. \A l \in {"remove", "exclude"} : Subject(l, p) = p
      BY DEF Subject, UpgradeLists
    <3>2. Grown(t, u, "remove", p)
      BY <2>4, <2>5 DEF Grown
    <3>3. QED BY <1>2, <2>2, <2>5, <3>1, <3>2, GrownBy
  <2>7. Sound(v, u)
    BY <2>4, <2>6 DEF Sound
  <2>8. QED BY <2>3, <2>4, <2>6, <2>7 DEF Adds, u
<1>3. QED BY <1>1, <1>2

LEMMA AddExcludeAdds ==
  ASSUME NEW v, NEW t, Sound(v, t), NEW p \in PackagesOf(v)
  PROVE  LET u == AddExclude(t, p)
         IN  /\ Adds(v, t, u, {}) /\ SearchByPkg(u, p)
             /\ u.remove = t.remove
<1> DEFINE u == AddExclude(t, p)
<1>1. CASE SearchByPkg(t, p)
  BY <1>1, GrowsNot DEF AddExclude, Adds
<1>2. CASE ~SearchByPkg(t, p)
  <2>1. u = [t EXCEPT !.exclude = Append(@, p)]
    BY <1>2 DEF AddExclude
  <2> HIDE DEF u
  <2>2. t \in TrxnType(v) /\ Pointed(t) /\ t.exclude \in Seq(PackagesOf(v))
    BY ListTypes DEF Sound
  <2>3. Append(t.exclude, p) \in Seq(PackagesOf(v))
    BY <2>2
  <2>4. /\ u \in TrxnType(v)
        /\ u.exclude = Append(t.exclude, p)
        /\ u.queue = t.queue /\ u.upgrade = t.upgrade /\ u.remove = t.remove
        /\ \A m \in Lists \ {"exclude"} : u[m] = t[m]
    BY <2>1, <2>2, <2>3 DEF TrxnType, Lists, PkgLists, UpgradeLists
  <2>5. "exclude" \in Lists /\ "exclude" \notin QueuedLists /\ "exclude" \notin UpgradeLists
    BY DEF Lists, PkgLists, QueuedLists, UpgradeLists
  <2>6. /\ Grows(t, u) /\ SearchByPkg(u, p) /\ Pointed(u)
        /\ Members(u) = Members(t)
    <3>1. \A l \in {"remove", "exclude"} : Subject(l, p) = p
      BY DEF Subject, UpgradeLists
    <3>2. Grown(t, u, "exclude", p)
      BY <2>4, <2>5 DEF Grown
    <3>3. QED BY <1>2, <2>2, <2>5, <3>1, <3>2, GrownBy
  <2>7. Sound(v, u)
    BY <2>4, <2>6 DEF Sound
  <2>8. QED BY <2>4, <2>6, <2>7 DEF Adds, u
<1>3. QED BY <1>1, <1>2

LEMMA EnqueueAdds ==
  ASSUME NEW v, NEW t, Sound(v, t), NEW p \in Range(v.avail), Allowed(v, p),
         NEW l \in QueuedLists, NEW item,
         p = (IF l \in UpgradeLists THEN item.upgrade ELSE item),
         l \in UpgradeLists => item \in PairsOf(v),
         l = "upgrade" => GoesForward(v, item.installed, p),
         ~SearchByPkg(t, p)
  PROVE  LET u == Enqueue(t, l, item)
         IN  Adds(v, t, u, {p}) /\ SearchByPkg(u, p)
<1> DEFINE u == Enqueue(t, l, item)
           ptr == [list |-> l, index |-> Len(t[l]) + 1]
<1>1. t \in TrxnType(v) /\ Pointed(t)
  BY DEF Sound
<1>2. /\ t.install \in Seq(Range(v.avail))
      /\ t.upgrade \in Seq(PairsOf(v)) /\ t.reinstall \in Seq(PairsOf(v))
      /\ t.queue \in Seq(Pointer)
  BY <1>1, ListTypes
<1>3. Append(t.queue, ptr) \in Seq(Pointer)
  <2>1. Len(t[l]) + 1 \in Nat
    BY <1>2 DEF QueuedLists
  <2>2. QED BY <1>2, <2>1 DEF Pointer
<1>4. /\ u.queue = Append(t.queue, ptr)
      /\ u[l] = Append(t[l], item)
      /\ \A m \in Lists \ {l} : u[m] = t[m]
  BY <1>1 DEF Enqueue, TrxnType, Lists, QueuedLists, PkgLists, UpgradeLists
<1>5. /\ u \in TrxnType(v)
      /\ \A pair \in Range(u.upgrade) :
            pair \in Range(t.upgrade) \/ (l = "upgrade" /\ pair = item)
  <2>1. CASE l = "install"
    <3>1. item \in Range(v.avail)
      BY <2>1 DEF UpgradeLists
    <3>2. Append(t.install, item) \in Seq(Range(v.avail))
      BY <1>2, <3>1
    <3>3. u = [t EXCEPT !.install = Append(t.install, item),
                        !.queue = Append(t.queue, ptr)]
      BY <2>1 DEF Enqueue
    <3>4. QED BY <1>1, <1>3, <3>2, <3>3 DEF TrxnType
  <2>2. CASE l = "upgrade"
    <3>1. item \in PairsOf(v)
      BY <2>2 DEF UpgradeLists
    <3>2. /\ Append(t.upgrade, item) \in Seq(PairsOf(v))
          /\ Range(Append(t.upgrade, item)) = Range(t.upgrade) \cup {item}
      BY <1>2, <3>1, RangeOfAppend
    <3>3. u = [t EXCEPT !.upgrade = Append(t.upgrade, item),
                        !.queue = Append(t.queue, ptr)]
      BY <2>2 DEF Enqueue
    <3>4. u \in TrxnType(v) /\ u.upgrade = Append(t.upgrade, item)
      BY <1>1, <1>3, <3>2, <3>3 DEF TrxnType
    <3>5. QED BY <2>2, <3>2, <3>4
  <2>3. CASE l = "reinstall"
    <3>1. item \in PairsOf(v)
      BY <2>3 DEF UpgradeLists
    <3>2. Append(t.reinstall, item) \in Seq(PairsOf(v))
      BY <1>2, <3>1
    <3>3. u = [t EXCEPT !.reinstall = Append(t.reinstall, item),
                        !.queue = Append(t.queue, ptr)]
      BY <2>3 DEF Enqueue
    <3>4. QED BY <1>1, <1>3, <3>2, <3>3 DEF TrxnType
  <2>4. QED BY <2>1, <2>2, <2>3 DEF QueuedLists
<1> HIDE DEF u
<1>6. l \in Lists
  BY DEF QueuedLists, Lists, PkgLists, UpgradeLists
<1>7. /\ Grows(t, u) /\ SearchByPkg(u, p) /\ Pointed(u)
      /\ Members(u) = Members(t) \cup {p}
  <2>1. Grown(t, u, l, item)
    BY <1>4 DEF Grown
  <2>2. Subject(l, item) = p
    BY DEF Subject
  <2>3. ~SearchByPkg(t, Subject(l, item))
    BY <2>2
  <2>4. /\ Grows(t, u) /\ SearchByPkg(u, Subject(l, item)) /\ Pointed(u)
        /\ Members(u) = IF l \in QueuedLists THEN Members(t) \cup {Subject(l, item)}
                        ELSE Members(t)
    BY <1>1, <1>6, <2>1, <2>3, GrownBy
  <2>5. QED BY <2>2, <2>4
<1>8. Sound(v, u)
  <2>1. \A pair \in Range(u.upgrade) : GoesForward(v, pair.installed, pair.upgrade)
    <3> TAKE pair \in Range(u.upgrade)
    <3>1. CASE pair \in Range(t.upgrade)
      BY <3>1 DEF Sound
    <3>2. CASE l = "upgrade" /\ pair = item
      BY <3>2 DEF UpgradeLists
    <3>3. QED BY <1>5, <3>1, <3>2
  <2>2. QED BY <1>5, <1>7, <2>1 DEF Sound
<1>9. QED BY <1>7, <1>8 DEF Adds, u

LEMMA AddInstallAdds ==
  ASSUME NEW v, NEW t, Sound(v, t), NEW p \in Range(v.avail), Allowed(v, p)
  PROVE  LET u == AddInstall(t, p)
         IN  Adds(v, t, u, {p}) /\ SearchByPkg(u, p)
<1>1. CASE SearchByPkg(t, p)
  BY <1>1, GrowsNot DEF AddInstall, Adds
<1>2. CASE ~SearchByPkg(t, p)
  <2>1. "install" \in QueuedLists /\ "install" \notin UpgradeLists
    BY DEF QueuedLists, UpgradeLists
  <2>2. AddInstall(t, p) = Enqueue(t, "install", p)
    BY <1>2 DEF AddInstall
  <2>3. QED BY <1>2, <2>1, <2>2, EnqueueAdds
<1>3. QED BY <1>1, <1>2

LEMMA AddPairAdds ==
  ASSUME NEW v, NEW t, Sound(v, t), NEW p \in Range(v.avail), Allowed(v, p),
         NEW inst \in Range(v.installed)
  PROVE  /\ LET u == AddReinstall(t, inst, p)
            IN  Adds(v, t, u, {p}) /\ SearchByPkg(u, p)
         /\ GoesForward(v, inst, p) =>
              LET u == AddUpgrade(t, inst, p)
              IN  Adds(v, t, u, {p}) /\ SearchByPkg(u, p)
<1> DEFINE pair == [installed |-> inst, upgrade |-> p]
<1>1. pair \in PairsOf(v) /\ pair.upgrade = p /\ pair.installed = inst
  BY DEF PairsOf
<1>2. /\ "upgrade" \in QueuedLists /\ "upgrade" \in UpgradeLists
      /\ "reinstall" \in QueuedLists /\ "reinstall" \in UpgradeLists
      /\ "upgrade" # "reinstall"
  BY DEF QueuedLists, UpgradeLists
<1>3. CASE SearchByPkg(t, p)
  BY <1>3, GrowsNot DEF AddReinstall, AddUpgrade, Adds
<1>4. CASE ~SearchByPkg(t, p)
  <2>1. /\ AddReinstall(t, inst, p) = Enqueue(t, "reinstall", pair)
        /\ AddUpgrade(t, inst, p) = Enqueue(t, "upgrade", pair)
    BY <1>4 DEF AddReinstall, AddUpgrade
  <2> HIDE DEF pair
  <2>2. QED BY <1>1, <1>2, <1>4, <2>1, EnqueueAdds
<1>5. QED BY <1>3, <1>4

\* If nothing is left out or removed, what the transaction holds is to be
\* installed.
LEMMA FoundIsHere ==
  ASSUME NEW v, NEW t, t.exclude = <<>>, t.remove = <<>>, NEW p, SearchByPkg(t, p)
  PROVE  Here(v, t, p.name)
<1>1. PICK l \in Lists : \E i \in DOMAIN t[l] : SamePkg(p, Member(t, l, i))
  BY DEF SearchByPkg
<1>2. PICK i \in DOMAIN t[l] : SamePkg(p, Member(t, l, i))
  BY <1>1
<1>3. t[l] # <<>>
  BY <1>2
<1>4. l \in QueuedLists
  BY <1>3 DEF Lists, PkgLists, UpgradeLists, QueuedLists
<1>5. Member(t, l, i) \in Members(t)
  BY <1>2, <1>4 DEF Members
<1>6. QED BY <1>2, <1>5 DEF Here, SamePkg

LEMMA EmptyBefore ==
  ASSUME NEW v, NEW t, NEW u, Grows(t, u), Sound(v, t), u.exclude = <<>>, u.remove = <<>>
  PROVE  t.exclude = <<>> /\ t.remove = <<>>
<1>1. Range(u.exclude) = {} /\ Range(u.remove) = {}
  BY RangeOfOne
<1>2. Range(t.exclude) = {} /\ Range(t.remove) = {}
  BY <1>1, MembersGrow
<1>3. t.exclude \in Seq(PackagesOf(v)) /\ t.remove \in Seq(PackagesOf(v))
  BY ListTypes DEF Sound
<1>4. \A s \in Seq(PackagesOf(v)) : Range(s) = {} => s = <<>>
  <2>1. \A s \in Seq(PackagesOf(v)) : s # <<>> => 1 \in DOMAIN s
    OBVIOUS
  <2>2. QED BY <2>1 DEF Range
<1>5. QED BY <1>2, <1>3, <1>4

LEMMA WholeBefore ==
  ASSUME NEW v, NEW t, NEW u, Grows(t, u), Sound(v, t), Whole(v, u)
  PROVE  Whole(v, t)
BY EmptyBefore DEF Whole

LEMMA ProvidedLater ==
  ASSUME NEW v, NEW t, NEW u, Grows(t, u)
  PROVE  /\ \A name : Here(v, t, name) => Here(v, u, name)
         /\ \A p : Provided(v, t, p) => Provided(v, u, p)
<1>1. Members(t) \subseteq Members(u)
  BY MembersGrow
<1>2. QED BY <1>1 DEF Provided, Here

\* If whatever is added has what it requires, nothing lacks anything.
LEMMA CompleteLater ==
  ASSUME NEW v, NEW t, NEW u, NEW D, Adds(v, t, u, D), Sound(v, t), Complete(v, t),
         Whole(v, u) => \A p \in D : p.name \in ForcedBy(v) \/ Provided(v, u, p)
  PROVE  Complete(v, u)
<1> SUFFICES ASSUME Whole(v, u), NEW p \in Members(u)
             PROVE  p.name \in ForcedBy(v) \/ Provided(v, u, p)
  BY DEF Complete
<1>1. CASE p \in Members(t)
  BY <1>1, WholeBefore, ProvidedLater DEF Adds, Complete
<1>2. CASE p \in D
  BY <1>2
<1>3. QED BY <1>1, <1>2 DEF Adds

\* A pass, or a part of one: nothing is lost, what was true stays true.
Keeps(v, t, u) ==
  Sound(v, u) /\ Grows(t, u) /\ (Complete(v, t) => Complete(v, u))

LEMMA KeepsFurther ==
  ASSUME NEW v, NEW t, NEW u, NEW x, Keeps(v, t, u), Keeps(v, u, x)
  PROVE  Keeps(v, t, x)
BY GrowsFurther DEF Keeps

LEMMA KeepsItself ==
  ASSUME NEW v, NEW t, Sound(v, t)
  PROVE  Keeps(v, t, t)
BY GrowsNot DEF Keeps

LEMMA AddsNothing ==
  ASSUME NEW v, NEW t, Sound(v, t), NEW u, Adds(v, t, u, {})
  PROVE  Keeps(v, t, u)
<1>1. Complete(v, t) => Complete(v, u)
  BY CompleteLater
<1>2. QED BY <1>1 DEF Adds, Keeps

LEMMA AddsLast ==
  ASSUME NEW v, NEW t, Sound(v, t), NEW u, NEW p, Adds(v, t, u, {p}),
         Whole(v, u) => p.name \in ForcedBy(v) \/ Provided(v, u, p)
  PROVE  Keeps(v, t, u)
<1>1. Complete(v, t) => Complete(v, u)
  BY CompleteLater
<1>2. QED BY <1>1 DEF Adds, Keeps

-----------------------------------------------------------------------------
(* Conflicts and dependencies.                                             *)

LEMMA AddsFurther ==
  ASSUME NEW v, NEW t, NEW u, NEW x, NEW D, NEW E, Adds(v, t, u, D), Adds(v, u, x, E)
  PROVE  Adds(v, t, x, D \cup E)
BY GrowsFurther DEF Adds

RemoveOp(a, b, c, d, e, acc, p) ==
  CHOOSE r \in {AddRemove(u, p) : u \in {acc}} : TRUE
RemoveFold == INSTANCE FoldProofs WITH Op <- RemoveOp

LEMMA AddRemoveAllIsFold ==
  \A t, pkgs : AddRemoveAll(t, pkgs) = RemoveFold!Result(0, 0, 0, 0, 0, t, pkgs)
BY DEF AddRemoveAll, Fold, RemoveFold!Result, RemoveOp, FoldLeft, MapThenFoldSet,
       RemoveFold!FoldLeft, RemoveFold!MapThenFoldSet, Max, RemoveFold!Max

LEMMA RemoveOpIs ==
  \A acc, p : RemoveOp(0, 0, 0, 0, 0, acc, p) = AddRemove(acc, p)
<1> TAKE acc, p
<1> DEFINE of(u) == AddRemove(u, p)
<1>1. {of(u) : u \in {acc}} = {of(acc)}
  OBVIOUS
<1>2. RemoveOp(0, 0, 0, 0, 0, acc, p) = CHOOSE r \in {of(u) : u \in {acc}} : TRUE
  BY DEF RemoveOp
<1> HIDE DEF of
<1>3. RemoveOp(0, 0, 0, 0, 0, acc, p) = of(acc)
  BY <1>1, <1>2
<1>4. QED BY <1>3 DEF of

LEMMA AddRemoveAllAdds ==
  ASSUME NEW v, NEW t, Sound(v, t), NEW pkgs \in Seq(PackagesOf(v))
  PROVE  LET u == AddRemoveAll(t, pkgs)
         IN  /\ Adds(v, t, u, {})
             /\ Range(u.remove) \subseteq Range(t.remove) \cup Range(pkgs)
             /\ u.exclude = t.exclude
             /\ \A p \in Range(pkgs) : SearchByPkg(u, p)
<1> DEFINE Good(u, i) ==
             /\ Adds(v, t, u, {})
             /\ Range(u.remove) \subseteq Range(t.remove) \cup Range(pkgs)
             /\ u.exclude = t.exclude
             /\ \A j \in 1..i : SearchByPkg(u, pkgs[j])
           I == [i \in 0..Len(pkgs) |-> {u \in TrxnType(v) : Good(u, i)}]
<1>1. /\ Len(pkgs) \in Nat /\ DOMAIN pkgs = 1..Len(pkgs)
      /\ \A i \in 1..Len(pkgs) : pkgs[i] \in PackagesOf(v) /\ pkgs[i] \in Range(pkgs)
  BY RangeType
<1>2. t \in I[0]
  BY <1>1, GrowsNot DEF Adds, Sound
<1>3. \A i \in 1..Len(pkgs) : \A u \in I[i - 1] :
         RemoveOp(0, 0, 0, 0, 0, u, pkgs[i]) \in I[i]
  <2> TAKE i \in 1..Len(pkgs)
  <2> TAKE u \in I[i - 1]
  <2> DEFINE x == AddRemove(u, pkgs[i])
  <2>1. /\ i \in 0..Len(pkgs) /\ i - 1 \in 0..Len(pkgs)
        /\ \A j : j \in 1..i <=> (j \in 1..(i - 1) \/ j = i)
    BY <1>1
  <2>2. Good(u, i - 1)
    BY <2>1
  <2>3. /\ Adds(v, u, x, {}) /\ SearchByPkg(x, pkgs[i])
        /\ Range(x.remove) \subseteq Range(u.remove) \cup {pkgs[i]}
        /\ x.exclude = u.exclude
    BY <1>1, <2>2, AddRemoveAdds DEF Adds
  <2> HIDE DEF x
  <2>4. Adds(v, t, x, {})
    BY <2>2, <2>3, AddsFurther
  <2>5. /\ Range(x.remove) \subseteq Range(t.remove) \cup Range(pkgs)
        /\ x.exclude = t.exclude
    BY <1>1, <2>2, <2>3
  <2>6. \A j \in 1..i : SearchByPkg(x, pkgs[j])
    <3>1. \A p : SearchByPkg(u, p) => SearchByPkg(x, p)
      BY <2>3, MembersGrow DEF Adds
    <3>2. QED BY <2>1, <2>2, <2>3, <3>1
  <2>7. x \in TrxnType(v)
    BY <2>4 DEF Adds, Sound
  <2>8. x \in I[i]
    BY <2>1, <2>4, <2>5, <2>6, <2>7
  <2> HIDE DEF I
  <2>9. QED BY <2>8, RemoveOpIs DEF x
<1>4. I[Len(pkgs)] = {u \in TrxnType(v) : Good(u, Len(pkgs))}
  BY <1>1
<1> HIDE DEF I
<1>5. RemoveFold!Result(0, 0, 0, 0, 0, t, pkgs) \in I[Len(pkgs)]
  BY <1>2, <1>3, RemoveFold!FoldSteps
<1> DEFINE u == AddRemoveAll(t, pkgs)
<1>6. Good(u, Len(pkgs))
  <2>1. u \in I[Len(pkgs)]
    BY <1>5, AddRemoveAllIsFold
  <2> HIDE DEF u, Good
  <2>2. QED BY <1>4, <2>1
<1>7. \A p \in Range(pkgs) : SearchByPkg(u, p)
  <2> HIDE DEF u
  <2>1. QED BY <1>1, <1>6 DEF Range
<1> HIDE DEF u
<1>8. QED BY <1>6, <1>7 DEF u

LEMMA SeqOfMore ==
  ASSUME NEW S, NEW T, S \subseteq T, NEW s \in Seq(S)
  PROVE  s \in Seq(T)
OBVIOUS

LEMMA FindConflictsAre ==
  ASSUME ListsRead(w), NEW t, NEW pkg \in Package
  PROVE  FindConflicts(t, pkg) \in Seq(InConflict(w, pkg))
<1> DEFINE planned(c) == SearchUpgrade(t, c) \/ Newest(t.install, c.name) # <<>>
           present(c) == Newest(w.installed, c.name) # <<>>
           if(b, c) == IF b THEN <<c>> ELSE <<>>
           both(c) == if(planned(c), c) \o if(present(c), c)
           listed(cs) == [i \in DOMAIN cs |-> both(cs[i])]
           of(cs) == Concat(listed(cs))
           cs0 == Conflicts(w, pkg)
           T == InConflict(w, pkg)
<1>1. cs0 \in Seq(T)
  BY ConflictsRange
<1>2. FindConflicts(t, pkg) = CHOOSE r \in {of(cs) : cs \in {cs0}} : TRUE
  BY DEF FindConflicts, With
<1> HIDE DEF cs0, T
<1>3. \A c \in T : both(c) \in Seq(T)
  <2> TAKE c \in T
  <2>1. <<>> \in Seq(T) /\ <<c>> \in Seq(T)
    OBVIOUS
  <2>2. if(planned(c), c) \in Seq(T) /\ if(present(c), c) \in Seq(T)
    BY <2>1
  <2> HIDE DEF if, planned, present
  <2>3. QED BY <2>2, RangeOfConcat
<1> HIDE DEF both
<1> DEFINE n == Len(cs0)
<1>4. n \in Nat /\ DOMAIN cs0 = 1..n /\ \A i \in 1..n : cs0[i] \in T
  BY <1>1
<1> HIDE DEF n
<1>5. listed(cs0) \in [1..n -> Seq(T)]
  BY <1>3, <1>4
<1> HIDE DEF listed
<1>6. listed(cs0) \in Seq(Seq(T))
  BY <1>4, <1>5, FunctionIsSeq, Zenon
<1>7. of(cs0) \in Seq(T)
  BY <1>6, ConcatRange
<1> HIDE DEF of
<1>8. {of(cs) : cs \in {cs0}} = {of(cs0)}
  OBVIOUS
<1>9. QED BY <1>2, <1>7, <1>8 DEF T

LEMMA FindConflictsType ==
  ASSUME ListsRead(w), NEW t, NEW pkg \in Package
  PROVE  FindConflicts(t, pkg) \in Seq(PackagesOf(w))
<1>1. InConflict(w, pkg) \subseteq PackagesOf(w)
  BY DEF InConflict, PackagesOf
<1>2. QED BY <1>1, FindConflictsAre, SeqOfMore

LEMMA NewestGoesForward ==
  ASSUME ListsRead(w), NEW p, NEW inst, Newest(w.installed, p.name) = <<inst>>
  PROVE  /\ inst \in Range(w.installed) /\ inst.name = p.name
         /\ Cmp(inst, p) < 0 => GoesForward(w, inst, p)
         /\ w.conf.dist_upgrade /\ Cmp(inst, p) = 0 => GoesForward(w, inst, p)
<1>1. w.installed \in Seq(Logged)
  BY DEF ListsRead
<1>2. \E q \in Range(w.installed) : q.name = p.name /\ <<inst>> = <<q>>
  BY <1>1, NewestFound
<1>3. \A q \in Range(w.installed) : q.name = p.name => Cmp(q, inst) <= 0
  BY <1>1, NewestIsLatest
<1>4. QED BY <1>2, <1>3 DEF GoesForward

\* A dependency is added after its conflicts are removed.
LEMMA DependencyAdds ==
  ASSUME ListsRead(w), NEW t, Sound(w, t), NEW dep \in Range(w.avail),
         ~Forbidden(w, dep)
  PROVE  LET u == AddDependency(AddRemoveAll(t, FindConflicts(t, dep)), dep,
                                Newest(w.installed, dep.name))
         IN  /\ Adds(w, t, u, {dep})
             /\ u.exclude = <<>> /\ u.remove = <<>> => Here(w, u, dep.name)
<1> DEFINE r == AddRemoveAll(t, FindConflicts(t, dep))
           inst == Newest(w.installed, dep.name)
           u == AddDependency(r, dep, inst)
<1>1. dep \in Package
  BY ListsReadTypes
<1>2. Adds(w, t, r, {}) /\ Sound(w, r)
  BY <1>1, FindConflictsType, AddRemoveAllAdds DEF Adds
<1>3. Allowed(w, dep)
  BY DEF Allowed, Forbidden
<1> HIDE DEF r
<1>4. ASSUME Adds(w, r, u, {dep}), SearchByPkg(u, dep)
      PROVE  /\ Adds(w, t, u, {dep})
             /\ u.exclude = <<>> /\ u.remove = <<>> => Here(w, u, dep.name)
  <2> HIDE DEF u
  <2>1. Adds(w, t, u, {} \cup {dep})
    BY <1>2, <1>4, AddsFurther
  <2>2. {} \cup {dep} = {dep}
    OBVIOUS
  <2>3. QED BY <1>4, <2>1, <2>2, FoundIsHere
<1>5. CASE inst = <<>>
  <2>1. u = AddInstall(r, dep)
    BY <1>5 DEF AddDependency
  <2>2. Adds(w, r, u, {dep}) /\ SearchByPkg(u, dep)
    BY <1>2, <1>3, <2>1, AddInstallAdds
  <2>3. QED BY <1>4, <2>2 DEF r
<1>6. ASSUME NEW x \in Range(w.installed), x.name = dep.name, inst = <<x>>
      PROVE  /\ Adds(w, t, u, {dep})
             /\ u.exclude = <<>> /\ u.remove = <<>> => Here(w, u, dep.name)
  <2>1. inst # <<>> /\ inst[1] = x
    BY <1>6
  <2>2. CASE Cmp(x, dep) < 0
    <3>1. u = AddUpgrade(r, x, dep)
      BY <2>1, <2>2 DEF AddDependency
    <3>2. GoesForward(w, x, dep)
      BY <1>6, <2>2, NewestGoesForward
    <3>3. Adds(w, r, u, {dep}) /\ SearchByPkg(u, dep)
      BY <1>2, <1>3, <3>1, <3>2, AddPairAdds
    <3>4. QED BY <1>4, <3>3
  <2>3. CASE ~(Cmp(x, dep) < 0)
    <3>1. u = r
      BY <2>1, <2>3 DEF AddDependency
    <3>2. Here(w, u, dep.name)
      BY <1>6 DEF Here
    <3>3. Adds(w, t, r, {dep})
      BY <1>2 DEF Adds
    <3>4. QED BY <3>1, <3>2, <3>3
  <2>4. QED BY <2>2, <2>3
<1>7. inst = <<>> \/ \E x \in Range(w.installed) : x.name = dep.name /\ inst = <<x>>
  BY NewestFound DEF ListsRead
<1>8. QED BY <1>5, <1>6, <1>7 DEF r

DependencyOp(a, b, c, d, e, acc, dep) ==
  CHOOSE r \in {AddDependency(AddRemoveAll(u, FindConflicts(u, dep)), dep,
                              Newest(w.installed, dep.name)) : u \in {acc}} : TRUE
DependencyFold == INSTANCE FoldProofs WITH Op <- DependencyOp

LEMMA AddDependencyListIsFold ==
  \A t, deps :
    AddDependencyList(t, deps) = DependencyFold!Result(0, 0, 0, 0, 0, t, deps)
BY DEF AddDependencyList, Fold, DependencyFold!Result, DependencyOp, FoldLeft,
       MapThenFoldSet, DependencyFold!FoldLeft, DependencyFold!MapThenFoldSet,
       Max, DependencyFold!Max

LEMMA DependencyOpIs ==
  \A acc, dep :
    DependencyOp(0, 0, 0, 0, 0, acc, dep)
      = AddDependency(AddRemoveAll(acc, FindConflicts(acc, dep)), dep,
                      Newest(w.installed, dep.name))
<1> TAKE acc, dep
<1> DEFINE of(u) == AddDependency(AddRemoveAll(u, FindConflicts(u, dep)), dep,
                                  Newest(w.installed, dep.name))
<1>1. {of(u) : u \in {acc}} = {of(acc)}
  OBVIOUS
<1>2. DependencyOp(0, 0, 0, 0, 0, acc, dep) = CHOOSE r \in {of(u) : u \in {acc}} : TRUE
  BY DEF DependencyOp
<1> HIDE DEF of
<1>3. DependencyOp(0, 0, 0, 0, 0, acc, dep) = of(acc)
  BY <1>1, <1>2
<1>4. QED BY <1>3 DEF of

LEMMA AddDependencyListAdds ==
  ASSUME ListsRead(w), NEW t, Sound(w, t), NEW deps \in Seq(Range(w.avail)),
         \A d \in Range(deps) : ~Forbidden(w, d)
  PROVE  LET u == AddDependencyList(t, deps)
         IN  /\ Adds(w, t, u, Range(deps))
             /\ u.exclude = <<>> /\ u.remove = <<>>
                  => \A d \in Range(deps) : Here(w, u, d.name)
<1> DEFINE Good(u, i) ==
             /\ Adds(w, t, u, Range(deps))
             /\ u.exclude = <<>> /\ u.remove = <<>>
                  => \A j \in 1..i : Here(w, u, deps[j].name)
           I == [i \in 0..Len(deps) |-> {u \in TrxnType(w) : Good(u, i)}]
<1>1. /\ Len(deps) \in Nat /\ DOMAIN deps = 1..Len(deps)
      /\ \A i \in 1..Len(deps) : deps[i] \in Range(w.avail) /\ deps[i] \in Range(deps)
  BY RangeType
<1>2. t \in I[0]
  BY <1>1, GrowsNot DEF Adds, Sound
<1>3. \A i \in 1..Len(deps) : \A u \in I[i - 1] :
         DependencyOp(0, 0, 0, 0, 0, u, deps[i]) \in I[i]
  <2> TAKE i \in 1..Len(deps)
  <2> TAKE u \in I[i - 1]
  <2> DEFINE x == AddDependency(AddRemoveAll(u, FindConflicts(u, deps[i])), deps[i],
                                Newest(w.installed, deps[i].name))
  <2>1. /\ i \in 0..Len(deps) /\ i - 1 \in 0..Len(deps)
        /\ \A j : j \in 1..i <=> (j \in 1..(i - 1) \/ j = i)
    BY <1>1
  <2>2. Good(u, i - 1)
    BY <2>1
  <2>3. /\ Adds(w, u, x, {deps[i]})
        /\ x.exclude = <<>> /\ x.remove = <<>> => Here(w, x, deps[i].name)
    <3>1. Sound(w, u)
      BY <2>2 DEF Adds
    <3>2. deps[i] \in Range(w.avail) /\ ~Forbidden(w, deps[i])
      BY <1>1
    <3>3. QED BY <3>1, <3>2, DependencyAdds
  <2> HIDE DEF x
  <2>4. Adds(w, t, x, Range(deps))
    <3>1. Adds(w, t, x, Range(deps) \cup {deps[i]})
      BY <2>2, <2>3, AddsFurther
    <3>2. Range(deps) \cup {deps[i]} = Range(deps)
      BY <1>1
    <3>3. QED BY <3>1, <3>2
  <2>5. ASSUME x.exclude = <<>>, x.remove = <<>>
        PROVE  \A j \in 1..i : Here(w, x, deps[j].name)
    <3>1. u.exclude = <<>> /\ u.remove = <<>>
      <4>1. Grows(u, x) /\ Sound(w, u)
        BY <2>2, <2>3 DEF Adds
      <4>2. QED BY <2>5, <4>1, EmptyBefore
    <3>2. \A name : Here(w, u, name) => Here(w, x, name)
      BY <2>3, ProvidedLater DEF Adds
    <3>3. QED BY <2>1, <2>2, <2>3, <2>5, <3>1, <3>2
  <2>6. x \in TrxnType(w)
    BY <2>4 DEF Adds, Sound
  <2>7. x \in I[i]
    BY <2>1, <2>4, <2>5, <2>6
  <2> HIDE DEF I
  <2>8. QED BY <2>7, DependencyOpIs DEF x
<1>4. I[Len(deps)] = {u \in TrxnType(w) : Good(u, Len(deps))}
  BY <1>1
<1> HIDE DEF I
<1>5. DependencyFold!Result(0, 0, 0, 0, 0, t, deps) \in I[Len(deps)]
  BY <1>2, <1>3, DependencyFold!FoldSteps
<1> DEFINE u == AddDependencyList(t, deps)
<1>6. Good(u, Len(deps))
  <2>1. u \in I[Len(deps)]
    BY <1>5, AddDependencyListIsFold
  <2> HIDE DEF u, Good
  <2>2. QED BY <1>4, <2>1
<1> HIDE DEF u
<1>7. ASSUME u.exclude = <<>>, u.remove = <<>>
      PROVE  \A d \in Range(deps) : Here(w, u, d.name)
  BY <1>1, <1>6, <1>7 DEF Range
<1>8. QED BY <1>6, <1>7 DEF u

\* The start of a collection, and the transaction with its errors noted.
Start(t) == [deps |-> <<>>, rv |-> 0, missing |-> t.missing_err, conflict |-> t.conflict_err]
Got(t, pkg) == Dependencies(w, pkg, Start(t))
Noted(t, got) == [t EXCEPT !.missing_err = got.missing, !.conflict_err = got.conflict]
Fails(t, pkg, got) ==
  got.rv = -1 /\ ~w.conf.ignore_dep /\ Exact(t.exclude, pkg.name, pkg.version) = <<>>

LEMMA AddDependenciesIs ==
  ASSUME NEW t, NEW pkg
  PROVE  AddDependencies(t, pkg) =
           IF w.conf.disable_dep_check THEN [ok |-> TRUE, trxn |-> t]
           ELSE IF Fails(t, pkg, Got(t, pkg))
           THEN [ok |-> FALSE, trxn |-> Noted(t, Got(t, pkg))]
           ELSE [ok |-> TRUE,
                 trxn |-> AddDependencyList(Noted(t, Got(t, pkg)), Got(t, pkg).deps)]
<1> DEFINE of(got) == IF Fails(t, pkg, got) THEN [ok |-> FALSE, trxn |-> Noted(t, got)]
                      ELSE [ok |-> TRUE, trxn |-> AddDependencyList(Noted(t, got), got.deps)]
           got0 == Got(t, pkg)
<1>1. AddDependencies(t, pkg) =
        IF w.conf.disable_dep_check THEN [ok |-> TRUE, trxn |-> t]
        ELSE CHOOSE r \in {of(got) : got \in {got0}} : TRUE
  BY DEF AddDependencies, With, Fails, Noted, Got, Start
<1> HIDE DEF of, got0
<1>2. {of(got) : got \in {got0}} = {of(got0)}
  OBVIOUS
<1>3. AddDependencies(t, pkg) =
        IF w.conf.disable_dep_check THEN [ok |-> TRUE, trxn |-> t] ELSE of(got0)
  BY <1>1, <1>2
<1>4. QED BY <1>3 DEF of, got0

LEMMA NotedAdds ==
  ASSUME NEW t, Sound(w, t), NEW got \in Collection(w)
  PROVE  Adds(w, t, Noted(t, got), {})
<1> DEFINE u == Noted(t, got)
<1>1. t \in TrxnType(w) /\ got.missing \in Seq(Note) /\ got.conflict \in Seq(Note)
  BY DEF Sound, Collection
<1>2. /\ u \in TrxnType(w)
      /\ \A l \in Lists : u[l] = t[l]
      /\ u.queue = t.queue /\ u.upgrade = t.upgrade
  BY <1>1 DEF Noted, TrxnType, Lists, PkgLists, UpgradeLists
<1> HIDE DEF u
<1>3. \A l \in QueuedLists : l \in Lists
  BY DEF QueuedLists, Lists, PkgLists, UpgradeLists
<1>4. Members(u) = Members(t)
  BY <1>2, <1>3 DEF Members, Member
<1>5. Pointed(u)
  <2>1. \A k \in DOMAIN t.queue : t.queue[k].list \in QueuedLists
    <3>1. t.queue \in Seq(Pointer)
      BY <1>1, ListTypes
    <3>2. \A k \in DOMAIN t.queue : t.queue[k] \in Pointer
      BY <3>1
    <3>3. QED BY <3>2 DEF Pointer
  <2>2. QED BY <1>2, <1>3, <2>1 DEF Sound, Pointed
<1>6. Sound(w, u)
  BY <1>2, <1>4, <1>5 DEF Sound
<1>7. Grows(t, u)
  BY <1>2 DEF Grows
<1>8. QED BY <1>4, <1>6, <1>7 DEF Adds, u

\* slapt_transaction_t_add_dependencies: if it returns 0, and nothing is left
\* out or removed, what pkg requires is there.
LEMMA AddDependenciesKeeps ==
  ASSUME ListsRead(w), NEW t, Sound(w, t), NEW pkg \in Package
  PROVE  LET d == AddDependencies(t, pkg)
         IN  /\ Keeps(w, t, d.trxn)
             /\ d.ok /\ Whole(w, d.trxn) => Provided(w, d.trxn, pkg)
<1> DEFINE d == AddDependencies(t, pkg)
           got == Got(t, pkg)
           n == Noted(t, got)
<1>1. CASE w.conf.disable_dep_check
  <2>1. d = [ok |-> TRUE, trxn |-> t]
    BY <1>1, AddDependenciesIs
  <2>2. QED BY <1>1, <2>1, KeepsItself DEF Whole
<1>2. CASE ~w.conf.disable_dep_check
  <2>1. Start(t) \in Collection(w) /\ Start(t).deps = <<>> /\ Start(t).rv = 0
    BY DEF Start, Collection, Sound, TrxnType
  <2>2. /\ Collects(w, Start(t), got)
        /\ Closes(w, Start(t), got)
        /\ got.rv = 0 => AllMet(w, got.deps, pkg)
    BY <1>2, <2>1, DependenciesCollect DEF Got
  <2> HIDE DEF got
  <2>3. /\ got \in Collection(w)
        /\ got.deps \in Seq(Range(w.avail)) /\ got.rv \in {0, -1}
        /\ \A x \in Range(got.deps) : ~Forbidden(w, x)
        /\ got.rv = 0 => \A x \in Range(got.deps) \cup {pkg} : AllMet(w, got.deps, x)
    BY <2>1, <2>2, RangeOfOne DEF Collects, Closes, Collection
  <2>4. Adds(w, t, n, {}) /\ Sound(w, n)
    BY <2>3, NotedAdds DEF Adds
  <2> HIDE DEF n
  <2>5. CASE Fails(t, pkg, got)
    <3>1. d.ok = FALSE /\ d.trxn = n
      BY <1>2, <2>5, AddDependenciesIs DEF got, n
    <3>2. QED BY <2>4, <3>1, AddsNothing
  <2>6. CASE ~Fails(t, pkg, got)
    <3> DEFINE u == AddDependencyList(n, got.deps)
    <3>1. d.trxn = u
      BY <1>2, <2>6, AddDependenciesIs DEF got, n
    <3>2. /\ Adds(w, n, u, Range(got.deps))
          /\ u.exclude = <<>> /\ u.remove = <<>>
               => \A x \in Range(got.deps) : Here(w, u, x.name)
      BY <2>3, <2>4, AddDependencyListAdds
    <3> HIDE DEF u, d
    <3>3. ASSUME Whole(w, u)
          PROVE  \A x \in Range(got.deps) \cup {pkg} : Provided(w, u, x)
      <4>1. got.rv = 0
        <5>1. Whole(w, n) /\ Whole(w, t)
          BY <2>4, <3>2, <3>3, WholeBefore DEF Adds
        <5>2. Exact(<<>>, pkg.name, pkg.version) = <<>>
          <6>1. <<>> \in Seq(Package) /\ Range(<<>>) = {}
            BY RangeOfOne
          <6>2. QED BY <6>1, ExactFound, Zenon
        <5>3. QED BY <2>3, <2>6, <5>1, <5>2 DEF Fails, Whole
      <4>2. \A name : Present(w, got.deps, name) => Here(w, u, name)
        BY <3>2, <3>3 DEF Present, Here, Whole
      <4>3. QED BY <2>3, <4>1, <4>2 DEF AllMet, Met, Provided
    <3>4. Adds(w, t, u, {} \cup Range(got.deps))
      BY <2>4, <3>2, AddsFurther
    <3>5. Keeps(w, t, u)
      <4>1. {} \cup Range(got.deps) = Range(got.deps)
        OBVIOUS
      <4>2. Adds(w, t, u, Range(got.deps))
        BY <3>4, <4>1
      <4>3. Complete(w, t) => Complete(w, u)
        BY <3>3, <4>2, CompleteLater
      <4>4. QED BY <4>2, <4>3 DEF Adds, Keeps
    <3>6. QED BY <3>1, <3>3, <3>5 DEF d
  <2>7. QED BY <2>5, <2>6
<1>3. QED BY <1>1, <1>2

-----------------------------------------------------------------------------
(* The passes of main.c.                                                   *)

LEMMA WorldTypes ==
  ASSUME w \in Worlds
  PROVE  /\ ListsRead(w)
         /\ w.cmd \in {"install", "upgrade", "remove"}
         /\ w.conf.ignore_dep \in BOOLEAN /\ w.conf.disable_dep_check \in BOOLEAN
         /\ w.conf.re_install \in BOOLEAN /\ w.conf.dist_upgrade \in BOOLEAN
BY WorldAssumption DEF ListsRead, Logged, Offered

\* The dependents of a conflict, or of an argument to remove.
LEMMA DependentsType ==
  ASSUME ListsRead(w), NEW ti, NEW tr, NEW pkg
  PROVE  /\ InstalledOf(w, RequiredBy(w, ti, tr, pkg)) \in Seq(Range(w.avail))
         /\ Range(InstalledOf(w, RequiredBy(w, ti, tr, pkg)))
              = {p \in Range(RequiredBy(w, ti, tr, pkg)) : IsExactlyInstalled(w, p)}
BY RequiredByTakes, InstalledOfRange

LEMMA RemoveConflictKeeps ==
  ASSUME ListsRead(w), NEW t, Sound(w, t), NEW conflict \in PackagesOf(w)
  PROVE  Keeps(w, t, RemoveConflict(t, conflict))
<1> DEFINE r == InstalledOf(w, RequiredBy(w, t.install, t.remove, conflict))
           T == PackagesOf(w)
<1>1. r \in Seq(T)
  <2>1. r \in Seq(Range(w.avail))
    BY DependentsType
  <2>2. Range(w.avail) \subseteq T
    BY DEF PackagesOf
  <2> HIDE DEF r, T
  <2>3. QED BY <2>1, <2>2, SeqOfMore
<1>2. RemoveConflict(t, conflict) = AddRemoveAll(t, r \o <<conflict>>)
  BY DEF RemoveConflict
<1> HIDE DEF r
<1>3. <<conflict>> \in Seq(T)
  OBVIOUS
<1>4. r \o <<conflict>> \in Seq(T)
  BY <1>1, <1>3, RangeOfConcat
<1>5. QED BY <1>2, <1>4, AddRemoveAllAdds, AddsNothing

ConflictOp(a, b, c, d, e, acc, conflict) ==
  CHOOSE r \in {RemoveConflict(u, conflict) : u \in {acc}} : TRUE
ConflictFold == INSTANCE FoldProofs WITH Op <- ConflictOp

LEMMA RemoveConflictsIsFold ==
  \A t, conflicts :
    RemoveConflicts(t, conflicts)
      = IF w.conf.ignore_dep THEN t ELSE ConflictFold!Result(0, 0, 0, 0, 0, t, conflicts)
BY DEF RemoveConflicts, Fold, ConflictFold!Result, ConflictOp, FoldLeft,
       MapThenFoldSet, ConflictFold!FoldLeft, ConflictFold!MapThenFoldSet,
       Max, ConflictFold!Max

LEMMA ConflictOpIs ==
  \A acc, conflict :
    ConflictOp(0, 0, 0, 0, 0, acc, conflict) = RemoveConflict(acc, conflict)
<1> TAKE acc, conflict
<1> DEFINE of(u) == RemoveConflict(u, conflict)
<1>1. {of(u) : u \in {acc}} = {of(acc)}
  OBVIOUS
<1>2. ConflictOp(0, 0, 0, 0, 0, acc, conflict) = CHOOSE r \in {of(u) : u \in {acc}} : TRUE
  BY DEF ConflictOp
<1> HIDE DEF of
<1>3. ConflictOp(0, 0, 0, 0, 0, acc, conflict) = of(acc)
  BY <1>1, <1>2
<1>4. QED BY <1>3 DEF of

LEMMA RemoveConflictsKeeps ==
  ASSUME ListsRead(w), NEW t, Sound(w, t), NEW conflicts \in Seq(PackagesOf(w))
  PROVE  Keeps(w, t, RemoveConflicts(t, conflicts))
<1> DEFINE I == {u \in TrxnType(w) : Keeps(w, t, u)}
<1>1. t \in I
  BY KeepsItself DEF Sound
<1>2. \A u \in I, c \in PackagesOf(w) : ConflictOp(0, 0, 0, 0, 0, u, c) \in I
  <2> TAKE u \in I, c \in PackagesOf(w)
  <2>1. Keeps(w, u, RemoveConflict(u, c))
    BY RemoveConflictKeeps DEF Keeps
  <2>2. Keeps(w, t, RemoveConflict(u, c))
    BY <2>1, KeepsFurther
  <2>3. RemoveConflict(u, c) \in TrxnType(w)
    BY <2>2 DEF Keeps, Sound
  <2>4. QED BY <2>2, <2>3, ConflictOpIs
<1> HIDE DEF I
<1>3. ConflictFold!Result(0, 0, 0, 0, 0, t, conflicts) \in I
  BY <1>1, <1>2, ConflictFold!FoldKeeps
<1>4. RemoveConflicts(t, conflicts) \in I
  BY <1>1, <1>3, RemoveConflictsIsFold
<1>5. QED BY <1>4 DEF I

\* An available package that is excluded.
LEMMA ExcludeKeeps ==
  ASSUME NEW t, Sound(w, t), NEW p \in PackagesOf(w)
  PROVE  Keeps(w, t, AddExclude(t, p)) /\ SearchByPkg(AddExclude(t, p), p)
BY AddExcludeAdds, AddsNothing

LEMMA NotExcludedType ==
  ASSUME ListsRead(w)
  PROVE  /\ NotExcluded \in Seq(Range(w.avail))
         /\ \A p \in Range(NotExcluded) : ~IsExcluded(w, p)
<1>1. w.avail \in Seq(Range(w.avail))
  BY RangeType DEF ListsRead
<1>2. QED BY <1>1, KeepRange DEF NotExcluded

LEMMA PickFound ==
  ASSUME NEW T, NEW list \in Seq(T), NEW arg
  PROVE  Pick(list, arg) = <<>> \/ \E p \in Range(list) : Pick(list, arg) = <<p>>
<1>1. CASE arg.version = <<>>
  BY <1>1, NewestFound DEF Pick
<1>2. CASE arg.version # <<>>
  BY <1>2, ExactFound DEF Pick
<1>3. QED BY <1>1, <1>2

LEMMA CmpSplit ==
  ASSUME NEW p \in Package, NEW q \in Package
  PROVE  /\ Cmp(p, q) \in {-1, 0, 1}
         /\ Cmp(p, q) < 0 \/ Cmp(p, q) = 0 \/ Cmp(q, p) < 0
BY DEF Cmp, CmpVersions, Package, Version

\* A package goes behind its dependencies.
LEMMA AddsAfter ==
  ASSUME NEW t, Sound(w, t), NEW d, Keeps(w, t, d), NEW pkg,
         Whole(w, d) => Provided(w, d, pkg),
         NEW x, Keeps(w, d, x), NEW u, Adds(w, x, u, {pkg})
  PROVE  Keeps(w, t, u)
<1>1. Sound(w, d) /\ Sound(w, x) /\ Sound(w, u) /\ Grows(d, x) /\ Grows(x, u)
  BY DEF Keeps, Adds
<1>2. Grows(d, u)
  BY <1>1, GrowsFurther
<1>3. Whole(w, u) => Provided(w, u, pkg)
  BY <1>1, <1>2, WholeBefore, ProvidedLater
<1>4. Keeps(w, x, u)
  BY <1>1, <1>3, AddsLast
<1>5. QED BY <1>4, KeepsFurther

LEMMA AddInPlaceAdds ==
  ASSUME NEW t, Sound(w, t), NEW pkg \in Range(w.avail), Allowed(w, pkg),
         NEW inst \in Range(w.installed),
         Cmp(inst, pkg) = 0 \/ GoesForward(w, inst, pkg)
  PROVE  /\ Adds(w, t, AddInPlace(t, inst, pkg), {pkg})
         /\ SearchByPkg(AddInPlace(t, inst, pkg), pkg)
BY AddPairAdds DEF AddInPlace

LEMMA InstallNewKeeps ==
  ASSUME ListsRead(w), NEW t, Sound(w, t), NEW pkg \in Range(w.avail), Allowed(w, pkg)
  PROVE  Keeps(w, t, InstallNew(t, pkg))
<1> DEFINE of(d) == IF d.ok THEN RemoveConflicts(AddInstall(d.trxn, pkg),
                                                 FindConflicts(d.trxn, pkg))
                    ELSE AddExclude(d.trxn, pkg)
           d0 == AddDependencies(t, pkg)
<1>1. InstallNew(t, pkg) = CHOOSE r \in {of(d) : d \in {d0}} : TRUE
  BY DEF InstallNew, With
<1>2. pkg \in Package /\ pkg \in PackagesOf(w)
  BY ListsReadTypes DEF PackagesOf
<1>3. /\ Keeps(w, t, d0.trxn) /\ Sound(w, d0.trxn)
      /\ d0.ok /\ Whole(w, d0.trxn) => Provided(w, d0.trxn, pkg)
  BY <1>2, AddDependenciesKeeps DEF Keeps
<1> HIDE DEF d0
<1>4. Keeps(w, t, of(d0))
  <2>1. CASE d0.ok
    <3> DEFINE u == AddInstall(d0.trxn, pkg)
    <3>1. Adds(w, d0.trxn, u, {pkg}) /\ Sound(w, u)
      BY <1>3, AddInstallAdds DEF Adds
    <3>2. Keeps(w, d0.trxn, d0.trxn)
      BY <1>3, KeepsItself
    <3>3. Keeps(w, t, u)
      BY <1>3, <2>1, <3>1, <3>2, AddsAfter
    <3>4. Keeps(w, u, RemoveConflicts(u, FindConflicts(d0.trxn, pkg)))
      BY <1>2, <3>1, FindConflictsType, RemoveConflictsKeeps
    <3>5. QED BY <2>1, <3>3, <3>4, KeepsFurther
  <2>2. CASE ~d0.ok
    BY <1>2, <1>3, <2>2, ExcludeKeeps, KeepsFurther
  <2>3. QED BY <2>1, <2>2
<1> HIDE DEF of
<1>5. {of(d) : d \in {d0}} = {of(d0)}
  OBVIOUS
<1>6. QED BY <1>1, <1>4, <1>5

LEMMA InstallOverKeeps ==
  ASSUME ListsRead(w), NEW t, Sound(w, t), NEW pkg \in Range(w.avail), Allowed(w, pkg),
         NEW inst \in Range(w.installed),
         Cmp(inst, pkg) = 0 \/ GoesForward(w, inst, pkg)
  PROVE  Keeps(w, t, InstallOver(t, inst, pkg))
<1> DEFINE place(u) == AddInPlace(u, inst, pkg)
           freed(d) == RemoveConflicts(d.trxn, FindConflicts(d.trxn, pkg))
           of(d) == IF d.ok THEN CHOOSE r \in {place(u) : u \in {freed(d)}} : TRUE
                    ELSE AddExclude(d.trxn, pkg)
           d0 == AddDependencies(t, pkg)
<1>1. InstallOver(t, inst, pkg) = CHOOSE r \in {of(d) : d \in {d0}} : TRUE
  BY DEF InstallOver, With
<1>2. pkg \in Package /\ pkg \in PackagesOf(w)
  BY ListsReadTypes DEF PackagesOf
<1>3. /\ Keeps(w, t, d0.trxn) /\ Sound(w, d0.trxn)
      /\ d0.ok /\ Whole(w, d0.trxn) => Provided(w, d0.trxn, pkg)
  BY <1>2, AddDependenciesKeeps DEF Keeps
<1> HIDE DEF d0
<1>4. Keeps(w, t, of(d0))
  <2>1. CASE d0.ok
    <3>1. Keeps(w, d0.trxn, freed(d0))
      BY <1>2, <1>3, FindConflictsType, RemoveConflictsKeeps
    <3> HIDE DEF freed
    <3>2. Adds(w, freed(d0), place(freed(d0)), {pkg})
      BY <3>1, AddInPlaceAdds DEF Keeps
    <3> HIDE DEF place
    <3>3. Keeps(w, t, place(freed(d0)))
      BY <1>3, <2>1, <3>1, <3>2, AddsAfter
    <3>4. {place(u) : u \in {freed(d0)}} = {place(freed(d0))}
      OBVIOUS
    <3>5. QED BY <2>1, <3>3, <3>4
  <2>2. CASE ~d0.ok
    BY <1>2, <1>3, <2>2, ExcludeKeeps, KeepsFurther
  <2>3. QED BY <2>1, <2>2
<1> HIDE DEF of
<1>5. {of(d) : d \in {d0}} = {of(d0)}
  OBVIOUS
<1>6. QED BY <1>1, <1>4, <1>5

\* slapt_pkg_action_install, one argument.
LEMMA InstallPkgKeeps ==
  ASSUME ListsRead(w), NEW t, Sound(w, t), NEW pkg \in Range(w.avail), ~IsExcluded(w, pkg)
  PROVE  Keeps(w, t, InstallPkg(t, pkg))
<1> DEFINE inst == Newest(w.installed, pkg.name)
<1>1. Allowed(w, pkg)
  BY DEF Allowed
<1>2. CASE inst = <<>>
  BY <1>1, <1>2, InstallNewKeeps DEF InstallPkg
<1>3. ASSUME NEW x \in Range(w.installed), inst = <<x>>
      PROVE  Keeps(w, t, InstallPkg(t, pkg))
  <2>1. inst # <<>> /\ inst[1] = x
    BY <1>3
  <2>2. CASE /\ ~w.conf.no_upgrade \/ w.conf.re_install
             /\ Cmp(x, pkg) < 0 \/ w.conf.re_install
    <3>1. InstallPkg(t, pkg) = InstallOver(t, x, pkg)
      BY <2>1, <2>2 DEF InstallPkg
    <3>2. GoesForward(w, x, pkg)
      BY <1>3, <2>2, NewestGoesForward DEF GoesForward
    <3>3. QED BY <1>1, <1>3, <3>1, <3>2, InstallOverKeeps
  <2>3. CASE ~(/\ ~w.conf.no_upgrade \/ w.conf.re_install
               /\ Cmp(x, pkg) < 0 \/ w.conf.re_install)
    <3>1. InstallPkg(t, pkg) = t
      BY <2>1, <2>3 DEF InstallPkg
    <3>2. QED BY <3>1, KeepsItself
  <2>4. QED BY <2>2, <2>3
<1>4. inst = <<>> \/ \E x \in Range(w.installed) : inst = <<x>>
  BY NewestFound DEF ListsRead
<1> HIDE DEF inst
<1>5. QED BY <1>2, <1>3, <1>4

LEMMA UpgradeKeeps ==
  ASSUME ListsRead(w), NEW t, Sound(w, t), NEW pkg \in Range(w.avail),
         NEW inst \in Range(w.installed),
         Cmp(inst, pkg) = 0 \/ GoesForward(w, inst, pkg)
  PROVE  /\ Keeps(w, t, Upgrade(t, inst, pkg))
         /\ SearchByPkg(Upgrade(t, inst, pkg), pkg)
<1> DEFINE of(d) == IF d.ok /\ (w.conf.ignore_dep \/ FindConflicts(t, pkg) = <<>>)
                    THEN AddInPlace(d.trxn, inst, pkg)
                    ELSE AddExclude(d.trxn, pkg)
           d0 == AddDependencies(t, pkg)
<1>1. pkg \in Package /\ pkg \in PackagesOf(w)
  BY ListsReadTypes DEF PackagesOf
<1>2. CASE IsExcluded(w, pkg) \/ IsExcluded(w, inst)
  <2>1. Upgrade(t, inst, pkg) = AddExclude(t, pkg)
    BY <1>2 DEF Upgrade
  <2>2. QED BY <1>1, <2>1, ExcludeKeeps
<1>3. CASE ~(IsExcluded(w, pkg) \/ IsExcluded(w, inst))
  <2>1. Upgrade(t, inst, pkg) = CHOOSE r \in {of(d) : d \in {d0}} : TRUE
    BY <1>3 DEF Upgrade, With
  <2>2. /\ Keeps(w, t, d0.trxn) /\ Sound(w, d0.trxn)
        /\ d0.ok /\ Whole(w, d0.trxn) => Provided(w, d0.trxn, pkg)
    BY <1>1, AddDependenciesKeeps DEF Keeps
  <2>3. Allowed(w, pkg)
    BY <1>3 DEF Allowed
  <2> HIDE DEF d0
  <2>4. Keeps(w, t, of(d0)) /\ SearchByPkg(of(d0), pkg)
    <3>1. CASE d0.ok /\ (w.conf.ignore_dep \/ FindConflicts(t, pkg) = <<>>)
      <4> DEFINE u == AddInPlace(d0.trxn, inst, pkg)
      <4>1. of(d0) = u
        BY <3>1
      <4>2. Adds(w, d0.trxn, u, {pkg}) /\ SearchByPkg(u, pkg)
        BY <2>2, <2>3, AddInPlaceAdds
      <4> HIDE DEF u
      <4>3. Keeps(w, d0.trxn, d0.trxn)
        BY <2>2, KeepsItself
      <4>4. Keeps(w, t, u)
        BY <2>2, <3>1, <4>2, <4>3, AddsAfter
      <4>5. QED BY <4>1, <4>2, <4>4
    <3>2. CASE ~(d0.ok /\ (w.conf.ignore_dep \/ FindConflicts(t, pkg) = <<>>))
      <4>1. of(d0) = AddExclude(d0.trxn, pkg)
        BY <3>2
      <4>2. QED BY <1>1, <2>2, <4>1, ExcludeKeeps, KeepsFurther
    <3>3. QED BY <3>1, <3>2
  <2> HIDE DEF of
  <2>5. {of(d) : d \in {d0}} = {of(d0)}
    OBVIOUS
  <2>6. QED BY <2>1, <2>4, <2>5
<1>4. QED BY <1>2, <1>3

\* slapt_pkg_action_upgrade_all, one installed package.
LEMMA UpgradeInstalledKeeps ==
  ASSUME ListsRead(w), NEW t, Sound(w, t), NEW inst \in Range(w.installed)
  PROVE  LET u == UpgradeInstalled(t, inst)
         IN  Keeps(w, t, u) /\ SeenTo(w, u, inst)
<1> DEFINE update == Newest(w.avail, inst.name)
           newest == Newest(w.installed, inst.name)
           u == UpgradeInstalled(t, inst)
           Guard(p) == \/ Cmp(inst, p) < 0
                       \/ w.conf.re_install
                       \/ /\ w.conf.dist_upgrade
                          /\ Cmp(inst, p) = 0
                          /\ inst.version.arch # p.version.arch
<1>1. w.installed \in Seq(Logged) /\ \A q \in Range(w.installed) : q \in Logged
  BY RangeType DEF ListsRead
<1>2. PICK last \in Range(w.installed) : last.name = inst.name /\ newest = <<last>>
  BY <1>1, NewestFound
<1>3. \A q \in Range(w.installed) : q.name = inst.name => Cmp(q, last) <= 0
  BY <1>1, <1>2, NewestIsLatest
<1>4. newest[1] = last
  BY <1>2
<1>5. update = <<>> \/ \E p \in Range(w.avail) : p.name = inst.name /\ update = <<p>>
  BY NewestFound DEF ListsRead
<1>6. ASSUME update = <<>>
      PROVE  Keeps(w, t, u) /\ SeenTo(w, u, inst)
  <2>1. u = t /\ SeenTo(w, u, inst)
    BY <1>6 DEF UpgradeInstalled, SeenTo
  <2>2. QED BY <2>1, KeepsItself
<1>7. ASSUME NEW p \in Range(w.avail), p.name = inst.name, update = <<p>>
      PROVE  Keeps(w, t, u) /\ SeenTo(w, u, inst)
  <2>1. update # <<>> /\ update[1] = p
    BY <1>7
  <2>2. CASE Cmp(inst, last) >= 0 /\ Guard(p)
    <3>1. u = Upgrade(t, inst, p)
      BY <1>4, <2>1, <2>2 DEF UpgradeInstalled
    <3>2. \A q \in Range(w.installed) : q.name = p.name => Cmp(q, inst) <= 0
      BY <1>1, <1>3, <1>7, <2>2, LogOrder
    <3>3. Cmp(inst, p) = 0 \/ GoesForward(w, inst, p)
      BY <1>7, <2>2, <3>2 DEF GoesForward
    <3>4. Keeps(w, t, u) /\ SearchByPkg(u, p)
      BY <3>1, <3>3, UpgradeKeeps
    <3> HIDE DEF u
    <3>5. QED BY <2>1, <3>4 DEF SeenTo
  <2>3. CASE ~(Cmp(inst, last) >= 0 /\ Guard(p))
    <3>1. u = t
      BY <1>4, <2>1, <2>3 DEF UpgradeInstalled
    <3>2. SeenTo(w, u, inst)
      <4>1. last = inst => Cmp(inst, last) = 0
        BY <1>1, LogOrder
      <4>2. newest = <<inst>> => last = inst
        BY <1>2
      <4>3. QED BY <2>1, <2>3, <4>1, <4>2 DEF SeenTo
    <3>3. QED BY <3>1, <3>2, KeepsItself
  <2>4. QED BY <2>2, <2>3
<1> HIDE DEF u, update
<1>8. Keeps(w, t, u) /\ SeenTo(w, u, inst)
  <2>1. CASE \E p \in Range(w.avail) : p.name = inst.name /\ update = <<p>>
    <3>1. PICK p \in Range(w.avail) : p.name = inst.name /\ update = <<p>>
      BY <2>1
    <3>2. QED BY <1>7, <3>1
  <2>2. CASE update = <<>>
    BY <1>6, <2>2
  <2>3. QED BY <1>5, <2>1, <2>2
<1>9. QED BY <1>8 DEF u

\* --dist-upgrade goes on only where GoesForward allows it.
LEMMA ForcedAllowed ==
  ASSUME w.cmd = "upgrade", w.conf.dist_upgrade, NEW p,
         p.name = SlaptGet \/ \E e \in Range(Essentials) : e.name = p.name
  PROVE  p.name \in ForcedBy(w) /\ Allowed(w, p)
<1>1. p.name \in ForcedBy(w)
  <2>1. CASE p.name = SlaptGet
    BY <2>1 DEF ForcedBy
  <2>2. ASSUME NEW e \in Range(Essentials), e.name = p.name
        PROVE  p.name \in ForcedBy(w)
    <3>1. PICK i \in DOMAIN Essentials : Essentials[i] = e
      BY DEF Range
    <3>2. QED BY <2>2, <3>1 DEF ForcedBy
  <2>3. QED BY <2>1, <2>2
<1>2. QED BY <1>1 DEF Allowed

LEMMA AddEssentialKeeps ==
  ASSUME ListsRead(w), w.cmd = "upgrade", w.conf.dist_upgrade,
         NEW t, Sound(w, t), NEW e \in Range(Essentials)
  PROVE  LET u == AddEssential(t, e)
         IN  /\ Keeps(w, t, u) /\ EssentialDone(w, u, e)
             /\ Members(u) \subseteq Members(t) \cup EssentialPkgs
<1> DEFINE inst == Newest(w.installed, e.name)
           avail == Newest(w.avail, e.name)
           u == AddEssential(t, e)
           Goal == /\ Keeps(w, t, u) /\ EssentialDone(w, u, e)
                   /\ Members(u) \subseteq Members(t) \cup EssentialPkgs
<1>1. /\ inst = <<>> \/ \E x \in Range(w.installed) : x.name = e.name /\ inst = <<x>>
      /\ avail = <<>> \/ \E p \in Range(w.avail) : p.name = e.name /\ avail = <<p>>
  BY NewestFound DEF ListsRead
<1>2. ASSUME u = t, EssentialDone(w, t, e)
      PROVE  Goal
  BY <1>2, KeepsItself
<1>3. ASSUME NEW p \in Range(w.avail), p.name = e.name, avail = <<p>>,
             Adds(w, t, u, {p}), SearchByPkg(u, p), p \in EssentialPkgs
      PROVE  Goal
  <2>1. p.name \in ForcedBy(w)
    BY <1>3, ForcedAllowed
  <2>2. avail[1] = p
    BY <1>3
  <2> HIDE DEF u
  <2>3. Keeps(w, t, u)
    BY <1>3, <2>1, AddsLast
  <2>4. EssentialDone(w, u, e)
    BY <1>3, <2>2 DEF EssentialDone
  <2>5. Members(u) \subseteq Members(t) \cup EssentialPkgs
    BY <1>3 DEF Adds
  <2>6. QED BY <2>3, <2>4, <2>5
<1>4. ASSUME avail = <<>>
      PROVE  Goal
  <2>1. u = t
    BY <1>4 DEF AddEssential
  <2>2. EssentialDone(w, t, e)
    BY <1>4 DEF EssentialDone
  <2>3. QED BY <1>2, <2>1, <2>2
<1>5. ASSUME NEW p \in Range(w.avail), p.name = e.name, avail = <<p>>
      PROVE  Goal
  <2>1. avail # <<>> /\ avail[1] = p
    BY <1>5
  <2>2. Allowed(w, p)
    BY <1>5, ForcedAllowed
  <2>3. CASE inst = <<>>
    <3>1. CASE e.upgrade_only
      <4>1. u = t
        BY <2>3, <3>1 DEF AddEssential
      <4>2. EssentialDone(w, t, e)
        BY <2>3, <3>1 DEF EssentialDone
      <4>3. QED BY <1>2, <4>1, <4>2
    <3>2. CASE ~e.upgrade_only
      <4>1. u = AddInstall(t, p)
        BY <2>1, <2>3, <3>2 DEF AddEssential
      <4>2. Adds(w, t, u, {p}) /\ SearchByPkg(u, p)
        BY <2>2, <4>1, AddInstallAdds
      <4>3. p \in EssentialPkgs
        <5>1. Newest(w.installed, p.name) = <<>>
          BY <1>5, <2>3
        <5>2. \E f \in Range(Essentials) : f.name = p.name /\ ~f.upgrade_only
          BY <1>5, <3>2
        <5>3. QED BY <1>5, <5>1, <5>2 DEF EssentialPkgs, IsEssential
      <4>4. QED BY <1>3, <1>5, <4>2, <4>3
    <3>3. QED BY <3>1, <3>2
  <2>4. ASSUME NEW x \in Range(w.installed), inst = <<x>>
        PROVE  Goal
    <3>1. inst # <<>> /\ inst[1] = x
      BY <2>4
    <3>2. CASE Cmp(x, p) < 0
      <4>1. u = AddUpgrade(t, x, p)
        BY <2>1, <3>1, <3>2 DEF AddEssential
      <4>2. GoesForward(w, x, p)
        BY <1>5, <2>4, <3>2, NewestGoesForward
      <4>3. Adds(w, t, u, {p}) /\ SearchByPkg(u, p)
        BY <2>2, <4>1, <4>2, AddPairAdds
      <4>4. p \in EssentialPkgs
        <5>1. Newest(w.installed, p.name) = inst
          BY <1>5
        <5> HIDE DEF inst
        <5>2. QED BY <1>5, <3>1, <3>2, <5>1 DEF EssentialPkgs, IsEssential
      <4>5. QED BY <1>3, <1>5, <4>3, <4>4
    <3>3. CASE ~(Cmp(x, p) < 0)
      <4>1. u = t
        BY <2>1, <3>1, <3>3 DEF AddEssential
      <4>2. EssentialDone(w, t, e)
        BY <2>1, <3>1, <3>3 DEF EssentialDone
      <4>3. QED BY <1>2, <4>1, <4>2
    <3>4. QED BY <3>2, <3>3
  <2> HIDE DEF inst, Goal
  <2>5. QED BY <1>1, <2>3, <2>4
<1> HIDE DEF Goal, avail
<1>6. Goal
  BY <1>1, <1>4, <1>5
<1>7. QED BY <1>6 DEF Goal

LEMMA DropReplacedAdds ==
  ASSUME ListsRead(w), NEW t, Sound(w, t), NEW e
  PROVE  Adds(w, t, DropReplaced(t, e), {})
<1> DEFINE old == Newest(w.installed, e.replaces)
<1>1. old \in Seq(PackagesOf(w))
  <2>1. old = <<>> \/ \E x \in Range(w.installed) : old = <<x>>
    BY NewestFound DEF ListsRead
  <2>2. \A x \in Range(w.installed) : x \in PackagesOf(w)
    BY DEF PackagesOf
  <2> HIDE DEF old
  <2>3. \A x \in PackagesOf(w) : <<x>> \in Seq(PackagesOf(w))
    OBVIOUS
  <2>4. <<>> \in Seq(PackagesOf(w))
    OBVIOUS
  <2>5. QED BY <2>1, <2>2, <2>3, <2>4, Zenon
<1>2. Adds(w, t, t, {})
  BY GrowsNot DEF Adds
<1> HIDE DEF old
<1>3. Adds(w, t, AddRemoveAll(t, old), {})
  BY <1>1, AddRemoveAllAdds
<1>4. QED BY <1>2, <1>3 DEF DropReplaced, old

\* slapt_dist_upgrade: one essential package.
LEMMA UpgradeEssentialKeeps ==
  ASSUME ListsRead(w), w.cmd = "upgrade", w.conf.dist_upgrade,
         NEW t, Sound(w, t), NEW e \in Range(Essentials)
  PROVE  LET u == UpgradeEssential(t, e)
         IN  /\ Keeps(w, t, u) /\ EssentialDone(w, u, e)
             /\ Members(u) \subseteq Members(t) \cup EssentialPkgs
<1> DEFINE x == AddEssential(t, e)
           u == DropReplaced(x, e)
<1>1. /\ Keeps(w, t, x) /\ EssentialDone(w, x, e)
      /\ Members(x) \subseteq Members(t) \cup EssentialPkgs
  BY AddEssentialKeeps
<1> HIDE DEF x
<1>2. Adds(w, x, u, {})
  BY <1>1, DropReplacedAdds DEF Keeps
<1> HIDE DEF u
<1>3. Keeps(w, t, u)
  BY <1>1, <1>2, AddsNothing, KeepsFurther DEF Keeps
<1>4. EssentialDone(w, u, e)
  BY <1>1, <1>2, MembersGrow DEF EssentialDone, Adds
<1>5. Members(u) \subseteq Members(t) \cup EssentialPkgs
  BY <1>1, <1>2 DEF Adds
<1>6. UpgradeEssential(t, e) = u
  BY DEF UpgradeEssential, u, x
<1>7. QED BY <1>3, <1>4, <1>5, <1>6

LEMMA AddBasePlainAdds ==
  ASSUME ListsRead(w), w.conf.dist_upgrade, NEW t, Sound(w, t),
         NEW pkg \in Range(w.avail), Allowed(w, pkg),
         NEW inst, inst = Newest(w.installed, pkg.name),
         inst # <<>> => Cmp(inst[1], pkg) <= 0
  PROVE  Adds(w, t, AddBasePlain(t, inst, pkg), {pkg})
<1>1. CASE inst = <<>>
  BY <1>1, AddInstallAdds DEF AddBasePlain
<1>2. ASSUME NEW x \in Range(w.installed), inst = <<x>>
      PROVE  Adds(w, t, AddBasePlain(t, inst, pkg), {pkg})
  <2>1. inst # <<>> /\ inst[1] = x
    BY <1>2
  <2>2. x \in Package /\ pkg \in Package
    BY ListsReadTypes
  <2>3. Cmp(x, pkg) < 0 \/ Cmp(x, pkg) = 0
    BY <2>1, <2>2, CmpSplit
  <2>4. GoesForward(w, x, pkg)
    BY <1>2, <2>3, NewestGoesForward
  <2>5. QED BY <2>1, <2>4, AddPairAdds DEF AddBasePlain
<1>3. inst = <<>> \/ \E x \in Range(w.installed) : inst = <<x>>
  BY NewestFound DEF ListsRead
<1>4. QED BY <1>1, <1>2, <1>3

LEMMA AddBaseKeeps ==
  ASSUME ListsRead(w), w.conf.dist_upgrade, NEW t, Sound(w, t),
         NEW pkg \in Range(w.avail),
         NEW inst, inst = Newest(w.installed, pkg.name),
         inst # <<>> => Cmp(inst[1], pkg) <= 0
  PROVE  Keeps(w, t, AddBase(t, inst, pkg))
<1> DEFINE of(d) == IF d.ok /\ ~w.conf.ignore_dep /\ FindConflicts(t, pkg) = <<>>
                    THEN AddBasePlain(d.trxn, inst, pkg)
                    ELSE AddExclude(d.trxn, pkg)
           d0 == AddDependencies(t, pkg)
           Out == \E p \in Range(inst) \cup {pkg} : IsExcluded(w, p)
<1>1. pkg \in Package /\ pkg \in PackagesOf(w)
  BY ListsReadTypes DEF PackagesOf
<1>2. CASE Out
  <2>1. AddBase(t, inst, pkg) = AddExclude(t, pkg)
    BY <1>2 DEF AddBase
  <2>2. QED BY <1>1, <2>1, ExcludeKeeps
<1>3. CASE ~Out
  <2>1. AddBase(t, inst, pkg) = CHOOSE r \in {of(d) : d \in {d0}} : TRUE
    BY <1>3 DEF AddBase, With
  <2>2. /\ Keeps(w, t, d0.trxn) /\ Sound(w, d0.trxn)
        /\ d0.ok /\ Whole(w, d0.trxn) => Provided(w, d0.trxn, pkg)
    BY <1>1, AddDependenciesKeeps DEF Keeps
  <2>3. Allowed(w, pkg)
    BY <1>3 DEF Allowed
  <2> HIDE DEF d0
  <2>4. Keeps(w, t, of(d0))
    <3>1. CASE d0.ok /\ ~w.conf.ignore_dep /\ FindConflicts(t, pkg) = <<>>
      <4> DEFINE u == AddBasePlain(d0.trxn, inst, pkg)
      <4>1. of(d0) = u
        BY <3>1
      <4>2. Adds(w, d0.trxn, u, {pkg})
        BY <2>2, <2>3, AddBasePlainAdds
      <4> HIDE DEF u
      <4>3. Keeps(w, d0.trxn, d0.trxn)
        BY <2>2, KeepsItself
      <4>4. Keeps(w, t, u)
        BY <2>2, <3>1, <4>2, <4>3, AddsAfter
      <4>5. QED BY <4>1, <4>4
    <3>2. CASE ~(d0.ok /\ ~w.conf.ignore_dep /\ FindConflicts(t, pkg) = <<>>)
      <4>1. of(d0) = AddExclude(d0.trxn, pkg)
        BY <3>2
      <4>2. QED BY <1>1, <2>2, <4>1, ExcludeKeeps, KeepsFurther
    <3>3. QED BY <3>1, <3>2
  <2> HIDE DEF of
  <2>5. {of(d) : d \in {d0}} = {of(d0)}
    OBVIOUS
  <2>6. QED BY <2>1, <2>4, <2>5
<1>4. QED BY <1>2, <1>3

\* slapt_dist_upgrade: one package of the base set.
LEMMA UpgradeBaseKeeps ==
  ASSUME ListsRead(w), w.conf.dist_upgrade, NEW t, Sound(w, t),
         NEW match \in Range(w.avail)
  PROVE  Keeps(w, t, UpgradeBase(t, match))
<1> DEFINE newer == Newest(w.avail, match.name)[1]
           inst == Newest(w.installed, match.name)
           of(pkg) == IF inst = <<>> \/ Differs(inst[1], pkg)
                      THEN AddBase(t, inst, pkg) ELSE t
           pkg0 == IF Cmp(match, newer) < 0 THEN newer ELSE match
<1>1. UpgradeBase(t, match) = CHOOSE r \in {of(pkg) : pkg \in {pkg0}} : TRUE
  BY DEF UpgradeBase, With
<1>2. newer \in Range(w.avail) /\ newer.name = match.name
  <2>1. PICK p \in Range(w.avail) :
          p.name = match.name /\ Newest(w.avail, match.name) = <<p>>
    BY NewestFound DEF ListsRead
  <2>2. Newest(w.avail, match.name)[1] = p
    BY <2>1
  <2>3. QED BY <2>1, <2>2
<1> HIDE DEF newer
<1>3. pkg0 \in Range(w.avail) /\ pkg0.name = match.name
  BY <1>2
<1> HIDE DEF pkg0
<1>4. Keeps(w, t, of(pkg0))
  <2>1. CASE inst = <<>> \/ Differs(inst[1], pkg0)
    <3>1. inst = Newest(w.installed, pkg0.name)
      BY <1>3
    <3> HIDE DEF inst
    <3>2. Keeps(w, t, AddBase(t, inst, pkg0))
      BY <1>3, <2>1, <3>1, AddBaseKeeps DEF Differs
    <3>3. QED BY <2>1, <3>2
  <2>2. CASE ~(inst = <<>> \/ Differs(inst[1], pkg0))
    BY <2>2, KeepsItself
  <2>3. QED BY <2>1, <2>2
<1> HIDE DEF of
<1>5. {of(pkg) : pkg \in {pkg0}} = {of(pkg0)}
  OBVIOUS
<1>6. QED BY <1>1, <1>4, <1>5

\* slapt_dist_upgrade or slapt_pkg_action_remove: one obsolete package.
LEMMA ObsoletePkgAdds ==
  ASSUME NEW t, Sound(w, t), NEW p \in PackagesOf(w)
  PROVE  LET u == ObsoletePkg(t, p)
         IN  /\ Adds(w, t, u, {}) /\ SearchByPkg(u, p)
             /\ Range(u.remove) \subseteq Range(t.remove) \cup {p}
BY AddExcludeAdds, AddRemoveAdds DEF ObsoletePkg

\* slapt_dist_upgrade: slapt-get itself.
LEMMA UpgradeSlaptGetKeeps ==
  ASSUME ListsRead(w), w.cmd = "upgrade", w.conf.dist_upgrade, NEW t, Sound(w, t)
  PROVE  Keeps(w, t, UpgradeSlaptGet(t))
<1> DEFINE newest == Newest(w.avail, SlaptGet)
           inst == Newest(w.installed, SlaptGet)
<1>1. CASE newest = <<>>
  BY <1>1, KeepsItself DEF UpgradeSlaptGet
<1>2. ASSUME NEW p \in Range(w.avail), p.name = SlaptGet, newest = <<p>>
      PROVE  Keeps(w, t, UpgradeSlaptGet(t))
  <2> DEFINE of(d) == IF inst = <<>> THEN d.trxn ELSE AddReinstall(d.trxn, inst[1], p)
             d0 == AddDependencies(t, p)
  <2>1. newest # <<>> /\ newest[1] = p
    BY <1>2
  <2>2. UpgradeSlaptGet(t) = CHOOSE r \in {of(d) : d \in {d0}} : TRUE
    BY <2>1 DEF UpgradeSlaptGet, With
  <2>3. p.name \in ForcedBy(w) /\ Allowed(w, p)
    BY <1>2, ForcedAllowed
  <2>4. p \in Package
    BY ListsReadTypes
  <2>5. Keeps(w, t, d0.trxn) /\ Sound(w, d0.trxn)
    BY <2>4, AddDependenciesKeeps DEF Keeps
  <2> HIDE DEF d0
  <2>6. Keeps(w, t, of(d0))
    <3>1. CASE inst = <<>>
      BY <2>5, <3>1
    <3>2. ASSUME NEW x \in Range(w.installed), inst = <<x>>
          PROVE  Keeps(w, t, of(d0))
      <4> DEFINE u == AddReinstall(d0.trxn, x, p)
      <4>1. of(d0) = u
        <5>1. inst # <<>> /\ inst[1] = x
          BY <3>2
        <5>2. QED BY <5>1
      <4>2. Adds(w, d0.trxn, u, {p})
        BY <2>3, <2>5, AddPairAdds
      <4> HIDE DEF u
      <4>3. Keeps(w, d0.trxn, u)
        BY <2>3, <2>5, <4>2, AddsLast
      <4>4. QED BY <2>5, <4>1, <4>3, KeepsFurther
    <3>3. inst = <<>> \/ \E x \in Range(w.installed) : inst = <<x>>
      BY NewestFound DEF ListsRead
    <3> HIDE DEF inst, of
    <3>4. QED BY <3>1, <3>2, <3>3
  <2> HIDE DEF of
  <2>7. {of(d) : d \in {d0}} = {of(d0)}
    OBVIOUS
  <2>8. QED BY <2>2, <2>6, <2>7
<1>3. newest = <<>> \/ \E p \in Range(w.avail) : p.name = SlaptGet /\ newest = <<p>>
  BY NewestFound DEF ListsRead
<1> HIDE DEF newest
<1>4. QED BY <1>1, <1>2, <1>3

\* slapt_pkg_action_remove: one argument.
LEMMA RemoveDependentsAdds ==
  ASSUME ListsRead(w), NEW t, Sound(w, t), NEW pkg \in PackagesOf(w)
  PROVE  LET u == RemoveDependents(t, pkg)
         IN  /\ Adds(w, t, u, {})
             /\ ~w.conf.disable_dep_check =>
                  /\ Covered(w, u, pkg)
                  /\ \A q \in Range(u.remove) : q \in Range(t.remove) \/ Covered(w, u, q)
<1> DEFINE r == RequiredBy(w, t.install, t.remove, pkg)
           s == InstalledOf(w, r)
           u == AddRemoveAll(t, s)
<1>1. u = RemoveDependents(t, pkg)
  BY DEF RemoveDependents
<1>2. /\ s \in Seq(Range(w.avail))
      /\ Range(s) = {p \in Range(r) : IsExactlyInstalled(w, p)}
  BY DependentsType
<1>3. ~w.conf.disable_dep_check => \A q \in Range(r) \cup {pkg} : Takes(w, r, q)
  BY RequiredByTakes
<1> HIDE DEF r, s
<1>4. s \in Seq(PackagesOf(w))
  <2>1. Range(w.avail) \subseteq PackagesOf(w)
    BY DEF PackagesOf
  <2>2. QED BY <1>2, <2>1, SeqOfMore
<1>5. /\ Adds(w, t, u, {})
      /\ Range(u.remove) \subseteq Range(t.remove) \cup Range(s)
      /\ \A p \in Range(s) : SearchByPkg(u, p)
  BY <1>4, AddRemoveAllAdds
<1> HIDE DEF u
<1>6. ~w.conf.disable_dep_check => \A q \in Range(r) \cup {pkg} : Covered(w, u, q)
  BY <1>2, <1>3, <1>5 DEF Takes, Covered
<1>7. QED BY <1>1, <1>2, <1>5, <1>6

-----------------------------------------------------------------------------
(* The loops and what they go over.                                        *)

LEMMA LoopsAre ==
  ASSUME w \in Worlds
  PROVE  /\ w.cmd = "install" => Loops = <<"install">>
         /\ w.cmd = "upgrade" /\ w.conf.dist_upgrade =>
              Loops = <<"essentials", "base", "obsolete", "slapt-get", "upgrade">>
         /\ w.cmd = "upgrade" /\ ~w.conf.dist_upgrade => Loops = <<"upgrade">>
         /\ w.cmd = "remove" => Loops = <<"remove", "dependents", "obsolete">>
BY WorldTypes DEF Loops

\* The commands a loop belongs to.
LEMMA LoopOf ==
  ASSUME w \in Worlds, NEW loop \in Range(Loops)
  PROVE  \/ w.cmd = "install" /\ loop = "install"
         \/ /\ w.cmd = "upgrade" /\ w.conf.dist_upgrade
            /\ loop \in {"essentials", "base", "obsolete", "slapt-get", "upgrade"}
         \/ w.cmd = "upgrade" /\ ~w.conf.dist_upgrade /\ loop = "upgrade"
         \/ w.cmd = "remove" /\ loop \in {"remove", "dependents", "obsolete"}
<1>1. PICK i \in DOMAIN Loops : Loops[i] = loop
  BY DEF Range
<1>2. CASE w.cmd = "install"
  BY <1>1, <1>2, LoopsAre
<1>3. CASE w.cmd = "upgrade" /\ w.conf.dist_upgrade
  BY <1>1, <1>3, LoopsAre
<1>4. CASE w.cmd = "upgrade" /\ ~w.conf.dist_upgrade
  BY <1>1, <1>4, LoopsAre
<1>5. CASE w.cmd = "remove"
  BY <1>1, <1>5, LoopsAre
<1>6. QED BY <1>2, <1>3, <1>4, <1>5, WorldTypes

LEMMA ScheduledType ==
  ASSUME w \in Worlds
  PROVE  Scheduled \in Seq(Range(w.installed))
<1> DEFINE T == Range(w.installed)
           picks == [i \in DOMAIN w.args |-> Pick(w.installed, w.args[i])]
           n == Len(w.args)
<1>1. w.args \in Seq([name : STRING, version : Seq(Version)]) /\ w.installed \in Seq(T)
  BY WorldAssumption, WorldTypes, RangeType DEF ListsRead
<1>2. n \in Nat /\ DOMAIN w.args = 1..n
  BY <1>1
<1> HIDE DEF n
<1>3. \A arg : Pick(w.installed, arg) \in Seq(T)
  <2> TAKE arg
  <2>1. \A p \in T : <<p>> \in Seq(T)
    OBVIOUS
  <2>2. <<>> \in Seq(T)
    OBVIOUS
  <2> HIDE DEF T
  <2>3. Pick(w.installed, arg) = <<>> \/ \E p \in T : Pick(w.installed, arg) = <<p>>
    BY <1>1, PickFound DEF T
  <2>4. QED BY <2>1, <2>2, <2>3, Zenon
<1> HIDE DEF T
<1>4. picks \in [1..n -> Seq(T)]
  BY <1>2, <1>3
<1>5. Scheduled = Concat(picks)
  BY DEF Scheduled
<1> HIDE DEF picks
<1>6. picks \in Seq(Seq(T))
  BY <1>2, <1>4, FunctionIsSeq, Zenon
<1>7. QED BY <1>5, <1>6, ConcatRange DEF T

LEMMA ItemsAre ==
  ASSUME w \in Worlds
  PROVE  /\ Items("install") = w.args
         /\ Items("essentials") = Essentials
         /\ Items("base") \in Seq(Range(w.avail))
         /\ Items("obsolete") \in Seq(Range(w.installed))
         /\ Items("slapt-get") = <<SlaptGet>>
         /\ Items("upgrade") = w.installed
         /\ Items("remove") = Scheduled
         /\ Items("dependents") = Scheduled
<1>1. ListsRead(w)
  BY WorldTypes
<1>2. Items("base") \in Seq(Range(w.avail))
  <2>1. w.avail \in Seq(Range(w.avail))
    BY <1>1, RangeType DEF ListsRead
  <2>2. QED BY <2>1, KeepRange DEF Items
<1>3. Items("obsolete") \in Seq(Range(w.installed))
  <2>1. Items("obsolete") = Obsolete(w) \/ Items("obsolete") = <<>>
    BY DEF Items
  <2>2. Obsolete(w) \in Seq(Range(w.installed)) /\ <<>> \in Seq(Range(w.installed))
    BY <1>1, ObsoleteCloses
  <2>3. QED BY <2>1, <2>2, Zenon
<1>4. QED BY <1>2, <1>3 DEF Items

LEMMA ItemsType ==
  ASSUME w \in Worlds, NEW loop \in Range(Loops)
  PROVE  Items(loop) \in Seq(Range(Items(loop)))
<1>1. \E T : Items(loop) \in Seq(T)
  <2>1. w.args \in Seq([name : STRING, version : Seq(Version)])
    BY WorldAssumption
  <2>2. w.installed \in Seq(Logged)
    BY WorldTypes DEF ListsRead
  <2>3. <<SlaptGet>> \in Seq({SlaptGet})
    OBVIOUS
  <2>4. Scheduled \in Seq(Range(w.installed))
    BY ScheduledType
  <2>5. QED BY <2>1, <2>2, <2>3, <2>4, LoopOf, ItemsAre, EssentialsAssumption
<1>2. QED BY <1>1, RangeType

\* The next item of the loop that runs.
LEMMA HeadOf ==
  ASSUME LoopInv, pc \in Range(Loops), todo # <<>>
  PROVE  /\ Head(todo) \in Range(Items(pc))
         /\ Tail(todo) \in Seq(Range(Items(pc)))
         /\ \A x \in Range(todo) : x = Head(todo) \/ x \in Range(Tail(todo))
<1> DEFINE T == Range(Items(pc))
<1>1. todo \in Seq(T)
  BY DEF LoopInv
<1> HIDE DEF T
<1>2. Head(todo) \in T /\ Tail(todo) \in Seq(T)
  BY <1>1
<1>3. ASSUME NEW x \in Range(todo), x # Head(todo)
      PROVE  x \in Range(Tail(todo))
  <2>1. PICK i \in DOMAIN todo : todo[i] = x
    BY <1>3 DEF Range
  <2>2. i # 1 /\ i \in 1..Len(todo)
    BY <1>1, <1>3, <2>1
  <2>3. i - 1 \in DOMAIN Tail(todo) /\ Tail(todo)[i - 1] = x
    BY <1>1, <2>1, <2>2
  <2>4. QED BY <2>3 DEF Range
<1>4. QED BY <1>2, <1>3 DEF T

LEMMA Unchanged ==
  ASSUME w' = w
  PROVE  /\ Loops' = Loops /\ EssentialPkgs' = EssentialPkgs /\ Scheduled' = Scheduled
         /\ \A loop : Items(loop)' = Items(loop)
<1>1. Loops' = Loops
  BY DEF Loops
<1>2. EssentialPkgs' = EssentialPkgs
  BY DEF EssentialPkgs, IsEssential
<1>3. Scheduled' = Scheduled
  BY DEF Scheduled, Pick
<1>4. \A loop : Items(loop)' = Items(loop)
  BY <1>3 DEF Items
<1>5. QED BY <1>1, <1>2, <1>3, <1>4

-----------------------------------------------------------------------------
(* The invariant is inductive.                                             *)

LEMMA EmptySound ==
  ASSUME NEW v
  PROVE  /\ Sound(v, EmptyTrxn) /\ Complete(v, EmptyTrxn)
         /\ Members(EmptyTrxn) = {} /\ Range(EmptyTrxn.remove) = {}
<1> DEFINE t == EmptyTrxn
<1>1. /\ t.install = <<>> /\ t.upgrade = <<>> /\ t.reinstall = <<>>
      /\ t.remove = <<>> /\ t.exclude = <<>> /\ t.queue = <<>>
      /\ \A l \in Lists : t[l] = <<>>
  BY DEF EmptyTrxn, Lists, PkgLists, UpgradeLists
<1>2. t \in TrxnType(v)
  <2>1. \A T : <<>> \in Seq(T)
    OBVIOUS
  <2>2. {} \in SUBSET STRING
    OBVIOUS
  <2>3. QED BY <2>1, <2>2 DEF EmptyTrxn, TrxnType
<1> HIDE DEF t
<1>3. \A l \in QueuedLists : t[l] = <<>>
  BY <1>1 DEF QueuedLists
<1>4. Members(t) = {} /\ Range(t.remove) = {} /\ Range(t.upgrade) = {}
  BY <1>1, <1>3, RangeOfOne DEF Members
<1>5. Pointed(t)
  BY <1>1, <1>3 DEF Pointed
<1>6. Sound(v, t) /\ Complete(v, t)
  BY <1>2, <1>4, <1>5 DEF Sound, Complete
<1>7. QED BY <1>4, <1>6 DEF t

LEMMA InitIInv == Init => IInv
<1> SUFFICES ASSUME Init PROVE IInv
  OBVIOUS
<1>1. w \in Worlds /\ trxn = EmptyTrxn /\ pc = "read"
  BY DEF Init
<1>2. LoopInv
  <2>1. pc \notin Range(Loops)
    BY <1>1, LoopOf
  <2>2. QED BY <1>1, <2>1 DEF LoopInv
<1>3. Sound(w, trxn) /\ Complete(w, trxn) /\ Members(trxn) = {}
  BY <1>1, EmptySound
<1>4. UpdateInv /\ RemoveInv /\ EssentialInv
  BY <1>1, <1>3 DEF UpdateInv, RemoveInv, EssentialInv
<1>5. QED BY <1>1, <1>2, <1>3, <1>4 DEF IInv

\* What is true of a transaction that only grows.
LEMMA SeenLater ==
  ASSUME NEW v, NEW t, NEW u, Grows(t, u)
  PROVE  /\ \A p : SeenTo(v, t, p) => SeenTo(v, u, p)
         /\ \A q : Covered(v, t, q) => Covered(v, u, q)
         /\ \A e : EssentialDone(v, t, e) => EssentialDone(v, u, e)
<1>1. \A p : SearchByPkg(t, p) => SearchByPkg(u, p)
  BY MembersGrow
<1>2. \A p : SeenTo(v, t, p) => SeenTo(v, u, p)
  BY <1>1 DEF SeenTo
<1>3. \A q : Covered(v, t, q) => Covered(v, u, q)
  BY <1>1 DEF Covered
<1>4. \A e : EssentialDone(v, t, e) => EssentialDone(v, u, e)
  BY <1>1 DEF EssentialDone
<1>5. QED BY <1>2, <1>3, <1>4

LEMMA LeadLater ==
  ASSUME NEW v, NEW t, NEW u, Sound(v, t), Sound(v, u), Grows(t, u), NEW E, Lead(E, t)
  PROVE  Lead(E, u)
<1>1. \A p \in E : SearchByPkg(u, p)
  BY MembersGrow DEF Lead
<1>2. ASSUME NEW j \in DOMAIN u.queue, NEW k \in DOMAIN u.queue, j < k, Due(u, k) \in E
      PROVE  Due(u, j) \in E
  <2>1. k \in DOMAIN t.queue
    BY <1>2 DEF Grows, Lead
  <2>2. t.queue \in Seq(Pointer) /\ u.queue \in Seq(Pointer)
    BY ListTypes DEF Sound
  <2>3. j \in DOMAIN t.queue
    BY <1>2, <2>1, <2>2
  <2>4. Due(u, k) = Due(t, k) /\ Due(u, j) = Due(t, j)
    BY <2>1, <2>3, DueStays
  <2>5. QED BY <1>2, <2>1, <2>3, <2>4 DEF Lead
<1>3. QED BY <1>1, <1>2 DEF Lead

\* After the last essential package.
LEMMA LeadStarts ==
  ASSUME NEW t, Sound(w, t), Members(t) \subseteq EssentialPkgs,
         \A e \in Range(Essentials) : EssentialDone(w, t, e)
  PROVE  Lead(EssentialPkgs, t)
<1>1. ASSUME NEW p \in EssentialPkgs
      PROVE  SearchByPkg(t, p)
  <2>1. Newest(w.avail, p.name) = <<p>> /\ IsEssential(p)
    BY DEF EssentialPkgs, IsEssential
  <2>2. Newest(w.avail, p.name) # <<>> /\ Newest(w.avail, p.name)[1] = p
    BY <2>1
  <2>3. CASE Newest(w.installed, p.name) = <<>>
    BY <2>1, <2>2, <2>3 DEF IsEssential, EssentialDone
  <2>4. CASE Newest(w.installed, p.name) # <<>>
    BY <2>1, <2>2, <2>4 DEF IsEssential, EssentialDone
  <2>5. QED BY <2>3, <2>4
<1>2. \A j \in DOMAIN t.queue : Due(t, j) \in EssentialPkgs
  BY DueStays
<1>3. QED BY <1>1, <1>2 DEF Lead

\* One pass of a loop, given what it does to what the loop is about.
LEMMA PassHolds ==
  ASSUME IInv, NEW loop \in Range(Loops), NEW t, Pass(loop, t), Keeps(w, trxn, t),
         loop = "upgrade" => SeenTo(w, t, Head(todo)),
         loop = "essentials" =>
           /\ Members(t) \subseteq Members(trxn) \cup EssentialPkgs
           /\ EssentialDone(w, t, Head(todo)),
         w.cmd = "remove" => Adds(w, trxn, t, {}),
         w.cmd = "remove" /\ loop \in {"remove", "obsolete"} =>
           /\ Range(t.remove) \subseteq Range(trxn.remove) \cup {Head(todo)}
           /\ SearchByPkg(t, Head(todo)),
         loop = "dependents" /\ ~w.conf.disable_dep_check =>
           /\ Covered(w, t, Head(todo))
           /\ \A q \in Range(t.remove) : q \in Range(trxn.remove) \/ Covered(w, t, q)
  PROVE  IInv'
<1>1. /\ pc = loop /\ todo # <<>> /\ trxn' = t /\ todo' = Tail(todo)
      /\ w' = w /\ pc' = pc
  BY DEF Pass
<1>2. /\ Loops' = Loops /\ EssentialPkgs' = EssentialPkgs /\ Scheduled' = Scheduled
      /\ Items("obsolete")' = Items("obsolete") /\ Items(loop)' = Items(loop)
  BY <1>1, Unchanged
<1>3. /\ w \in Worlds /\ Sound(w, trxn) /\ Complete(w, trxn) /\ LoopInv
      /\ UpdateInv /\ RemoveInv /\ EssentialInv
  BY DEF IInv
<1>4. /\ Sound(w, t) /\ Complete(w, t) /\ Grows(trxn, t)
  BY <1>3 DEF Keeps
<1>5. /\ Head(todo) \in Range(Items(loop))
      /\ Tail(todo) \in Seq(Range(Items(loop)))
      /\ \A x \in Range(todo) : x = Head(todo) \/ x \in Range(Tail(todo))
  BY <1>1, <1>3, HeadOf
<1>6. /\ loop \notin {"read", "run", "exit"}
      /\ w.cmd = "upgrade" /\ w.conf.dist_upgrade =>
           loop \in {"essentials", "base", "obsolete", "slapt-get", "upgrade"}
      /\ w.cmd = "remove" => loop \in {"remove", "dependents", "obsolete"}
  BY <1>3, LoopOf
<1>7. LoopInv'
  BY <1>1, <1>2, <1>5, <1>6 DEF LoopInv
<1>8. /\ \A p : SeenTo(w, trxn, p) => SeenTo(w, t, p)
      /\ \A q : Covered(w, trxn, q) => Covered(w, t, q)
      /\ \A e : EssentialDone(w, trxn, e) => EssentialDone(w, t, e)
      /\ \A p : SearchByPkg(trxn, p) => SearchByPkg(t, p)
  BY <1>4, SeenLater, MembersGrow
<1>9. UpdateInv'
  BY <1>1, <1>3, <1>5, <1>6, <1>8 DEF UpdateInv
<1>10. RemoveInv'
  <2> SUFFICES ASSUME w.cmd = "remove" PROVE RemoveInv'
    BY <1>1 DEF RemoveInv
  <2>1. Members(t) = {}
    BY <1>3 DEF RemoveInv, Adds
  <2>2. ASSUME ~w.conf.disable_dep_check, loop = "remove"
        PROVE  Range(t.remove) \subseteq Range(Scheduled)
    BY <1>1, <1>3, <1>5, <2>2, ItemsAre DEF RemoveInv
  <2>3. ASSUME ~w.conf.disable_dep_check, loop = "dependents"
        PROVE  \A q \in Range(t.remove) : q \in Range(Tail(todo)) \/ Covered(w, t, q)
    BY <1>1, <1>3, <1>5, <1>8, <2>3 DEF RemoveInv
  <2>4. ASSUME ~w.conf.disable_dep_check, loop = "obsolete"
        PROVE  /\ \A q \in Range(t.remove) :
                     q \in Range(Items("obsolete")) \/ Covered(w, t, q)
               /\ \A x \in Range(Items("obsolete")) :
                     x \in Range(Tail(todo)) \/ SearchByPkg(t, x)
    BY <1>1, <1>3, <1>5, <1>8, <2>4 DEF RemoveInv
  <2>5. QED BY <1>1, <1>2, <1>6, <2>1, <2>2, <2>3, <2>4 DEF RemoveInv
<1>11. EssentialInv'
  <2> SUFFICES ASSUME w.cmd = "upgrade", w.conf.dist_upgrade PROVE EssentialInv'
    BY <1>1 DEF EssentialInv
  <2>1. ASSUME loop = "essentials"
        PROVE  /\ Members(t) \subseteq EssentialPkgs
               /\ \A e \in Range(Essentials) :
                     e \in Range(Tail(todo)) \/ EssentialDone(w, t, e)
    BY <1>1, <1>3, <1>5, <1>8, <2>1 DEF EssentialInv
  <2>2. ASSUME loop # "essentials"
        PROVE  Lead(EssentialPkgs, t)
    <3>1. Lead(EssentialPkgs, trxn)
      BY <1>1, <1>3, <1>6, <2>2 DEF EssentialInv
    <3>2. QED BY <1>3, <1>4, <3>1, LeadLater
  <2>3. QED BY <1>1, <1>2, <1>6, <2>1, <2>2 DEF EssentialInv
<1>12. QED BY <1>1, <1>3, <1>4, <1>7, <1>9, <1>10, <1>11 DEF IInv

LEMMA ReadKeepsIInv == IInv /\ ReadPackageLists => IInv'
<1> SUFFICES ASSUME IInv, ReadPackageLists PROVE IInv'
  OBVIOUS
<1> DEFINE Out == w.cmd # "remove" /\ w.avail = <<>>
<1>1. /\ pc = "read" /\ w' = w /\ trxn' = trxn
      /\ IF Out THEN pc' = "exit" /\ todo' = <<>>
         ELSE pc' = Loops[1] /\ todo' = Items(Loops[1])
  BY DEF ReadPackageLists
<1>2. w \in Worlds /\ trxn = EmptyTrxn /\ Sound(w, trxn) /\ Complete(w, trxn)
  BY <1>1 DEF IInv, LoopInv
<1>3. Members(trxn) = {} /\ Range(trxn.remove) = {}
  BY <1>2, EmptySound
<1>4. Loops' = Loops /\ \A loop : Items(loop)' = Items(loop)
  BY <1>1, Unchanged
<1>5. CASE Out
  <2>1. pc' = "exit"
    BY <1>1, <1>5
  <2>2. LoopInv'
    <3>1. "exit" \notin Range(Loops)
      BY <1>2, LoopOf
    <3>2. QED BY <1>4, <2>1, <3>1 DEF LoopInv
  <2>3. UpdateInv' /\ RemoveInv' /\ EssentialInv'
    BY <1>1, <1>3, <2>1 DEF UpdateInv, RemoveInv, EssentialInv
  <2>4. QED BY <1>1, <1>2, <2>2, <2>3 DEF IInv
<1>6. CASE ~Out
  <2>1. PICK loop \in Range(Loops) :
          /\ pc' = loop /\ todo' = Items(loop)
          /\ w.cmd = "upgrade" => loop = IF w.conf.dist_upgrade THEN "essentials" ELSE "upgrade"
          /\ w.cmd = "remove" => loop = "remove"
    <3>1. /\ 1 \in DOMAIN Loops
          /\ w.cmd = "upgrade" =>
               Loops[1] = IF w.conf.dist_upgrade THEN "essentials" ELSE "upgrade"
          /\ w.cmd = "remove" => Loops[1] = "remove"
      BY <1>2, LoopsAre, WorldTypes
    <3>2. QED BY <1>1, <1>6, <3>1 DEF Range
  <2>2. Items(loop)' = Items(loop) /\ Items(loop) \in Seq(Range(Items(loop)))
    BY <1>2, <1>4, <2>1, ItemsType
  <2>3. loop \notin {"read", "run"}
    BY <1>2, <2>1, LoopOf
  <2>4. LoopInv'
    BY <1>4, <2>1, <2>2, <2>3 DEF LoopInv
  <2>5. Items("upgrade") = w.installed /\ Items("essentials") = Essentials
    BY <1>2, ItemsAre
  <2>6. UpdateInv' /\ RemoveInv' /\ EssentialInv'
    <3>1. UpdateInv'
      BY <1>1, <2>1, <2>5 DEF UpdateInv
    <3>2. RemoveInv'
      BY <1>1, <1>3, <2>1 DEF RemoveInv
    <3>3. EssentialInv'
      <4>1. w.cmd = "upgrade" /\ w.conf.dist_upgrade =>
              pc' = "essentials" /\ todo' = Essentials
        BY <2>1, <2>5
      <4>2. QED BY <1>1, <1>3, <4>1 DEF EssentialInv
    <3>4. QED BY <3>1, <3>2, <3>3
  <2>7. QED BY <1>1, <1>2, <2>4, <2>6 DEF IInv
<1>7. QED BY <1>5, <1>6

\* The loop a loop is followed by.
Follows(next) ==
  \/ /\ w.cmd = "upgrade" /\ w.conf.dist_upgrade
     /\ \/ pc = "essentials" /\ next = "base"
        \/ pc = "base" /\ next = "obsolete"
        \/ pc = "obsolete" /\ next = "slapt-get"
        \/ pc = "slapt-get" /\ next = "upgrade"
  \/ /\ w.cmd = "remove"
     /\ \/ pc = "remove" /\ next = "dependents"
        \/ pc = "dependents" /\ next = "obsolete"

Final ==
  \/ w.cmd = "install" /\ pc = "install"
  \/ w.cmd = "upgrade" /\ pc = "upgrade"
  \/ w.cmd = "remove" /\ pc = "obsolete"

LEMMA NextLoopIs ==
  ASSUME w \in Worlds, NextLoop
  PROVE  /\ w' = w /\ trxn' = trxn /\ todo = <<>> /\ pc \in Range(Loops)
         /\ \/ pc' = "run" /\ Final
            \/ pc' \in Range(Loops) /\ todo' = Items(pc') /\ Follows(pc')
<1> DEFINE k == CHOOSE i \in DOMAIN Loops : Loops[i] = pc
<1>1. /\ w' = w /\ trxn' = trxn /\ todo = <<>> /\ pc \in Range(Loops)
      /\ IF k < Len(Loops) THEN pc' = Loops[k + 1] /\ todo' = Items(Loops[k + 1])
         ELSE pc' = "run" /\ todo' = <<>>
  BY DEF NextLoop
<1>2. k \in DOMAIN Loops /\ Loops[k] = pc
  <2>1. \E i \in DOMAIN Loops : Loops[i] = pc
    BY <1>1 DEF Range
  <2>2. QED BY <2>1
<1> HIDE DEF k
<1>3. k < Len(Loops) => Loops[k + 1] \in Range(Loops)
  <2>1. k < Len(Loops) => k + 1 \in DOMAIN Loops
    <3>1. \/ Loops = <<"install">> \/ Loops = <<"upgrade">>
          \/ Loops = <<"essentials", "base", "obsolete", "slapt-get", "upgrade">>
          \/ Loops = <<"remove", "dependents", "obsolete">>
      BY LoopsAre, WorldTypes
    <3>2. \E T : Loops \in Seq(T)
      <4>1. \A a : <<a>> \in Seq({a})
        OBVIOUS
      <4>2. \A a, b, c : <<a, b, c>> \in Seq({a, b, c})
        OBVIOUS
      <4>3. \A a, b, c, d, e : <<a, b, c, d, e>> \in Seq({a, b, c, d, e})
        OBVIOUS
      <4>4. CASE Loops = <<"install">>
        BY <4>1, <4>4, Zenon
      <4>5. CASE Loops = <<"upgrade">>
        BY <4>1, <4>5, Zenon
      <4>6. CASE Loops = <<"remove", "dependents", "obsolete">>
        BY <4>2, <4>6, Zenon
      <4>7. CASE Loops = <<"essentials", "base", "obsolete", "slapt-get", "upgrade">>
        BY <4>3, <4>7, Zenon
      <4>8. QED BY <3>1, <4>4, <4>5, <4>6, <4>7
    <3>3. QED BY <1>2, <3>2
  <2>2. QED BY <2>1 DEF Range
<1>4. IF k < Len(Loops) THEN Follows(Loops[k + 1]) ELSE Final
  <2>1. CASE w.cmd = "install"
    BY <1>2, <2>1, LoopsAre DEF Final
  <2>2. CASE w.cmd = "upgrade" /\ w.conf.dist_upgrade
    <3>1. /\ Len(Loops) = 5 /\ DOMAIN Loops = 1..5
          /\ Loops[1] = "essentials" /\ Loops[2] = "base" /\ Loops[3] = "obsolete"
          /\ Loops[4] = "slapt-get" /\ Loops[5] = "upgrade"
      BY <2>2, LoopsAre
    <3>2. k \in {1, 2, 3, 4, 5}
      BY <1>2, <3>1
    <3>3. CASE k = 5
      BY <1>2, <2>2, <3>1, <3>3 DEF Final
    <3>4. CASE k \in {1, 2, 3, 4}
      <4>1. k < Len(Loops)
        BY <3>1, <3>4
      <4>2. Follows(Loops[k + 1])
        BY <1>2, <2>2, <3>1, <3>4 DEF Follows
      <4>3. QED BY <4>1, <4>2
    <3>5. QED BY <3>2, <3>3, <3>4
  <2>3. CASE w.cmd = "upgrade" /\ ~w.conf.dist_upgrade
    BY <1>2, <2>3, LoopsAre DEF Final
  <2>4. CASE w.cmd = "remove"
    <3>1. /\ Len(Loops) = 3 /\ DOMAIN Loops = 1..3
          /\ Loops[1] = "remove" /\ Loops[2] = "dependents" /\ Loops[3] = "obsolete"
      BY <2>4, LoopsAre
    <3>2. k \in {1, 2, 3}
      BY <1>2, <3>1
    <3>3. CASE k = 3
      BY <1>2, <2>4, <3>1, <3>3 DEF Final
    <3>4. CASE k \in {1, 2}
      <4>1. k < Len(Loops)
        BY <3>1, <3>4
      <4>2. Follows(Loops[k + 1])
        BY <1>2, <2>4, <3>1, <3>4 DEF Follows
      <4>3. QED BY <4>1, <4>2
    <3>5. QED BY <3>2, <3>3, <3>4
  <2>5. QED BY <2>1, <2>2, <2>3, <2>4, WorldTypes
<1>5. QED BY <1>1, <1>3, <1>4

\* What is left of an obsolete package's dependents when all of them are seen to.
LEMMA ObsoleteCovered ==
  ASSUME w \in Worlds, ~w.conf.disable_dep_check, NEW t,
         \A x \in Range(Items("obsolete")) : SearchByPkg(t, x)
  PROVE  \A q \in Range(Items("obsolete")) : Covered(w, t, q)
<1>1. CASE Items("obsolete") = <<>>
  BY <1>1, RangeOfOne
<1>2. CASE Items("obsolete") = Obsolete(w)
  <2> SUFFICES ASSUME NEW q \in Range(Obsolete(w)), NEW x \in Range(w.avail),
                      Sole(w, x), Needs(w, x, q), IsExactlyInstalled(w, x)
               PROVE  SearchByPkg(t, x)
    BY <1>2 DEF Covered
  <2>1. PICK y \in Range(Obsolete(w)) : y.name = x.name /\ y.version = x.version
    BY WorldTypes, ObsoleteCloses
  <2>2. SearchByPkg(t, y)
    BY <1>2
  <2>3. QED BY <2>1, <2>2 DEF SearchByPkg, SamePkg
<1>3. QED BY <1>1, <1>2 DEF Items

LEMMA NextLoopKeepsIInv == IInv /\ NextLoop => IInv'
<1> SUFFICES ASSUME IInv, NextLoop PROVE IInv'
  OBVIOUS
<1>1. /\ w \in Worlds /\ Sound(w, trxn) /\ Complete(w, trxn) /\ LoopInv
      /\ UpdateInv /\ RemoveInv /\ EssentialInv
  BY DEF IInv
<1>2. /\ w' = w /\ trxn' = trxn /\ todo = <<>> /\ pc \in Range(Loops)
      /\ \/ pc' = "run" /\ Final
         \/ pc' \in Range(Loops) /\ todo' = Items(pc') /\ Follows(pc')
  BY <1>1, NextLoopIs
<1>3. /\ Loops' = Loops /\ EssentialPkgs' = EssentialPkgs /\ Scheduled' = Scheduled
      /\ \A loop : Items(loop)' = Items(loop)
  BY <1>2, Unchanged
<1>4. Range(todo) = {}
  BY <1>2, RangeOfOne
<1>5. Items("obsolete")' = Items("obsolete")
  BY <1>3
<1>6. CASE pc' = "run" /\ Final
  <2>1. LoopInv'
    <3>1. "run" \notin Range(Loops)
      BY <1>1, LoopOf
    <3>2. QED BY <1>3, <1>6, <3>1 DEF LoopInv
  <2>2. UpdateInv'
    BY <1>1, <1>2, <1>4, <1>6 DEF UpdateInv, Final
  <2>3. RemoveInv'
    <3> SUFFICES ASSUME w.cmd = "remove" PROVE RemoveInv'
      BY <1>2 DEF RemoveInv
    <3>1. Members(trxn) = {} /\ pc = "obsolete"
      BY <1>1, <1>6 DEF RemoveInv, Final
    <3>2. ASSUME ~w.conf.disable_dep_check
          PROVE  \A q \in Range(trxn.remove) : Covered(w, trxn, q)
      <4>1. /\ \A q \in Range(trxn.remove) :
                  q \in Range(Items("obsolete")) \/ Covered(w, trxn, q)
            /\ \A x \in Range(Items("obsolete")) : SearchByPkg(trxn, x)
        BY <1>1, <1>4, <3>1, <3>2 DEF RemoveInv
      <4>2. QED BY <1>1, <3>2, <4>1, ObsoleteCovered
    <3>3. QED BY <1>2, <1>6, <3>1, <3>2 DEF RemoveInv
  <2>4. EssentialInv'
    BY <1>1, <1>2, <1>3, <1>6 DEF EssentialInv, Final
  <2>5. QED BY <1>1, <1>2, <2>1, <2>2, <2>3, <2>4 DEF IInv
<1>7. CASE pc' \in Range(Loops) /\ todo' = Items(pc') /\ Follows(pc')
  <2>1. /\ pc' \notin {"read", "run"}
        /\ Items(pc') \in Seq(Range(Items(pc')))
    BY <1>1, <1>7, LoopOf, ItemsType
  <2>2. LoopInv'
    <3>1. Items(pc)' = Items(pc')
      BY <1>2 DEF Items, Scheduled, Pick
    <3>2. QED BY <1>3, <1>7, <2>1, <3>1 DEF LoopInv
  <2>3. /\ Items("upgrade") = w.installed
        /\ Items("dependents") = Scheduled
    BY <1>1, ItemsAre
  <2>4. UpdateInv'
    BY <1>2, <1>7, <2>1, <2>3 DEF UpdateInv, Follows
  <2>5. RemoveInv'
    <3> SUFFICES ASSUME w.cmd = "remove" PROVE RemoveInv'
      BY <1>2 DEF RemoveInv
    <3>1. \/ pc = "remove" /\ pc' = "dependents" /\ todo' = Scheduled
          \/ pc = "dependents" /\ pc' = "obsolete" /\ todo' = Items("obsolete")
      BY <1>7, <2>3 DEF Follows
    <3>2. QED BY <1>1, <1>2, <1>3, <1>4, <1>5, <3>1 DEF RemoveInv
  <2>6. EssentialInv'
    <3> SUFFICES ASSUME w.cmd = "upgrade", w.conf.dist_upgrade PROVE EssentialInv'
      BY <1>2 DEF EssentialInv
    <3>1. Lead(EssentialPkgs, trxn)
      <4>1. CASE pc = "essentials"
        BY <1>1, <1>4, <4>1, LeadStarts DEF EssentialInv
      <4>2. CASE pc \in {"base", "obsolete", "slapt-get"}
        BY <1>1, <4>2 DEF EssentialInv
      <4>3. QED BY <1>7, <4>1, <4>2 DEF Follows
    <3>2. pc' # "essentials"
      BY <1>7 DEF Follows
    <3>3. QED BY <1>2, <1>3, <3>1, <3>2 DEF EssentialInv
  <2>7. QED BY <1>1, <1>2, <2>2, <2>4, <2>5, <2>6 DEF IInv
<1>8. QED BY <1>2, <1>6, <1>7

LEMMA InstallArgKeepsIInv == IInv /\ InstallArg => IInv'
<1> SUFFICES ASSUME IInv, InstallArg PROVE IInv'
  OBVIOUS
<1> DEFINE found == Pick(NotExcluded, Head(todo))
           t == InstallPkg(trxn, found[1])
<1>1. pc = "install" /\ found # <<>> /\ Pass("install", t)
  BY DEF InstallArg
<1>2. w \in Worlds /\ ListsRead(w) /\ Sound(w, trxn) /\ pc \in Range(Loops)
  BY <1>1, WorldTypes DEF IInv, LoopInv
<1>3. w.cmd = "install"
  BY <1>1, <1>2, LoopOf
<1>4. PICK p \in Range(NotExcluded) : found = <<p>>
  BY <1>1, <1>2, NotExcludedType, PickFound
<1>5. found[1] = p
  BY <1>4
<1>6. p \in Range(w.avail) /\ ~IsExcluded(w, p)
  BY <1>2, NotExcludedType, RangeType
<1> HIDE DEF found
<1>7. Keeps(w, trxn, t)
  BY <1>2, <1>5, <1>6, InstallPkgKeeps
<1> HIDE DEF t
<1>8. QED BY <1>1, <1>2, <1>3, <1>7, PassHolds

LEMMA NoSuchPackageKeepsIInv == IInv /\ NoSuchPackage => IInv'
<1> SUFFICES ASSUME IInv, NoSuchPackage PROVE IInv'
  OBVIOUS
<1>1. pc' = "exit" /\ w' = w /\ trxn' = trxn /\ pc = "install"
  BY DEF NoSuchPackage
<1>2. w \in Worlds /\ Sound(w, trxn) /\ Complete(w, trxn) /\ RemoveInv
  BY DEF IInv
<1>3. LoopInv'
  <2>1. Loops' = Loops
    BY <1>1, Unchanged
  <2>2. "exit" \notin Range(Loops)
    BY <1>2, LoopOf
  <2>3. QED BY <1>1, <2>1, <2>2 DEF LoopInv
<1>4. UpdateInv' /\ RemoveInv' /\ EssentialInv'
  BY <1>1, <1>2 DEF UpdateInv, RemoveInv, EssentialInv
<1>5. QED BY <1>1, <1>2, <1>3, <1>4 DEF IInv

LEMMA UpgradePassKeepsIInv == IInv /\ UpgradePass => IInv'
<1> SUFFICES ASSUME IInv, UpgradePass PROVE IInv'
  OBVIOUS
<1> DEFINE t == UpgradeInstalled(trxn, Head(todo))
<1>1. pc = "upgrade" /\ todo # <<>> /\ Pass("upgrade", t)
  BY DEF UpgradePass, Pass
<1>2. w \in Worlds /\ ListsRead(w) /\ Sound(w, trxn) /\ LoopInv /\ pc \in Range(Loops)
  BY <1>1, WorldTypes DEF IInv, LoopInv
<1>3. w.cmd = "upgrade"
  BY <1>1, <1>2, LoopOf
<1>4. Head(todo) \in Range(w.installed)
  BY <1>1, <1>2, HeadOf, ItemsAre
<1>5. Keeps(w, trxn, t) /\ SeenTo(w, t, Head(todo))
  BY <1>2, <1>4, UpgradeInstalledKeeps
<1> HIDE DEF t
<1>6. QED BY <1>1, <1>2, <1>3, <1>5, PassHolds

LEMMA EssentialPassKeepsIInv == IInv /\ EssentialPass => IInv'
<1> SUFFICES ASSUME IInv, EssentialPass PROVE IInv'
  OBVIOUS
<1> DEFINE t == UpgradeEssential(trxn, Head(todo))
<1>1. pc = "essentials" /\ todo # <<>> /\ Pass("essentials", t)
  BY DEF EssentialPass, Pass
<1>2. w \in Worlds /\ ListsRead(w) /\ Sound(w, trxn) /\ LoopInv /\ pc \in Range(Loops)
  BY <1>1, WorldTypes DEF IInv, LoopInv
<1>3. w.cmd = "upgrade" /\ w.conf.dist_upgrade
  BY <1>1, <1>2, LoopOf
<1>4. Head(todo) \in Range(Essentials)
  BY <1>1, <1>2, HeadOf, ItemsAre
<1>5. /\ Keeps(w, trxn, t) /\ EssentialDone(w, t, Head(todo))
      /\ Members(t) \subseteq Members(trxn) \cup EssentialPkgs
  BY <1>2, <1>3, <1>4, UpgradeEssentialKeeps
<1> HIDE DEF t
<1>6. QED BY <1>1, <1>2, <1>3, <1>5, PassHolds

LEMMA BasePassKeepsIInv == IInv /\ BasePass => IInv'
<1> SUFFICES ASSUME IInv, BasePass PROVE IInv'
  OBVIOUS
<1> DEFINE t == UpgradeBase(trxn, Head(todo))
<1>1. pc = "base" /\ todo # <<>> /\ Pass("base", t)
  BY DEF BasePass, Pass
<1>2. w \in Worlds /\ ListsRead(w) /\ Sound(w, trxn) /\ LoopInv /\ pc \in Range(Loops)
  BY <1>1, WorldTypes DEF IInv, LoopInv
<1>3. w.cmd = "upgrade" /\ w.conf.dist_upgrade
  BY <1>1, <1>2, LoopOf
<1>4. Head(todo) \in Range(w.avail)
  BY <1>1, <1>2, HeadOf, ItemsAre, RangeType
<1>5. Keeps(w, trxn, t)
  BY <1>2, <1>3, <1>4, UpgradeBaseKeeps
<1> HIDE DEF t
<1>6. QED BY <1>1, <1>2, <1>3, <1>5, PassHolds

LEMMA SlaptGetPassKeepsIInv == IInv /\ SlaptGetPass => IInv'
<1> SUFFICES ASSUME IInv, SlaptGetPass PROVE IInv'
  OBVIOUS
<1> DEFINE t == UpgradeSlaptGet(trxn)
<1>1. pc = "slapt-get" /\ Pass("slapt-get", t)
  BY DEF SlaptGetPass, Pass
<1>2. w \in Worlds /\ ListsRead(w) /\ Sound(w, trxn) /\ pc \in Range(Loops)
  BY <1>1, WorldTypes DEF IInv, LoopInv
<1>3. w.cmd = "upgrade" /\ w.conf.dist_upgrade
  BY <1>1, <1>2, LoopOf
<1>4. Keeps(w, trxn, t)
  BY <1>2, <1>3, UpgradeSlaptGetKeeps
<1> HIDE DEF t
<1>5. QED BY <1>1, <1>2, <1>3, <1>4, PassHolds

LEMMA RemovePassKeepsIInv == IInv /\ RemovePass => IInv'
<1> SUFFICES ASSUME IInv, RemovePass PROVE IInv'
  OBVIOUS
<1> DEFINE t == AddRemove(trxn, Head(todo))
<1>1. pc = "remove" /\ todo # <<>> /\ Pass("remove", t)
  BY DEF RemovePass, Pass
<1>2. w \in Worlds /\ Sound(w, trxn) /\ LoopInv /\ pc \in Range(Loops)
  BY <1>1 DEF IInv, LoopInv
<1>3. w.cmd = "remove"
  BY <1>1, <1>2, LoopOf
<1>4. Head(todo) \in PackagesOf(w)
  BY <1>1, <1>2, HeadOf, ItemsAre, ScheduledType, RangeType DEF PackagesOf
<1>5. /\ Adds(w, trxn, t, {}) /\ SearchByPkg(t, Head(todo))
      /\ Range(t.remove) \subseteq Range(trxn.remove) \cup {Head(todo)}
  BY <1>2, <1>4, AddRemoveAdds
<1>6. Keeps(w, trxn, t)
  BY <1>2, <1>5, AddsNothing
<1> HIDE DEF t
<1>7. QED BY <1>1, <1>2, <1>3, <1>5, <1>6, PassHolds

LEMMA DependentsPassKeepsIInv == IInv /\ DependentsPass => IInv'
<1> SUFFICES ASSUME IInv, DependentsPass PROVE IInv'
  OBVIOUS
<1> DEFINE t == RemoveDependents(trxn, Head(todo))
<1>1. pc = "dependents" /\ todo # <<>> /\ Pass("dependents", t)
  BY DEF DependentsPass, Pass
<1>2. w \in Worlds /\ ListsRead(w) /\ Sound(w, trxn) /\ LoopInv /\ pc \in Range(Loops)
  BY <1>1, WorldTypes DEF IInv, LoopInv
<1>3. w.cmd = "remove"
  BY <1>1, <1>2, LoopOf
<1>4. Head(todo) \in PackagesOf(w)
  BY <1>1, <1>2, HeadOf, ItemsAre, ScheduledType, RangeType DEF PackagesOf
<1>5. /\ Adds(w, trxn, t, {})
      /\ ~w.conf.disable_dep_check =>
           /\ Covered(w, t, Head(todo))
           /\ \A q \in Range(t.remove) : q \in Range(trxn.remove) \/ Covered(w, t, q)
  BY <1>2, <1>4, RemoveDependentsAdds
<1>6. Keeps(w, trxn, t)
  BY <1>2, <1>5, AddsNothing
<1> HIDE DEF t
<1>7. QED BY <1>1, <1>2, <1>3, <1>5, <1>6, PassHolds

LEMMA ObsoletePassKeepsIInv == IInv /\ ObsoletePass => IInv'
<1> SUFFICES ASSUME IInv, ObsoletePass PROVE IInv'
  OBVIOUS
<1> DEFINE t == ObsoletePkg(trxn, Head(todo))
<1>1. pc = "obsolete" /\ todo # <<>> /\ Pass("obsolete", t)
  BY DEF ObsoletePass, Pass
<1>2. w \in Worlds /\ Sound(w, trxn) /\ LoopInv /\ pc \in Range(Loops)
  BY <1>1 DEF IInv, LoopInv
<1>3. Head(todo) \in PackagesOf(w)
  BY <1>1, <1>2, HeadOf, ItemsAre, RangeType DEF PackagesOf
<1>4. /\ Adds(w, trxn, t, {}) /\ SearchByPkg(t, Head(todo))
      /\ Range(t.remove) \subseteq Range(trxn.remove) \cup {Head(todo)}
  BY <1>2, <1>3, ObsoletePkgAdds
<1>5. Keeps(w, trxn, t)
  BY <1>2, <1>4, AddsNothing
<1> HIDE DEF t
<1>6. QED BY <1>1, <1>2, <1>4, <1>5, PassHolds

\* What every pass of every loop keeps true: the transaction is sound and
\* complete, and the running loop has seen to the items behind it.
THEOREM IInvHolds == Spec => []IInv
<1>1. IInv /\ [Next]_vars => IInv'
  <2> SUFFICES ASSUME IInv, [Next]_vars PROVE IInv'
    OBVIOUS
  <2>1. CASE ReadPackageLists
    BY <2>1, ReadKeepsIInv
  <2>2. CASE NextLoop
    BY <2>2, NextLoopKeepsIInv
  <2>3. CASE InstallArg
    BY <2>3, InstallArgKeepsIInv
  <2>4. CASE NoSuchPackage
    BY <2>4, NoSuchPackageKeepsIInv
  <2>5. CASE UpgradePass
    BY <2>5, UpgradePassKeepsIInv
  <2>6. CASE EssentialPass
    BY <2>6, EssentialPassKeepsIInv
  <2>7. CASE BasePass
    BY <2>7, BasePassKeepsIInv
  <2>8. CASE SlaptGetPass
    BY <2>8, SlaptGetPassKeepsIInv
  <2>9. CASE RemovePass
    BY <2>9, RemovePassKeepsIInv
  <2>10. CASE DependentsPass
    BY <2>10, DependentsPassKeepsIInv
  <2>11. CASE ObsoletePass
    BY <2>11, ObsoletePassKeepsIInv
  <2>12. CASE UNCHANGED vars
    <3>1. w' = w /\ trxn' = trxn /\ pc' = pc /\ todo' = todo
      BY <2>12 DEF vars
    <3>2. /\ Loops' = Loops /\ EssentialPkgs' = EssentialPkgs /\ Scheduled' = Scheduled
          /\ Items("obsolete")' = Items("obsolete")
      BY <3>1, Unchanged
    <3>3. LoopInv'
      <4>1. Items(pc)' = Items(pc)
        BY <3>1 DEF Items, Scheduled, Pick
      <4>2. QED BY <3>1, <3>2, <4>1 DEF IInv, LoopInv
    <3>4. UpdateInv' /\ RemoveInv' /\ EssentialInv'
      BY <3>1, <3>2 DEF IInv, UpdateInv, RemoveInv, EssentialInv
    <3>5. QED BY <3>1, <3>3, <3>4 DEF IInv
  <2>13. QED BY <2>1, <2>2, <2>3, <2>4, <2>5, <2>6, <2>7, <2>8, <2>9, <2>10, <2>11,
                <2>12 DEF Next
<1>2. QED BY InitIInv, <1>1, PTL DEF Spec

-----------------------------------------------------------------------------
(* What --upgrade takes away.                                              *)

\* From t to u only packages that some conflict names are removed.
Drops(t, u) ==
  \A p \in Range(u.remove) : p \in Range(t.remove) \/ Disputed(p.name)

LEMMA DropsFurther ==
  ASSUME NEW t, NEW u, NEW x, Drops(t, u), Drops(u, x)
  PROVE  Drops(t, x)
BY DEF Drops

LEMMA SameRemove ==
  ASSUME NEW t, NEW u, u.remove = t.remove
  PROVE  Drops(t, u)
BY DEF Drops

LEMMA EnqueueRemoves ==
  ASSUME NEW t \in TrxnType(w), NEW l \in QueuedLists, NEW item
  PROVE  LET u == Enqueue(t, l, item)
         IN  u.remove = t.remove /\ u.exclude = t.exclude
BY DEF Enqueue, TrxnType, QueuedLists

LEMMA OthersRemoveNothing ==
  ASSUME NEW t, Sound(w, t), NEW p, NEW inst
  PROVE  /\ \A u \in {AddInstall(t, p), AddUpgrade(t, inst, p), AddReinstall(t, inst, p)} :
               u.remove = t.remove /\ u.exclude = t.exclude
         /\ AddExclude(t, p).remove = t.remove
<1>1. t \in TrxnType(w)
  BY DEF Sound
<1>2. {"install", "upgrade", "reinstall"} \subseteq QueuedLists
  BY DEF QueuedLists
<1>3. \A l \in {"install", "upgrade", "reinstall"} : \A item :
         LET u == Enqueue(t, l, item)
         IN  u.remove = t.remove /\ u.exclude = t.exclude
  BY <1>1, <1>2, EnqueueRemoves
<1>4. AddExclude(t, p).remove = t.remove
  BY <1>1 DEF AddExclude, TrxnType
<1>5. QED BY <1>3, <1>4 DEF AddInstall, AddUpgrade, AddReinstall

LEMMA AddInPlaceDrops ==
  ASSUME NEW t, Sound(w, t), NEW inst, NEW pkg
  PROVE  Drops(t, AddInPlace(t, inst, pkg))
BY OthersRemoveNothing, SameRemove DEF AddInPlace

LEMMA AddBasePlainDrops ==
  ASSUME NEW t, Sound(w, t), NEW inst, NEW pkg
  PROVE  Drops(t, AddBasePlain(t, inst, pkg))
BY OthersRemoveNothing, SameRemove DEF AddBasePlain

LEMMA AddDependencyDrops ==
  ASSUME NEW t, Sound(w, t), NEW inst, NEW dep
  PROVE  Drops(t, AddDependency(t, dep, inst))
<1>1. CASE inst = <<>>
  BY <1>1, OthersRemoveNothing, SameRemove DEF AddDependency
<1>2. CASE inst # <<>> /\ Cmp(inst[1], dep) < 0
  BY <1>2, OthersRemoveNothing, SameRemove DEF AddDependency
<1>3. CASE inst # <<>> /\ ~(Cmp(inst[1], dep) < 0)
  <2>1. AddDependency(t, dep, inst) = t
    BY <1>3 DEF AddDependency
  <2>2. QED BY <2>1, SameRemove
<1>4. QED BY <1>1, <1>2, <1>3

\* The conflicts of a package that is offered.
LEMMA ConflictsDrop ==
  ASSUME ListsRead(w), NEW t, Sound(w, t), NEW pkg \in Range(w.avail)
  PROVE  LET r == AddRemoveAll(t, FindConflicts(t, pkg))
         IN  Sound(w, r) /\ Drops(t, r)
<1> DEFINE cs == FindConflicts(t, pkg)
           r == AddRemoveAll(t, cs)
<1>1. pkg \in Package
  BY ListsReadTypes
<1>2. cs \in Seq(InConflict(w, pkg)) /\ cs \in Seq(PackagesOf(w))
  BY <1>1, FindConflictsAre, FindConflictsType
<1> HIDE DEF cs
<1>3. Sound(w, r) /\ Range(r.remove) \subseteq Range(t.remove) \cup Range(cs)
  BY <1>2, AddRemoveAllAdds DEF Adds
<1>4. \A c \in Range(cs) : Disputed(c.name)
  <2>1. Range(cs) \subseteq InConflict(w, pkg)
    BY <1>2, RangeType
  <2>2. QED BY <2>1 DEF InConflict, Disputed
<1> HIDE DEF r
<1>5. QED BY <1>3, <1>4 DEF Drops, r, cs

LEMMA DependencyDrops ==
  ASSUME ListsRead(w), NEW t, Sound(w, t), NEW dep \in Range(w.avail)
  PROVE  Drops(t, AddDependency(AddRemoveAll(t, FindConflicts(t, dep)), dep,
                                Newest(w.installed, dep.name)))
BY ConflictsDrop, AddDependencyDrops, DropsFurther

LEMMA AddDependencyListDrops ==
  ASSUME ListsRead(w), NEW t, Sound(w, t), NEW deps \in Seq(Range(w.avail)),
         \A d \in Range(deps) : ~Forbidden(w, d)
  PROVE  Drops(t, AddDependencyList(t, deps))
<1> DEFINE I == [i \in 0..Len(deps) |-> {u \in TrxnType(w) : Sound(w, u) /\ Drops(t, u)}]
<1>1. /\ Len(deps) \in Nat /\ DOMAIN deps = 1..Len(deps)
      /\ \A i \in 1..Len(deps) : deps[i] \in Range(w.avail) /\ deps[i] \in Range(deps)
  BY RangeType
<1>2. t \in I[0]
  BY <1>1, SameRemove DEF Sound
<1>3. \A i \in 1..Len(deps) : \A u \in I[i - 1] :
         DependencyOp(0, 0, 0, 0, 0, u, deps[i]) \in I[i]
  <2> TAKE i \in 1..Len(deps)
  <2> TAKE u \in I[i - 1]
  <2> DEFINE x == AddDependency(AddRemoveAll(u, FindConflicts(u, deps[i])), deps[i],
                                Newest(w.installed, deps[i].name))
  <2>1. i \in 0..Len(deps) /\ i - 1 \in 0..Len(deps)
    BY <1>1
  <2>2. Sound(w, u) /\ Drops(t, u)
    BY <2>1
  <2>3. Sound(w, x) /\ Drops(u, x)
    BY <1>1, <2>2, DependencyAdds, DependencyDrops DEF Adds
  <2> HIDE DEF x
  <2>4. Drops(t, x) /\ x \in TrxnType(w)
    BY <2>2, <2>3, DropsFurther DEF Sound
  <2>5. x \in I[i]
    BY <2>1, <2>3, <2>4
  <2> HIDE DEF I
  <2>6. QED BY <2>5, DependencyOpIs DEF x
<1>4. I[Len(deps)] = {u \in TrxnType(w) : Sound(w, u) /\ Drops(t, u)}
  BY <1>1
<1> HIDE DEF I
<1>5. DependencyFold!Result(0, 0, 0, 0, 0, t, deps) \in I[Len(deps)]
  BY <1>2, <1>3, DependencyFold!FoldSteps
<1>6. QED BY <1>4, <1>5, AddDependencyListIsFold

LEMMA AddDependenciesDrops ==
  ASSUME ListsRead(w), NEW t, Sound(w, t), NEW pkg \in Package
  PROVE  Drops(t, AddDependencies(t, pkg).trxn)
<1> DEFINE d == AddDependencies(t, pkg)
           got == Got(t, pkg)
           n == Noted(t, got)
<1>1. CASE w.conf.disable_dep_check
  <2>1. d.trxn = t
    BY <1>1, AddDependenciesIs
  <2>2. QED BY <2>1, SameRemove
<1>2. CASE ~w.conf.disable_dep_check
  <2>1. Start(t) \in Collection(w) /\ Start(t).deps = <<>> /\ Start(t).rv = 0
    BY DEF Start, Collection, Sound, TrxnType
  <2>2. Collects(w, Start(t), got)
    BY <1>2, <2>1, DependenciesCollect DEF Got
  <2> HIDE DEF got
  <2>3. /\ got \in Collection(w)
        /\ got.deps \in Seq(Range(w.avail))
        /\ \A x \in Range(got.deps) : ~Forbidden(w, x)
    BY <2>1, <2>2, RangeOfOne DEF Collects, Collection
  <2>4. Sound(w, n) /\ n.remove = t.remove
    BY <2>3, NotedAdds DEF Adds, Noted, Sound, TrxnType
  <2>5. Drops(t, n)
    BY <2>4, SameRemove
  <2> HIDE DEF n
  <2>6. d.trxn = n \/ d.trxn = AddDependencyList(n, got.deps)
    BY <1>2, AddDependenciesIs DEF got, n
  <2>7. Drops(n, AddDependencyList(n, got.deps))
    BY <2>3, <2>4, AddDependencyListDrops
  <2>8. QED BY <2>5, <2>6, <2>7, DropsFurther
<1>3. QED BY <1>1, <1>2

\* The passes of --upgrade but one: nothing is removed but for a conflict.
LEMMA UpgradeDrops ==
  ASSUME ListsRead(w), NEW t, Sound(w, t), NEW pkg \in Range(w.avail), NEW inst
  PROVE  Drops(t, Upgrade(t, inst, pkg))
<1> DEFINE of(d) == IF d.ok /\ (w.conf.ignore_dep \/ FindConflicts(t, pkg) = <<>>)
                    THEN AddInPlace(d.trxn, inst, pkg)
                    ELSE AddExclude(d.trxn, pkg)
           d0 == AddDependencies(t, pkg)
<1>1. CASE IsExcluded(w, pkg) \/ IsExcluded(w, inst)
  BY <1>1, OthersRemoveNothing, SameRemove DEF Upgrade
<1>2. CASE ~(IsExcluded(w, pkg) \/ IsExcluded(w, inst))
  <2>1. Upgrade(t, inst, pkg) = CHOOSE r \in {of(d) : d \in {d0}} : TRUE
    BY <1>2 DEF Upgrade, With
  <2>2. pkg \in Package
    BY ListsReadTypes
  <2>3. Sound(w, d0.trxn) /\ Drops(t, d0.trxn)
    BY <2>2, AddDependenciesKeeps, AddDependenciesDrops DEF Keeps
  <2> HIDE DEF d0
  <2>4. Drops(d0.trxn, of(d0))
    BY <2>3, AddInPlaceDrops, OthersRemoveNothing, SameRemove
  <2> HIDE DEF of
  <2>5. {of(d) : d \in {d0}} = {of(d0)}
    OBVIOUS
  <2>6. QED BY <2>1, <2>3, <2>4, <2>5, DropsFurther
<1>3. QED BY <1>1, <1>2

LEMMA UpgradeInstalledDrops ==
  ASSUME ListsRead(w), NEW t, Sound(w, t), NEW inst \in Range(w.installed)
  PROVE  Drops(t, UpgradeInstalled(t, inst))
<1> DEFINE update == Newest(w.avail, inst.name)
<1>1. Drops(t, t)
  BY SameRemove
<1>2. CASE update = <<>>
  BY <1>1, <1>2 DEF UpgradeInstalled
<1>3. ASSUME NEW p \in Range(w.avail), update = <<p>>
      PROVE  Drops(t, UpgradeInstalled(t, inst))
  <2>1. update[1] = p
    BY <1>3
  <2>2. Drops(t, Upgrade(t, inst, p))
    BY UpgradeDrops
  <2>3. UpgradeInstalled(t, inst) = t \/ UpgradeInstalled(t, inst) = Upgrade(t, inst, p)
    BY <2>1 DEF UpgradeInstalled
  <2>4. QED BY <1>1, <2>2, <2>3
<1>4. update = <<>> \/ \E p \in Range(w.avail) : update = <<p>>
  BY NewestFound DEF ListsRead
<1> HIDE DEF update
<1>5. QED BY <1>2, <1>3, <1>4

LEMMA UpgradeBaseDrops ==
  ASSUME ListsRead(w), NEW t, Sound(w, t), NEW match \in Range(w.avail)
  PROVE  Drops(t, UpgradeBase(t, match))
<1> DEFINE newer == Newest(w.avail, match.name)[1]
           inst == Newest(w.installed, match.name)
           of(pkg) == IF inst = <<>> \/ Differs(inst[1], pkg)
                      THEN AddBase(t, inst, pkg) ELSE t
           pkg0 == IF Cmp(match, newer) < 0 THEN newer ELSE match
<1>1. UpgradeBase(t, match) = CHOOSE r \in {of(pkg) : pkg \in {pkg0}} : TRUE
  BY DEF UpgradeBase, With
<1>2. newer \in Range(w.avail)
  <2>1. PICK p \in Range(w.avail) :
          p.name = match.name /\ Newest(w.avail, match.name) = <<p>>
    BY NewestFound DEF ListsRead
  <2>2. QED BY <2>1
<1> HIDE DEF newer
<1>3. pkg0 \in Range(w.avail)
  BY <1>2
<1> HIDE DEF pkg0
<1>4. Drops(t, AddBase(t, inst, pkg0))
  <2> DEFINE to(d) == IF /\ d.ok /\ ~w.conf.ignore_dep
                         /\ FindConflicts(t, pkg0) = <<>>
                      THEN AddBasePlain(d.trxn, inst, pkg0)
                      ELSE AddExclude(d.trxn, pkg0)
             d0 == AddDependencies(t, pkg0)
             Out == \E p \in Range(inst) \cup {pkg0} : IsExcluded(w, p)
  <2>1. AddBase(t, inst, pkg0) =
          IF Out THEN AddExclude(t, pkg0) ELSE CHOOSE r \in {to(d) : d \in {d0}} : TRUE
    BY DEF AddBase, With
  <2>2. Drops(t, AddExclude(t, pkg0))
    BY OthersRemoveNothing, SameRemove
  <2>3. pkg0 \in Package
    BY <1>3, ListsReadTypes
  <2>4. Sound(w, d0.trxn) /\ Drops(t, d0.trxn)
    BY <2>3, AddDependenciesKeeps, AddDependenciesDrops DEF Keeps
  <2> HIDE DEF d0, inst, Out
  <2>5. Drops(d0.trxn, to(d0))
    BY <2>4, AddBasePlainDrops, OthersRemoveNothing, SameRemove
  <2> HIDE DEF to
  <2>6. {to(d) : d \in {d0}} = {to(d0)}
    OBVIOUS
  <2>7. QED BY <2>1, <2>2, <2>4, <2>5, <2>6, DropsFurther
<1>5. Drops(t, of(pkg0))
  BY <1>4, SameRemove
<1> HIDE DEF of
<1>6. {of(pkg) : pkg \in {pkg0}} = {of(pkg0)}
  OBVIOUS
<1>7. QED BY <1>1, <1>5, <1>6

LEMMA UpgradeSlaptGetDrops ==
  ASSUME ListsRead(w), NEW t, Sound(w, t)
  PROVE  Drops(t, UpgradeSlaptGet(t))
<1> DEFINE newest == Newest(w.avail, SlaptGet)
           inst == Newest(w.installed, SlaptGet)
<1>1. CASE newest = <<>>
  BY <1>1, SameRemove DEF UpgradeSlaptGet
<1>2. ASSUME NEW p \in Range(w.avail), newest = <<p>>
      PROVE  Drops(t, UpgradeSlaptGet(t))
  <2> DEFINE of(d) == IF inst = <<>> THEN d.trxn ELSE AddReinstall(d.trxn, inst[1], p)
             d0 == AddDependencies(t, p)
  <2>1. newest # <<>> /\ newest[1] = p
    BY <1>2
  <2>2. UpgradeSlaptGet(t) = CHOOSE r \in {of(d) : d \in {d0}} : TRUE
    BY <2>1 DEF UpgradeSlaptGet, With
  <2>3. p \in Package
    BY ListsReadTypes
  <2>4. Sound(w, d0.trxn) /\ Drops(t, d0.trxn)
    BY <2>3, AddDependenciesKeeps, AddDependenciesDrops DEF Keeps
  <2> HIDE DEF d0, inst
  <2>5. Drops(d0.trxn, of(d0))
    BY <2>4, OthersRemoveNothing, SameRemove
  <2> HIDE DEF of
  <2>6. {of(d) : d \in {d0}} = {of(d0)}
    OBVIOUS
  <2>7. QED BY <2>2, <2>4, <2>5, <2>6, DropsFurther
<1>3. newest = <<>> \/ \E p \in Range(w.avail) : newest = <<p>>
  BY NewestFound DEF ListsRead
<1> HIDE DEF newest
<1>4. QED BY <1>1, <1>2, <1>3

\* name is installed when the transaction has been executed.
There(t, name) ==
  \/ \E p \in Members(t) : p.name = name
  \/ \E p \in Range(w.installed) : p \notin Range(t.remove) /\ p.name = name

Justified(t, p) ==
  \/ Disputed(p.name)
  \/ \E f \in Range(Essentials) :
        f.replaces = p.name /\ (Disputed(f.name) \/ There(t, f.name))

Replaced == {f.replaces : f \in {e \in Range(Essentials) : e.replaces # NULL}}

RemovalInv ==
  w.cmd = "upgrade" /\ ~w.conf.remove_obsolete =>
    /\ \A p \in Range(trxn.remove) : Justified(trxn, p)
    /\ pc = "essentials" =>
         /\ trxn.exclude = <<>>
         /\ \A p \in Range(trxn.remove) : p.name \in Replaced

LEMMA DropsJustify ==
  ASSUME NEW t, NEW u, Grows(t, u), Drops(t, u),
         \A p \in Range(t.remove) : Justified(t, p)
  PROVE  \A p \in Range(u.remove) : Justified(u, p)
<1>1. ASSUME NEW name, There(t, name)
      PROVE  There(u, name) \/ Disputed(name)
  <2>1. CASE \E p \in Members(t) : p.name = name
    BY <2>1, MembersGrow DEF There
  <2>2. ASSUME NEW p \in Range(w.installed), p \notin Range(t.remove), p.name = name
        PROVE  There(u, name) \/ Disputed(name)
    <3>1. p \in Range(u.remove) => Disputed(name)
      BY <2>2 DEF Drops
    <3>2. QED BY <2>2, <3>1 DEF There
  <2>3. QED BY <1>1, <2>1, <2>2 DEF There
<1>2. ASSUME NEW p, Justified(t, p)
      PROVE  Justified(u, p)
  BY <1>1, <1>2 DEF Justified
<1>3. ASSUME NEW p \in Range(u.remove)
      PROVE  Justified(u, p)
  <2>1. CASE p \in Range(t.remove)
    BY <1>2, <2>1
  <2>2. CASE Disputed(p.name)
    BY <2>2 DEF Justified
  <2>3. QED BY <2>1, <2>2 DEF Drops
<1>4. QED BY <1>3

\* No package is taken away for an essential one that is not there itself.
LEMMA EssentialJustifies ==
  ASSUME ListsRead(w), w.cmd = "upgrade", w.conf.dist_upgrade,
         NEW t, Sound(w, t), NEW e \in Range(Essentials), t.exclude = <<>>,
         \A p \in Range(t.remove) : Justified(t, p) /\ p.name \in Replaced
  PROVE  LET u == UpgradeEssential(t, e)
         IN  /\ u.exclude = <<>>
             /\ \A p \in Range(u.remove) : Justified(u, p) /\ p.name \in Replaced
<1> DEFINE x == AddEssential(t, e)
           inst == Newest(w.installed, e.name)
           avail == Newest(w.avail, e.name)
           old == Newest(w.installed, e.replaces)
           u == UpgradeEssential(t, e)
<1>1. /\ Sound(w, x) /\ Grows(t, x) /\ EssentialDone(w, x, e)
      /\ Members(t) \subseteq Members(x)
  BY AddEssentialKeeps, MembersGrow DEF Keeps
<1>2. x.remove = t.remove /\ x.exclude = <<>>
  <2>1. \/ x = t
        \/ x = AddUpgrade(t, inst[1], avail[1])
        \/ x = AddInstall(t, avail[1])
    BY DEF AddEssential
  <2>2. QED BY <2>1, OthersRemoveNothing
<1> HIDE DEF x
<1>3. \A p \in Range(x.remove) : Justified(x, p) /\ p.name \in Replaced
  BY <1>1, <1>2, SameRemove, DropsJustify
<1>4. CASE e.replaces = NULL \/ avail = <<>>
  <2>1. u = x
    BY <1>4 DEF UpgradeEssential, DropReplaced, x
  <2>2. QED BY <1>2, <1>3, <2>1
<1>5. CASE ~(e.replaces = NULL \/ avail = <<>>)
  <2>1. /\ ~e.upgrade_only
        /\ \A f \in Range(Essentials) :
              /\ f.replaces # e.name
              /\ f.replaces # NULL => e.replaces # f.name
    BY <1>5, EssentialsAssumption
  <2>2. \A p \in Range(x.remove) : p.name # e.name
    BY <1>3, <2>1 DEF Replaced
  <2>3. PICK p \in Range(w.avail) : p.name = e.name /\ avail = <<p>>
    BY <1>5, NewestFound DEF ListsRead
  <2>4. There(x, e.name)
    <3>1. CASE inst = <<>>
      <4>1. SearchByPkg(x, p)
        <5>1. avail # <<>> /\ avail[1] = p
          BY <2>3
        <5>2. QED BY <1>1, <2>1, <3>1, <5>1 DEF EssentialDone
      <4>2. PICK l \in Lists : \E i \in DOMAIN x[l] : SamePkg(p, Member(x, l, i))
        BY <4>1 DEF SearchByPkg
      <4>3. PICK i \in DOMAIN x[l] : SamePkg(p, Member(x, l, i))
        BY <4>2
      <4>4. CASE l \in QueuedLists
        <5>1. Member(x, l, i) \in Members(x)
          BY <4>3, <4>4 DEF Members
        <5>2. QED BY <2>3, <4>3, <5>1 DEF SamePkg, There
      <4>5. CASE l = "exclude"
        <5>1. x[l] = <<>>
          BY <1>2, <4>5
        <5>2. QED BY <4>3, <5>1
      <4>6. CASE l = "remove"
        <5>1. Member(x, l, i) = x.remove[i] /\ i \in DOMAIN x.remove
          BY <4>3, <4>6 DEF Member, UpgradeLists
        <5>2. x.remove[i] \in Range(x.remove)
          BY <5>1 DEF Range
        <5>3. QED BY <2>2, <2>3, <4>3, <5>1, <5>2 DEF SamePkg
      <4>7. QED BY <4>4, <4>5, <4>6 DEF Lists, PkgLists, UpgradeLists, QueuedLists
    <3>2. ASSUME NEW y \in Range(w.installed), y.name = e.name
          PROVE  There(x, e.name)
      BY <2>2, <3>2 DEF There
    <3>3. inst = <<>> \/ \E y \in Range(w.installed) : y.name = e.name
      BY NewestFound DEF ListsRead
    <3>4. QED BY <3>1, <3>2, <3>3
  <2>5. u = AddRemoveAll(x, old)
    BY <1>5 DEF UpgradeEssential, DropReplaced, x
  <2>6. /\ old \in Seq(PackagesOf(w))
        /\ \A o \in Range(old) : o.name = e.replaces
    <3>1. \/ old = <<>>
          \/ \E o \in Range(w.installed) : o.name = e.replaces /\ old = <<o>>
      BY NewestFound DEF ListsRead
    <3> HIDE DEF old
    <3>2. CASE old = <<>>
      BY <3>2, RangeOfOne
    <3>3. ASSUME NEW o \in Range(w.installed), o.name = e.replaces, old = <<o>>
          PROVE  /\ old \in Seq(PackagesOf(w))
                 /\ \A q \in Range(old) : q.name = e.replaces
      <4>1. o \in PackagesOf(w)
        BY DEF PackagesOf
      <4>2. Range(old) = {o}
        BY <3>3, RangeOfOne
      <4>3. <<o>> \in Seq(PackagesOf(w))
        BY <4>1
      <4>4. QED BY <3>3, <4>2, <4>3
    <3>4. QED BY <3>1, <3>2, <3>3
  <2> HIDE DEF old, u, inst, avail
  <2>7. /\ Grows(x, u) /\ u.exclude = <<>>
        /\ Range(u.remove) \subseteq Range(x.remove) \cup Range(old)
    BY <1>1, <1>2, <2>5, <2>6, AddRemoveAllAdds DEF Adds
  <2>8. ASSUME NEW f \in Range(Essentials), f.replaces # NULL, There(x, f.name)
        PROVE  There(u, f.name)
    <3>1. CASE \E q \in Members(x) : q.name = f.name
      BY <2>7, <3>1, MembersGrow DEF There
    <3>2. ASSUME NEW q \in Range(w.installed), q \notin Range(x.remove), q.name = f.name
          PROVE  There(u, f.name)
      <4>1. q \notin Range(old)
        BY <2>1, <2>6, <2>8, <3>2
      <4>2. q \notin Range(u.remove)
        BY <2>7, <3>2, <4>1
      <4>3. QED BY <3>2, <4>2 DEF There
    <3>3. QED BY <2>8, <3>1, <3>2 DEF There
  <2>9. ASSUME NEW q \in Range(x.remove)
        PROVE  Justified(u, q) /\ q.name \in Replaced
    <3>1. q.name \in Replaced /\ q.name # NULL
      BY <1>3, <2>9 DEF Replaced
    <3>2. Justified(x, q)
      BY <1>3, <2>9
    <3>3. QED BY <2>8, <3>1, <3>2 DEF Justified
  <2>10. ASSUME NEW q \in Range(old)
         PROVE  Justified(u, q) /\ q.name \in Replaced
    <3>1. q.name = e.replaces /\ e.replaces # NULL
      BY <1>5, <2>6
    <3>2. There(u, e.name)
      BY <2>4, <2>8, <3>1
    <3>3. QED BY <3>1, <3>2 DEF Justified, Replaced
  <2>11. QED BY <2>7, <2>9, <2>10 DEF u
<1>6. QED BY <1>4, <1>5

\* A pass, given what it does to the packages taken away.
LEMMA RemovalPass ==
  ASSUME IInv, RemovalInv, NEW loop \in Range(Loops), NEW t, Pass(loop, t),
         w.cmd = "upgrade", ~w.conf.remove_obsolete,
         loop # "essentials" => Grows(trxn, t) /\ Drops(trxn, t),
         loop = "essentials" =>
           /\ t.exclude = <<>>
           /\ \A p \in Range(t.remove) : Justified(t, p) /\ p.name \in Replaced
  PROVE  RemovalInv'
<1>1. /\ pc = loop /\ trxn' = t /\ w' = w /\ pc' = pc
  BY DEF Pass
<1>2. \A p \in Range(t.remove) : Justified(t, p)
  BY DropsJustify DEF RemovalInv
<1>3. \A p : Justified(trxn, p)' <=> Justified(t, p)
  BY <1>1 DEF Justified, There, Disputed
<1>4. QED BY <1>1, <1>2, <1>3 DEF RemovalInv

LEMMA RemovalStays ==
  ASSUME RemovalInv, w' = w, trxn' = trxn,
         pc' = "essentials" => pc = "essentials"
  PROVE  RemovalInv'
<1>1. \A p : Justified(trxn, p)' <=> Justified(trxn, p)
  BY DEF Justified, There, Disputed
<1>2. QED BY <1>1 DEF RemovalInv

LEMMA NextKeepsRemovalInv == IInv /\ RemovalInv /\ [Next]_vars => RemovalInv'
<1> SUFFICES ASSUME IInv, RemovalInv, [Next]_vars PROVE RemovalInv'
  OBVIOUS
<1>1. w \in Worlds /\ ListsRead(w) /\ Sound(w, trxn) /\ LoopInv
  BY WorldTypes DEF IInv
<1>2. w' = w
  BY DEF Next, vars, ReadPackageLists, NextLoop, InstallArg, NoSuchPackage,
         UpgradePass, EssentialPass, BasePass, SlaptGetPass, RemovePass,
         DependentsPass, ObsoletePass, Pass
<1> SUFFICES ASSUME w.cmd = "upgrade", ~w.conf.remove_obsolete PROVE RemovalInv'
  BY <1>2 DEF RemovalInv
<1>3. \A loop \in Range(Loops) :
         /\ loop \in {"essentials", "base", "obsolete", "slapt-get", "upgrade"}
         /\ loop # "upgrade" => w.conf.dist_upgrade
  BY <1>1, LoopOf
<1>4. pc \in Range(Loops) /\ todo # <<>> => Head(todo) \in Range(Items(pc))
  BY <1>1, HeadOf
<1>5. CASE ReadPackageLists
  <2>1. trxn = EmptyTrxn /\ trxn' = trxn
    BY <1>1, <1>5 DEF ReadPackageLists, LoopInv
  <2>2. Range(trxn.remove) = {} /\ trxn.exclude = <<>>
    BY <2>1, EmptySound DEF EmptyTrxn
  <2>3. QED BY <2>1, <2>2 DEF RemovalInv
<1>6. CASE NextLoop
  <2>1. trxn' = trxn /\ pc' # "essentials"
    BY <1>1, <1>6, NextLoopIs DEF Follows
  <2>2. QED BY <1>2, <2>1, RemovalStays
<1>7. CASE UNCHANGED vars
  BY <1>7, RemovalStays DEF vars
<1>8. CASE UpgradePass
  <2> DEFINE t == UpgradeInstalled(trxn, Head(todo))
  <2>1. pc = "upgrade" /\ todo # <<>> /\ Pass("upgrade", t)
    BY <1>8 DEF UpgradePass, Pass
  <2>2. pc \in Range(Loops)
    BY <1>1, <2>1 DEF LoopInv
  <2>3. Head(todo) \in Range(w.installed)
    BY <1>1, <1>4, <2>1, <2>2, ItemsAre
  <2>4. Grows(trxn, t) /\ Drops(trxn, t)
    BY <1>1, <2>3, UpgradeInstalledKeeps, UpgradeInstalledDrops DEF Keeps
  <2> HIDE DEF t
  <2>5. QED BY <2>1, <2>2, <2>4, RemovalPass
<1>9. CASE EssentialPass
  <2> DEFINE t == UpgradeEssential(trxn, Head(todo))
  <2>1. pc = "essentials" /\ todo # <<>> /\ Pass("essentials", t)
    BY <1>9 DEF EssentialPass, Pass
  <2>2. pc \in Range(Loops)
    BY <1>1, <2>1 DEF LoopInv
  <2>3. Head(todo) \in Range(Essentials) /\ w.conf.dist_upgrade
    BY <1>1, <1>3, <1>4, <2>1, <2>2, ItemsAre
  <2>4. /\ t.exclude = <<>>
        /\ \A p \in Range(t.remove) : Justified(t, p) /\ p.name \in Replaced
    BY <1>1, <2>1, <2>3, EssentialJustifies DEF RemovalInv
  <2> HIDE DEF t
  <2>5. QED BY <2>1, <2>2, <2>4, RemovalPass
<1>10. CASE BasePass
  <2> DEFINE t == UpgradeBase(trxn, Head(todo))
  <2>1. pc = "base" /\ todo # <<>> /\ Pass("base", t)
    BY <1>10 DEF BasePass, Pass
  <2>2. pc \in Range(Loops)
    BY <1>1, <2>1 DEF LoopInv
  <2>3. Head(todo) \in Range(w.avail) /\ w.conf.dist_upgrade
    BY <1>1, <1>3, <1>4, <2>1, <2>2, ItemsAre, RangeType
  <2>4. Grows(trxn, t) /\ Drops(trxn, t)
    BY <1>1, <2>3, UpgradeBaseKeeps, UpgradeBaseDrops DEF Keeps
  <2> HIDE DEF t
  <2>5. QED BY <2>1, <2>2, <2>4, RemovalPass
<1>11. CASE SlaptGetPass
  <2> DEFINE t == UpgradeSlaptGet(trxn)
  <2>1. pc = "slapt-get" /\ Pass("slapt-get", t)
    BY <1>11 DEF SlaptGetPass, Pass
  <2>2. pc \in Range(Loops) /\ w.conf.dist_upgrade
    BY <1>1, <1>3, <2>1 DEF LoopInv
  <2>3. Grows(trxn, t) /\ Drops(trxn, t)
    BY <1>1, <2>2, UpgradeSlaptGetKeeps, UpgradeSlaptGetDrops DEF Keeps
  <2> HIDE DEF t
  <2>4. QED BY <2>1, <2>2, <2>3, RemovalPass
<1>12. ~ObsoletePass
  <2> SUFFICES ASSUME ObsoletePass PROVE FALSE
    OBVIOUS
  <2>1. pc = "obsolete" /\ todo # <<>>
    BY DEF ObsoletePass, Pass
  <2>2. pc \in Range(Loops)
    BY <1>1, <2>1 DEF LoopInv
  <2>3. Items("obsolete") = <<>>
    BY DEF Items
  <2>4. Range(Items("obsolete")) = {}
    BY <2>3, RangeOfOne
  <2>5. QED BY <1>4, <2>1, <2>2, <2>4
<1>13. ~(InstallArg \/ NoSuchPackage \/ RemovePass \/ DependentsPass)
  <2> SUFFICES ASSUME InstallArg \/ NoSuchPackage \/ RemovePass \/ DependentsPass
               PROVE  FALSE
    OBVIOUS
  <2>1. pc \in {"install", "remove", "dependents"}
    BY DEF InstallArg, NoSuchPackage, RemovePass, DependentsPass, Pass
  <2>2. pc \in Range(Loops)
    BY <1>1, <2>1 DEF LoopInv
  <2>3. QED BY <1>3, <2>1, <2>2
<1>14. QED BY <1>5, <1>6, <1>7, <1>8, <1>9, <1>10, <1>11, <1>12, <1>13 DEF Next

-----------------------------------------------------------------------------
(* What the invariant says of a plan.                                      *)

LEMMA ActedIs ==
  ASSUME Sound(w, trxn)
  PROVE  Acted = Members(trxn) /\ Forced = ForcedBy(w)
<1>1. \A k \in Steps : Queued(k) = Due(trxn, k)
  BY DEF Queued, Due
<1>2. \A k \in Steps : Queued(k) \in Members(trxn)
  BY <1>1, DueStays DEF Steps
<1>3. ASSUME NEW p \in Members(trxn)
      PROVE  p \in Acted
  <2>1. PICK l \in QueuedLists : \E i \in DOMAIN trxn[l] : p = Member(trxn, l, i)
    BY DEF Members
  <2>2. PICK i \in DOMAIN trxn[l] : p = Member(trxn, l, i)
    BY <2>1
  <2>3. PICK k \in DOMAIN trxn.queue : trxn.queue[k] = [list |-> l, index |-> i]
    BY DEF Sound, Pointed
  <2>4. Queued(k) = p
    BY <2>2, <2>3 DEF Queued
  <2>5. QED BY <2>4 DEF Acted, Steps
<1>4. Forced = ForcedBy(w)
  BY DEF Forced, ForcedBy
<1>5. QED BY <1>2, <1>3, <1>4 DEF Acted

\* main.c and transaction.c plan only packages that were read, and replace
\* only installed packages, by available ones.
THEOREM TypeOKHolds == Spec => []TypeOK
<1>1. IInv => TypeOK
  <2> SUFFICES ASSUME IInv PROVE TypeOK
    OBVIOUS
  <2>1. trxn \in TrxnType(w)
    BY DEF IInv, Sound
  <2>2. /\ Range(trxn.install) \subseteq Range(w.avail)
        /\ Range(trxn.upgrade) \subseteq PairsOf(w)
        /\ Range(trxn.reinstall) \subseteq PairsOf(w)
        /\ Range(trxn.remove) \subseteq PackagesOf(w)
        /\ Range(trxn.exclude) \subseteq PackagesOf(w)
    BY <2>1, ListTypes, RangeType
  <2>3. QED BY <2>2 DEF TypeOK, IInv, LoopInv, PairsOf, PackagesOf, Pairs, Packages
<1>2. QED BY IInvHolds, <1>1, PTL

\* EXCLUDE holds for whatever the four actions of main.c plan to install,
\* however it got into the plan.
THEOREM ExcludedNotPlannedHolds == Spec => []ExcludedNotPlanned
<1>1. IInv => ExcludedNotPlanned
  BY ActedIs DEF IInv, Sound, Allowed, ExcludedNotPlanned
<1>2. QED BY IInvHolds, <1>1, PTL

\* No plan of slapt-get downgrades a package.
THEOREM UpgradesGoForwardHolds == Spec => []UpgradesGoForward
<1>1. IInv => UpgradesGoForward
  BY DEF IInv, Sound, GoesForward, UpgradesGoForward
<1>2. QED BY IInvHolds, <1>1, PTL

\* slapt_pkg_action_upgrade_all leaves no update out unreported.
THEOREM NoUpdateForgottenHolds == Spec => []NoUpdateForgotten
<1>1. IInv => NoUpdateForgotten
  BY DEF IInv, UpdateInv, SeenTo, NoUpdateForgotten, Done
<1>2. QED BY IInvHolds, <1>1, PTL

\* slapt_transaction_t_add_dependencies: a plan that leaves nothing out and
\* removes nothing has the dependencies of all it installs, at any depth.
THEOREM DependenciesPresentHolds == Spec => []DependenciesPresent
<1>1. IInv => DependenciesPresent
  <2> SUFFICES ASSUME IInv, Done, trxn.exclude = <<>>, trxn.remove = <<>>,
                      ~w.conf.ignore_dep, ~w.conf.disable_dep_check,
                      NEW p \in Acted, p.name \notin Forced, NEW k \in DOMAIN p.depends
               PROVE  Alternatives(p, k) \cap After # {}
    BY DEF DependenciesPresent
  <2>1. Acted = Members(trxn) /\ Forced = ForcedBy(w)
    BY ActedIs DEF IInv
  <2>2. PICK i \in DOMAIN p.depends[k] : Here(w, trxn, p.depends[k][i].name)
    BY <2>1 DEF IInv, Complete, Whole, Provided
  <2>3. PICK x \in Range(w.installed) \cup Members(trxn) : x.name = p.depends[k][i].name
    BY <2>2 DEF Here
  <2>4. x.name \in After
    <3>1. Range(trxn.remove) = {}
      BY RangeOfOne
    <3>2. QED BY <2>1, <3>1 DEF After
  <2>5. QED BY <2>3, <2>4 DEF Alternatives
<1>2. QED BY IInvHolds, <1>1, PTL

\* slapt_pkg_action_remove leaves no installed package behind that requires
\* what it removes, unless that is reported as excluded.
THEOREM RemoveTakesDependentsHolds == Spec => []RemoveTakesDependents
<1>1. IInv => RemoveTakesDependents
  <2> SUFFICES ASSUME IInv, Done, w.cmd = "remove", ~w.conf.disable_dep_check,
                      NEW p \in Range(w.avail), IsExactlyInstalled(w, p), SoleOffer(p),
                      \A r \in Range(trxn.remove) \cup Range(trxn.exclude) : ~SamePkg(p, r),
                      NEW k \in DOMAIN p.depends,
                      ~IsOr(p.depends[k]),
                      ResolveDep(p.depends[k][1], w.installed, w.avail) # <<>>,
                      p.depends[k][1].name # p.name,
                      NEW q \in Range(trxn.remove), q.name = p.depends[k][1].name
               PROVE  FALSE
    BY DEF RemoveTakesDependents
  <2>1. Needs(w, p, q)
    BY DEF Needs
  <2>2. Sole(w, p)
    <3>1. Newest(w.avail, p.name)[1] = p
      BY DEF SoleOffer
    <3>2. p \in Package
      BY WorldTypes, ListsReadTypes DEF IInv
    <3>3. ~(CmpVersions(p.version, p.version) < 0)
      BY DEF CmpVersions
    <3>4. \A x \in Range(w.avail) : x.name = p.name /\ x # p =>
             CmpVersions(x.version, p.version) < 0
      BY DEF SoleOffer
    <3>5. QED BY <3>1, <3>3, <3>4 DEF Sole, Candidate
  <2>3. Members(trxn) = {} /\ Covered(w, trxn, q)
    BY DEF IInv, RemoveInv, Done
  <2>4. SearchByPkg(trxn, p)
    BY <2>1, <2>2, <2>3 DEF Covered
  <2>5. PICK l \in Lists : \E i \in DOMAIN trxn[l] : SamePkg(p, Member(trxn, l, i))
    BY <2>4 DEF SearchByPkg
  <2>6. PICK i \in DOMAIN trxn[l] : SamePkg(p, Member(trxn, l, i))
    BY <2>5
  <2>7. CASE l \in QueuedLists
    <3>1. Member(trxn, l, i) \in Members(trxn)
      BY <2>6, <2>7 DEF Members
    <3>2. QED BY <2>3, <3>1
  <2>8. CASE l \in {"remove", "exclude"}
    <3>1. Member(trxn, l, i) = trxn[l][i]
      BY <2>8 DEF Member, UpgradeLists
    <3>2. trxn[l][i] \in Range(trxn.remove) \cup Range(trxn.exclude)
      BY <2>6, <2>8 DEF Range
    <3>3. QED BY <2>6, <3>1, <3>2
  <2>9. QED BY <2>7, <2>8 DEF Lists, PkgLists, UpgradeLists, QueuedLists
<1>2. QED BY IInvHolds, <1>1, PTL

\* slapt_dist_upgrade: "make sure the essential packages are
\* installed/upgraded first".
THEOREM EssentialsFirstHolds == Spec => []EssentialsFirst
<1>1. IInv => EssentialsFirst
  <2>1. \A k \in Steps : Queued(k) = Due(trxn, k)
    BY DEF Queued, Due
  <2>2. QED BY <2>1 DEF IInv, EssentialInv, Lead, EssentialsFirst, Done, Steps
<1>2. QED BY IInvHolds, <1>1, PTL

\* slapt_dist_upgrade, slapt_transaction_t_add_dependencies: no package is
\* taken away without what replaces it, but for a conflict.
THEOREM ReplacementPresentHolds == Spec => []ReplacementPresent
<1>1. Init => RemovalInv
  <2>1. Init => trxn.remove = <<>> /\ pc = "read"
    BY DEF Init, EmptyTrxn
  <2>2. QED BY <2>1, RangeOfOne DEF RemovalInv
<1>2. IInv /\ RemovalInv /\ [Next]_vars => RemovalInv'
  BY NextKeepsRemovalInv
<1>3. IInv /\ RemovalInv => ReplacementPresent
  <2> SUFFICES ASSUME IInv, RemovalInv, w.cmd = "upgrade", ~w.conf.remove_obsolete,
                      NEW p \in Range(trxn.remove)
               PROVE  \/ Disputed(p.name)
                      \/ \E e \in Range(Essentials) :
                            e.replaces = p.name /\ (Disputed(e.name) \/ e.name \in After)
    BY DEF ReplacementPresent
  <2>1. Acted = Members(trxn)
    BY ActedIs DEF IInv
  <2>2. \A name : There(trxn, name) => name \in After
    BY <2>1 DEF There, After
  <2>3. QED BY <2>2 DEF RemovalInv, Justified
<1>4. QED BY IInvHolds, <1>1, <1>2, <1>3, PTL DEF Spec
=============================================================================
