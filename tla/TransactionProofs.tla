-------------------------- MODULE TransactionProofs --------------------------
(***************************************************************************)
(* Proofs about the transaction for any set of packages and any bound.     *)
(* Good(t) is the inductive part: the shape of a transaction, that no      *)
(* package is in it twice and that its queue is its plan.  It holds of the *)
(* client's transaction and of the one slapt_transaction_t_remove builds;  *)
(* the latter needs the type of the list members still to be visited.      *)
(* RebuildInv says what the rebuild has kept of the members visited.       *)
(***************************************************************************)
EXTENDS Transaction, TLAPS

Good(t) == t \in TrxnType /\ Once(t) /\ Planned(t)

IInv ==
  /\ Good(trxn)
  /\ Good(fresh)
  /\ work \in Seq(VisitType)
  /\ drop = <<>> \/ \E p \in Pkg : drop = <<p>>

-----------------------------------------------------------------------------
(* The operations preserve Good. *)

LEMMA EmptyGood == Good(EmptyTrxn)
BY DEF Good, EmptyTrxn, TrxnType, Once, Planned, Lists, PkgLists,
       UpgradeLists, QueuedLists, Pair

\* u is t with one item, for a package that is not in t, at the end of list l.
Grown(t, u, l, item) ==
  /\ u \in TrxnType
  /\ l \in Lists
  /\ u[l] = Append(t[l], item)
  /\ \A m \in Lists \ {l} : u[m] = t[m]
  /\ ~SearchByPkg(t, IF l \in UpgradeLists THEN item.upgrade ELSE item)

LEMMA ListsAreSequences ==
  ASSUME NEW t \in TrxnType, NEW l \in Lists
  PROVE  \/ t[l] \in Seq(Pkg) /\ l \in PkgLists /\ l \notin UpgradeLists
         \/ t[l] \in Seq(Pair) /\ l \in UpgradeLists
BY DEF TrxnType, Lists, PkgLists, UpgradeLists

LEMMA GrownOnce ==
  ASSUME NEW t \in TrxnType, NEW u, NEW l, NEW item,
         Once(t), Grown(t, u, l, item)
  PROVE  Once(u)
<1> DEFINE p == IF l \in UpgradeLists THEN item.upgrade ELSE item
<1>1. \A m \in Lists : \A k \in DOMAIN u[m] :
         \/ k \in DOMAIN t[m] /\ Member(u, m, k) = Member(t, m, k)
         \/ m = l /\ k = Len(t[l]) + 1 /\ Member(u, m, k) = p
  BY ListsAreSequences DEF Grown, Member
<1>2. \A m \in Lists : \A k \in DOMAIN t[m] : ~SamePkg(p, Member(t, m, k))
  BY DEF Grown, SearchByPkg
<1> SUFFICES ASSUME NEW a \in Lists, NEW b \in Lists,
                    NEW i \in DOMAIN u[a], NEW j \in DOMAIN u[b],
                    SamePkg(Member(u, a, i), Member(u, b, j))
             PROVE  a = b /\ i = j
  BY DEF Once
<1> HIDE DEF p
<1>3. CASE i \in DOMAIN t[a] /\ Member(u, a, i) = Member(t, a, i)
  <2>1. CASE j \in DOMAIN t[b] /\ Member(u, b, j) = Member(t, b, j)
    BY <1>3, <2>1 DEF Once
  <2>2. CASE Member(u, b, j) = p
    BY <1>2, <1>3, <2>2 DEF SamePkg
  <2>3. QED BY <1>1, <2>1, <2>2
<1>4. CASE a = l /\ i = Len(t[l]) + 1 /\ Member(u, a, i) = p
  BY <1>1, <1>2, <1>4 DEF SamePkg
<1>5. QED BY <1>1, <1>3, <1>4

\* Adding to a list that is not queued leaves the plan alone.
LEMMA AppendPkgGood ==
  ASSUME NEW t, Good(t), NEW p \in Pkg, ~SearchByPkg(t, p),
         NEW l \in {"remove", "exclude"}
  PROVE  Good([t EXCEPT ![l] = Append(@, p)])
<1> DEFINE u == [t EXCEPT ![l] = Append(@, p)]
<1>1. u \in TrxnType
  <2>1. Append(t[l], p) \in Seq(Pkg)
    BY DEF Good, TrxnType
  <2>2. QED BY <2>1 DEF Good, TrxnType
<1>2. Grown(t, u, l, p)
  BY <1>1 DEF Grown, Good, TrxnType, Lists, PkgLists, UpgradeLists
<1>3. Planned(u)
  BY DEF Good, Planned, QueuedLists, Lists, PkgLists, UpgradeLists, TrxnType
<1>4. QED BY <1>1, <1>2, <1>3, GrownOnce DEF Good

\* Adding to a queued list adds the pointer to the new member.
LEMMA EnqueueGood ==
  ASSUME NEW t, Good(t), NEW l \in QueuedLists, NEW item,
         IF l \in UpgradeLists THEN item \in Pair ELSE item \in Pkg,
         ~SearchByPkg(t, IF l \in UpgradeLists THEN item.upgrade ELSE item)
  PROVE  Good(Enqueue(t, l, item))
<1> DEFINE u == Enqueue(t, l, item)
           ptr == [list |-> l, index |-> Len(t[l]) + 1]
<1>1. /\ t \in TrxnType
      /\ t.queue \in Seq(Pointer)
      /\ ptr \in Pointer
      /\ l \in Lists
  BY ListsAreSequences DEF Good, TrxnType, Lists, QueuedLists, PkgLists,
                           UpgradeLists, Pointer
<1>2. Append(t.queue, ptr) \in Seq(Pointer)
  BY <1>1
<1>3. /\ u.queue = Append(t.queue, ptr)
      /\ u[l] = Append(t[l], item)
      /\ \A m \in Lists \ {l} : u[m] = t[m]
  BY <1>1 DEF Enqueue, TrxnType, Lists, QueuedLists, PkgLists, UpgradeLists
<1>4. u \in TrxnType
  <2>1. CASE l = "install"
    <3>1. Append(t.install, item) \in Seq(Pkg)
      BY <1>1, <2>1 DEF TrxnType, UpgradeLists
    <3>2. u = [t EXCEPT !.install = Append(t.install, item),
                        !.queue = Append(t.queue, ptr)]
      BY <2>1 DEF Enqueue
    <3>3. QED BY <1>1, <1>2, <3>1, <3>2 DEF TrxnType
  <2>2. CASE l = "upgrade"
    <3>1. Append(t.upgrade, item) \in Seq(Pair)
      BY <1>1, <2>2 DEF TrxnType, UpgradeLists
    <3>2. u = [t EXCEPT !.upgrade = Append(t.upgrade, item),
                        !.queue = Append(t.queue, ptr)]
      BY <2>2 DEF Enqueue
    <3>3. QED BY <1>1, <1>2, <3>1, <3>2 DEF TrxnType
  <2>3. CASE l = "reinstall"
    <3>1. Append(t.reinstall, item) \in Seq(Pair)
      BY <1>1, <2>3 DEF TrxnType, UpgradeLists
    <3>2. u = [t EXCEPT !.reinstall = Append(t.reinstall, item),
                        !.queue = Append(t.queue, ptr)]
      BY <2>3 DEF Enqueue
    <3>3. QED BY <1>1, <1>2, <3>1, <3>2 DEF TrxnType
  <2>4. QED BY <2>1, <2>2, <2>3 DEF QueuedLists
<1>5. Once(u)
  BY <1>1, <1>3, <1>4, GrownOnce DEF Grown, Good
<1>6. Planned(u)
  <2> HIDE DEF u
  <2>1. \A m \in QueuedLists : t[m] \in Seq(Pkg) \/ t[m] \in Seq(Pair)
    BY <1>1 DEF TrxnType, QueuedLists
  <2>2. \A k \in DOMAIN u.queue :
           \/ k \in DOMAIN t.queue /\ u.queue[k] = t.queue[k]
           \/ k = Len(t.queue) + 1 /\ u.queue[k] = ptr
    BY <1>1, <1>3
  <2>3. \A k \in DOMAIN t.queue : /\ k \in DOMAIN u.queue
                                  /\ u.queue[k] = t.queue[k]
                                  /\ k < Len(t.queue) + 1
    BY <1>1, <1>3
  <2>4. \A m \in QueuedLists : \A i \in DOMAIN t[m] :
           i \in DOMAIN u[m] /\ i < Len(t[m]) + 1
    BY <1>3, <2>1 DEF QueuedLists, Lists, PkgLists, UpgradeLists
  <2>5. \A k \in DOMAIN t.queue : /\ t.queue[k].list \in QueuedLists
                                  /\ t.queue[k].index \in Nat
                                  /\ t.queue[k].index \in DOMAIN t[t.queue[k].list]
    <3>1. \A k \in DOMAIN t.queue :
             t.queue[k] \in Pointer
      BY <1>1
    <3>2. QED BY <3>1 DEF Good, Planned, Pointer
  <2>6. \A k \in DOMAIN u.queue : u.queue[k].index \in DOMAIN u[u.queue[k].list]
    BY <1>3, <2>1, <2>2, <2>4, <2>5
  <2>7. \A m \in QueuedLists : \A i \in DOMAIN u[m] :
           \E k \in DOMAIN u.queue : u.queue[k] = [list |-> m, index |-> i]
    <3> SUFFICES ASSUME NEW m \in QueuedLists, NEW i \in DOMAIN u[m]
                 PROVE  \E k \in DOMAIN u.queue :
                           u.queue[k] = [list |-> m, index |-> i]
      OBVIOUS
    <3>1. CASE i \in DOMAIN t[m]
      BY <2>3, <3>1 DEF Good, Planned
    <3>2. CASE i \notin DOMAIN t[m]
      <4>1. m = l /\ i = Len(t[l]) + 1
        BY <1>3, <2>1, <3>2 DEF QueuedLists, Lists, PkgLists, UpgradeLists
      <4>2. Len(t.queue) + 1 \in DOMAIN u.queue /\ u.queue[Len(t.queue) + 1] = ptr
        BY <1>1, <1>3
      <4>3. QED BY <4>1, <4>2
    <3>3. QED BY <3>1, <3>2
  <2>8. \A j, k \in DOMAIN u.queue :
           j < k /\ u.queue[j].list = u.queue[k].list
             => u.queue[j].index < u.queue[k].index
    <3> SUFFICES ASSUME NEW j \in DOMAIN u.queue, NEW k \in DOMAIN u.queue,
                        j < k, u.queue[j].list = u.queue[k].list
                 PROVE  u.queue[j].index < u.queue[k].index
      OBVIOUS
    <3>1. j \in DOMAIN t.queue /\ u.queue[j] = t.queue[j]
      BY <1>1, <1>3, <2>2
    <3>2. CASE k \in DOMAIN t.queue /\ u.queue[k] = t.queue[k]
      BY <3>1, <3>2 DEF Good, Planned
    <3>3. CASE u.queue[k] = ptr
      <4>1. t.queue[j].list = l /\ t.queue[j].index \in DOMAIN t[l]
        BY <2>5, <3>1, <3>3
      <4>2. QED BY <2>4, <3>1, <3>3, <4>1
    <3>4. QED BY <2>2, <3>2, <3>3
  <2>9. QED BY <2>6, <2>7, <2>8 DEF Planned
<1>7. QED BY <1>4, <1>5, <1>6 DEF Good

LEMMA AddGood ==
  ASSUME NEW t, Good(t), NEW p \in Pkg
  PROVE  /\ Good(AddInstall(t, p))
         /\ Good(AddRemove(t, p))
         /\ Good(AddExclude(t, p))
<1>1. Good(AddInstall(t, p))
  BY EnqueueGood DEF AddInstall, QueuedLists, UpgradeLists
<1>2. Good(AddRemove(t, p))
  BY AppendPkgGood DEF AddRemove
<1>3. Good(AddExclude(t, p))
  BY AppendPkgGood DEF AddExclude
<1>4. QED BY <1>1, <1>2, <1>3

LEMMA AddPairGood ==
  ASSUME NEW t, Good(t), NEW old \in Pkg, NEW new \in Pkg
  PROVE  Good(AddReinstall(t, old, new)) /\ Good(AddUpgrade(t, old, new))
<1> DEFINE pair == [installed |-> old, upgrade |-> new]
<1>1. pair \in Pair /\ pair.upgrade = new
  BY DEF Pair
<1>2. Good(AddReinstall(t, old, new))
  BY <1>1, EnqueueGood DEF AddReinstall, QueuedLists, UpgradeLists
<1>3. Good(AddUpgrade(t, old, new))
  BY <1>1, EnqueueGood DEF AddUpgrade, QueuedLists, UpgradeLists
<1>4. QED BY <1>2, <1>3

LEMMA ReaddGood ==
  ASSUME NEW t, Good(t), NEW v \in VisitType
  PROVE  Good(Readd(t, v))
<1>1. CASE v \in [list : PkgLists, item : Pkg]
  <2>1. v.item \in Pkg /\ v.list \in {"install", "remove", "exclude"}
    BY <1>1 DEF PkgLists
  <2>2. QED BY <2>1, AddGood DEF Readd
<1>2. CASE v \in [list : {"upgrade"}, item : Pair]
  <2>1. v.item.installed \in Pkg /\ v.item.upgrade \in Pkg /\ v.list = "upgrade"
    BY <1>2 DEF Pair
  <2>2. Readd(t, v) = AddUpgrade(t, v.item.installed, v.item.upgrade)
    BY <2>1 DEF Readd
  <2>3. QED BY <2>1, <2>2, AddPairGood
<1>3. QED BY <1>1, <1>2 DEF VisitType

LEMMA SuggestGood ==
  ASSUME NEW t, Good(t)
  PROVE  Good(Suggest(t))
<1> DEFINE u == Suggest(t)
<1>1. /\ u.queue = t.queue
      /\ \A l \in Lists : u[l] = t[l]
  BY DEF Suggest, Good, TrxnType, Lists, PkgLists, UpgradeLists
<1>2. u \in TrxnType
  <2>1. t \in TrxnType /\ \A i \in DOMAIN t.install : t.install[i] \in Pkg
    BY DEF Good, TrxnType
  <2>2. UNION {t.install[i].suggests : i \in DOMAIN t.install} \subseteq Name
    BY <2>1, PkgAssumption
  <2>3. QED BY <2>1, <2>2 DEF Suggest, TrxnType
<1> HIDE DEF u
<1>3. \A l \in QueuedLists : l \in Lists
  BY DEF QueuedLists, Lists, PkgLists, UpgradeLists
<1>4. Once(u)
  BY <1>1 DEF Good, Once, Member
<1>5. Planned(u)
  <2>1. \A k \in DOMAIN t.queue : t.queue[k].list \in QueuedLists
    <3>1. \A k \in DOMAIN t.queue :
             t.queue[k] \in Pointer
      BY DEF Good, TrxnType
    <3>2. QED BY <3>1 DEF Pointer
  <2>2. QED BY <1>1, <1>3, <2>1 DEF Good, Planned
<1>6. QED BY <1>2, <1>4, <1>5 DEF Good, u

LEMMA VisitsType ==
  ASSUME NEW t \in TrxnType
  PROVE  Visits(t) \in Seq(VisitType)
<1> DEFINE of(l) == [i \in DOMAIN t[l] |-> [list |-> l, item |-> t[l][i]]]
<1>1. /\ t.install \in Seq(Pkg) /\ t.remove \in Seq(Pkg)
      /\ t.exclude \in Seq(Pkg) /\ t.upgrade \in Seq(Pair)
  BY DEF TrxnType
<1>2. of("install") \in Seq(VisitType)
  BY <1>1 DEF VisitType, PkgLists
<1>3. of("remove") \in Seq(VisitType)
  BY <1>1 DEF VisitType, PkgLists
<1>4. of("upgrade") \in Seq(VisitType)
  BY <1>1 DEF VisitType
<1>5. of("exclude") \in Seq(VisitType)
  BY <1>1 DEF VisitType, PkgLists
<1> HIDE DEF of
<1>6. of("install") \o of("remove") \o of("upgrade") \o of("exclude")
        \in Seq(VisitType)
  BY <1>2, <1>3, <1>4, <1>5
<1>7. QED BY <1>6 DEF Visits, of

-----------------------------------------------------------------------------
(* The invariant. *)

LEMMA InitIInv == Init => IInv
BY EmptyGood DEF Init, IInv

LEMMA StepIInv == IInv /\ [Next]_vars => IInv'
<1> SUFFICES ASSUME IInv, [Next]_vars PROVE IInv'
  OBVIOUS
<1>1. ASSUME NEW t, Client(t), Good(t) PROVE IInv'
  BY <1>1 DEF IInv, Client
<1>2. ASSUME NEW p \in Pkg, Install(p) \/ Remove(p) \/ Exclude(p) PROVE IInv'
  BY <1>1, <1>2, AddGood DEF IInv, Install, Remove, Exclude
<1>3. ASSUME NEW old \in Pkg, NEW new \in Pkg,
             Reinstall(old, new) \/ Upgrade(old, new)
      PROVE  IInv'
  BY <1>1, <1>3, AddPairGood DEF IInv, Reinstall, Upgrade
<1>4. CASE Suggestions
  BY <1>4, SuggestGood DEF IInv, Suggestions
<1>5. ASSUME NEW p \in Pkg, RebuildBegin(p) PROVE IInv'
  BY <1>5, EmptyGood, VisitsType DEF IInv, Good, RebuildBegin
<1>6. CASE RebuildStep
  <2>1. Head(work) \in VisitType /\ Tail(work) \in Seq(VisitType)
    BY <1>6 DEF IInv, RebuildStep
  <2>2. Good(fresh')
    BY <1>6, <2>1, ReaddGood DEF IInv, RebuildStep
  <2>3. QED BY <1>6, <2>1, <2>2 DEF IInv, RebuildStep
<1>7. CASE RebuildEnd
  BY <1>7, EmptyGood DEF IInv, RebuildEnd
<1>8. CASE UNCHANGED vars
  BY <1>8 DEF IInv, vars
<1>9. QED BY <1>2, <1>3, <1>4, <1>5, <1>6, <1>7, <1>8 DEF Next

LEMMA SpecIInv == Spec => []IInv
BY InitIInv, StepIInv, PTL DEF Spec

\* The transaction and the rebuild keep their types.
THEOREM TransactionTypeOK == Spec => []TypeOK
<1>1. IInv => TypeOK
  BY DEF IInv, Good, TypeOK
<1>2. QED BY <1>1, SpecIInv, PTL

\* No package is in the transaction twice (search_by_pkg before every add).
THEOREM TransactionNoPkgTwice == Spec => []NoPkgTwice
<1>1. IInv => NoPkgTwice
  BY DEF IInv, Good, NoPkgTwice
<1>2. QED BY <1>1, SpecIInv, PTL

\* The queue points exactly to what is listed for install, upgrade and
\* reinstall, in the order of each list.
THEOREM TransactionQueueIsPlan == Spec => []QueueIsPlan
<1>1. IInv => QueueIsPlan
  BY DEF IInv, Good, QueueIsPlan
<1>2. QED BY <1>1, SpecIInv, PTL

-----------------------------------------------------------------------------
(* No operation of a client takes a decision back. *)

LEMMA EnqueueExtends ==
  ASSUME NEW t \in TrxnType, NEW l \in QueuedLists, NEW item
  PROVE  Extends(t, Enqueue(t, l, item))
<1> DEFINE u == Enqueue(t, l, item)
<1>1. l \in Lists /\ u[l] = Append(t[l], item)
  BY DEF Enqueue, TrxnType, Lists, QueuedLists, PkgLists, UpgradeLists
<1>2. \A m \in Lists \ {l} : u[m] = t[m]
  BY DEF Enqueue, TrxnType, Lists, QueuedLists, PkgLists, UpgradeLists
<1> HIDE DEF u
<1>3. Extends(t, u)
  BY <1>1, <1>2, ListsAreSequences DEF Extends
<1>4. QED BY <1>3 DEF u

LEMMA AddPkgExtends ==
  ASSUME NEW t \in TrxnType, NEW p, NEW l \in {"remove", "exclude"}
  PROVE  Extends(t, [t EXCEPT ![l] = Append(@, p)])
<1> DEFINE u == [t EXCEPT ![l] = Append(@, p)]
<1>1. /\ l \in Lists /\ u[l] = Append(t[l], p)
      /\ \A m \in Lists \ {l} : u[m] = t[m]
  BY DEF TrxnType, Lists, PkgLists, UpgradeLists
<1> HIDE DEF u
<1>2. Extends(t, u)
  BY <1>1, ListsAreSequences DEF Extends
<1>3. QED BY <1>2 DEF u

LEMMA AddExtends ==
  ASSUME NEW t \in TrxnType, NEW p, NEW old
  PROVE  /\ Extends(t, AddInstall(t, p))
         /\ Extends(t, AddRemove(t, p))
         /\ Extends(t, AddExclude(t, p))
         /\ Extends(t, AddReinstall(t, old, p))
         /\ Extends(t, AddUpgrade(t, old, p))
<1>1. Extends(t, t)
  BY DEF Extends
<1>2. Extends(t, AddInstall(t, p))
  BY <1>1, EnqueueExtends DEF AddInstall, QueuedLists
<1>3. Extends(t, AddRemove(t, p))
  BY <1>1, AddPkgExtends DEF AddRemove
<1>4. Extends(t, AddExclude(t, p))
  BY <1>1, AddPkgExtends DEF AddExclude
<1>5. Extends(t, AddReinstall(t, old, p))
  BY <1>1, EnqueueExtends DEF AddReinstall, QueuedLists
<1>6. Extends(t, AddUpgrade(t, old, p))
  BY <1>1, EnqueueExtends DEF AddUpgrade, QueuedLists
<1>7. QED BY <1>2, <1>3, <1>4, <1>5, <1>6

\* What is once listed keeps its place until slapt_transaction_t_remove
\* hands the client a new transaction.
THEOREM TransactionFirstDecisionStands == Spec => FirstDecisionStands
<1>1. IInv /\ [Next]_vars
        => [~Rebuilding \/ work # <<>> => Extends(trxn, trxn')]_vars
  <2> SUFFICES ASSUME IInv, Next, ~Rebuilding \/ work # <<>>
               PROVE  Extends(trxn, trxn')
    OBVIOUS
  <2> USE DEF IInv, Good
  <2>1. Extends(trxn, trxn)
    BY DEF Extends
  <2>2. ASSUME NEW p \in Pkg, Install(p) \/ Remove(p) \/ Exclude(p)
        PROVE  Extends(trxn, trxn')
    BY <2>2, AddExtends DEF Install, Remove, Exclude, Client
  <2>3. ASSUME NEW old \in Pkg, NEW new \in Pkg,
               Reinstall(old, new) \/ Upgrade(old, new)
        PROVE  Extends(trxn, trxn')
    BY <2>3, AddExtends DEF Reinstall, Upgrade, Client
  <2>4. CASE Suggestions
    <3>1. \A l \in Lists : trxn'[l] = trxn[l]
      BY <2>4 DEF Suggestions, Suggest, TrxnType, Lists, PkgLists, UpgradeLists
    <3>2. QED BY <3>1 DEF Extends
  <2>5. CASE RebuildStep \/ \E p \in Pkg : RebuildBegin(p)
    BY <2>1, <2>5 DEF RebuildStep, RebuildBegin
  <2>6. CASE RebuildEnd
    BY <2>6 DEF RebuildEnd
  <2>7. QED BY <2>2, <2>3, <2>4, <2>5, <2>6 DEF Next
<1>2. QED BY <1>1, SpecIInv, PTL DEF Spec, FirstDecisionStands

-----------------------------------------------------------------------------
(* What slapt_transaction_t_remove takes out.  While it runs, the first    *)
(* c[l] members of list l have been looped over, work is what remains of   *)
(* the four lists, and the new transaction holds what is kept of the       *)
(* members looped over.  Once(trxn) makes every re-adding succeed.         *)

Looped == Lists \ {"reinstall"}

Rest(l, c) ==
  [i \in 1..(Len(trxn[l]) - c[l]) |-> [list |-> l, item |-> trxn[l][c[l] + i]]]

Remains(c) ==
  Rest("install", c) \o Rest("remove", c) \o Rest("upgrade", c)
    \o Rest("exclude", c)

Kept(l, k, u) == \E f \in [DOMAIN u -> 1..k] : LeftOf(l, k, u, f)

RebuiltTo(c) ==
  /\ \A l \in Looped : c[l] <= Len(trxn[l])
  /\ work = Remains(c)
  /\ \A l \in Looped : Kept(l, c[l], fresh[l])

RebuildInv ==
  Rebuilding => /\ fresh.reinstall = <<>>
                /\ \E c \in [Looped -> Nat] : RebuiltTo(c)

LEMMA ConcatHead ==
  ASSUME NEW S, NEW s \in Seq(S), NEW u \in Seq(S), s # <<>>
  PROVE  /\ s \o u \in Seq(S) /\ s \o u # <<>>
         /\ Head(s \o u) = Head(s)
         /\ Tail(s \o u) = Tail(s) \o u
<1>1. Len(s) \in Nat /\ Len(s) > 0 /\ Len(u) \in Nat
  OBVIOUS
<1>2. s \o u \in Seq(S) /\ Len(s \o u) = Len(s) + Len(u)
  OBVIOUS
<1>3. Tail(s) \in Seq(S) /\ Len(Tail(s)) = Len(s) - 1
  BY <1>1
<1>4. Tail(s \o u) \in Seq(S) /\ Len(Tail(s \o u)) = Len(s) + Len(u) - 1
  BY <1>1, <1>2
<1>5. Tail(s) \o u \in Seq(S) /\ Len(Tail(s) \o u) = Len(s) + Len(u) - 1
  BY <1>1, <1>3
<1>6. ASSUME NEW i \in 1..(Len(s) + Len(u) - 1)
      PROVE  Tail(s \o u)[i] = (Tail(s) \o u)[i]
  <2>1. Tail(s \o u)[i] = (s \o u)[i + 1]
    BY <1>1, <1>2
  <2>2. CASE i <= Len(s) - 1
    BY <1>1, <1>3, <2>1, <2>2
  <2>3. CASE i > Len(s) - 1
    <3>1. (s \o u)[i + 1] = u[i + 1 - Len(s)]
      BY <1>1, <2>3
    <3>2. (Tail(s) \o u)[i] = u[i - (Len(s) - 1)]
      BY <1>1, <1>3, <2>3
    <3>3. i + 1 - Len(s) = i - (Len(s) - 1)
      BY <1>1
    <3>4. QED BY <2>1, <3>1, <3>2, <3>3
  <2>4. QED BY <1>1, <2>2, <2>3
<1>7. Tail(s \o u) = Tail(s) \o u
  BY <1>1, <1>4, <1>5, <1>6
<1>8. QED BY <1>1, <1>2, <1>7

LEMMA LoopedLists ==
  ASSUME NEW t \in TrxnType, NEW l \in Looped
  PROVE  /\ l \in Lists
         /\ l \in {"install", "remove", "upgrade", "exclude"}
         /\ \/ t[l] \in Seq(Pkg) /\ l \in PkgLists /\ l \notin UpgradeLists
            \/ t[l] \in Seq(Pair) /\ l = "upgrade" /\ l \in UpgradeLists
         /\ Len(t[l]) \in Nat
         /\ DOMAIN t[l] = 1..Len(t[l])
BY DEF TrxnType, Looped, Lists, PkgLists, UpgradeLists

LEMMA RestIs ==
  ASSUME trxn \in TrxnType, NEW c \in [Looped -> Nat], NEW l \in Looped,
         c[l] <= Len(trxn[l])
  PROVE  /\ Rest(l, c) \in Seq(VisitType)
         /\ c[l] = Len(trxn[l]) => Rest(l, c) = <<>>
         /\ c[l] < Len(trxn[l]) =>
              /\ Rest(l, c) # <<>>
              /\ Head(Rest(l, c)) = [list |-> l, item |-> trxn[l][c[l] + 1]]
              /\ Tail(Rest(l, c)) = Rest(l, [c EXCEPT ![l] = @ + 1])
<1> DEFINE d == [c EXCEPT ![l] = @ + 1]
           n == Len(trxn[l]) - c[l]
<1>1. n \in Nat /\ c[l] \in Nat /\ Len(trxn[l]) \in Nat /\ d[l] = c[l] + 1
  BY LoopedLists
<1>2. \A i \in 1..n : [list |-> l, item |-> trxn[l][c[l] + i]] \in VisitType
  <2>1. TAKE i \in 1..n
  <2>2. c[l] + i \in DOMAIN trxn[l]
    BY <1>1, LoopedLists
  <2>3. QED BY <2>2, LoopedLists DEF VisitType
<1>3. Rest(l, c) \in Seq(VisitType) /\ Len(Rest(l, c)) = n
  <2> HIDE DEF n
  <2>1. Rest(l, c) = [i \in 1..n |-> [list |-> l, item |-> trxn[l][c[l] + i]]]
    BY DEF Rest, n
  <2>2. QED BY <1>1, <1>2, <2>1
<1>4. ASSUME c[l] < Len(trxn[l])
      PROVE  /\ Rest(l, c) # <<>>
             /\ Head(Rest(l, c)) = [list |-> l, item |-> trxn[l][c[l] + 1]]
             /\ Tail(Rest(l, c)) = Rest(l, d)
  <2>1. n >= 1 /\ 1 \in 1..n
    BY <1>1, <1>4
  <2>2. Rest(l, c)[1] = [list |-> l, item |-> trxn[l][c[l] + 1]]
    BY <2>1 DEF Rest
  <2>3. Tail(Rest(l, c)) \in Seq(VisitType) /\ Len(Tail(Rest(l, c))) = n - 1
    BY <1>1, <1>3, <2>1
  <2>4. Rest(l, d) = [i \in 1..(n - 1) |-> [list |-> l, item |-> trxn[l][d[l] + i]]]
    <3>1. Len(trxn[l]) - d[l] = n - 1
      BY <1>1
    <3>2. QED BY <3>1 DEF Rest
  <2>5. ASSUME NEW i \in 1..(n - 1) PROVE Tail(Rest(l, c))[i] = Rest(l, d)[i]
    <3>1. i + 1 \in 1..n /\ i \in Nat
      BY <1>1
    <3>2. Tail(Rest(l, c))[i] = Rest(l, c)[i + 1]
      BY <1>1, <1>3, <2>1
    <3>3. Rest(l, c)[i + 1] = [list |-> l, item |-> trxn[l][c[l] + (i + 1)]]
      BY <3>1 DEF Rest
    <3>4. c[l] + (i + 1) = d[l] + i
      BY <1>1, <3>1
    <3>5. QED BY <2>4, <3>2, <3>3, <3>4
  <2>6. DOMAIN Rest(l, d) = 1..(n - 1) /\ Rest(l, d) = [i \in 1..(n - 1) |-> Rest(l, d)[i]]
    <3> HIDE DEF d, n
    <3> QED BY <2>4
  <2>7. Tail(Rest(l, c)) = [i \in 1..(n - 1) |-> Tail(Rest(l, c))[i]]
    <3> DEFINE r == Tail(Rest(l, c))
               k == n - 1
    <3>1. r \in Seq(VisitType) /\ Len(r) = k
      BY <2>3
    <3> HIDE DEF r, k
    <3>2. r = [i \in 1..k |-> r[i]]
      BY <3>1
    <3>3. QED BY <3>2 DEF r, k
  <2>8. Tail(Rest(l, c)) = Rest(l, d)
    <3> HIDE DEF d, n
    <3> QED BY <2>5, <2>6, <2>7
  <2>9. Rest(l, c) # <<>> /\ Head(Rest(l, c)) = Rest(l, c)[1]
    <3> DEFINE r == Rest(l, c)
    <3>1. r \in Seq(VisitType) /\ Len(r) >= 1
      BY <1>3, <2>1
    <3> HIDE DEF r
    <3>2. r # <<>> /\ Head(r) = r[1]
      BY <3>1
    <3>3. QED BY <3>2 DEF r
  <2>10. QED BY <2>2, <2>8, <2>9
<1>5. ASSUME c[l] = Len(trxn[l]) PROVE Rest(l, c) = <<>>
  BY <1>1, <1>3, <1>5
<1>6. QED BY <1>3, <1>4, <1>5

LEMMA RestOther ==
  ASSUME NEW c \in [Looped -> Nat], NEW l \in Looped, NEW m \in Looped, m # l
  PROVE  Rest(m, [c EXCEPT ![l] = @ + 1]) = Rest(m, c)
BY DEF Rest

\* The next member to look at is the first that one of the lists has left.
LEMMA NextVisit ==
  ASSUME trxn \in TrxnType, NEW c \in [Looped -> Nat],
         \A l \in Looped : c[l] <= Len(trxn[l]), Remains(c) # <<>>
  PROVE  \E l \in Looped :
            /\ c[l] < Len(trxn[l])
            /\ Head(Remains(c)) = [list |-> l, item |-> trxn[l][c[l] + 1]]
            /\ Tail(Remains(c)) = Remains([c EXCEPT ![l] = @ + 1])
<1> DEFINE a == Rest("install", c)   b == Rest("remove", c)
           e == Rest("upgrade", c)   g == Rest("exclude", c)
           d(l) == [c EXCEPT ![l] = @ + 1]
<1>1. /\ "install" \in Looped /\ "remove" \in Looped
      /\ "upgrade" \in Looped /\ "exclude" \in Looped
  BY DEF Looped, Lists, PkgLists, UpgradeLists
<1>2. /\ a \in Seq(VisitType) /\ b \in Seq(VisitType)
      /\ e \in Seq(VisitType) /\ g \in Seq(VisitType)
  BY <1>1, RestIs
<1>3. \A l \in Looped : Rest(l, c) # <<>> =>
         /\ c[l] < Len(trxn[l])
         /\ Head(Rest(l, c)) = [list |-> l, item |-> trxn[l][c[l] + 1]]
         /\ Tail(Rest(l, c)) = Rest(l, d(l))
  <2>1. TAKE l \in Looped
  <2>2. c[l] \in Nat /\ Len(trxn[l]) \in Nat /\ c[l] <= Len(trxn[l])
    BY LoopedLists
  <2>3. c[l] < Len(trxn[l]) \/ c[l] = Len(trxn[l])
    BY <2>2
  <2>4. QED BY <2>2, <2>3, RestIs
<1>4. \A l, m \in Looped : m # l => Rest(m, d(l)) = Rest(m, c)
  BY RestOther
<1>5. Remains(c) = a \o b \o e \o g
  BY DEF Remains
<1>6. \A l \in Looped : Remains(d(l)) = Rest("install", d(l)) \o Rest("remove", d(l))
                            \o Rest("upgrade", d(l)) \o Rest("exclude", d(l))
  BY DEF Remains
<1> HIDE DEF a, b, e, g, d
<1>7. CASE a # <<>>
  <2>1. /\ a \o b # <<>> /\ a \o b \in Seq(VisitType)
        /\ Head(a \o b) = Head(a) /\ Tail(a \o b) = Tail(a) \o b
    BY <1>2, <1>7, ConcatHead
  <2>2. /\ a \o b \o e # <<>> /\ a \o b \o e \in Seq(VisitType)
        /\ Head(a \o b \o e) = Head(a) /\ Tail(a \o b \o e) = Tail(a) \o b \o e
    <3> DEFINE x == a \o b
    <3>1. x # <<>> /\ x \in Seq(VisitType) /\ Head(x) = Head(a) /\ Tail(x) = Tail(a) \o b
      BY <2>1
    <3> HIDE DEF x
    <3>2. /\ x \o e # <<>> /\ x \o e \in Seq(VisitType)
          /\ Head(x \o e) = Head(x) /\ Tail(x \o e) = Tail(x) \o e
      BY <1>2, <3>1, ConcatHead
    <3>3. QED BY <3>1, <3>2 DEF x
  <2>3. /\ Head(a \o b \o e \o g) = Head(a)
        /\ Tail(a \o b \o e \o g) = Tail(a) \o b \o e \o g
    <3> DEFINE x == a \o b \o e
    <3>1. /\ x # <<>> /\ x \in Seq(VisitType)
          /\ Head(x) = Head(a) /\ Tail(x) = Tail(a) \o b \o e
      BY <2>2
    <3> HIDE DEF x
    <3>2. Head(x \o g) = Head(x) /\ Tail(x \o g) = Tail(x) \o g
      BY <1>2, <3>1, ConcatHead
    <3>3. QED BY <3>1, <3>2 DEF x
  <2>4. Tail(a) = Rest("install", d("install")) /\ Rest("remove", d("install")) = b
        /\ Rest("upgrade", d("install")) = e /\ Rest("exclude", d("install")) = g
    BY <1>1, <1>3, <1>4, <1>7 DEF a, b, e, g
  <2>5. Tail(Remains(c)) = Remains(d("install"))
    BY <1>1, <1>5, <1>6, <2>3, <2>4
  <2>6. Head(Remains(c)) = [list |-> "install", item |-> trxn["install"][c["install"] + 1]]
        /\ c["install"] < Len(trxn["install"])
    BY <1>1, <1>3, <1>5, <1>7, <2>3 DEF a
  <2>7. QED BY <1>1, <2>5, <2>6 DEF d
<1>8. CASE a = <<>> /\ b # <<>>
  <2>1. a \o b = b
    BY <1>2, <1>8
  <2>2. /\ b \o e # <<>> /\ b \o e \in Seq(VisitType)
        /\ Head(b \o e) = Head(b) /\ Tail(b \o e) = Tail(b) \o e
    BY <1>2, <1>8, ConcatHead
  <2>3. /\ Head(a \o b \o e \o g) = Head(b)
        /\ Tail(a \o b \o e \o g) = Tail(b) \o e \o g
    <3> DEFINE x == b \o e
    <3>1. /\ x # <<>> /\ x \in Seq(VisitType)
          /\ Head(x) = Head(b) /\ Tail(x) = Tail(b) \o e
      BY <2>2
    <3> HIDE DEF x
    <3>2. Head(x \o g) = Head(x) /\ Tail(x \o g) = Tail(x) \o g
      BY <1>2, <3>1, ConcatHead
    <3>3. a \o b \o e \o g = x \o g
      BY <2>1 DEF x
    <3>4. QED BY <3>1, <3>2, <3>3
  <2>4. Tail(b) = Rest("remove", d("remove")) /\ Rest("install", d("remove")) = a
        /\ Rest("upgrade", d("remove")) = e /\ Rest("exclude", d("remove")) = g
    BY <1>1, <1>3, <1>4, <1>8 DEF a, b, e, g
  <2>5. a \o Tail(b) = Tail(b)
    <3>1. Tail(b) \in Seq(VisitType)
      BY <1>2, <1>8
    <3>2. QED BY <1>8, <3>1
  <2>6. Tail(Remains(c)) = Remains(d("remove"))
    BY <1>1, <1>5, <1>6, <2>3, <2>4, <2>5
  <2>7. Head(Remains(c)) = [list |-> "remove", item |-> trxn["remove"][c["remove"] + 1]]
        /\ c["remove"] < Len(trxn["remove"])
    BY <1>1, <1>3, <1>5, <1>8, <2>3 DEF b
  <2>8. QED BY <1>1, <2>6, <2>7 DEF d
<1>9. CASE a = <<>> /\ b = <<>> /\ e # <<>>
  <2>1. a \o b = <<>> /\ a \o b \o e = e
    BY <1>2, <1>9
  <2>2. /\ Head(a \o b \o e \o g) = Head(e)
        /\ Tail(a \o b \o e \o g) = Tail(e) \o g
    BY <1>2, <1>9, <2>1, ConcatHead
  <2>3. Tail(e) = Rest("upgrade", d("upgrade")) /\ Rest("install", d("upgrade")) = a
        /\ Rest("remove", d("upgrade")) = b /\ Rest("exclude", d("upgrade")) = g
    BY <1>1, <1>3, <1>4, <1>9 DEF a, b, e, g
  <2>4. a \o b \o Tail(e) = Tail(e)
    <3>1. Tail(e) \in Seq(VisitType)
      BY <1>2, <1>9
    <3>2. QED BY <2>1, <3>1
  <2>5. Tail(Remains(c)) = Remains(d("upgrade"))
    BY <1>1, <1>5, <1>6, <2>2, <2>3, <2>4
  <2>6. Head(Remains(c)) = [list |-> "upgrade", item |-> trxn["upgrade"][c["upgrade"] + 1]]
        /\ c["upgrade"] < Len(trxn["upgrade"])
    BY <1>1, <1>3, <1>5, <1>9, <2>2 DEF e
  <2>7. QED BY <1>1, <2>5, <2>6 DEF d
<1>10. CASE a = <<>> /\ b = <<>> /\ e = <<>>
  <2>1. a \o b \o e = <<>>
    BY <1>10
  <2>2. a \o b \o e \o g = g
    BY <1>2, <2>1
  <2>3. g # <<>>
    BY <1>5, <2>2
  <2>4. Tail(g) = Rest("exclude", d("exclude")) /\ Rest("install", d("exclude")) = a
        /\ Rest("remove", d("exclude")) = b /\ Rest("upgrade", d("exclude")) = e
    BY <1>1, <1>3, <1>4, <2>3 DEF a, b, e, g
  <2>5. a \o b \o e \o Tail(g) = Tail(g)
    <3>1. Tail(g) \in Seq(VisitType)
      BY <1>2, <2>3
    <3>2. QED BY <2>1, <3>1
  <2>6. Tail(Remains(c)) = Remains(d("exclude"))
    BY <1>1, <1>5, <1>6, <2>2, <2>4, <2>5
  <2>7. Head(Remains(c)) = [list |-> "exclude", item |-> trxn["exclude"][c["exclude"] + 1]]
        /\ c["exclude"] < Len(trxn["exclude"])
    BY <1>1, <1>3, <1>5, <2>2, <2>3 DEF g
  <2>8. QED BY <1>1, <2>6, <2>7 DEF d
<1>11. QED BY <1>7, <1>8, <1>9, <1>10

LEMMA KeptDropsOne ==
  ASSUME NEW l, NEW k \in Nat, NEW u, Kept(l, k, u),
         Matches(drop[1], Member(trxn, l, k + 1))
  PROVE  Kept(l, k + 1, u)
<1>1. PICK f \in [DOMAIN u -> 1..k] : LeftOf(l, k, u, f)
  BY DEF Kept
<1>2. f \in [DOMAIN u -> 1..(k + 1)]
  BY <1>1
<1>3. {i \in 1..(k + 1) : ~Matches(drop[1], Member(trxn, l, i))}
        = {i \in 1..k : ~Matches(drop[1], Member(trxn, l, i))}
  <2>1. \A i \in 1..(k + 1) : i \in 1..k \/ i = k + 1
    OBVIOUS
  <2>2. \A i \in 1..k : i \in 1..(k + 1)
    OBVIOUS
  <2>3. QED BY <2>1, <2>2
<1>4. LeftOf(l, k + 1, u, f)
  BY <1>1, <1>3 DEF LeftOf
<1>5. QED BY <1>2, <1>4 DEF Kept

LEMMA KeptKeepsOne ==
  ASSUME NEW l, NEW k \in Nat, NEW S, NEW u \in Seq(S), NEW item \in S,
         Kept(l, k, u), item = trxn[l][k + 1],
         ~Matches(drop[1], Member(trxn, l, k + 1))
  PROVE  Kept(l, k + 1, Append(u, item))
<1>1. PICK f \in [DOMAIN u -> 1..k] : LeftOf(l, k, u, f)
  BY DEF Kept
<1> DEFINE w == Append(u, item)
           n == Len(u) + 1
           g == [j \in DOMAIN w |-> IF j = n THEN k + 1 ELSE f[j]]
<1>2. /\ Len(u) \in Nat /\ n \in DOMAIN w /\ n \notin DOMAIN u /\ w[n] = item
      /\ \A j \in DOMAIN w : j \in DOMAIN u \/ j = n
      /\ \A j \in DOMAIN u : j \in DOMAIN w /\ j # n /\ j < n /\ w[j] = u[j]
      /\ \A i, j \in DOMAIN w : i < j => i # n
  OBVIOUS
<1>3. g[n] = k + 1 /\ \A j \in DOMAIN u : g[j] = f[j] /\ f[j] \in 1..k
  BY <1>1, <1>2
<1>4. g \in [DOMAIN w -> 1..(k + 1)]
  <2>1. \A j \in DOMAIN w : g[j] \in 1..(k + 1)
    <3> HIDE DEF w, g, n
    <3> QED BY <1>2, <1>3
  <2>2. QED BY <2>1
<1> HIDE DEF w, g, n
<1>5. \A i, j \in DOMAIN w : i < j => g[i] < g[j]
  <2> SUFFICES ASSUME NEW i \in DOMAIN w, NEW j \in DOMAIN w, i < j
               PROVE  g[i] < g[j]
    OBVIOUS
  <2>1. i \in DOMAIN u /\ g[i] = f[i] /\ f[i] \in 1..k
    BY <1>2, <1>3
  <2>2. CASE j = n
    BY <1>3, <2>1, <2>2
  <2>3. CASE j \in DOMAIN u
    BY <1>1, <1>3, <2>1, <2>3 DEF LeftOf
  <2>4. QED BY <1>2, <2>2, <2>3
<1>6. \A j \in DOMAIN w : w[j] = trxn[l][g[j]]
  BY <1>1, <1>2, <1>3 DEF LeftOf
<1>7. {g[j] : j \in DOMAIN w}
        = {i \in 1..(k + 1) : ~Matches(drop[1], Member(trxn, l, i))}
  <2>1. {g[j] : j \in DOMAIN w} = {f[j] : j \in DOMAIN u} \cup {k + 1}
    BY <1>2, <1>3
  <2>2. {f[j] : j \in DOMAIN u}
          = {i \in 1..k : ~Matches(drop[1], Member(trxn, l, i))}
    BY <1>1 DEF LeftOf
  <2>3. \A i : i \in 1..(k + 1) <=> i \in 1..k \/ i = k + 1
    OBVIOUS
  <2>4. QED BY <2>1, <2>2, <2>3
<1>8. LeftOf(l, k + 1, w, g)
  BY <1>5, <1>6, <1>7 DEF LeftOf
<1>9. QED BY <1>4, <1>8 DEF Kept, w

\* A member the rebuild has not looped over yet is not in the new transaction.
LEMMA NotYetThere ==
  ASSUME Good(trxn), fresh \in TrxnType, fresh.reinstall = <<>>,
         NEW c \in [Looped -> Nat], RebuiltTo(c),
         NEW l \in Looped, c[l] < Len(trxn[l])
  PROVE  ~SearchByPkg(fresh, Member(trxn, l, c[l] + 1))
<1> SUFFICES ASSUME NEW m \in Lists, NEW j \in DOMAIN fresh[m],
                    SamePkg(Member(trxn, l, c[l] + 1), Member(fresh, m, j))
             PROVE  FALSE
  BY DEF SearchByPkg
<1>1. m \in Looped
  <2>1. CASE m = "reinstall"
    BY <2>1
  <2>2. QED BY <2>1 DEF Looped
<1>2. trxn \in TrxnType /\ c[l] \in Nat /\ c[m] \in Nat /\ c[m] <= Len(trxn[m])
  BY <1>1 DEF Good, RebuiltTo
<1>3. PICK f \in [DOMAIN fresh[m] -> 1..c[m]] : LeftOf(m, c[m], fresh[m], f)
  BY <1>1 DEF RebuiltTo, Kept
<1>4. f[j] \in 1..c[m] /\ fresh[m][j] = trxn[m][f[j]]
  BY <1>3 DEF LeftOf
<1>5. f[j] \in DOMAIN trxn[m] /\ c[l] + 1 \in DOMAIN trxn[l]
  BY <1>1, <1>2, <1>4, LoopedLists
<1>6. Member(fresh, m, j) = Member(trxn, m, f[j])
  BY <1>4 DEF Member
<1>7. l = m /\ c[l] + 1 = f[j]
  <2>1. l \in Lists
    BY DEF Looped
  <2>2. QED BY <1>5, <1>6, <2>1 DEF Good, Once
<1>8. QED BY <1>2, <1>4, <1>7

\* Re-adding a member appends it to its list and to no other.
LEMMA ReaddAppends ==
  ASSUME NEW t \in TrxnType, NEW v \in VisitType, ~SearchByPkg(t, Target(v))
  PROVE  /\ v.list \in Looped
         /\ Readd(t, v)[v.list] = Append(t[v.list], v.item)
         /\ \A m \in Lists \ {v.list} : Readd(t, v)[m] = t[m]
<1>1. CASE v \in [list : PkgLists, item : Pkg]
  <2>1. v.item \in Pkg /\ v.list \in {"install", "remove", "exclude"}
        /\ Target(v) = v.item
    BY <1>1 DEF PkgLists, UpgradeLists, Target
  <2>2. QED
    BY <2>1 DEF Readd, AddInstall, AddRemove, AddExclude, Enqueue, TrxnType,
                Looped, Lists, PkgLists, UpgradeLists
<1>2. CASE v \in [list : {"upgrade"}, item : Pair]
  <2>1. /\ v.list = "upgrade" /\ v.item \in Pair /\ Target(v) = v.item.upgrade
        /\ v.item = [installed |-> v.item.installed, upgrade |-> v.item.upgrade]
    BY <1>2 DEF Pair, UpgradeLists, Target
  <2>2. Readd(t, v) = Enqueue(t, "upgrade", v.item)
    BY <2>1 DEF Readd, AddUpgrade
  <2>3. QED
    BY <2>1, <2>2 DEF Enqueue, TrxnType, Looped, Lists, PkgLists, UpgradeLists
<1>3. QED BY <1>1, <1>2 DEF VisitType

LEMMA RebuildBegins ==
  ASSUME IInv, NEW p \in Pkg, RebuildBegin(p)
  PROVE  RebuildInv'
<1> DEFINE c == [l \in Looped |-> 0]
<1>1. c \in [Looped -> Nat] /\ \A l \in Looped : c[l] = 0
  OBVIOUS
<1>2. /\ trxn' = trxn /\ fresh' = EmptyTrxn /\ work' = Visits(trxn)
      /\ trxn \in TrxnType
  BY DEF RebuildBegin, IInv, Good
<1>3. \A l \in Looped : c[l] <= Len(trxn[l])
  BY <1>1, <1>2, LoopedLists
<1>4. Visits(trxn) = Remains(c)
  <2>1. \A l \in Looped :
           Rest(l, c) = [i \in DOMAIN trxn[l] |-> [list |-> l, item |-> trxn[l][i]]]
    <3>1. TAKE l \in Looped
    <3>2. DOMAIN trxn[l] = 1..(Len(trxn[l]) - c[l])
      BY <1>1, <1>2, LoopedLists
    <3>3. \A i \in DOMAIN trxn[l] : c[l] + i = i
      BY <1>1, <1>2, LoopedLists
    <3>4. QED BY <3>2, <3>3 DEF Rest
  <2>2. /\ "install" \in Looped /\ "remove" \in Looped
        /\ "upgrade" \in Looped /\ "exclude" \in Looped
    BY DEF Looped, Lists, PkgLists, UpgradeLists
  <2> HIDE DEF c
  <2>3. QED BY <2>1, <2>2 DEF Remains, Visits
<1>5. Remains(c)' = Remains(c)
  BY <1>2 DEF Remains, Rest
<1>6. \A l \in Looped : Kept(l, c[l], fresh[l])'
  <2>1. TAKE l \in Looped
  <2>2. c[l] = 0 /\ fresh'[l] = <<>>
    BY <1>1, <1>2 DEF EmptyTrxn, Looped, Lists, PkgLists, UpgradeLists
  <2> DEFINE f == [n \in {} |-> 0]
  <2>3. f \in [{} -> 1..0] /\ {f[n] : n \in {}} = {}
    OBVIOUS
  <2>4. LeftOf(l, 0, <<>>, f)'
    BY <2>3 DEF LeftOf
  <2>5. f \in [DOMAIN <<>> -> 1..0]
    BY <2>3
  <2> HIDE DEF c, f
  <2>6. QED BY <2>2, <2>4, <2>5 DEF Kept
<1> HIDE DEF c
<1>7. RebuiltTo(c)'
  BY <1>2, <1>3, <1>4, <1>5, <1>6 DEF RebuiltTo
<1>8. fresh'.reinstall = <<>>
  BY <1>2 DEF EmptyTrxn
<1>9. QED BY <1>1, <1>7, <1>8 DEF RebuildInv

LEMMA KeptUnmoved ==
  ASSUME trxn' = trxn, drop' = drop, NEW l, NEW k, Kept(l, k, fresh'[l])
  PROVE  Kept(l, k, fresh[l])'
<1>1. PICK f \in [DOMAIN fresh'[l] -> 1..k] : LeftOf(l, k, fresh'[l], f)
  BY DEF Kept
<1>2. \A i : Matches(drop[1], Member(trxn, l, i))'
               = Matches(drop[1], Member(trxn, l, i))
  BY DEF Matches, SamePkg, Member
<1>3. LeftOf(l, k, fresh[l], f)'
  BY <1>1, <1>2 DEF LeftOf
<1>4. QED BY <1>1, <1>3 DEF Kept

LEMMA RebuildGoesOn ==
  ASSUME IInv, RebuildInv, RebuildStep
  PROVE  RebuildInv'
<1>1. /\ trxn \in TrxnType /\ fresh \in TrxnType /\ Good(trxn)
      /\ trxn' = trxn /\ drop' = drop /\ work # <<>> /\ work' = Tail(work)
      /\ Rebuilding /\ fresh.reinstall = <<>>
  BY DEF IInv, Good, RebuildInv, RebuildStep
<1>2. PICK c \in [Looped -> Nat] : RebuiltTo(c)
  BY <1>1 DEF RebuildInv
<1>3. /\ work = Remains(c)
      /\ \A m \in Looped : c[m] \in Nat /\ c[m] <= Len(trxn[m]) /\ Kept(m, c[m], fresh[m])
  BY <1>2 DEF RebuiltTo
<1>4. PICK l \in Looped :
         /\ c[l] < Len(trxn[l])
         /\ Head(work) = [list |-> l, item |-> trxn[l][c[l] + 1]]
         /\ Tail(work) = Remains([c EXCEPT ![l] = @ + 1])
  BY <1>1, <1>3, NextVisit
<1> DEFINE d == [c EXCEPT ![l] = @ + 1]
           v == Head(work)
<1>5. /\ d \in [Looped -> Nat] /\ d[l] = c[l] + 1
      /\ \A m \in Looped \ {l} : d[m] = c[m]
  BY <1>3
<1>6. /\ c[l] + 1 \in DOMAIN trxn[l]
      /\ v.list = l /\ v.item = trxn[l][c[l] + 1]
      /\ Target(v) = Member(trxn, l, c[l] + 1)
  BY <1>1, <1>3, <1>4, LoopedLists DEF Target, Member
<1>7. v \in VisitType
  <2>1. \/ trxn[l][c[l] + 1] \in Pkg /\ l \in PkgLists
        \/ trxn[l][c[l] + 1] \in Pair /\ l = "upgrade"
    BY <1>1, <1>6, LoopedLists
  <2>2. [list |-> l, item |-> trxn[l][c[l] + 1]] \in VisitType
    BY <2>1 DEF VisitType
  <2>3. QED BY <1>4, <2>2
<1> HIDE DEF d, v
<1>8. /\ \A m \in Looped : Kept(m, d[m], fresh'[m])
      /\ fresh'.reinstall = <<>>
  <2>1. CASE Matches(drop[1], Target(v))
    <3>1. fresh' = fresh
      BY <2>1 DEF RebuildStep, v
    <3>2. Kept(l, c[l] + 1, fresh[l])
      BY <1>3, <1>6, <2>1, KeptDropsOne
    <3>3. QED BY <1>1, <1>3, <1>5, <3>1, <3>2
  <2>2. CASE ~Matches(drop[1], Target(v))
    <3>1. fresh' = Readd(fresh, v)
      BY <2>2 DEF RebuildStep, v
    <3>2. ~SearchByPkg(fresh, Target(v))
      BY <1>1, <1>2, <1>4, <1>6, NotYetThere
    <3>3. /\ fresh'[l] = Append(fresh[l], v.item)
          /\ \A m \in Lists \ {l} : fresh'[m] = fresh[m]
      BY <1>1, <1>6, <1>7, <3>1, <3>2, ReaddAppends
    <3>4. Kept(l, c[l] + 1, Append(fresh[l], v.item))
      <4>1. CASE l \in PkgLists /\ l \notin UpgradeLists
        <5>1. fresh[l] \in Seq(Pkg) /\ v.item \in Pkg
          BY <1>1, <1>6, <4>1, LoopedLists DEF UpgradeLists
        <5>2. QED BY <1>3, <1>6, <2>2, <5>1, KeptKeepsOne
      <4>2. CASE l = "upgrade"
        <5>1. fresh[l] \in Seq(Pair) /\ v.item \in Pair
          BY <1>1, <1>6, <4>2, LoopedLists DEF PkgLists
        <5>2. QED BY <1>3, <1>6, <2>2, <5>1, KeptKeepsOne
      <4>3. QED BY <1>1, <4>1, <4>2, LoopedLists
    <3>5. "reinstall" \in Lists \ {l} /\ Looped \subseteq Lists
      BY DEF Looped, Lists, PkgLists, UpgradeLists
    <3>6. QED BY <1>1, <1>3, <1>5, <3>3, <3>4, <3>5
  <2>3. QED BY <2>1, <2>2
<1>9. \A m \in Looped : Kept(m, d[m], fresh[m])'
  BY <1>1, <1>8, KeptUnmoved
<1>10. work' = Remains(d)'
  BY <1>1, <1>4 DEF Remains, Rest, d
<1>11. \A m \in Looped : d[m] <= Len(trxn'[m])
  BY <1>1, <1>3, <1>4, <1>5, LoopedLists
<1>12. RebuiltTo(d)'
  BY <1>9, <1>10, <1>11 DEF RebuiltTo
<1>13. QED BY <1>5, <1>8, <1>12 DEF RebuildInv

LEMMA StepRebuildInv == IInv /\ RebuildInv /\ [Next]_vars => RebuildInv'
<1> SUFFICES ASSUME IInv, RebuildInv, [Next]_vars PROVE RebuildInv'
  OBVIOUS
<1>1. ASSUME drop' = <<>> PROVE RebuildInv'
  BY <1>1 DEF RebuildInv, Rebuilding
<1>2. ASSUME NEW p \in Pkg, Install(p) \/ Remove(p) \/ Exclude(p) PROVE RebuildInv'
  BY <1>1, <1>2 DEF Install, Remove, Exclude, Client, MayGrow, Idle
<1>3. ASSUME NEW old \in Pkg, NEW new \in Pkg,
             Reinstall(old, new) \/ Upgrade(old, new)
      PROVE  RebuildInv'
  BY <1>1, <1>3 DEF Reinstall, Upgrade, Client, MayGrow, Idle
<1>4. CASE Suggestions \/ RebuildEnd
  BY <1>1, <1>4 DEF Suggestions, RebuildEnd, Idle
<1>5. ASSUME NEW p \in Pkg, RebuildBegin(p) PROVE RebuildInv'
  BY <1>5, RebuildBegins
<1>6. CASE RebuildStep
  BY <1>6, RebuildGoesOn
<1>7. CASE UNCHANGED vars
  <2> SUFFICES ASSUME Rebuilding PROVE RebuildInv'
    BY <1>1, <1>7 DEF Rebuilding, vars
  <2>1. PICK c \in [Looped -> Nat] : RebuiltTo(c)
    BY DEF RebuildInv
  <2>2. \A l \in Looped : Kept(l, c[l], fresh[l])'
    BY <1>7, <2>1, KeptUnmoved DEF RebuiltTo, vars
  <2>3. Remains(c)' = Remains(c)
    BY <1>7 DEF Remains, Rest, vars
  <2>4. RebuiltTo(c)'
    BY <1>7, <2>1, <2>2, <2>3 DEF RebuiltTo, vars
  <2>5. QED BY <1>7, <2>4 DEF RebuildInv, vars
<1>8. QED BY <1>2, <1>3, <1>4, <1>5, <1>6, <1>7 DEF Next

LEMMA SpecRebuildInv == Spec => []RebuildInv
<1>1. Init => RebuildInv
  BY DEF Init, RebuildInv, Rebuilding
<1>2. QED BY <1>1, StepRebuildInv, SpecIInv, PTL DEF Spec

\* When nothing is left to look at, every list has been looped over.
LEMMA AllLookedAt ==
  ASSUME trxn \in TrxnType, NEW c \in [Looped -> Nat],
         \A l \in Looped : c[l] <= Len(trxn[l]), Remains(c) = <<>>
  PROVE  \A l \in Looped : c[l] = Len(trxn[l])
<1> DEFINE a == Rest("install", c)   b == Rest("remove", c)
           e == Rest("upgrade", c)   g == Rest("exclude", c)
<1>1. /\ "install" \in Looped /\ "remove" \in Looped
      /\ "upgrade" \in Looped /\ "exclude" \in Looped
  BY DEF Looped, Lists, PkgLists, UpgradeLists
<1>2. /\ a \in Seq(VisitType) /\ b \in Seq(VisitType)
      /\ e \in Seq(VisitType) /\ g \in Seq(VisitType)
  BY <1>1, RestIs
<1>3. a \o b \o e \o g = <<>>
  BY DEF Remains
<1> HIDE DEF a, b, e, g
<1>4. a = <<>> /\ b = <<>> /\ e = <<>> /\ g = <<>>
  <2>1. /\ Len(a) \in Nat /\ Len(b) \in Nat /\ Len(e) \in Nat /\ Len(g) \in Nat
        /\ Len(a \o b \o e \o g) = Len(a) + Len(b) + Len(e) + Len(g)
    BY <1>2
  <2>2. Len(a) = 0 /\ Len(b) = 0 /\ Len(e) = 0 /\ Len(g) = 0
    BY <1>3, <2>1
  <2>3. QED BY <1>2, <2>2
<1>5. TAKE l \in Looped
<1>6. Rest(l, c) = <<>>
  BY <1>4, LoopedLists DEF a, b, e, g
<1>7. c[l] \in Nat /\ Len(trxn[l]) \in Nat
  BY LoopedLists
<1>8. ~(c[l] < Len(trxn[l]))
  BY <1>6, RestIs
<1>9. QED BY <1>7, <1>8

\* slapt_transaction_t_remove hands back the install, remove, upgrade and
\* exclude lists as they were, in their order, without the one package.
THEOREM TransactionRebuildDropsOnlyPkg == Spec => RebuildDropsOnlyPkg
<1>1. IInv /\ RebuildInv /\ [Next]_vars
        => [\A l \in Lists \ {"reinstall"} : DropsOnly(l)]_vars
  <2> SUFFICES ASSUME IInv, RebuildInv, Next, NEW l \in Looped,
                      Rebuilding, drop' = <<>>
               PROVE  \E f \in [DOMAIN trxn'[l] -> DOMAIN trxn[l]] :
                         LeftOf(l, Len(trxn[l]), trxn'[l], f)
    BY DEF DropsOnly, Looped
  <2>1. RebuildEnd
    BY DEF Next, Install, Remove, Exclude, Reinstall, Upgrade, Client, MayGrow,
           Suggestions, RebuildBegin, RebuildStep, Rebuilding, Idle
  <2>2. trxn' = fresh /\ work = <<>> /\ trxn \in TrxnType
    BY <2>1 DEF RebuildEnd, IInv, Good
  <2>3. PICK c \in [Looped -> Nat] : RebuiltTo(c)
    BY DEF RebuildInv
  <2>4. c[l] = Len(trxn[l])
    BY <2>2, <2>3, AllLookedAt DEF RebuiltTo
  <2>5. Kept(l, Len(trxn[l]), fresh[l])
    BY <2>3, <2>4 DEF RebuiltTo
  <2>6. DOMAIN trxn[l] = 1..Len(trxn[l])
    BY <2>2, LoopedLists
  <2>7. QED BY <2>2, <2>5, <2>6 DEF Kept
<1>2. QED BY <1>1, SpecIInv, SpecRebuildInv, PTL DEF Spec, RebuildDropsOnlyPkg
=============================================================================
