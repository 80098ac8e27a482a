----------------------------- MODULE Transaction -----------------------------
(***************************************************************************)
(* The transaction of slapt-get (src/src/transaction.c) in the hands of a  *)
(* client of libslapt, who may call the operations of TrxnLists in any     *)
(* order.  slapt_transaction_t_remove rebuilds the transaction in a new    *)
(* object: each pass of its loops is a step of its own.                    *)
(***************************************************************************)
EXTENDS TrxnLists

CONSTANTS Name,      \* package names
          Pkg,       \* the packages a client may pass in
          MaxMembers \* bound: members of a transaction the model lets grow

ASSUME PkgAssumption == \A p \in Pkg : p.suggests \subseteq Name
ASSUME BoundAssumption == MaxMembers \in Nat

VARIABLES trxn,   \* the client's transaction
          fresh,  \* new_trxn of slapt_transaction_t_remove
          work,   \* list members the rebuild has still to look at
          drop    \* <<pkg>> while slapt_transaction_t_remove(trxn, pkg) runs

vars == <<trxn, fresh, work, drop>>

-----------------------------------------------------------------------------
(* slapt_transaction_t_remove                                              *)

Matches(p, q) == SamePkg(p, q) /\ p.location = q.location

\* The members in the order the four loops visit them.
Visits(t) ==
  LET of(l) == [i \in DOMAIN t[l] |-> [list |-> l, item |-> t[l][i]]]
  IN  of("install") \o of("remove") \o of("upgrade") \o of("exclude")

Target(v) == IF v.list \in UpgradeLists THEN v.item.upgrade ELSE v.item

\* The body of the loop over v.list for a member that is kept.
Readd(t, v) ==
  CASE v.list = "install" -> AddInstall(t, v.item)
    [] v.list = "remove"  -> AddRemove(t, v.item)
    [] v.list = "upgrade" -> AddUpgrade(t, v.item.installed, v.item.upgrade)
    [] v.list = "exclude" -> AddExclude(t, v.item)

-----------------------------------------------------------------------------
(* A client of the library. *)

Init == trxn = EmptyTrxn /\ fresh = EmptyTrxn /\ work = <<>> /\ drop = <<>>

Members(t) ==
  Len(t.install) + Len(t.remove) + Len(t.exclude)
    + Len(t.upgrade) + Len(t.reinstall)

Idle == drop = <<>>
Rebuilding == drop # <<>>
MayGrow == Idle /\ Members(trxn) < MaxMembers

Client(t) == MayGrow /\ trxn' = t /\ UNCHANGED <<fresh, work, drop>>

Install(p) == Client(AddInstall(trxn, p))
Remove(p) == Client(AddRemove(trxn, p))
Exclude(p) == Client(AddExclude(trxn, p))
Reinstall(old, new) == Client(AddReinstall(trxn, old, new))
Upgrade(old, new) == Client(AddUpgrade(trxn, old, new))

Suggestions ==
  /\ Idle
  /\ trxn' = Suggest(trxn)
  /\ UNCHANGED <<fresh, work, drop>>

RebuildBegin(p) ==
  /\ Idle
  /\ SearchByPkg(trxn, p)
  /\ fresh' = EmptyTrxn
  /\ work' = Visits(trxn)
  /\ drop' = <<p>>
  /\ UNCHANGED trxn

\* Mutant of RebuildStep: the location is not compared.
RebuildStep_any_location ==
  /\ Rebuilding
  /\ work # <<>>
  /\ fresh' = IF SamePkg(drop[1], Target(Head(work))) THEN fresh
              ELSE Readd(fresh, Head(work))
  /\ work' = Tail(work)
  /\ UNCHANGED <<trxn, drop>>

RebuildStep ==
  /\ Rebuilding
  /\ work # <<>>
  /\ fresh' = IF Matches(drop[1], Target(Head(work))) THEN fresh
              ELSE Readd(fresh, Head(work))
  /\ work' = Tail(work)
  /\ UNCHANGED <<trxn, drop>>

\* The old object is freed and the new one returned to the client.
RebuildEnd ==
  /\ Rebuilding
  /\ work = <<>>
  /\ trxn' = fresh
  /\ fresh' = EmptyTrxn
  /\ drop' = <<>>
  /\ UNCHANGED work

\* The callers pair an installed package with one of the same name.
Next ==
  \/ \E p \in Pkg : Install(p) \/ Remove(p) \/ Exclude(p) \/ RebuildBegin(p)
  \/ \E old, new \in Pkg :
        old.name = new.name /\ (Reinstall(old, new) \/ Upgrade(old, new))
  \/ Suggestions
  \/ RebuildStep
  \/ RebuildEnd

Spec == Init /\ [][Next]_vars

-----------------------------------------------------------------------------
(* Properties. *)

Pair == [installed : Pkg, upgrade : Pkg]

DepError == [pkg : Name, error : Name]
Pointer == [list : QueuedLists, index : Nat \ {0}]

TrxnType ==
  [install : Seq(Pkg), remove : Seq(Pkg), exclude : Seq(Pkg),
   upgrade : Seq(Pair), reinstall : Seq(Pair),
   queue : Seq(Pointer),
   suggests : SUBSET Name,
   missing_err : Seq(DepError), conflict_err : Seq(DepError)]

VisitType ==
  [list : PkgLists, item : Pkg] \cup [list : {"upgrade"}, item : Pair]

\* The two transactions hold packages, the work list members to look at.
TypeOK ==
  /\ trxn \in TrxnType
  /\ fresh \in TrxnType
  /\ work \in Seq(VisitType)
  /\ drop = <<>> \/ \E p \in Pkg : drop = <<p>>

\* A package (name and version) has one fate: over the five lists together no
\* package stands twice, whatever the order of the calls and in the middle of
\* slapt_transaction_t_remove too.  What the run downloads, removes and
\* installs relies on it: the lists are looped over independently.
NoPkgTwice == Once(trxn) /\ Once(fresh)

\* The queue is the plan: every pointer in it leads to a list member, every
\* package listed for install, upgrade or reinstall (and so downloaded and
\* shown) is in the queue exactly once, in the order it was added.
QueueIsPlan == Planned(trxn) /\ Planned(fresh)

Extends(t, u) ==
  \A l \in Lists : \A i \in DOMAIN t[l] :
     i \in DOMAIN u[l] /\ u[l][i] = t[l][i]

\* The first decision about a package stands: no add operation moves or drops
\* a member of any list; only the end of slapt_transaction_t_remove does.
FirstDecisionStands ==
  [][~Rebuilding \/ work # <<>> => Extends(trxn, trxn')]_vars

\* u is what is left of the first k members of list l when the ones that are
\* drop[1] are taken out: f[n] is where member n of u stands in the list.
LeftOf(l, k, u, f) ==
  /\ \A m, n \in DOMAIN u : m < n => f[m] < f[n]
  /\ \A n \in DOMAIN u : u[n] = trxn[l][f[n]]
  /\ {f[n] : n \in DOMAIN u}
       = {i \in 1..k : ~Matches(drop[1], Member(trxn, l, i))}

DropsOnly(l) ==
  Rebuilding /\ drop' = <<>> =>
     \E f \in [DOMAIN trxn'[l] -> DOMAIN trxn[l]] :
        LeftOf(l, Len(trxn[l]), trxn'[l], f)

\* slapt_transaction_t_remove takes out of these four lists the package it is
\* given (name, version and location) and leaves all others in their order,
\* although it re-adds each through the duplicate check.
RebuildDropsOnlyPkg ==
  [][\A l \in Lists \ {"reinstall"} : DropsOnly(l)]_vars

\* transaction.h says of slapt_transaction_t_remove "remove package from
\* transaction, returns modified transaction": the packages to reinstall that
\* are not the one removed should still be in it.
RebuildKeepsReinstalls == [][DropsOnly("reinstall")]_vars
=============================================================================
