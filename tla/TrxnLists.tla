----------------------------- MODULE TrxnLists -----------------------------
(***************************************************************************)
(* The transaction record of slapt-get (slapt_transaction_t): the five     *)
(* lists a run is planned in, the queue that fixes the order of            *)
(* installation, the suggestions and the two error lists; and the          *)
(* operations of src/src/transaction.c that search it and add to it.       *)
(*                                                                         *)
(* A package is a record with at least name, version, location and         *)
(* suggests.  A queue item is, as in C, a pointer to a list member: the    *)
(* list's name and the index the member has in it.                         *)
(***************************************************************************)
EXTENDS Naturals, Sequences

(* Transaction records. *)

PkgLists == {"install", "remove", "exclude"}
UpgradeLists == {"upgrade", "reinstall"}
Lists == PkgLists \cup UpgradeLists
QueuedLists == {"install", "upgrade", "reinstall"}

EmptyTrxn ==
  [install |-> <<>>, remove |-> <<>>, exclude |-> <<>>,
   upgrade |-> <<>>, reinstall |-> <<>>, queue |-> <<>>, suggests |-> {},
   missing_err |-> <<>>, conflict_err |-> <<>>]

\* The package a list is searched by: the new version for an upgrade pair.
Member(t, l, i) == IF l \in UpgradeLists THEN t[l][i].upgrade ELSE t[l][i]

SamePkg(p, q) == p.name = q.name /\ p.version = q.version

\* slapt_transaction_t_search_by_pkg
SearchByPkg(t, p) ==
  \E l \in Lists : \E i \in DOMAIN t[l] : SamePkg(p, Member(t, l, i))

\* slapt_transaction_t_search
Search(t, name) ==
  \E l \in Lists : \E i \in DOMAIN t[l] : Member(t, l, i).name = name

\* slapt_transaction_t_search_upgrade
SearchUpgrade(t, p) ==
  \E i \in DOMAIN t.upgrade : t.upgrade[i].upgrade.name = p.name

-----------------------------------------------------------------------------
(* The add operations: nothing happens when the package is already there.  *)

\* Mutant of Enqueue: the index of the member before the new one.
Enqueue_before_last(t, l, item) ==
  [t EXCEPT ![l] = Append(@, item),
            !.queue = Append(@, [list |-> l, index |-> Len(t[l])])]

Enqueue(t, l, item) ==
  [t EXCEPT ![l] = Append(@, item),
            !.queue = Append(@, [list |-> l, index |-> Len(t[l]) + 1])]

AddInstall(t, p) ==
  IF SearchByPkg(t, p) THEN t ELSE Enqueue(t, "install", p)

\* Mutants of AddRemove: the duplicate check forgotten; a removal that takes
\* the package off the exclude list.
AddRemove_unchecked(t, p) == [t EXCEPT !.remove = Append(@, p)]

AddRemove_overrides(t, p) ==
  IF \E i \in DOMAIN t.exclude : SamePkg(p, t.exclude[i])
  THEN [t EXCEPT !.exclude = SelectSeq(@, LAMBDA e : ~SamePkg(p, e)),
                 !.remove = Append(@, p)]
  ELSE IF SearchByPkg(t, p) THEN t ELSE [t EXCEPT !.remove = Append(@, p)]

AddRemove(t, p) ==
  IF SearchByPkg(t, p) THEN t ELSE [t EXCEPT !.remove = Append(@, p)]

AddExclude(t, p) ==
  IF SearchByPkg(t, p) THEN t ELSE [t EXCEPT !.exclude = Append(@, p)]

\* Mutant of AddReinstall: listed, never queued.
AddReinstall_unqueued(t, old, new) ==
  IF SearchByPkg(t, new) THEN t
  ELSE [t EXCEPT !.reinstall =
                   Append(@, [installed |-> old, upgrade |-> new])]

AddReinstall(t, old, new) ==
  IF SearchByPkg(t, new) THEN t
  ELSE Enqueue(t, "reinstall", [installed |-> old, upgrade |-> new])

AddUpgrade(t, old, new) ==
  IF SearchByPkg(t, new) THEN t
  ELSE Enqueue(t, "upgrade", [installed |-> old, upgrade |-> new])

\* slapt_transaction_t_suggestions: what the installs suggest and the
\* transaction does not hold (a set: the vector is only printed).
Suggest(t) ==
  LET suggested == UNION {t.install[i].suggests : i \in DOMAIN t.install}
  IN  [t EXCEPT !.suggests = @ \cup {s \in suggested : ~Search(t, s)}]

-----------------------------------------------------------------------------
(* What the operations keep true of a transaction.  Transaction checks it, *)
(* TransactionProofs proves it and TransactionRun relies on it.            *)

\* No package is in the lists twice.
Once(t) ==
  \A l, m \in Lists : \A i \in DOMAIN t[l], j \in DOMAIN t[m] :
     SamePkg(Member(t, l, i), Member(t, m, j)) => l = m /\ i = j

\* The queue points to the members to install, in the order of their lists.
Planned(t) ==
  /\ \A k \in DOMAIN t.queue : t.queue[k].index \in DOMAIN t[t.queue[k].list]
  /\ \A l \in QueuedLists : \A i \in DOMAIN t[l] :
        \E k \in DOMAIN t.queue : t.queue[k] = [list |-> l, index |-> i]
  /\ \A j, k \in DOMAIN t.queue :
        j < k /\ t.queue[j].list = t.queue[k].list
          => t.queue[j].index < t.queue[k].index
=============================================================================
