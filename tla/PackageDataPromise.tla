------------------------- MODULE PackageDataPromise -------------------------
(***************************************************************************)
(* What --update promises of package_data, the list all other actions      *)
(* plan from.  It is replaced as a whole, by lists of every source, none   *)
(* older than the update that wrote it; until such lists are complete it   *)
(* is not touched.  A kill while it is written leaves it torn, and the     *)
(* patches of a source may be missing, which the code allows.              *)
(***************************************************************************)
EXTENDS Integers

CONSTANT Source                 \* the package sources that are not disabled

VARIABLES
  offered,                      \* the version each mirror offers
  since,                        \* what they offered when the update began
  staged,                       \* complete lists, ready to be written
  data,                         \* package_data
  torn                          \* package_data is cut short

promiseVars == <<offered, since, staged, data, torn>>

NoLists == <<>>
Missing == -1

Window(s) == since[s] .. offered[s]

(* Lists of every source, of versions it offered while the update ran. *)
Complete(lists) ==
  /\ DOMAIN lists = Source
  /\ \A s \in Source :
       lists[s] \in [packages  : Window(s),
                    patches   : Window(s) \cup {Missing},
                    checksums : Window(s)]

PromiseInit ==
  /\ offered = [s \in Source |-> 1]
  /\ since = offered
  /\ staged = NoLists
  /\ data = NoLists
  /\ torn = FALSE

MirrorChanges ==
  /\ \E s \in Source : offered' = [offered EXCEPT ![s] = @ + 1]
  /\ UNCHANGED <<since, staged, data, torn>>

UpdateBegins ==
  /\ staged = NoLists
  /\ since' = offered
  /\ UNCHANGED <<offered, staged, data, torn>>

Stage ==
  /\ staged = NoLists
  /\ Complete(staged')
  /\ UNCHANGED <<offered, since, data, torn>>

Truncate ==
  /\ staged # NoLists
  /\ data' = NoLists
  /\ torn' = TRUE
  /\ UNCHANGED <<offered, since, staged>>

Replace ==
  /\ staged # NoLists
  /\ torn
  /\ data' = staged
  /\ torn' = FALSE
  /\ staged' = NoLists
  /\ UNCHANGED <<offered, since>>

Abandon ==
  /\ staged' = NoLists
  /\ UNCHANGED <<offered, since, data, torn>>

PromiseNext == MirrorChanges \/ UpdateBegins \/ Stage \/ Truncate \/ Replace \/ Abandon

PromiseSpec == PromiseInit /\ [][PromiseNext]_promiseVars
=============================================================================
