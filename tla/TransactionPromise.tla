------------------------- MODULE TransactionPromise -------------------------
(***************************************************************************)
(* What slapt-get promises of a transaction (FAQ #26): nothing is done to  *)
(* the system before every package to be installed has been there and      *)
(* verified, and then the operations are carried out one after the other   *)
(* in the order of the plan, none of them skipped, each with a package     *)
(* that verifies.  Until then packages come and go as they like; from then *)
(* on they can only go.  It may stop anywhere; what was done stays done.   *)
(***************************************************************************)
EXTENDS Naturals, Sequences

CONSTANT Package

VARIABLES ops,  \* the operations of the transaction, in order
          done, \* those carried out
          seen, \* the packages that have verified since it began
          good  \* those that verify now

Operation == [op : {"remove", "install", "upgrade"}, pkg : Package]

\* The packages to be installed.
Needed == {ops[i].pkg : i \in {j \in DOMAIN ops : ops[j].op # "remove"}}

Init == ops = <<>> /\ done = <<>> /\ seen = {} /\ good \in SUBSET Package

\* The next invocation, with another plan.
Begin ==
  /\ ops' \in Seq(Operation)
  /\ done' = <<>>
  /\ seen' = {}
  /\ good' \in SUBSET Package

Change ==
  /\ good' \in SUBSET Package
  /\ Needed \subseteq seen => good' \subseteq good
  /\ UNCHANGED <<ops, done, seen>>

Verify ==
  /\ \E p \in good : seen' = seen \cup {p}
  /\ UNCHANGED <<ops, done, good>>

Perform ==
  /\ Needed \subseteq seen
  /\ Len(done) < Len(ops)
  /\ LET next == ops[Len(done) + 1]
     IN  /\ next.op # "remove" => next.pkg \in good
         /\ done' = Append(done, next)
  /\ UNCHANGED <<ops, seen, good>>

Stop ==
  /\ seen' = {}
  /\ good' \in SUBSET Package
  /\ UNCHANGED <<ops, done>>

Next == Begin \/ Change \/ Verify \/ Perform \/ Stop

Spec == Init /\ [][Next]_<<ops, done, seen, good>>
=============================================================================
