------------------------------ MODULE ListOps -------------------------------
(***************************************************************************)
(* Operators on sequences that the other modules share, in a form that can *)
(* be reasoned about: each is a fold, a function that SequencesExt defines *)
(* without RECURSIVE.                                                      *)
(***************************************************************************)
EXTENDS Integers, Sequences, SequencesExt

\* F of the value of e: TLC computes e once, a LET at each occurrence.
With(e, F(_)) == CHOOSE r \in {F(v) : v \in {e}} : TRUE

\* FoldLeft, each intermediate result computed once.
Fold(op(_, _), base, seq) ==
  FoldLeft(LAMBDA acc, x : CHOOSE r \in {op(v, x) : v \in {acc}} : TRUE,
           base, seq)

\* What a sequence has of a set, in its order.
Keep(seq, S) ==
  FoldLeft(LAMBDA acc, x : IF x \in S THEN Append(acc, x) ELSE acc, <<>>, seq)

\* The sequences in a sequence, one after the other.
Concat(seqs) == FoldLeft(LAMBDA acc, x : acc \o x, <<>>, seqs)

First(s) == IF s = <<>> THEN <<>> ELSE <<s[1]>>
=============================================================================
