---------------------------- MODULE MCOwnership ----------------------------
(* The borrow checker beside the history of the program it walks. *)
EXTENDS Ownership, TLC

NameSymmetry == Permutations(Var)

(* A walk is followed up to and including its first error. *)
UpToFirstError == ~rejected
=============================================================================
