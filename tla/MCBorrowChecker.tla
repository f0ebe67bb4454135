-------------------------- MODULE MCBorrowChecker --------------------------
(* The borrow checker on small programs: names are interchangeable. *)
EXTENDS BorrowChecker, TLC

NameSymmetry == Permutations(Var)
=============================================================================
