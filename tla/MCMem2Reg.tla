----------------------------- MODULE MCMem2Reg -----------------------------
(* Instances of Mem2Reg: small functions.                                  *)
EXTENDS Mem2Reg, TLC

VarSymmetry == Permutations(Var)

(* Control flow graphs of five blocks; the emitter's own but for the last, *)
(* in which two blocks are entered from outside their cycle.               *)
IfInWhile   == 0 :> <<1>> @@ 1 :> <<2, 4>> @@ 2 :> <<3, 1>> @@ 3 :> <<1>> @@ 4 :> <<>>
WhileBreak  == 0 :> <<1>> @@ 1 :> <<2, 4>> @@ 2 :> <<3, 4>> @@ 3 :> <<1>> @@ 4 :> <<>>
NestedWhile == 0 :> <<1>> @@ 1 :> <<2, 4>> @@ 2 :> <<3, 1>> @@ 3 :> <<2>> @@ 4 :> <<>>
TwoEntries  == 0 :> <<1, 2>> @@ 1 :> <<2>> @@ 2 :> <<3>> @@ 3 :> <<1, 4>> @@ 4 :> <<>>

Shapes == {IfInWhile, WhileBreak, NestedWhile, TwoEntries}
============================================================================
