--------------------------- MODULE MCLeakChecker ---------------------------
(* Instances of LeakChecker: small functions in modules of two functions.  *)
EXTENDS LeakChecker, TLC

Branch     == 0 :> <<1, 2>> @@ 1 :> <<2>> @@ 2 :> <<>>
Loop       == 0 :> <<1>> @@ 1 :> <<1, 2>> @@ 2 :> <<>>
TwoReturns == 0 :> <<1, 2>> @@ 1 :> <<>> @@ 2 :> <<>>
Unreachable == 0 :> <<2>> @@ 1 :> <<2>> @@ 2 :> <<>>

Shapes == {Branch, Loop, TwoReturns, Unreachable}

AllModules == [Functions -> Definition]

Def(r, a, always) == [returns |-> r, argument |-> a, always |-> always]

Makes == Def(malloc, read, TRUE)

Callees == <<Makes, Def(nothing, free, TRUE)>>
Freeing == <<Def(nothing, 2, FALSE), Def(nothing, free, TRUE)>>
Keeping == <<Makes, Def(nothing, keep, TRUE)>>

Scope(m, gs, ops, n) ==
    {[module |-> m, graph |-> g, ops |-> ops, size |-> n] : g \in gs}

(* All operations in small functions, and the ones that go together in     *)
(* larger ones.                                                            *)
SomeScopes ==
    Scope(Callees, Shapes, Operations \ {"call"}, 3)
        \cup Scope(Callees, Shapes, {"malloc", "call", "free", "phi", "ret"}, 3)
        \cup Scope(Freeing, Shapes, {"malloc", "call", "free"}, 3)
        \cup Scope(Callees, {Branch, Loop}, {"malloc", "free", "store", "load"}, 4)
        \cup Scope(Callees, {Branch, Loop}, {"malloc", "free", "phi"}, 4)

KeepingScope == Scope(Keeping, {Branch}, {"malloc", "call"}, 2)
KeepingModule == {Keeping}
============================================================================
