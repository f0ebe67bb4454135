----------------------------- MODULE Dominance -----------------------------
(***************************************************************************)
(* Control flow graphs (src/src/midend/ir_analyzer/cfg.h) and what a       *)
(* dominator tree and dominance frontiers are, by paths: the reference the *)
(* algorithm of DomTree is checked against.  A block a dominates b when    *)
(* every path from the entry to b goes through a.                          *)
(***************************************************************************)
EXTENDS Integers, Sequences

CONSTANT N      \* the number of blocks of the function

ASSUME SizeAssumption == N \in Nat \ {0}

Blocks == 0..(N - 1)
entry == 0

(* UINT32_MAX in the code: the number of no block.                         *)
kInvalidBlockId == N

(* The terminators' successors, in order; LLVM's entry block has no        *)
(* predecessor, and the emitter makes no branch with twice the same        *)
(* target.                                                                 *)
CFG == [Blocks -> Seq(Blocks)]

Succs(g, b) == {g[b][k] : k \in DOMAIN g[b]}
Preds(g, b) == {p \in Blocks : b \in Succs(g, p)}

----------------------------------------------------------------------------
(* S holds the entry and every successor of its blocks, but for a.         *)
Closed(g, a, S) ==
    /\ entry # a => entry \in S
    /\ \A p \in S : Succs(g, p) \subseteq S \cup {a}

(* The blocks that a path from the entry reaches without going through a.  *)
Avoiding(g, a) ==
    LET closed == {S \in SUBSET (Blocks \ {a}) : Closed(g, a, S)}
    IN  {b \in Blocks : \A S \in closed : b \in S}

Reachable(g) == Avoiding(g, kInvalidBlockId)

AllReachable(g) == Reachable(g) = Blocks

(* The reachable blocks that a dominates, itself included.                 *)
Dominated(g, a) == Reachable(g) \ Avoiding(g, a)

(* The table of the relation, for formulas that use it many times.         *)
DominanceOf(g) == [a \in Blocks |-> Dominated(g, a)]

(* In a table dom: i is the one strict dominator of b that all the others  *)
(* dominate.                                                               *)
ImmediatelyDominates(dom, i, b) ==
    /\ i # b /\ b \in dom[i]
    /\ \A a \in Blocks \ {b} : b \in dom[a] => i \in dom[a]

(* Where the dominance of a ends: a dominates a predecessor of b, but not  *)
(* b strictly.                                                             *)
FrontierOf(g, dom, a) ==
    {b \in Blocks : /\ \E p \in Preds(g, b) : p \in dom[a]
                    /\ a = b \/ b \notin dom[a]}
============================================================================
