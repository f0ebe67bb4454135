----------------------------- MODULE MCDomTree -----------------------------
(* Instances of DomTree: the control flow graphs of N blocks.              *)
EXTENDS DomTree

CONSTANTS
    MaxEdges,       \* bound: branches in a function
    MaxAnyEdges     \* bound: branches in a function of any order of blocks

(* The terminators: return, br, and a br on a condition.                   *)
Terminators ==
    {<<>>} \cup {<<s>> : s \in Blocks \ {entry}}
           \cup {<<s, t>> : s, t \in Blocks \ {entry}}

EdgeCount(g) == MapThenSumSet(LAMBDA b : Len(g[b]), Blocks)

(* Every block can be reached, and is numbered behind a block that         *)
(* branches to it; of few branches, in any order, and with a block that    *)
(* cannot be reached.                                                      *)
MCGraphs ==
    {g \in [Blocks -> {t \in Terminators : Cardinality({t[k] : k \in DOMAIN t}) = Len(t)}] :
        /\ EdgeCount(g) <= MaxEdges
        /\ \/ \A b \in Blocks \ {entry} : \E p \in Preds(g, b) : p < b
           \/ EdgeCount(g) <= MaxAnyEdges /\ Cardinality(Reachable(g)) >= N - 1}
============================================================================
