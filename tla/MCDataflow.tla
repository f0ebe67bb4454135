----------------------------- MODULE MCDataflow -----------------------------
EXTENDS Dataflow

(* The graphs: LLVM's entry block has no predecessor, and no terminator    *)
(* here has more than two targets.  A block outside `blocks' returns.      *)
Targets(blocks) ==
    {t \in [0..(N - 1) -> SUBSET (blocks \ {entry})] :
        /\ \A b \in blocks : Cardinality(t[b]) <= 2
        /\ \A b \in (0..(N - 1)) \ blocks : t[b] = {}}

(* The programs of at most n instructions, all in the given blocks: a text *)
(* and where it is cut.                                                    *)
Codes(blocks, n, instructions) ==
    UNION {{[b \in 0..(N - 1) |->
                IF b \in blocks THEN SubSeq(text, cut[b] + 1, cut[b + 1]) ELSE <<>>] :
            cut \in {c \in [0..Cardinality(blocks) -> 0..Len(text)] :
                        /\ c[0] = 0 /\ c[Cardinality(blocks)] = Len(text)
                        /\ \A b \in blocks : c[b] <= c[b + 1]}} :
            text \in UNION {[1..k -> instructions] : k \in 0..n}}

Inner == 0..(N - 2)
MCKinds == {"store", "field", "load"}

Programs ==
    [targets : Targets(Inner),
     code : Codes(Inner, 2, MCKinds \X Vars) \cup Codes(Inner, 3, MCKinds \X Tracked)]

Empty == [b \in 0..(N - 1) |-> <<>>]

MCProblems ==
    ({"live", "reaching", "busy"} \X Programs)
    \cup ({"dominators"} \X [targets : Targets(0..(N - 1)), code : {Empty}])
=============================================================================
