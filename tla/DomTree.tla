------------------------------ MODULE DomTree ------------------------------
(***************************************************************************)
(* The dominator tree and the dominance frontiers that mem2reg uses        *)
(* (src/src/midend/ir_analyzer/domtree.cpp), one action per turn of each   *)
(* loop.  CatPromotePass builds both for every function.                   *)
(*                                                                         *)
(* The emitter may leave blocks that cannot be reached: the block behind   *)
(* an if whose branches all return.  Such a block is in the CFG but not in *)
(* the postorder, and the code then reads post_order past its end: what it *)
(* reads is any number, and using it may write anywhere.  That outcome is  *)
(* the phase "undefined", in which the behaviour ends.                     *)
(***************************************************************************)
EXTENDS Dominance, FiniteSetsExt

CONSTANT Graphs     \* the control flow graphs a function may have

ASSUME GraphsAssumption == Graphs \subseteq CFG

(* LLVM's entry block has no predecessors.                                 *)
ASSUME EntryAssumption == \A g \in Graphs : Preds(g, entry) = {}

VARIABLES
    succ,        \* the CFG
    phase,       \* the function that is running
    stack,       \* the open calls of dfs, or the stack of compute_dfs_numbers
    visited,     \* the blocks dfs has entered
    post_order,
    po_idx,      \* block -> its place in post_order, from 0
    idoms,       \* block -> immediate dominator so far, or kInvalidBlockId
    changed,     \* this round has changed idoms
    at,          \* the cursor of the loop over rpo or over all blocks
    pred,        \* the least block id that may be the next predecessor
    new_idom,    \* compute_idoms: new_idom, and intersect's finger2
    walking,     \* intersect or the runner's loop is running
    finger,      \* intersect's finger1, or the runner
    dfs_in, dfs_out, timer,
    df           \* block -> its dominance frontier so far

orderVars  == <<visited, post_order, po_idx>>
idomVars   == <<idoms, changed, new_idom>>
cursorVars == <<at, pred, walking, finger>>
numberVars == <<dfs_in, dfs_out, timer>>
vars == <<succ, phase, stack, orderVars, idomVars, cursorVars, numberVars, df>>

Call == [block : Blocks, next : Nat]

Init ==
    /\ succ \in Graphs
    /\ phase = "postorder"
    /\ stack = <<[block |-> entry, next |-> 1]>>
    /\ visited = {entry}
    /\ post_order = <<>>
    /\ po_idx = [b \in Blocks |-> 0]
    /\ idoms = [b \in Blocks |-> kInvalidBlockId]
    /\ changed = FALSE
    /\ at = 0 /\ pred = 0
    /\ new_idom = kInvalidBlockId
    /\ walking = FALSE /\ finger = entry
    /\ dfs_in = [b \in Blocks |-> 0]
    /\ dfs_out = [b \in Blocks |-> 0]
    /\ timer = 0
    /\ df = [b \in Blocks |-> {}]

----------------------------------------------------------------------------
(* compute_postorder: dfs.                                                 *)

Top == stack[Len(stack)]
Below == SubSeq(stack, 1, Len(stack) - 1)
Resumed == Append(Below, [block |-> Top.block, next |-> Top.next + 1])
Entered(b) == Append(Resumed, [block |-> b, next |-> 1])

(* dfs looks at the next successor and enters it, unless it has been.      *)
Explore ==
    /\ phase = "postorder" /\ stack # <<>>
    /\ Top.next <= Len(succ[Top.block])
    /\ LET s == succ[Top.block][Top.next]
       IN  /\ stack' = IF s \in visited THEN Resumed ELSE Entered(s)
           /\ visited' = visited \cup {s}
    /\ UNCHANGED <<succ, phase, post_order, po_idx, idomVars, cursorVars,
                   numberVars, df>>

(* dfs has seen all successors of a block: push_back.                      *)
Finish ==
    /\ phase = "postorder" /\ stack # <<>>
    /\ Top.next > Len(succ[Top.block])
    /\ post_order' = Append(post_order, Top.block)
    /\ stack' = Below
    /\ UNCHANGED <<succ, phase, visited, po_idx, idomVars, cursorVars,
                   numberVars, df>>

----------------------------------------------------------------------------
(* compute_idoms.                                                          *)

(* What the loop over all n blocks reads from post_order past its end.     *)
Strays == [(Len(post_order) + 1)..N -> Blocks]

(* The last write to each place of po_idx, whose places start as 0.        *)
Numbered(stray) ==
    LET read == [i \in 1..N |-> IF i <= Len(post_order) THEN post_order[i]
                                                        ELSE stray[i]]
        places(b) == {i - 1 : i \in {j \in 1..N : read[j] = b}}
    IN  [b \in Blocks |-> IF places(b) = {} THEN 0 ELSE Max(places(b))]

(* The loop over rpo starts over.                                          *)
StartRound ==
    /\ at' = 1 /\ pred' = 0
    /\ changed' = FALSE

NumberPostorder ==
    /\ phase = "postorder" /\ stack = <<>>
    /\ \E stray \in Strays : po_idx' = Numbered(stray)
    /\ idoms' = [idoms EXCEPT ![entry] = entry]
    /\ phase' = "idoms"
    /\ StartRound
    /\ UNCHANGED <<succ, stack, visited, post_order, new_idom, walking,
                   finger, numberVars, df>>

(* One of the stray numbers is no block: po_idx is written out of bounds.  *)
WriteOutside ==
    /\ phase = "postorder" /\ stack = <<>>
    /\ Len(post_order) < N
    /\ phase' = "undefined"
    /\ UNCHANGED <<succ, stack, orderVars, idomVars, cursorVars, numberVars, df>>

(* rpo[at], and the predecessors of a block the loops have yet to see.     *)
Current == post_order[Len(post_order) + 1 - at]
Ahead(b) == {p \in Preds(succ, b) : p >= pred}
Least(S) == {p \in S : \A q \in S : p <= q}

InBlock ==
    /\ phase = "idoms" /\ ~walking
    /\ at <= Len(post_order) /\ Current # entry

SkipEntry ==
    /\ phase = "idoms" /\ at <= Len(post_order) /\ Current = entry
    /\ at' = at + 1
    /\ UNCHANGED <<succ, phase, stack, orderVars, idomVars, pred, walking,
                   finger, numberVars, df>>

(* Mutant: only the last predecessor counts.                               *)
SeePredLast ==
    /\ InBlock
    /\ \E p \in Least(Ahead(Current)) :
           /\ pred' = p + 1
           /\ new_idom' = IF idoms[p] # kInvalidBlockId THEN p ELSE new_idom
    /\ UNCHANGED <<succ, phase, stack, orderVars, idoms, changed, at, walking,
                   finger, numberVars, df>>

(* A predecessor without an immediate dominator is passed over, the first  *)
(* of the others becomes new_idom, and every further one is intersected    *)
(* with it.                                                                *)
SeePred ==
    /\ InBlock
    /\ \E p \in Least(Ahead(Current)) :
       LET known == idoms[p] # kInvalidBlockId
           first == new_idom = kInvalidBlockId
       IN  /\ pred' = p + 1
           /\ new_idom' = IF known /\ first THEN p ELSE new_idom
           /\ walking' = (known /\ ~first)
           /\ finger' = IF known /\ ~first THEN p ELSE finger
    /\ UNCHANGED <<succ, phase, stack, orderVars, idoms, changed, at,
                   numberVars, df>>

(* Mutants: both fingers go up, or the one with the higher number.         *)
IntersectStepBoth ==
    /\ phase = "idoms" /\ walking /\ finger # new_idom
    /\ finger' = idoms[finger]
    /\ new_idom' = idoms[new_idom]
    /\ UNCHANGED <<succ, phase, stack, orderVars, idoms, changed, at, pred,
                   walking, numberVars, df>>

IntersectStepDown ==
    /\ phase = "idoms" /\ walking /\ finger # new_idom
    /\ IF po_idx[finger] > po_idx[new_idom]
         THEN finger' = idoms[finger] /\ UNCHANGED new_idom
         ELSE new_idom' = idoms[new_idom] /\ UNCHANGED finger
    /\ UNCHANGED <<succ, phase, stack, orderVars, idoms, changed, at, pred,
                   walking, numberVars, df>>

(* intersect: the finger with the lower postorder number goes up.          *)
IntersectStep ==
    /\ phase = "idoms" /\ walking /\ finger # new_idom
    /\ IF po_idx[finger] < po_idx[new_idom]
         THEN finger' = idoms[finger] /\ UNCHANGED new_idom
         ELSE new_idom' = idoms[new_idom] /\ UNCHANGED finger
    /\ UNCHANGED <<succ, phase, stack, orderVars, idoms, changed, at, pred,
                   walking, numberVars, df>>

IntersectDone ==
    /\ phase = "idoms" /\ walking /\ finger = new_idom
    /\ walking' = FALSE
    /\ UNCHANGED <<succ, phase, stack, orderVars, idomVars, at, pred, finger,
                   numberVars, df>>

(* Mutant: a change is not noted, and there is one round.                  *)
SetIdomUnnoted ==
    /\ InBlock /\ Ahead(Current) = {}
    /\ idoms' = IF new_idom = kInvalidBlockId THEN idoms
                ELSE [idoms EXCEPT ![Current] = new_idom]
    /\ at' = at + 1 /\ pred' = 0
    /\ new_idom' = kInvalidBlockId
    /\ UNCHANGED <<succ, phase, stack, orderVars, changed, walking, finger,
                   numberVars, df>>

SetIdom ==
    /\ InBlock /\ Ahead(Current) = {}
    /\ LET new == new_idom # kInvalidBlockId /\ idoms[Current] # new_idom
       IN  /\ idoms' = IF new THEN [idoms EXCEPT ![Current] = new_idom]
                              ELSE idoms
           /\ changed' = (changed \/ new)
    /\ at' = at + 1 /\ pred' = 0
    /\ new_idom' = kInvalidBlockId
    /\ UNCHANGED <<succ, phase, stack, orderVars, walking, finger, numberVars, df>>

NextRound ==
    /\ phase = "idoms" /\ at > Len(post_order) /\ changed
    /\ StartRound
    /\ UNCHANGED <<succ, phase, stack, orderVars, idoms, new_idom, walking,
                   finger, numberVars, df>>

----------------------------------------------------------------------------
(* compute_children and compute_dfs_numbers.                               *)

(* dom_children[b], which is in ascending order.                           *)
Children(b) == {i \in Blocks : idoms[i] = b /\ i # b}
(* Mutant: the count is one too high.                                      *)
ChildrenBehind(b, next) ==
    {i \in Children(b) : Cardinality({j \in Children(b) : j < i}) >= next}

(* Its elements from the next-th on.                                       *)
ChildrenFrom(b, next) ==
    {i \in Children(b) : Cardinality({j \in Children(b) : j < i}) >= next - 1}

(* The rounds are over: the children are computed, and the entry numbered. *)
Converge ==
    /\ phase = "idoms" /\ at > Len(post_order) /\ ~changed
    /\ phase' = "numbers"
    /\ stack' = <<[block |-> entry, next |-> 1]>>
    /\ timer' = 1
    /\ dfs_in' = [dfs_in EXCEPT ![entry] = 1]
    /\ UNCHANGED <<succ, orderVars, idomVars, cursorVars, dfs_out, df>>

Descend ==
    /\ phase = "numbers" /\ stack # <<>>
    /\ \E child \in Least(ChildrenFrom(Top.block, Top.next)) :
           /\ stack' = Entered(child)
           /\ timer' = timer + 1
           /\ dfs_in' = [dfs_in EXCEPT ![child] = timer + 1]
    /\ UNCHANGED <<succ, phase, orderVars, idomVars, cursorVars, dfs_out, df>>

Ascend ==
    /\ phase = "numbers" /\ stack # <<>>
    /\ ChildrenFrom(Top.block, Top.next) = {}
    /\ stack' = Below
    /\ timer' = timer + 1
    /\ dfs_out' = [dfs_out EXCEPT ![Top.block] = timer + 1]
    /\ UNCHANGED <<succ, phase, orderVars, idomVars, cursorVars, dfs_in, df>>

(* DomTree::dominates.                                                     *)
dominates(a, b) == dfs_in[a] <= dfs_in[b] /\ dfs_out[b] <= dfs_out[a]

----------------------------------------------------------------------------
(* compute_dominance_frontier.                                             *)

StartFrontier ==
    /\ phase = "numbers" /\ stack = <<>>
    /\ phase' = "frontier"
    /\ at' = 0 /\ pred' = 0
    /\ UNCHANGED <<succ, stack, orderVars, idomVars, walking, finger,
                   numberVars, df>>

IsJoin(b) == Cardinality(Preds(succ, b)) >= 2

(* The runner starts at the next predecessor of a block with several.      *)
StartRunner ==
    /\ phase = "frontier" /\ ~walking
    /\ at < N /\ IsJoin(at)
    /\ \E p \in Least(Ahead(at)) :
           /\ pred' = p + 1
           /\ finger' = p
           /\ walking' = (p # idoms[at])
    /\ UNCHANGED <<succ, phase, stack, orderVars, idomVars, at, numberVars, df>>

(* Mutant: the runner goes up before the block is added.                   *)
RunFirst ==
    /\ phase = "frontier" /\ walking
    /\ LET up == idoms[finger]
       IN  /\ up # kInvalidBlockId
           /\ df' = [df EXCEPT ![up] = @ \cup {at}]
           /\ walking' = (up # idoms[at])
           /\ finger' = up
    /\ UNCHANGED <<succ, phase, stack, orderVars, idomVars, at, pred, numberVars>>

(* The runner goes up to the immediate dominator of the block.  Where it   *)
(* has none to go to, the next turn writes df out of bounds.               *)
Run ==
    /\ phase = "frontier" /\ walking
    /\ df' = [df EXCEPT ![finger] = @ \cup {at}]
    /\ LET up == idoms[finger]
       IN  /\ walking' = (up # idoms[at])
           /\ finger' = IF up = kInvalidBlockId THEN finger ELSE up
           /\ phase' = IF walking' /\ up = kInvalidBlockId THEN "undefined"
                                                           ELSE phase
    /\ UNCHANGED <<succ, stack, orderVars, idomVars, at, pred, numberVars>>

NextBlock ==
    /\ phase = "frontier" /\ ~walking /\ at < N
    /\ ~IsJoin(at) \/ Ahead(at) = {}
    /\ at' = at + 1 /\ pred' = 0
    /\ UNCHANGED <<succ, phase, stack, orderVars, idomVars, walking, finger,
                   numberVars, df>>

Return ==
    /\ phase = "frontier" /\ ~walking /\ at = N
    /\ phase' = "done"
    /\ UNCHANGED <<succ, stack, orderVars, idomVars, cursorVars, numberVars, df>>

(* The pass has ended, or anything may happen.                             *)
Stopped == phase \in {"done", "undefined"} /\ UNCHANGED vars

----------------------------------------------------------------------------
Postorder == Explore \/ Finish
Idoms == \/ NumberPostorder \/ WriteOutside \/ SkipEntry \/ SeePred
         \/ IntersectStep \/ IntersectDone \/ SetIdom \/ NextRound
Numbers == Converge \/ Descend \/ Ascend
Frontiers == StartFrontier \/ StartRunner \/ Run \/ NextBlock \/ Return

Next == Postorder \/ Idoms \/ Numbers \/ Frontiers \/ Stopped

Spec == Init /\ [][Next]_vars

(* One call of DomTree and DomFrontier runs until it returns.              *)
FairSpec == Spec /\ WF_vars(Next)

----------------------------------------------------------------------------
(* Properties.  Where blocks cannot be reached, what is read past the end  *)
(* of post_order decides; the properties are about the other functions.    *)

Numbering == phase \in {"frontier", "done"}

(* compute_idoms never steps over a dominator on its way up: whatever it   *)
(* has found for b so far is still dominated by all strict dominators of   *)
(* b.  (idoms changes only when pred is reset.)                            *)
NothingMissed ==
    phase = "idoms" /\ pred = 0 /\ AllReachable(succ) =>
        LET dom == DominanceOf(succ)
        IN  \A b \in Blocks \ {entry} : idoms[b] # kInvalidBlockId =>
                \A a \in Blocks \ {b} : b \in dom[a] => idoms[b] \in dom[a]

(* When the rounds have converged, idoms holds the immediate dominators,   *)
(* cycles with several entries included.                                   *)
TreeIsExact ==
    phase = "numbers" /\ timer = 1 /\ AllReachable(succ) =>
        LET dom == DominanceOf(succ)
        IN  \A b \in Blocks \ {entry} : ImmediatelyDominates(dom, idoms[b], b)

(* dominates(a, b) compares two intervals; it says what the paths of the   *)
(* CFG say.                                                                *)
NumbersAreExact ==
    phase = "done" /\ AllReachable(succ) =>
        LET dom == DominanceOf(succ)
        IN  \A a, b \in Blocks : dominates(a, b) <=> b \in dom[a]

(* The frontiers are those of the definition: mem2reg places its phi nodes *)
(* there and nowhere else.                                                 *)
FrontierIsExact ==
    phase = "done" /\ AllReachable(succ) =>
        LET dom == DominanceOf(succ)
        IN  \A a \in Blocks : df[a] = FrontierOf(succ, dom, a)

(* From one round to the next, an immediate dominator that has been found  *)
(* is only replaced by a block further up: this is why the rounds end.     *)
IdomsRise ==
    [][\A b \in Blocks :
            /\ idoms[b] # kInvalidBlockId /\ idoms'[b] # idoms[b]
            /\ AllReachable(succ)
            => po_idx[idoms[b]] < po_idx[idoms'[b]]]_vars

(* The construction returns for every function without unreachable blocks. *)
Terminates ==
    phase = "postorder" /\ visited = {entry} /\ AllReachable(succ) ~> phase = "done"
============================================================================
