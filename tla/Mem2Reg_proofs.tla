-------------------------- MODULE Mem2Reg_proofs --------------------------
(***************************************************************************)
(* Proofs about the promotion of variables, for every function: however    *)
(* many blocks, variables and statements there are, whatever the control   *)
(* flow graph.                                                             *)
(*                                                                         *)
(* First, that phis are placed wherever the dominance of a definition ends *)
(* (PhisAlwaysPlaced).  Then, that the promoted function computes with     *)
(* what the memory would hold: a certificate "at" assigns to the points of *)
(* the function in front of and behind its statements the values that the  *)
(* promoted variables hold there, so that every point follows from those   *)
(* before it (Cert, Edges).  The fast paths and the renaming extend it,    *)
(* the cleanup of phis substitutes in it, the execution follows it.        *)
(***************************************************************************)
EXTENDS Mem2Reg, FiniteSetTheorems, SequenceTheorems, TLAPS

(* v has a phi wherever the dominance of one of its definitions ends.      *)
Covered(v) ==
    \A b \in Defining(v) \cup PhiBlocks(v) : frontiers[b] \subseteq PhiBlocks(v)

(* The state of insert_phi_nodes for the variable it is at: a definition   *)
(* that is not on the worklist has been dealt with.                        *)
Placing ==
    /\ current \notin candidates
    /\ visited_frontier = PhiBlocks(current)
    /\ \A b \in Defining(current) \cup PhiBlocks(current) :
            b \in worklist \/ frontiers[b] \subseteq PhiBlocks(current)

FrontierShape ==
    /\ worklist \subseteq Blocks
    /\ \A b \in Blocks : frontiers[b] \subseteq Blocks

PlacedInv ==
    /\ phase \in {"emit", "fast"} => current = None /\ DOMAIN new_phi_nodes = {}
    /\ phase = "phis" =>
            /\ candidates \subseteq Var
            /\ \A v \in candidates : PhiBlocks(v) = {}
            /\ \A v \in allocas \ candidates : v # current => Covered(v)
            /\ current # None => Placing
    /\ phase = "rename" => \A v \in allocas : Covered(v)

CandidateShape == candidates \subseteq Var /\ allocas \subseteq Var

Inv == FrontierShape /\ CandidateShape /\ PlacedInv

----------------------------------------------------------------------------
(* Replacing uses of values adds and removes no phi.                       *)
LEMMA ReplaceKeepsPhis ==
    ASSUME NEW sub, ReplaceAllUses(sub)
    PROVE  DOMAIN new_phi_nodes' = DOMAIN new_phi_nodes
BY DEF ReplaceAllUses

(* Where the same phis are and no code has changed, the same is covered.   *)
LEMMA SameCovered ==
    ASSUME DOMAIN new_phi_nodes' = DOMAIN new_phi_nodes,
           code' = code, frontiers' = frontiers, NEW v
    PROVE  /\ PhiBlocks(v)' = PhiBlocks(v)
           /\ Defining(v)' = Defining(v)
           /\ Covered(v)' <=> Covered(v)
<1>1. PhiBlocks(v)' = PhiBlocks(v)  BY DEF PhiBlocks
<1>2. Defining(v)' = Defining(v)
  BY DEF Defining, StoresTo, Written, Stmt
<1> QED  BY <1>1, <1>2 DEF Covered

(* The blocks of the program and of the frontiers stay blocks.             *)
LEMMA ShapeKept ==
    ASSUME FrontierShape, CandidateShape, [Next]_vars
    PROVE  FrontierShape' /\ CandidateShape'
<1>1. CASE Emission
  BY <1>1 DEF Emission, EmitStatement, EmitBlock, Collect, FrontierShape,
     CandidateShape, irVars, dtVars, fastVars, placeVars
<1>2. CASE FastPaths
  BY <1>2 DEF FastPaths, PromoteSingleStore, PromoteSingleBlock, Promoted,
     KeepForSSA, FastPathsDone, FrontierShape, CandidateShape, irVars, dtVars,
     placeVars
<1>3. CASE InsertPhis
  <2>1. frontiers' = frontiers /\ allocas' = allocas
        /\ candidates' \subseteq candidates
    BY <1>3 DEF InsertPhis, StartPlacing, PlacePhis, Placed, irVars, dtVars,
       fastVars
  <2>2. worklist' \subseteq Blocks
    <3>1. CASE \E v \in Var : StartPlacing(v)
      <4>1. \A v : Defining(v) \subseteq Blocks
        BY DEF Defining, StoresTo, Written, Positions
      <4> QED  BY <3>1, <4>1 DEF StartPlacing
    <3>2. CASE PlacePhis
      BY <3>2 DEF PlacePhis, Again, FrontierShape
    <3>3. CASE Placed
      BY <3>3 DEF Placed, FrontierShape
    <3> QED  BY <1>3, <3>1, <3>2, <3>3 DEF InsertPhis
  <2> QED  BY <2>1, <2>2 DEF FrontierShape, CandidateShape
<1>4. CASE RenameBlocks
  BY <1>4 DEF RenameBlocks, StartRename, Rename, FillPhis, Descend, Leave,
     FrontierShape, CandidateShape, irVars, dtVars, fastVars, placeVars
<1>5. CASE CleanUp
  BY <1>5 DEF CleanUp, StartCleanup, DropUnused, Simplify, KeepPhi, Erase,
     EndRound, FrontierShape, CandidateShape, irVars, dtVars, fastVars, placeVars
<1>6. CASE Execution
  BY <1>6 DEF Execution, Execute, Branch, Return, FrontierShape, CandidateShape,
     irVars, dtVars, fastVars, placeVars
<1>7. CASE Stopped \/ UNCHANGED vars
  BY <1>7 DEF Stopped, vars, FrontierShape, CandidateShape, irVars, dtVars,
     fastVars, placeVars
<1> QED
  BY <1>1, <1>2, <1>3, <1>4, <1>5, <1>6, <1>7 DEF Next, Promotion

----------------------------------------------------------------------------
(* One turn of the worklist's loop.                                        *)
LEMMA PlaceKeeps ==
    ASSUME Inv, PlacePhis
    PROVE  PlacedInv'
<1>1. /\ phase = "phis" /\ phase' = "phis" /\ current # None
      /\ UNCHANGED <<code, frontiers, candidates, allocas, current>>
  BY DEF PlacePhis, irVars, dtVars, fastVars
<1>2. /\ Placing
      /\ \A v \in candidates : PhiBlocks(v) = {}
      /\ \A v \in allocas \ candidates : v # current => Covered(v)
      /\ candidates \subseteq Var
  BY <1>1 DEF Inv, PlacedInv
<1>3. PICK b \in worklist :
        LET new == frontiers[b] \ visited_frontier
        IN  /\ new_phi_nodes' =
                  [phi \in DOMAIN new_phi_nodes \cup (new \X {current}) |->
                     IF phi \in DOMAIN new_phi_nodes THEN new_phi_nodes[phi]
                     ELSE [pred \in Preds(succ, phi[1]) |-> undef]]
            /\ visited_frontier' = visited_frontier \cup new
            /\ worklist' = (worklist \ {b}) \cup Again(new)
  BY DEF PlacePhis
<1> DEFINE new == frontiers[b] \ visited_frontier
<1>4. b \in Blocks /\ new \subseteq Blocks
  BY DEF Inv, FrontierShape
<1>5. DOMAIN new_phi_nodes' = DOMAIN new_phi_nodes \cup (new \X {current})
  BY <1>3
<1>6. \A v : Defining(v)' = Defining(v)
  BY <1>1 DEF Defining, StoresTo, Written, Stmt
<1>7. \A v : v # current => PhiBlocks(v)' = PhiBlocks(v)
  BY <1>5 DEF PhiBlocks
<1>8. PhiBlocks(current)' = PhiBlocks(current) \cup new
  BY <1>1, <1>4, <1>5 DEF PhiBlocks
<1>9. \A v : v # current /\ Covered(v) => Covered(v)'
  BY <1>1, <1>6, <1>7 DEF Covered
<1>10. Placing'
  <2>1. current' \notin candidates'  BY <1>1, <1>2 DEF Placing
  <2>2. visited_frontier' = PhiBlocks(current)'
    BY <1>2, <1>3, <1>8 DEF Placing
  <2>3. ASSUME NEW c \in Defining(current) \cup PhiBlocks(current) \cup new
        PROVE  c \in worklist' \/ frontiers[c] \subseteq PhiBlocks(current)'
    <3>1. CASE c = b
      BY <1>2, <1>8, <3>1 DEF Placing
    <3>2. CASE c # b /\ c \in Defining(current) \cup PhiBlocks(current)
      BY <1>2, <1>3, <1>8, <3>2 DEF Placing
    <3>3. CASE c # b /\ c \in new /\ c \notin Defining(current)
      BY <1>3, <3>3 DEF Again
    <3> QED  BY <2>3, <3>1, <3>2, <3>3
  <2> HIDE DEF new
  <2> QED  BY <1>1, <1>6, <1>8, <2>1, <2>2, <2>3 DEF Placing
<1>11. \A v \in candidates' : PhiBlocks(v)' = {}
  BY <1>1, <1>2, <1>7 DEF Placing
<1>12. \A v \in allocas' \ candidates' : v # current' => Covered(v)'
  BY <1>1, <1>2, <1>9
<1> QED  BY <1>1, <1>2, <1>10, <1>11, <1>12 DEF PlacedInv

(* Every step keeps the invariant.                                         *)
LEMMA StepKeeps ==
    ASSUME Inv, [Next]_vars
    PROVE  Inv'
<1>1. FrontierShape' /\ CandidateShape'  BY ShapeKept DEF Inv
<1>2. CASE Emission
  <2>1. /\ phase = "emit" /\ phase' \in {"emit", "fast"}
        /\ UNCHANGED <<current, new_phi_nodes>>
    BY <1>2 DEF Emission, EmitStatement, EmitBlock, Collect, placeVars
  <2> QED  BY <1>1, <2>1 DEF Inv, PlacedInv
<1>3. CASE \E v \in Var : PromoteSingleStore(v) \/ PromoteSingleBlock(v)
                          \/ KeepForSSA(v)
  <2>1. phase = "fast" /\ phase' = "fast" /\ current' = current
    BY <1>3 DEF PromoteSingleStore, PromoteSingleBlock, Promoted, KeepForSSA,
       placeVars
  <2>2. DOMAIN new_phi_nodes' = DOMAIN new_phi_nodes
    BY <1>3, ReplaceKeepsPhis
    DEF PromoteSingleStore, PromoteSingleBlock, KeepForSSA
  <2> QED  BY <1>1, <2>1, <2>2 DEF Inv, PlacedInv
<1>4. CASE FastPathsDone
  <2>1. /\ phase = "fast" /\ phase' \in {"run", "phis"}
        /\ candidates' = allocas' /\ allocas' = allocas
        /\ UNCHANGED <<current, new_phi_nodes>>
    BY <1>4 DEF FastPathsDone, placeVars
  <2>2. current' = None /\ \A v : PhiBlocks(v)' = {}
    BY <2>1 DEF Inv, PlacedInv, PhiBlocks
  <2> QED  BY <1>1, <2>1, <2>2 DEF Inv, PlacedInv, CandidateShape
<1>5. CASE \E v \in Var : StartPlacing(v)
  <2>1. PICK v \in Var : StartPlacing(v)  BY <1>5
  <2>2. /\ phase = "phis" /\ phase' = "phis" /\ current = None
        /\ v \in candidates /\ candidates' = candidates \ {v}
        /\ current' = v /\ worklist' = Defining(v) /\ visited_frontier' = {}
        /\ UNCHANGED <<code, frontiers, allocas, new_phi_nodes>>
    BY <2>1 DEF StartPlacing, irVars, dtVars
  <2>3. /\ candidates \subseteq Var
        /\ \A u \in candidates : PhiBlocks(u) = {}
        /\ \A u \in allocas \ candidates : u # None => Covered(u)
    BY <2>2 DEF Inv, PlacedInv
  <2>4. \A u : /\ PhiBlocks(u)' = PhiBlocks(u)
               /\ Defining(u)' = Defining(u)
               /\ Covered(u)' <=> Covered(u)
    BY <2>2, SameCovered
  <2>5. PhiBlocks(current)' = {} /\ Defining(current)' = Defining(v)
    BY <2>2, <2>3 DEF PhiBlocks, Defining, StoresTo, Written, Stmt
  <2>6. Placing'  BY <2>2, <2>5 DEF Placing
  <2>7. None \notin allocas
    BY VarAssumption DEF Inv, CandidateShape
  <2> QED  BY <1>1, <2>2, <2>3, <2>4, <2>6, <2>7 DEF Inv, PlacedInv
<1>6. CASE PlacePhis
  BY <1>1, <1>6, PlaceKeeps DEF Inv
<1>7. CASE Placed
  <2>1. /\ phase = "phis" /\ phase' = "phis" /\ current # None
        /\ worklist = {} /\ current' = None
        /\ UNCHANGED <<code, frontiers, candidates, allocas, new_phi_nodes>>
    BY <1>7 DEF Placed, irVars, dtVars, fastVars
  <2>2. Covered(current)
    BY <2>1 DEF Inv, PlacedInv, Placing, Covered
  <2>3. \A u : PhiBlocks(u)' = PhiBlocks(u) /\ (Covered(u)' <=> Covered(u))
    BY <2>1, SameCovered
  <2> QED  BY <1>1, <2>1, <2>2, <2>3 DEF Inv, PlacedInv
<1>8. CASE StartRename
  <2>1. /\ phase = "phis" /\ phase' = "rename" /\ current = None
        /\ candidates = {}
        /\ UNCHANGED <<code, frontiers, allocas, new_phi_nodes>>
    BY <1>8 DEF StartRename, irVars, dtVars, fastVars
  <2>2. None \notin allocas
    BY VarAssumption DEF Inv, CandidateShape
  <2>3. \A v \in allocas : Covered(v)
    BY <2>1, <2>2 DEF Inv, PlacedInv
  <2>4. \A u : Covered(u)' <=> Covered(u)
    BY <2>1, SameCovered
  <2> QED  BY <1>1, <2>1, <2>3, <2>4 DEF Inv, PlacedInv
<1>9. CASE Rename \/ FillPhis \/ Descend \/ Leave
  <2>1. /\ phase = "rename" /\ phase' = "rename"
        /\ UNCHANGED <<code, frontiers, allocas>>
    BY <1>9 DEF Rename, FillPhis, Descend, Leave, irVars, dtVars, fastVars
  <2>2. DOMAIN new_phi_nodes' = DOMAIN new_phi_nodes
    BY <1>9, ReplaceKeepsPhis DEF Rename, FillPhis, Descend, Leave
  <2>3. \A u : Covered(u)' <=> Covered(u)
    BY <2>1, <2>2, SameCovered
  <2> QED  BY <1>1, <2>1, <2>3 DEF Inv, PlacedInv
<1>10. CASE CleanUp \/ Execution
  <2>1. phase' \in {"cleanup", "run", "returned"}
    BY <1>10 DEF CleanUp, StartCleanup, DropUnused, Simplify, KeepPhi, Erase,
       EndRound, Execution, Execute, Branch, Return
  <2> QED  BY <1>1, <2>1 DEF Inv, PlacedInv
<1>11. CASE Stopped \/ UNCHANGED vars
  <2>1. UNCHANGED <<phase, code, frontiers, candidates, allocas, current,
                    worklist, visited_frontier, new_phi_nodes>>
    BY <1>11 DEF Stopped, vars, irVars, dtVars, fastVars, placeVars
  <2>2. \A u : /\ PhiBlocks(u)' = PhiBlocks(u)
               /\ Defining(u)' = Defining(u)
               /\ Covered(u)' <=> Covered(u)
    BY <2>1, SameCovered
  <2>3. PhiBlocks(current)' = PhiBlocks(current)
        /\ Defining(current)' = Defining(current)
    BY <2>1 DEF PhiBlocks, Defining, StoresTo, Written, Stmt
  <2>4. Placing' <=> Placing  BY <2>1, <2>3 DEF Placing
  <2> QED  BY <1>1, <2>1, <2>2, <2>4 DEF Inv, PlacedInv
<1> QED
  BY <1>2, <1>3, <1>4, <1>5, <1>6, <1>7, <1>8, <1>9, <1>10, <1>11
  DEF Next, Promotion, FastPaths, InsertPhis, RenameBlocks

----------------------------------------------------------------------------
(* insert_phi_nodes places phis on the whole iterated dominance frontier,  *)
(* whatever the function, the variables and the order of the worklist.     *)
THEOREM PhisAlwaysPlaced == Spec => []PhisPlaced
<1>1. Init => Inv
  BY DEF Init, Inv, FrontierShape, CandidateShape, PlacedInv, FrontierOf
<1>2. Inv /\ [Next]_vars => Inv'  BY StepKeeps
<1>3. Inv => PhisPlaced
  BY DEF Inv, PlacedInv, PhisPlaced, Covered
<1> QED  BY <1>1, <1>2, <1>3, PTL DEF Spec

----------------------------------------------------------------------------
(* What the pass is given.                                                 *)

(* The dominator tree and the frontiers are those of the CFG.              *)
GraphInv ==
    /\ succ \in Graphs
    /\ dom = DominanceOf(succ)
    /\ children = [a \in Blocks |-> {b \in Blocks : ImmediatelyDominates(dom, a, b)}]
    /\ frontiers = [a \in Blocks |-> FrontierOf(succ, dom, a)]

----------------------------------------------------------------------------
(* Dominance.                                                              *)

(* The numbers of the blocks.                                              *)
LEMMA BlockIds ==
    /\ entry \in Blocks /\ kInvalidBlockId \notin Blocks
    /\ \A b \in Blocks : b \in Nat
BY SizeAssumption DEF Blocks, entry, kInvalidBlockId

(* Successors are blocks.                                                  *)
LEMMA SuccsAreBlocks ==
    ASSUME NEW g \in CFG, NEW b \in Blocks
    PROVE  g[b] \in Seq(Blocks) /\ Succs(g, b) \subseteq Blocks
<1>1. g[b] \in Seq(Blocks)  BY DEF CFG
<1>2. \A k \in DOMAIN g[b] : g[b][k] \in Blocks  BY <1>1
<1> QED  BY <1>1, <1>2 DEF Succs

(* What can be reached without a is the least closed set.                  *)
LEMMA AvoidingLeast ==
    ASSUME NEW g, NEW a, NEW S, S \subseteq Blocks \ {a}, Closed(g, a, S)
    PROVE  Avoiding(g, a) \subseteq S
BY DEF Avoiding

(* What can be reached without a is closed.                                *)
LEMMA AvoidingClosed ==
    ASSUME NEW g \in CFG, NEW a
    PROVE  /\ Avoiding(g, a) \subseteq Blocks
           /\ a \notin Avoiding(g, a)
           /\ entry # a => entry \in Avoiding(g, a)
           /\ \A p \in Avoiding(g, a) : Succs(g, p) \subseteq Avoiding(g, a) \cup {a}
<1>1. Avoiding(g, a) \subseteq Blocks  BY DEF Avoiding
<1>2. entry # a => entry \in Avoiding(g, a)  BY BlockIds DEF Avoiding, Closed
<1>3. ASSUME NEW p \in Avoiding(g, a), NEW s \in Succs(g, p), s # a
      PROVE  s \in Avoiding(g, a)
  <2>1. p \in Blocks /\ s \in Blocks  BY <1>1, <1>3, SuccsAreBlocks
  <2>2. ASSUME NEW S \in SUBSET (Blocks \ {a}), Closed(g, a, S)
        PROVE  s \in S
    <3>1. p \in S  BY <1>3, <2>2 DEF Avoiding
    <3>2. Succs(g, p) \subseteq S \cup {a}  BY <3>1, <2>2 DEF Closed
    <3> QED  BY <1>3, <3>2
  <2> QED  BY <2>1, <2>2 DEF Avoiding
<1>4. a \notin Avoiding(g, a)
  <2>1. SUFFICES ASSUME a \in Blocks, a \in Avoiding(g, a) PROVE FALSE  BY <1>1
  <2>2. Closed(g, a, Blocks \ {a})
    BY BlockIds, SuccsAreBlocks DEF Closed
  <2> QED  BY <2>1, <2>2, AvoidingLeast
<1> QED  BY <1>1, <1>2, <1>3, <1>4

(* The reachable blocks are the least closed set.                          *)
LEMMA ReachableClosed ==
    ASSUME NEW g \in CFG
    PROVE  /\ Reachable(g) \subseteq Blocks
           /\ entry \in Reachable(g)
           /\ \A p \in Reachable(g) : Succs(g, p) \subseteq Reachable(g)
           /\ \A S : /\ S \subseteq Blocks /\ entry \in S
                     /\ \A p \in S : Succs(g, p) \subseteq S
                     => Reachable(g) \subseteq S
<1>1. entry # kInvalidBlockId  BY BlockIds
<1>2. \A p \in Reachable(g) : Succs(g, p) \subseteq Reachable(g)
  BY AvoidingClosed, SuccsAreBlocks, BlockIds DEF Reachable
<1>3. ASSUME NEW S, S \subseteq Blocks, entry \in S, \A p \in S : Succs(g, p) \subseteq S
      PROVE  Reachable(g) \subseteq S
  BY <1>3, BlockIds, AvoidingLeast DEF Reachable, Closed
<1> QED  BY <1>1, <1>2, <1>3, AvoidingClosed DEF Reachable

(* What can be reached without a can be reached.                           *)
LEMMA AvoidingReachable ==
    ASSUME NEW g \in CFG, NEW a
    PROVE  Avoiding(g, a) \subseteq Reachable(g)
<1>1. Closed(g, a, Reachable(g) \ {a})  BY ReachableClosed DEF Closed
<1> QED  BY <1>1, ReachableClosed, AvoidingLeast

(* Who avoids a and cannot reach b without a avoids b.                     *)
LEMMA AvoidingMore ==
    ASSUME NEW g \in CFG, NEW a, NEW b, b \notin Avoiding(g, a)
    PROVE  Avoiding(g, a) \subseteq Avoiding(g, b)
<1> DEFINE S == Avoiding(g, a) \cap Avoiding(g, b)
<1>1. Closed(g, a, S)  BY AvoidingClosed DEF Closed
<1> QED  BY <1>1, AvoidingClosed, AvoidingLeast

(* The table.                                                              *)
LEMMA DomTable ==
    ASSUME GraphInv
    PROVE  /\ succ \in CFG /\ Preds(succ, entry) = {}
           /\ DOMAIN dom = Blocks
           /\ \A a \in Blocks : dom[a] = Reachable(succ) \ Avoiding(succ, a)
           /\ \A a \in Blocks : dom[a] \subseteq Reachable(succ)
           /\ \A a \in Blocks : dom[a] \subseteq Blocks
BY GraphsAssumption, ReachableClosed DEF GraphInv, DominanceOf, Dominated

(* A reachable block is dominated by itself and by the entry.              *)
LEMMA DomReflexive ==
    ASSUME GraphInv, NEW a \in Reachable(succ)
    PROVE  a \in Blocks /\ a \in dom[a] /\ a \in dom[entry] /\ entry \in Blocks
<1>1. a \in Blocks /\ succ \in CFG /\ entry \in Blocks
  BY DomTable, ReachableClosed, BlockIds
<1>2. a \notin Avoiding(succ, a)  BY <1>1, AvoidingClosed
<1>3. Avoiding(succ, entry) = {}
  <2>1. Closed(succ, entry, {})  BY DEF Closed
  <2> QED  BY <2>1, AvoidingLeast
<1> QED  BY <1>1, <1>2, <1>3, DomTable

(* Dominance is transitive.                                                *)
LEMMA DomTransitive ==
    ASSUME GraphInv, NEW a \in Blocks, NEW b \in dom[a], NEW c \in dom[b]
    PROVE  c \in dom[a]
<1>1. b \in Blocks /\ succ \in CFG  BY DomTable
<1>2. Avoiding(succ, a) \subseteq Avoiding(succ, b)
  BY <1>1, DomTable, AvoidingMore
<1> QED  BY <1>1, <1>2, DomTable

(* Only reachable blocks dominate, and are dominated.                      *)
LEMMA DomReachable ==
    ASSUME GraphInv, NEW a \in Blocks, NEW b \in dom[a]
    PROVE  a \in Reachable(succ) /\ b \in Reachable(succ) /\ b \in Blocks
<1>1. b \in Blocks /\ b \in Reachable(succ) /\ succ \in CFG  BY DomTable
<1>2. ASSUME a \notin Reachable(succ) PROVE FALSE
  <2>1. Avoiding(succ, a) \subseteq Reachable(succ)  BY <1>1, AvoidingReachable
  <2>2. entry \in Avoiding(succ, a)  BY <1>1, <1>2, ReachableClosed, AvoidingClosed
  <2>3. \A p \in Avoiding(succ, a) : Succs(succ, p) \subseteq Avoiding(succ, a)
    BY <1>1, <1>2, <2>1, ReachableClosed, AvoidingClosed
  <2>4. Reachable(succ) \subseteq Avoiding(succ, a)
    BY <1>1, <2>2, <2>3, ReachableClosed, AvoidingClosed
  <2> QED  BY <1>1, <2>4, DomTable
<1> QED  BY <1>1, <1>2

(* Two blocks that dominate each other are one.                            *)
LEMMA DomAntisymmetric ==
    ASSUME GraphInv, NEW a \in Blocks, NEW b \in dom[a], a \in dom[b]
    PROVE  a = b
<1>1. b \in Blocks /\ succ \in CFG /\ a \in Reachable(succ)
  BY DomTable, DomReachable
<1>2. SUFFICES ASSUME a # b PROVE FALSE  OBVIOUS
<1>3. Avoiding(succ, a) = Avoiding(succ, b)
  <2>1. b \notin Avoiding(succ, a) /\ a \notin Avoiding(succ, b)  BY <1>1, DomTable
  <2>2. Avoiding(succ, a) \subseteq Avoiding(succ, b)  BY <1>1, <2>1, AvoidingMore
  <2>3. Avoiding(succ, b) \subseteq Avoiding(succ, a)  BY <1>1, <2>1, AvoidingMore
  <2> QED  BY <2>2, <2>3
<1> DEFINE S == Avoiding(succ, a)
<1>4. entry \in S  BY <1>1, <1>2, <1>3, AvoidingClosed
<1>5. \A p \in S : Succs(succ, p) \subseteq S
  BY <1>1, <1>2, <1>3, AvoidingClosed
<1>6. Reachable(succ) \subseteq S
  BY <1>1, <1>4, <1>5, ReachableClosed, AvoidingClosed
<1> QED  BY <1>1, <1>6, AvoidingClosed

(* Two dominators of a block: one of them dominates the other.             *)
LEMMA DomComparable ==
    ASSUME GraphInv, NEW a \in Blocks, NEW b \in Blocks,
           NEW s \in dom[a], s \in dom[b]
    PROVE  a \in dom[b] \/ b \in dom[a]
<1>1. SUFFICES ASSUME a \notin dom[b], b \notin dom[a] PROVE FALSE  OBVIOUS
<1>2. succ \in CFG /\ a \in Avoiding(succ, b) /\ b \in Avoiding(succ, a) /\ a # b
  BY <1>1, DomTable, DomReachable, DomReflexive
<1> DEFINE S == Avoiding(succ, a) \cup Avoiding(succ, b)
<1>3. entry \in S  BY <1>2, AvoidingClosed
<1>4. \A p \in S : Succs(succ, p) \subseteq S  BY <1>2, AvoidingClosed
<1>5. S \subseteq Blocks  BY <1>2, AvoidingClosed
<1>6. Reachable(succ) \subseteq S
  <2> HIDE DEF S
  <2> QED  BY <1>2, <1>3, <1>4, <1>5, ReachableClosed
<1> QED  BY <1>6, DomTable

(* Who dominates s strictly dominates its predecessors.                    *)
LEMMA DomPreds ==
    ASSUME GraphInv, NEW a \in Blocks, NEW s \in dom[a], s # a,
           NEW b \in Preds(succ, s), b \in Reachable(succ)
    PROVE  b \in dom[a]
<1>1. succ \in CFG /\ s \in Succs(succ, b) /\ b \in Blocks  BY DomTable DEF Preds
<1> QED  BY <1>1, DomTable, AvoidingClosed

(* A block that c or the block itself dominates all the ways to is         *)
(* strictly dominated by c.                                                *)
LEMMA DomOfPreds ==
    ASSUME GraphInv, NEW s \in Reachable(succ), s # entry, NEW c \in Blocks,
           \A b \in Preds(succ, s) \cap Reachable(succ) : b \in dom[c] \cup dom[s]
    PROVE  s \in dom[c] /\ s # c
<1>1. succ \in CFG /\ s \in Blocks  BY DomTable, ReachableClosed
<1> DEFINE S == Avoiding(succ, c) \cap Avoiding(succ, s)
<1>2. S \subseteq Reachable(succ) /\ S \subseteq Blocks
  BY <1>1, AvoidingReachable, AvoidingClosed
<1>3. ASSUME NEW p \in S PROVE s \notin Succs(succ, p)
  BY <1>1, <1>2, <1>3, DomTable DEF Preds
<1>4. entry # c => entry \in S  BY <1>1, AvoidingClosed
<1>5. \A p \in S : Succs(succ, p) \subseteq S \cup {c}  BY <1>1, <1>3, AvoidingClosed
<1>6. Avoiding(succ, c) \subseteq S
  <2>1. c \notin S  BY <1>1, AvoidingClosed
  <2>2. Closed(succ, c, S)  BY <1>4, <1>5 DEF Closed
  <2>3. S \subseteq Blocks \ {c}  BY <1>2, <2>1
  <2> HIDE DEF S
  <2> QED  BY <1>1, <2>2, <2>3, AvoidingLeast
<1>7. s \in dom[c]  BY <1>1, <1>6, DomTable, AvoidingClosed
<1>8. ASSUME s = c PROVE FALSE
  <2>1. \A p \in S : Succs(succ, p) \subseteq S  BY <1>3, <1>5, <1>8
  <2>2. entry \in S  BY <1>4, <1>8
  <2>3. Reachable(succ) \subseteq S  BY <1>1, <1>2, <2>1, <2>2, ReachableClosed
  <2> QED  BY <1>1, <2>3, AvoidingClosed
<1> QED  BY <1>7, <1>8

(* A set of subsets of a finite set has a smallest one.                    *)
LEMMA SmallestSet ==
    ASSUME NEW S, IsFiniteSet(S), NEW U, U \subseteq SUBSET S, U # {}
    PROVE  \E u \in U : \A v \in U : v \subseteq u => v = u
<1>1. U \subseteq FiniteSubsetsOf(S)  BY FS_Subset DEF FiniteSubsetsOf
<1>2. PICK u \in U : \A v \in U : <<v, u>> \notin StrictSubsetOrdering(S)
  BY <1>1, FS_StrictSubsetOrderingWellFounded, WFMin
<1>3. ASSUME NEW v \in U, v \subseteq u PROVE v = u
  BY <1>2, <1>3 DEF StrictSubsetOrdering
<1> QED  BY <1>3

(* There are finitely many blocks.                                         *)
LEMMA BlocksFinite == IsFiniteSet(Blocks)
BY SizeAssumption, FS_Interval DEF Blocks

(* A block but the entry has an immediate dominator.                       *)
LEMMA HasIdom ==
    ASSUME GraphInv, NEW s \in Reachable(succ), s # entry
    PROVE  \E d \in Blocks : ImmediatelyDominates(dom, d, s)
<1> DEFINE D == {a \in Blocks \ {s} : s \in dom[a]}
           U == {dom[a] : a \in D}
<1>1. entry \in D  BY DomReflexive
<1>2. U \subseteq SUBSET Blocks /\ U # {}  BY <1>1, DomTable
<1>3. PICK u \in U : \A v \in U : v \subseteq u => v = u
  <2> HIDE DEF U
  <2> QED  BY <1>2, BlocksFinite, SmallestSet
<1>4. PICK d \in D : u = dom[d]  BY <1>3
<1>5. ASSUME NEW a \in Blocks \ {s}, s \in dom[a]
      PROVE  d \in dom[a]
  <2>1. a \in D  BY <1>5
  <2>2. d \in dom[a] \/ a \in dom[d]  BY <1>4, <1>5, DomComparable
  <2>3. CASE a \in dom[d]
    <3>1. dom[a] \subseteq dom[d]  BY <1>4, <2>3, DomTransitive
    <3>2. dom[a] = dom[d]  BY <1>3, <1>4, <2>1, <3>1
    <3>3. d \in dom[d]  BY <1>4, DomReachable, DomReflexive
    <3> QED  BY <3>2, <3>3
  <2> QED  BY <2>2, <2>3
<1> QED  BY <1>4, <1>5 DEF ImmediatelyDominates

(* The children of the dominator tree are the reachable blocks.            *)
LEMMA TreeReachesAll ==
    ASSUME GraphInv, NEW V, entry \in V,
           \A b \in V \cap Blocks : children[b] \subseteq V
    PROVE  Reachable(succ) \subseteq V
<1> DEFINE L == Reachable(succ) \ V
           U == {Blocks \ dom[a] : a \in L}
<1>1. SUFFICES ASSUME L # {} PROVE FALSE  OBVIOUS
<1>2. U \subseteq SUBSET Blocks /\ U # {}  BY <1>1
<1>3. PICK u \in U : \A v \in U : v \subseteq u => v = u
  <2> HIDE DEF U
  <2> QED  BY <1>2, BlocksFinite, SmallestSet
<1>4. PICK s \in L : u = Blocks \ dom[s]  BY <1>3
<1>5. PICK d \in Blocks : ImmediatelyDominates(dom, d, s)  BY <1>4, HasIdom
<1>6. s \in Blocks /\ s \in dom[d] /\ s # d /\ s \in children[d]
  BY <1>5, DomTable DEF ImmediatelyDominates, GraphInv
<1>7. d \in L  BY <1>4, <1>5, <1>6, DomReachable
<1>8. dom[s] \subseteq dom[d]  BY <1>5, <1>6, DomTransitive
<1>9. Blocks \ dom[d] = Blocks \ dom[s]
  <2>1. Blocks \ dom[d] \in U /\ Blocks \ dom[d] \subseteq u  BY <1>4, <1>7, <1>8
  <2> HIDE DEF U
  <2> QED  BY <1>3, <1>4, <2>1
<1>10. dom[d] = dom[s]  BY <1>5, <1>6, <1>9, DomTable
<1>11. d \in dom[s]  BY <1>7, <1>10, DomReflexive
<1> QED  BY <1>5, <1>6, <1>11, DomAntisymmetric

(* The children are what a block dominates immediately.                    *)
LEMMA ChildrenAre ==
    ASSUME GraphInv, NEW d \in Blocks, NEW s
    PROVE  s \in children[d] <=> s \in Blocks /\ ImmediatelyDominates(dom, d, s)
BY DEF GraphInv

(* A block has one immediate dominator.                                    *)
LEMMA OneIdom ==
    ASSUME GraphInv, NEW d \in Blocks, NEW e \in Blocks, NEW s,
           ImmediatelyDominates(dom, d, s), ImmediatelyDominates(dom, e, s)
    PROVE  d = e
<1>1. e \in dom[d] /\ d \in dom[e]  BY DEF ImmediatelyDominates
<1> QED  BY <1>1, DomAntisymmetric

(* What is covered: a block m between the immediate dominator of s and a   *)
(* predecessor of s has s in its frontier.                                 *)
LEMMA Between ==
    ASSUME GraphInv, NEW d \in Blocks, NEW s \in Blocks, ImmediatelyDominates(dom, d, s),
           NEW b \in Preds(succ, s), NEW m \in Blocks, b \in dom[m], m \in dom[d], m # d
    PROVE  s \in frontiers[m]
<1>1. ASSUME m # s, s \in dom[m] PROVE FALSE
  <2>1. d \in dom[m]  BY <1>1 DEF ImmediatelyDominates
  <2> QED  BY <2>1, DomAntisymmetric
<1> QED  BY <1>1 DEF GraphInv, FrontierOf

(* What is in a frontier is reachable, and not the entry.                  *)
LEMMA FrontierReachable ==
    ASSUME GraphInv, NEW a \in Blocks, NEW s \in frontiers[a]
    PROVE  s \in Reachable(succ) /\ s \in Blocks /\ s # entry
<1>1. PICK p \in Preds(succ, s) : s \in Blocks /\ p \in dom[a]
  BY DEF GraphInv, FrontierOf
<1>2. p \in Reachable(succ) /\ s \in Succs(succ, p)
  BY <1>1, DomReachable DEF Preds
<1> QED  BY <1>1, <1>2, DomTable, ReachableClosed

----------------------------------------------------------------------------
(* The certificate.                                                        *)

(* The function as it is emitted.                                          *)
ProgInv ==
    /\ code \in [Blocks -> Seq(Statement)]
    /\ \A b \in Blocks : Len(code[b]) <= MaxBlock
    /\ \A v \in Var : \A p \in LoadsOf(v) :
          /\ p[1] \in Reachable(succ)
          /\ \E q \in StoresTo(v) : Dominates(q, p)

(* The phis: of reachable blocks, with a value for each predecessor.       *)
PhiInv == \A phi \in DOMAIN new_phi_nodes :
    /\ phi \in Phis
    /\ phi[1] \in Reachable(succ) /\ phi[1] # entry
    /\ DOMAIN new_phi_nodes[phi] = Preds(succ, phi[1])

(* The certificate of a promotion.  at[<<b, k, v>>] is a value that is     *)
(* what the memory of v would hold in front of statement k of block b,     *)
(* Q are the loads that have been replaced.                                *)
Held(at, b, k, v) == <<b, k, v>> \in DOMAIN at

(* The value x is there in front of statement k of block b.                *)
Avail(Q, x, b, k) ==
    \/ x = undef
    \/ x \in DOMAIN new_phi_nodes /\ b \in dom[x[1]]
    \/ x \in Written \ Q /\ b \in dom[x[1]] /\ (x[1] = b => x[2] < k)

(* v holds it behind the statement p because of what is held before.       *)
Kept(at, Q, p, v) ==
    IF Stmt(p).to = v
    THEN /\ at[<<p[1], p[2] + 1, v>>] = operand[p]
         /\ p \in Q => /\ Held(at, p[1], p[2], Stmt(p).from)
                       /\ at[<<p[1], p[2], Stmt(p).from>>] = operand[p]
    ELSE /\ Held(at, p[1], p[2], v)
         /\ at[<<p[1], p[2] + 1, v>>] = at[<<p[1], p[2], v>>]

(* A point: the value is there, and is what the point before makes it.     *)
GoodPoint(at, Q, b, k, v) ==
    /\ b \in Reachable(succ) /\ k \in 1..(Len(code[b]) + 1)
    /\ Avail(Q, at[<<b, k, v>>], b, k)
    /\ b = entry /\ k = 1 => at[<<b, k, v>>] = undef
    /\ k > 1 => Kept(at, Q, <<b, k - 1>>, v)

(* And at the beginning of s because of what is held at the predecessors.  *)
EndOf(b) == Len(code[b]) + 1
GoodEdges(at, s, v) == \A b \in Preds(succ, s) \cap Reachable(succ) :
    /\ Held(at, b, EndOf(b), v)
    /\ IF at[<<s, 1, v>>] \in DOMAIN new_phi_nodes /\ at[<<s, 1, v>>][1] = s
       THEN at[<<b, EndOf(b), v>>] = new_phi_nodes[at[<<s, 1, v>>]][b]
       ELSE at[<<b, EndOf(b), v>>] = at[<<s, 1, v>>]

(* The points of the function, and its loads.                              *)
Points == Blocks \X Nat \X Var
Loads  == {p \in Written : Stmt(p).from # None}

(* The statements use what the certificate says, or themselves.            *)
GoodUses(at, Q) ==
    /\ \A p \in Q : Stmt(p).to \notin promoted =>
          /\ Held(at, p[1], p[2], Stmt(p).from)
          /\ at[<<p[1], p[2], Stmt(p).from>>] = operand[p]
    /\ \A p \in Written \ Q : operand[p] = p

(* A certificate, with all that does not concern the edges of the CFG.     *)
Cert(at, Q) ==
    /\ DOMAIN at \subseteq Points
    /\ Q \subseteq Loads
    /\ \A b \in Blocks, k \in Nat, v \in Var : Held(at, b, k, v) => GoodPoint(at, Q, b, k, v)
    /\ GoodUses(at, Q)

(* The edges, for the variables V.                                         *)
Edges(at, V) ==
    \A s \in Blocks, v \in V : Held(at, s, 1, v) => GoodEdges(at, s, v)

----------------------------------------------------------------------------
(* Positions and phis are values of different kinds.                       *)
LEMMA ValueKinds ==
    /\ undef \notin Positions /\ undef \notin Phis
    /\ Positions \cap Phis = {}
    /\ Written \subseteq Positions
    /\ \A p \in Positions : p[1] \in Blocks /\ p[2] \in 1..MaxBlock /\ p = <<p[1], p[2]>>
    /\ \A p \in Phis : p[1] \in Blocks /\ p[2] \in Var /\ p = <<p[1], p[2]>>
    /\ MaxBlock \in Nat
<1>1. MaxBlock \in Nat  BY BoundsAssumption
<1>2. ASSUME NEW b \in Blocks, NEW v \in Var, NEW c \in Blocks, NEW k \in 1..MaxBlock,
             <<b, v>> = <<c, k>>
      PROVE FALSE
  <2>1. v = k  BY <1>2
  <2>2. k \in Nat  BY <1>1
  <2> QED  BY <2>1, <2>2, VarAssumption
<1>3. Positions \cap Phis = {}  BY <1>2 DEF Positions, Phis
<1> QED  BY <1>1, <1>3, ValuesAssumption DEF Positions, Phis, Written

(* The statements that are written, by their positions.                    *)
LEMMA WrittenIs ==
    ASSUME ProgInv
    PROVE  /\ \A p \in Written : /\ p[1] \in Blocks /\ p[2] \in 1..Len(code[p[1]])
                                 /\ p = <<p[1], p[2]>> /\ p[2] \in Nat
                                 /\ Len(code[p[1]]) \in Nat
           /\ \A b \in Blocks : /\ Len(code[b]) \in Nat
                                /\ \A k \in 1..Len(code[b]) : <<b, k>> \in Written
           /\ \A p \in Written : Stmt(p) \in Statement
<1>1. \A b \in Blocks : Len(code[b]) \in Nat /\ Len(code[b]) <= MaxBlock
  BY DEF ProgInv
<1>2. ASSUME NEW b \in Blocks, NEW k \in 1..Len(code[b]) PROVE <<b, k>> \in Written
  <2>1. k \in 1..MaxBlock  BY <1>1, <1>2, ValueKinds
  <2> QED  BY <2>1, <1>2 DEF Written, Positions
<1>3. ASSUME NEW p \in Written
      PROVE  /\ p[1] \in Blocks /\ p[2] \in 1..Len(code[p[1]])
             /\ p = <<p[1], p[2]>> /\ p[2] \in Nat
             /\ Len(code[p[1]]) \in Nat
  <2>1. p \in Positions /\ p[2] <= Len(code[p[1]])  BY DEF Written
  <2>2. p[1] \in Blocks /\ p[2] \in 1..MaxBlock /\ p = <<p[1], p[2]>>  BY <2>1, ValueKinds
  <2> QED  BY <1>1, <2>1, <2>2, ValueKinds
<1>4. ASSUME NEW p \in Written PROVE Stmt(p) \in Statement
  <2>1. code[p[1]] \in Seq(Statement) /\ p[2] \in 1..Len(code[p[1]])  BY <1>3 DEF ProgInv
  <2> QED  BY <2>1 DEF Stmt
<1> QED  BY <1>1, <1>2, <1>3, <1>4

(* What is there is there later on.                                        *)
LEMMA AvailOn ==
    ASSUME GraphInv, ProgInv, PhiInv, NEW Q, NEW x, NEW b \in Blocks, NEW k \in Nat,
           Avail(Q, x, b, k), NEW c \in dom[b], NEW j \in Nat, c = b => k <= j
    PROVE  Avail(Q, x, c, j)
<1>1. c \in Blocks  BY DomTable
<1>2. CASE x \in DOMAIN new_phi_nodes /\ b \in dom[x[1]]
  <2>1. x[1] \in Blocks  BY <1>2 DEF PhiInv, Phis
  <2> QED  BY <1>2, <2>1, DomTransitive DEF Avail
<1>3. CASE x \in Written \ Q /\ b \in dom[x[1]] /\ (x[1] = b => x[2] < k)
  <2>1. x[1] \in Blocks /\ x[2] \in Nat  BY <1>3, WrittenIs
  <2>2. c \in dom[x[1]]  BY <1>3, <2>1, DomTransitive
  <2>3. ASSUME x[1] = c PROVE x[2] < j
    <3>1. b = c  BY <1>3, <2>3, DomAntisymmetric
    <3> QED  BY <1>3, <2>1, <2>3, <3>1
  <2> QED  BY <1>3, <2>2, <2>3 DEF Avail
<1> QED  BY <1>2, <1>3 DEF Avail

(* And what was there for the statement x is there wherever x is.          *)
LEMMA AvailThrough ==
    ASSUME GraphInv, ProgInv, PhiInv, NEW Q, NEW x \in Written, NEW b \in Blocks, NEW k \in Nat,
           b \in dom[x[1]], x[1] = b => x[2] < k,
           NEW y, Avail(Q, y, x[1], x[2])
    PROVE  Avail(Q, y, b, k)
<1>1. x[1] \in Blocks /\ x[2] \in Nat  BY WrittenIs
<1>2. b = x[1] => x[2] <= k  BY <1>1
<1> QED  BY <1>1, <1>2, AvailOn

(* A value at the beginning of a block is no phi of a block it dominates   *)
(* strictly.                                                               *)
LEMMA AvailAbove ==
    ASSUME GraphInv, ProgInv, PhiInv, NEW Q, NEW x, NEW b \in Blocks, NEW k \in Nat,
           Avail(Q, x, b, k), x # undef, NEW s \in dom[b], s # b
    PROVE  x[1] # s
<1>1. b \in dom[x[1]] /\ x[1] \in Blocks  BY WrittenIs DEF Avail, PhiInv, Phis
<1> QED  BY <1>1, DomAntisymmetric

----------------------------------------------------------------------------
(* The invariants of the phases.                                           *)

(* The loads that have been replaced: while the fast paths run, in the     *)
(* middle of the renaming, and when it is over.                            *)
FastLoads == {p \in Written : Stmt(p).from \in promoted}
(* When the promotion is over.                                             *)
GoneLoads == {p \in Written : Gone(Stmt(p).from)}

(* rename_block is behind statement k - 1 of b.                            *)
Passed(b, k) == k \in 1..EndOf(b) /\ (calls # <<>> /\ b = Top.block => k <= Top.next)

(* And those that the renaming has come by.                                *)
RenamedLoads(seen) == FastLoads \cup
    {p \in Written : /\ Stmt(p).from \in allocas /\ p[1] \in seen
                     /\ calls # <<>> /\ p[1] = Top.block => p[2] < Top.next}

(* b has told the phis of its successors.                                  *)
Told(seen, b) == b \in seen /\ (calls # <<>> /\ b = Top.block => Top.next = EndOf(b) + 1)

(* The variables in each phase.                                            *)
SortInv ==
    /\ candidates \cup promoted \cup allocas \subseteq Var
    /\ promoted \cap allocas = {}
    /\ phase = "emit" => candidates = {} /\ promoted = {} /\ allocas = {}
    /\ phase = "fast" => candidates \cap (promoted \cup allocas) = {}
    /\ phase = "phis" => candidates \subseteq allocas
                         /\ (current # None => current \in allocas)
    /\ \A phi \in DOMAIN new_phi_nodes : phi[2] \in allocas

(* The function that is being emitted.                                     *)
EmitInv == phase = "emit" =>
    /\ block \in Blocks /\ index = Len(code[block]) + 1 /\ index <= MaxBlock + 1
    /\ \A b \in Blocks : b > block => code[b] = <<>>
    /\ \A v \in Var : Declared(v) =>
          decl[v] \in Blocks /\ \E q \in StoresTo(v) : q[1] = decl[v]
    /\ operand = [p \in Written |-> p]

(* What is not yet in use.                                                 *)
IdleInv ==
    /\ DOMAIN env = Positions \cup Phis
    /\ phase \in {"emit", "fast"} => DOMAIN new_phi_nodes = {}
    /\ phase \in {"emit", "fast", "phis"} =>
          calls = <<>> /\ value_stacks = [v \in Var |-> <<>>]
    /\ phase \in {"fast", "phis", "rename", "cleanup"} =>
          block = entry /\ index = 1
    /\ phase \in {"emit", "fast", "phis", "rename", "cleanup"} =>
          mem = [v \in Var |-> undef]
    /\ phase \in {"emit", "fast", "phis", "rename"} => phi_to_erase = {}

(* While the fast paths run: only promoted variables are held, by no phi.  *)
FastInv(at, Q) ==
    /\ Q = FastLoads /\ Cert(at, Q)
    /\ Edges(at, promoted)
    /\ \A b \in Blocks, k \in Nat, v \in Var : Held(at, b, k, v) =>
          v \in promoted /\ at[<<b, k, v>>] \notin Phis
    /\ \A phi \in DOMAIN new_phi_nodes : \A b \in Preds(succ, phi[1]) :
          new_phi_nodes[phi][b] = undef

(* The open calls.  Of a block whose statements are not yet done nothing   *)
(* below has been seen.                                                    *)
Here(i) == IF calls[i].next > EndOf(calls[i].block) THEN EndOf(calls[i].block) ELSE calls[i].next
(* What an open call is.                                                   *)
Calls == [block : Blocks, next : Nat, rest : SUBSET Blocks, pushed : [Var -> Nat]]
(* One of them, and all: each block is below those of the calls before.    *)
CallInv(seen, i) ==
    /\ calls[i].block \in seen
    /\ calls[i].next \in 1..(EndOf(calls[i].block) + 1)
    /\ i # Len(calls) => calls[i].next = EndOf(calls[i].block) + 1
    /\ calls[i].rest \subseteq children[calls[i].block]
    /\ calls[i].rest \cap seen = {}
    /\ calls[i].next <= EndOf(calls[i].block) =>
          \A c \in seen : c \in dom[calls[i].block] => c = calls[i].block
CallsInv(seen) ==
    /\ calls \in Seq(Calls)
    /\ \A i \in 1..Len(calls) : CallInv(seen, i)
    /\ \A i \in 1..Len(calls), j \in 1..Len(calls) : i < j =>
          /\ calls[i].block # calls[j].block
          /\ calls[j].block \in dom[calls[i].block]

(* The blocks that calls have been opened for, from the entry downwards.   *)
SeenInv(seen) ==
    /\ seen \subseteq Reachable(succ) /\ entry \in seen
    /\ \A c \in seen, a \in Blocks : c \in dom[a] => a \in seen
    /\ \A c \in seen : \A d \in children[c] :
          d \in seen \/ \E i \in 1..Len(calls) : calls[i].block = c /\ d \in calls[i].rest

(* How high the stack of v is for the i-th call, and what is on its top.   *)
StackInv(at, h, v) ==
    /\ h[0][v] = 0
    /\ Len(value_stacks[v]) = h[Len(calls)][v]
    /\ \A i \in 1..Len(calls) :
          /\ h[i][v] = h[i - 1][v] + calls[i].pushed[v]
          /\ \A j \in i..Len(calls) : h[i][v] <= h[j][v]
          /\ v \in allocas => at[<<calls[i].block, Here(i), v>>] =
                IF h[i][v] = 0 THEN undef ELSE value_stacks[v][h[i][v]]
(* The stacks of all variables.                                            *)
StacksInv(at, h) ==
    /\ h \in [0..Len(calls) -> [Var -> Nat]]
    /\ value_stacks \in [Var -> Seq({undef} \cup Positions \cup Phis)]
    /\ \A v \in Var : StackInv(at, h, v)

(* m is a block below a, on the way to c, where v is defined.              *)
DefinedBetween(v, a, c) == \E m \in Defining(v) \cup PhiBlocks(v) :
    m \in dom[a] /\ m # a /\ c \in dom[m]

(* What is held: everything that the renaming has passed.                  *)
HeldInv(at, seen) ==
    /\ \A b \in Blocks, k \in Nat, v \in allocas :
          Held(at, b, k, v) <=> b \in seen /\ Passed(b, k)
    /\ \A b \in Blocks, k \in Nat, v \in Var : Held(at, b, k, v) => v \in promoted \cup allocas

(* What a block begins with: its phi, or what its dominator ends with.     *)
PhiStarts(at, seen) == \A b \in seen, v \in allocas :
    <<b, v>> \in DOMAIN new_phi_nodes => at[<<b, 1, v>>] = <<b, v>>
(* What a block without a phi of v begins with.                            *)
Inherits(at, seen) == \A b \in seen, v \in allocas, d \in Blocks :
    <<b, v>> \notin DOMAIN new_phi_nodes /\ ImmediatelyDominates(dom, d, b) =>
        at[<<b, 1, v>>] = at[<<d, EndOf(d), v>>]
(* And what comes from a dominator when no definition is in between.       *)
Undefined(at, seen) == \A c \in seen, a \in Blocks, k \in Nat, v \in allocas :
    Held(at, c, k, v) /\ c \in dom[a] /\ a # c /\ ~DefinedBetween(v, a, c) =>
        at[<<c, k, v>>] = at[<<a, EndOf(a), v>>]

(* What the phis have been told, and where none of a block itself is.      *)
PhisTold(at, seen) == \A phi \in DOMAIN new_phi_nodes : \A b \in Preds(succ, phi[1]) :
    /\ Told(seen, b) => new_phi_nodes[phi][b] = at[<<b, EndOf(b), phi[2]>>]
    /\ ~Told(seen, b) => new_phi_nodes[phi][b] = undef
(* A promoted variable is held by no phi at the beginning of its block.    *)
NoOwnPhi(at) == \A s \in Blocks, v \in promoted :
    Held(at, s, 1, v) /\ at[<<s, 1, v>>] \in Phis => at[<<s, 1, v>>][1] # s

(* The invariant of the renaming.                                          *)
RenameInv(at, Q, seen, h) ==
    /\ Q = RenamedLoads(seen) /\ Cert(at, Q)
    /\ Edges(at, promoted)
    /\ CallsInv(seen) /\ SeenInv(seen) /\ StacksInv(at, h)
    /\ HeldInv(at, seen)
    /\ PhiStarts(at, seen) /\ Inherits(at, seen) /\ Undefined(at, seen)
    /\ PhisTold(at, seen) /\ NoOwnPhi(at)

(* Behind the renaming.                                                    *)
Whole(at, Q) ==
    /\ Q = GoneLoads /\ Cert(at, Q)
    /\ Edges(at, Var)
    /\ \A phi \in DOMAIN new_phi_nodes : \A b \in Preds(succ, phi[1]) :
          Avail(Q, new_phi_nodes[phi][b], b, EndOf(b))

(* While the phis are cleaned up: an erased one is nowhere used.           *)
CleanInv(at, Q) ==
    /\ Whole(at, Q)
    /\ unseen \subseteq DOMAIN new_phi_nodes
    /\ \A phi \in phi_to_erase :
          /\ \A pt \in DOMAIN at : at[pt] # phi
          /\ \A other \in DOMAIN new_phi_nodes : phi \notin Incoming(other)

(* While the functions run: what is held is what the memory holds.         *)
RunInv(at, Q) ==
    /\ Whole(at, Q)
    /\ block \in Reachable(succ) /\ index \in 1..EndOf(block)
    /\ \A v \in Var : Held(at, block, index, v) => Eval(at[<<block, index, v>>]) = mem[v]

----------------------------------------------------------------------------
(* What changes nothing of the function changes nothing it is described by.*)
LEMMA IrKept ==
    ASSUME UNCHANGED irVars
    PROVE  /\ succ' = succ /\ dom' = dom /\ children' = children
           /\ frontiers' = frontiers /\ code' = code /\ decl' = decl
           /\ Written' = Written /\ Loads' = Loads
           /\ \A p : Stmt(p)' = Stmt(p)
           /\ \A b : EndOf(b)' = EndOf(b)
           /\ \A v : /\ LoadsOf(v)' = LoadsOf(v) /\ StoresTo(v)' = StoresTo(v)
                     /\ Defining(v)' = Defining(v)
           /\ GraphInv => GraphInv'
           /\ ProgInv => ProgInv'
<1>1. /\ succ' = succ /\ dom' = dom /\ children' = children
      /\ frontiers' = frontiers /\ code' = code /\ decl' = decl
  BY DEF irVars, dtVars
<1>2. Written' = Written  BY <1>1 DEF Written
<1>3. \A p : Stmt(p)' = Stmt(p)  BY <1>1 DEF Stmt
<1>4. \A b : EndOf(b)' = EndOf(b)  BY <1>1 DEF EndOf
<1>5. \A v : LoadsOf(v)' = LoadsOf(v) /\ StoresTo(v)' = StoresTo(v)
  BY <1>2, <1>3 DEF LoadsOf, StoresTo
<1>6. \A v : Defining(v)' = Defining(v)  BY <1>5 DEF Defining
<1>7. Loads' = Loads  BY <1>2, <1>3 DEF Loads
<1>8. GraphInv => GraphInv'  BY <1>1 DEF GraphInv
<1>9. \A p, q : Dominates(p, q)' <=> Dominates(p, q)  BY <1>1 DEF Dominates
<1>10. ProgInv => ProgInv'  BY <1>1, <1>5, <1>9 DEF ProgInv
<1> QED  BY <1>1, <1>2, <1>3, <1>4, <1>5, <1>6, <1>7, <1>8, <1>10

(* What is there stays there, unless it is a phi that goes.                *)
LEMMA AvailKept ==
    ASSUME UNCHANGED irVars, NEW Q, NEW x, NEW b, NEW k, Avail(Q, x, b, k),
           x \in DOMAIN new_phi_nodes => x \in DOMAIN new_phi_nodes'
    PROVE  Avail(Q, x, b, k)'
BY IrKept DEF Avail

(* What a statement keeps it keeps as long as its operand stays.           *)
LEMMA KeptKept ==
    ASSUME UNCHANGED irVars, NEW at, NEW Q, NEW p, NEW v, Kept(at, Q, p, v),
           operand'[p] = operand[p]
    PROVE  Kept(at, Q, p, v)'
BY IrKept DEF Kept, Held

(* A certificate holds as long as the operands stay and no phi goes.       *)
LEMMA CertKept ==
    ASSUME UNCHANGED irVars, NEW at, NEW Q, Cert(at, Q), operand' = operand,
           promoted \subseteq promoted',
           \A pt \in DOMAIN at : at[pt] \in DOMAIN new_phi_nodes => at[pt] \in DOMAIN new_phi_nodes'
    PROVE  Cert(at, Q)'
<1>1. ASSUME NEW b \in Blocks, NEW k \in Nat, NEW v \in Var, Held(at, b, k, v)
      PROVE  GoodPoint(at, Q, b, k, v)'
  <2>1. GoodPoint(at, Q, b, k, v)  BY <1>1 DEF Cert
  <2>2. Avail(Q, at[<<b, k, v>>], b, k)'
    BY <1>1, <2>1, AvailKept DEF GoodPoint, Held
  <2>3. k > 1 => Kept(at, Q, <<b, k - 1>>, v)'
    BY <2>1, KeptKept DEF GoodPoint
  <2> QED  BY <2>1, <2>2, <2>3, IrKept DEF GoodPoint
<1>2. GoodUses(at, Q)'
  BY IrKept DEF GoodUses, Cert
<1>3. DOMAIN at \subseteq Points /\ Q \subseteq Loads'
  BY IrKept DEF Cert
<1> QED  BY <1>1, <1>2, <1>3 DEF Cert, Held, Points

----------------------------------------------------------------------------
(* A load is replaced by what its variable holds: what the values hold     *)
(* that were known before is what the others hold now.                     *)
LEMMA Substituted ==
    ASSUME GraphInv, ProgInv, PhiInv, UNCHANGED irVars, promoted \subseteq promoted',
           NEW at, NEW Q, Cert(at, Q),
           NEW sub, ReplaceAllUses(sub), DOMAIN sub \subseteq Loads \ Q,
           NEW R, R = Q \cup DOMAIN sub,
           NEW at2, DOMAIN at \subseteq DOMAIN at2, DOMAIN at2 \subseteq Points,
           \A pt \in DOMAIN at : at2[pt] = Subst(sub, at[pt]),
           \A x \in DOMAIN sub : /\ Held(at2, x[1], x[2], Stmt(x).from)
                                 /\ at2[<<x[1], x[2], Stmt(x).from>>] = sub[x]
                                 /\ Avail(R, sub[x], x[1], x[2])
    PROVE  /\ \A b \in Blocks, k \in Nat, v \in Var :
                 Held(at, b, k, v) => GoodPoint(at2, R, b, k, v)'
           /\ GoodUses(at2, R)' /\ R \subseteq Loads'
           /\ \A s \in Blocks, v \in Var :
                 Held(at, s, 1, v) /\ GoodEdges(at, s, v) => GoodEdges(at2, s, v)'
<1>1. DOMAIN new_phi_nodes' = DOMAIN new_phi_nodes  BY DEF ReplaceAllUses
<1>2. \A p \in Written : operand'[p] = Subst(sub, operand[p])  BY DEF ReplaceAllUses
<1>3. DOMAIN sub \subseteq Written /\ undef \notin DOMAIN sub
      /\ DOMAIN sub \cap DOMAIN new_phi_nodes = {}
  BY ValueKinds DEF Loads, PhiInv
<1>4. \A x \in DOMAIN sub : operand'[x] = sub[x]
  <2>1. \A x \in DOMAIN sub : operand[x] = x  BY <1>3 DEF Cert, GoodUses
  <2> QED  BY <1>2, <1>3, <2>1 DEF Subst
(* Of what is known at a point before.                                     *)
<1>5. ASSUME NEW b \in Blocks, NEW k \in Nat, NEW v \in Var, Held(at, b, k, v)
      PROVE  GoodPoint(at2, R, b, k, v)'
  <2>1. GoodPoint(at, Q, b, k, v)  BY <1>5 DEF Cert
  <2> DEFINE y == at[<<b, k, v>>]
  <2>2. at2[<<b, k, v>>] = Subst(sub, y)  BY <1>5 DEF Held
  <2>3. Avail(R, at2[<<b, k, v>>], b, k)
    <3>1. Avail(Q, y, b, k)  BY <2>1 DEF GoodPoint
    <3>2. CASE y \in DOMAIN sub
      <4>1. y \in Written /\ b \in dom[y[1]] /\ (y[1] = b => y[2] < k)
        BY <1>3, <3>1, <3>2 DEF Avail
      <4>2. at2[<<b, k, v>>] = sub[y] /\ Avail(R, sub[y], y[1], y[2])
        BY <2>2, <3>2 DEF Subst
      <4> QED  BY <4>1, <4>2, AvailThrough
    <3>3. CASE y \notin DOMAIN sub
      BY <2>2, <3>1, <3>3 DEF Subst, Avail
    <3> QED  BY <3>2, <3>3
  <2>4. Avail(R, at2[<<b, k, v>>], b, k)'
    BY <1>1, <2>3, AvailKept
  <2>5. b = entry /\ k = 1 => at2[<<b, k, v>>] = undef
    BY <1>3, <2>1, <2>2 DEF GoodPoint, Subst
  <2>6. ASSUME k > 1 PROVE Kept(at2, R, <<b, k - 1>>, v)'
    <3> DEFINE p == <<b, k - 1>>
    <3>1. p \in Written /\ p[1] = b /\ p[2] = k - 1 /\ p[2] + 1 = k
      BY <2>1, <2>6, WrittenIs DEF GoodPoint
    <3>2. Kept(at, Q, p, v)  BY <2>1, <2>6 DEF GoodPoint
    <3>3. operand'[p] = Subst(sub, operand[p])  BY <1>2, <3>1
    <3>4. Stmt(p)' = Stmt(p)  BY IrKept
    <3>5. CASE Stmt(p).to = v
      <4>1. at[<<b, k, v>>] = operand[p]
        BY <3>1, <3>2, <3>5 DEF Kept
      <4>2. at2[<<p[1], p[2] + 1, v>>] = operand'[p]
        BY <2>2, <3>1, <3>3, <4>1
      <4>3. ASSUME p \in Q
            PROVE  /\ Held(at2, p[1], p[2], Stmt(p).from)
                   /\ at2[<<p[1], p[2], Stmt(p).from>>] = operand'[p]
        <5>1. /\ Held(at, p[1], p[2], Stmt(p).from)
              /\ at[<<p[1], p[2], Stmt(p).from>>] = operand[p]
          BY <3>2, <3>5, <4>3 DEF Kept
        <5> QED  BY <5>1, <3>3 DEF Held
      <4>4. ASSUME p \in DOMAIN sub
            PROVE  /\ Held(at2, p[1], p[2], Stmt(p).from)
                   /\ at2[<<p[1], p[2], Stmt(p).from>>] = operand'[p]
        BY <1>4, <4>4
      <4>5. Kept(at2, R, p, v)'
        <5> HIDE DEF p
        <5> QED  BY <3>4, <3>5, <4>2, <4>3, <4>4 DEF Kept, Held
      <4> QED  BY <4>5
    <3>6. CASE Stmt(p).to # v
      <4>1. Held(at, p[1], p[2], v) /\ at[<<p[1], p[2] + 1, v>>] = at[<<p[1], p[2], v>>]
        BY <3>2, <3>6 DEF Kept
      <4>2. Held(at2, p[1], p[2], v) /\ at2[<<p[1], p[2] + 1, v>>] = at2[<<p[1], p[2], v>>]
        BY <1>5, <3>1, <4>1 DEF Held
      <4>3. Kept(at2, R, p, v)'
        <5> HIDE DEF p
        <5> QED  BY <3>4, <3>6, <4>2 DEF Kept, Held
      <4> QED  BY <4>3
    <3> QED  BY <3>5, <3>6
  <2> QED  BY <2>1, <2>4, <2>5, <2>6, IrKept DEF GoodPoint
(* Of what is used.                                                        *)
<1>6. GoodUses(at2, R)'
  <2>1. ASSUME NEW p \in R, Stmt(p).to \notin promoted'
        PROVE  /\ Held(at2, p[1], p[2], Stmt(p).from)
               /\ at2[<<p[1], p[2], Stmt(p).from>>] = operand'[p]
    <3>1. CASE p \in Q
      <4>1. /\ Held(at, p[1], p[2], Stmt(p).from)
            /\ at[<<p[1], p[2], Stmt(p).from>>] = operand[p]
        BY <2>1, <3>1 DEF Cert, GoodUses
      <4>2. operand'[p] = Subst(sub, operand[p])
        BY <1>2, <3>1 DEF Cert, Loads
      <4> QED  BY <4>1, <4>2 DEF Held
    <3>2. CASE p \in DOMAIN sub
      BY <1>4, <3>2
    <3> QED  BY <2>1, <3>1, <3>2
  <2>2. ASSUME NEW p \in Written \ R PROVE operand'[p] = p
    <3>1. operand[p] = p /\ p \notin DOMAIN sub  BY DEF Cert, GoodUses
    <3> QED  BY <1>2, <3>1 DEF Subst
  <2> QED  BY <2>1, <2>2, IrKept DEF GoodUses, Held
(* Of what comes in at a block.                                            *)
<1>7. ASSUME NEW s \in Blocks, NEW v \in Var, Held(at, s, 1, v), GoodEdges(at, s, v)
      PROVE  GoodEdges(at2, s, v)'
  <2> DEFINE y == at[<<s, 1, v>>]
  <2>1. at2[<<s, 1, v>>] = Subst(sub, y)  BY <1>7 DEF Held
  <2>2. ASSUME NEW b \in Preds(succ, s) \cap Reachable(succ)
        PROVE  /\ Held(at2, b, EndOf(b), v)
               /\ IF at2[<<s, 1, v>>] \in DOMAIN new_phi_nodes /\ at2[<<s, 1, v>>][1] = s
                  THEN at2[<<b, EndOf(b), v>>] = new_phi_nodes'[at2[<<s, 1, v>>]][b]
                  ELSE at2[<<b, EndOf(b), v>>] = at2[<<s, 1, v>>]
    <3>1. /\ Held(at, b, EndOf(b), v)
          /\ IF y \in DOMAIN new_phi_nodes /\ y[1] = s
             THEN at[<<b, EndOf(b), v>>] = new_phi_nodes[y][b]
             ELSE at[<<b, EndOf(b), v>>] = y
      BY <1>7, <2>2 DEF GoodEdges
    <3>2. /\ Held(at2, b, EndOf(b), v)
          /\ at2[<<b, EndOf(b), v>>] = Subst(sub, at[<<b, EndOf(b), v>>])
      BY <3>1 DEF Held
    <3>3. CASE y \in DOMAIN new_phi_nodes /\ y[1] = s
      <4>1. at2[<<s, 1, v>>] = y  BY <1>3, <2>1, <3>3 DEF Subst
      <4>2. b \in DOMAIN new_phi_nodes[y]  BY <2>2, <3>3 DEF PhiInv
      <4>3. new_phi_nodes'[y][b] = Subst(sub, new_phi_nodes[y][b])
        BY <3>3, <4>2 DEF ReplaceAllUses
      <4> QED  BY <3>1, <3>2, <3>3, <4>1, <4>3
    <3>4. CASE ~(y \in DOMAIN new_phi_nodes /\ y[1] = s)
      <4>1. at2[<<b, EndOf(b), v>>] = at2[<<s, 1, v>>]
        BY <2>1, <3>1, <3>2, <3>4
      <4>2. CASE y \notin DOMAIN sub
        BY <2>1, <3>2, <3>4, <4>1, <4>2 DEF Subst
      <4>3. CASE y \in DOMAIN sub
        <5>1. Avail(Q, y, s, 1)  BY <1>7 DEF Cert, GoodPoint
        <5>2. y \in Written /\ s \in dom[y[1]] /\ (y[1] = s => y[2] < 1)
          BY <1>3, <4>3, <5>1 DEF Avail
        <5>3. y[1] \in Blocks /\ y[2] \in 1..Len(code[y[1]]) /\ y[2] \in Nat
          BY <5>2, WrittenIs
        <5>4. s # y[1]  BY <5>2, <5>3
        <5>5. at2[<<s, 1, v>>] = sub[y] /\ Avail(R, sub[y], y[1], y[2])
          BY <2>1, <4>3 DEF Subst
        <5>6. ASSUME sub[y] # undef PROVE sub[y][1] # s
          <6> DEFINE z == sub[y]
                     c == y[1]
                     j == y[2]
          <6>1. Avail(R, z, c, j) /\ c \in Blocks /\ j \in Nat /\ z # undef
                /\ s \in dom[c] /\ s # c
            BY <5>2, <5>3, <5>4, <5>5, <5>6
          <6> HIDE DEF z, c, j
          <6>2. z[1] # s  BY <6>1, AvailAbove
          <6> QED  BY <6>2 DEF z
        <5>7. undef \notin DOMAIN new_phi_nodes  BY ValueKinds DEF PhiInv
        <5> QED  BY <3>2, <4>1, <5>5, <5>6, <5>7
      <4> QED  BY <4>2, <4>3
    <3> QED  BY <3>3, <3>4
  <2> QED  BY <1>1, <2>2, IrKept DEF GoodEdges, Held
<1>8. R \subseteq Loads'  BY IrKept DEF Cert
<1> QED  BY <1>5, <1>6, <1>7, <1>8

----------------------------------------------------------------------------
(* Execution.                                                              *)

(* Edges stay as long as the phis do.                                      *)
LEMMA EdgesKept ==
    ASSUME UNCHANGED irVars, new_phi_nodes' = new_phi_nodes, NEW at, NEW V, Edges(at, V)
    PROVE  Edges(at, V)'
BY IrKept DEF Edges, GoodEdges, Held

(* And so does what is known behind the renaming.                          *)
LEMMA WholeKept ==
    ASSUME UNCHANGED <<irVars, promoted, allocas, operand, new_phi_nodes>>,
           NEW at, NEW Q, Whole(at, Q)
    PROVE  Whole(at, Q)'
<1>1. UNCHANGED irVars /\ operand' = operand /\ new_phi_nodes' = new_phi_nodes
      /\ promoted' = promoted /\ allocas' = allocas
  OBVIOUS
<1>2. Cert(at, Q)'  BY <1>1, CertKept DEF Whole
<1>3. Edges(at, Var)'  BY <1>1, EdgesKept DEF Whole
<1>4. Q = GoneLoads'  BY <1>1, IrKept DEF Whole, GoneLoads, Gone
<1>5. \A phi \in DOMAIN new_phi_nodes : \A b \in Preds(succ, phi[1]) :
          Avail(Q, new_phi_nodes[phi][b], b, EndOf(b))'
  BY <1>1, AvailKept, IrKept DEF Whole
<1> QED  BY <1>1, <1>2, <1>3, <1>4, <1>5, IrKept DEF Whole

----------------------------------------------------------------------------
(* One statement.                                                          *)
LEMMA ExecuteKeeps ==
    ASSUME GraphInv, ProgInv, PhiInv, IdleInv, NEW at, NEW Q, RunInv(at, Q), Execute
    PROVE  RunInv(at, Q)'
<1> DEFINE p == <<block, index>>
           datum == <<p, IF env[p] = <<p, 0>> THEN 1 ELSE 0>>
           value == IF Stmt(p).from = None THEN datum ELSE mem[Stmt(p).from]
<1>1. /\ mem' = [v \in Var |-> IF v = Stmt(p).to THEN value ELSE mem[v]]
      /\ env' = IF Stmt(p).from \in promoted \cup allocas THEN env
                ELSE [env EXCEPT ![p] = value]
      /\ block' = block /\ index' = index + 1
      /\ UNCHANGED <<irVars, promoted, allocas, operand, new_phi_nodes>>
      /\ index <= Len(code[block])
  BY DEF Execute, fastVars
<1>2. /\ block \in Reachable(succ) /\ index \in 1..Len(code[block]) /\ block \in Blocks
      /\ index \in Nat /\ EndOf(block) \in Nat /\ index + 1 \in 1..EndOf(block)
      /\ p \in Written /\ p[1] = block /\ p[2] = index
      /\ index + 1 > 1 /\ (index + 1) - 1 = index /\ index + 1 \in Nat
  <2>1. block \in Reachable(succ) /\ index \in 1..EndOf(block)  BY DEF RunInv
  <2>2. block \in Blocks  BY <2>1, DomTable, ReachableClosed
  <2>3. Len(code[block]) \in Nat  BY <2>2, WrittenIs
  <2>4. index \in 1..Len(code[block])  BY <1>1, <2>1, <2>3 DEF EndOf
  <2> QED  BY <2>1, <2>2, <2>3, <2>4, WrittenIs DEF EndOf
<1>3. p \in DOMAIN env /\ p # undef
  BY <1>2, ValueKinds DEF IdleInv
<1>4. \A x : x # p => env'[x] = env[x]
  BY <1>1
<1>5. p \notin Q => env'[p] = value
  <2>1. p \notin Q => Stmt(p).from \notin promoted \cup allocas
    BY <1>2 DEF RunInv, Whole, GoneLoads, Gone
  <2> HIDE DEF p, value
  <2> QED  BY <1>1, <1>3, <2>1
<1>6. p \in Q => value = mem[Stmt(p).from]
  BY DEF RunInv, Whole, Cert, Loads
<1> HIDE DEF p, value
<1>7. ASSUME NEW v \in Var, Held(at, block, index + 1, v)
      PROVE  LET x == at[<<block, index + 1, v>>]
             IN  (IF x = undef THEN undef ELSE env'[x]) = mem'[v]
  <2>1. GoodPoint(at, Q, block, index + 1, v)
    BY <1>2, <1>7 DEF RunInv, Whole, Cert
  <2>2. Kept(at, Q, p, v)  BY <1>2, <2>1 DEF GoodPoint, p
  <2>3. CASE Stmt(p).to = v
    <3>1. at[<<block, index + 1, v>>] = operand[p]  BY <1>2, <2>2, <2>3 DEF Kept
    <3>2. mem'[v] = value  BY <1>1, <2>3
    <3>3. CASE p \in Q
      <4>1. /\ Held(at, block, index, Stmt(p).from)
            /\ at[<<block, index, Stmt(p).from>>] = operand[p]
        BY <1>2, <2>2, <2>3, <3>3 DEF Kept
      <4>2. Stmt(p).from \in Var
        BY <3>3, WrittenIs DEF RunInv, Whole, Cert, Loads, Statement
      <4>3. Eval(operand[p]) = mem[Stmt(p).from]  BY <4>1, <4>2 DEF RunInv
      <4>4. env' = env
        BY <1>1, <3>3 DEF RunInv, Whole, GoneLoads, Gone
      <4> QED  BY <1>6, <3>1, <3>2, <3>3, <4>3, <4>4 DEF Eval
    <3>4. CASE p \notin Q
      <4>1. operand[p] = p
        BY <1>2, <3>4 DEF RunInv, Whole, Cert, GoodUses
      <4> QED  BY <1>3, <1>5, <3>1, <3>2, <3>4, <4>1 DEF Eval
    <3> QED  BY <3>3, <3>4
  <2>4. CASE Stmt(p).to # v
    <3> DEFINE x == at[<<block, index, v>>]
    <3>1. Held(at, block, index, v) /\ at[<<block, index + 1, v>>] = x
      BY <1>2, <2>2, <2>4 DEF Kept
    <3>2. mem'[v] = mem[v]  BY <1>1, <2>4
    <3>3. Eval(x) = mem[v]  BY <3>1 DEF RunInv
    <3>4. Avail(Q, x, block, index)
      BY <1>2, <3>1 DEF RunInv, Whole, Cert, GoodPoint
    <3>5. x # p
      <4>1. ASSUME x = p PROVE FALSE
        <5>1. p \notin DOMAIN new_phi_nodes  BY <1>2, ValueKinds DEF PhiInv
        <5>2. p[2] < index  BY <1>2, <1>3, <3>4, <4>1, <5>1 DEF Avail
        <5> QED  BY <1>2, <5>2
      <4> QED  BY <4>1
    <3> QED  BY <1>4, <3>1, <3>2, <3>3, <3>5 DEF Eval
  <2> QED  BY <2>3, <2>4
<1>8. Whole(at, Q)'  BY <1>1, WholeKept DEF RunInv
<1>9. block' \in Reachable(succ)' /\ index' \in 1..EndOf(block)'
  BY <1>1, <1>2, IrKept DEF EndOf
<1>10. \A v \in Var : Held(at, block', index', v) =>
            Eval(at[<<block, index, v>>])' = mem'[v]
  BY <1>1, <1>7 DEF Eval
<1> QED  BY <1>8, <1>9, <1>10 DEF RunInv, Held

(* A branch.                                                               *)
LEMMA BranchKeeps ==
    ASSUME GraphInv, ProgInv, PhiInv, IdleInv, NEW at, NEW Q, RunInv(at, Q), Branch
    PROVE  RunInv(at, Q)'
<1>1. PICK s \in Succs(succ, block) :
         /\ block' = s /\ index' = 1
         /\ env' = [x \in DOMAIN env |->
                IF x \in DOMAIN new_phi_nodes /\ x[1] = s
                THEN Eval(new_phi_nodes[x][block]) ELSE env[x]]
  BY DEF Branch
<1>2. /\ mem' = mem /\ UNCHANGED <<irVars, promoted, allocas, operand, new_phi_nodes>>
      /\ index > Len(code[block])
  BY DEF Branch, fastVars
<1>3. /\ block \in Reachable(succ) /\ block \in Blocks /\ index = EndOf(block)
      /\ s \in Reachable(succ) /\ s \in Blocks
      /\ block \in Preds(succ, s) \cap Reachable(succ)
      /\ EndOf(s) \in Nat /\ 1 \in 1..EndOf(s) /\ EndOf(block) \in Nat
  <2>1. block \in Reachable(succ) /\ index \in 1..EndOf(block)  BY DEF RunInv
  <2>2. block \in Blocks /\ s \in Reachable(succ) /\ s \in Blocks
    BY <2>1, DomTable, ReachableClosed
  <2>3. Len(code[block]) \in Nat /\ Len(code[s]) \in Nat  BY <2>2, WrittenIs
  <2> QED  BY <1>2, <2>1, <2>2, <2>3 DEF EndOf, Preds
<1>4. ASSUME NEW v \in Var, Held(at, s, 1, v)
      PROVE  Eval(at[<<s, 1, v>>])' = mem'[v]
  <2> DEFINE x == at[<<s, 1, v>>]
             y == at[<<block, EndOf(block), v>>]
  <2>1. /\ Held(at, block, EndOf(block), v)
        /\ IF x \in DOMAIN new_phi_nodes /\ x[1] = s
           THEN y = new_phi_nodes[x][block]
           ELSE y = x
    BY <1>3, <1>4 DEF RunInv, Whole, Edges, GoodEdges
  <2>2. Eval(y) = mem[v]  BY <1>3, <2>1 DEF RunInv
  <2>3. Avail(Q, x, s, 1)  BY <1>3, <1>4 DEF RunInv, Whole, Cert, GoodPoint
  <2>4. x = undef \/ x \in DOMAIN env
    BY <2>3, ValueKinds DEF Avail, IdleInv, PhiInv
  <2>5. CASE x \in DOMAIN new_phi_nodes /\ x[1] = s
    <3>1. x # undef  BY <2>5, ValueKinds DEF PhiInv
    <3>2. env'[x] = Eval(y)  BY <1>1, <2>1, <2>4, <2>5, <3>1
    <3> QED  BY <1>2, <2>2, <3>1, <3>2 DEF Eval
  <2>6. CASE ~(x \in DOMAIN new_phi_nodes /\ x[1] = s)
    <3>1. x # undef => env'[x] = env[x]  BY <1>1, <2>4, <2>6
    <3> QED  BY <1>2, <2>1, <2>2, <2>6, <3>1 DEF Eval
  <2> QED  BY <2>5, <2>6
<1>5. Whole(at, Q)'  BY <1>2, WholeKept DEF RunInv
<1> QED  BY <1>1, <1>2, <1>3, <1>4, <1>5, IrKept DEF RunInv, Held

----------------------------------------------------------------------------
(* Every use of a load that is gone holds what the memory would.           *)
LEMMA RunAgrees ==
    ASSUME ProgInv, NEW at, NEW Q, phase = "run" => RunInv(at, Q)
    PROVE  LoadsAgree
<1> DEFINE p == <<block, index>>
<1>1. SUFFICES ASSUME phase = "run", p \in Users, Gone(Stmt(p).from)
               PROVE  Eval(operand[p]) = mem[Stmt(p).from]
  BY DEF LoadsAgree
<1>2. RunInv(at, Q) /\ p \in Q /\ Stmt(p).to \notin promoted /\ p \in Written
  BY <1>1 DEF RunInv, Whole, GoneLoads, Users, Gone
<1>3. Stmt(p).from \in Var
  BY <1>2, WrittenIs DEF RunInv, Whole, Cert, Loads, Statement
<1>4. Held(at, block, index, Stmt(p).from) /\ at[<<block, index, Stmt(p).from>>] = operand[p]
  BY <1>2 DEF RunInv, Whole, Cert, GoodUses
<1> QED  BY <1>2, <1>3, <1>4 DEF RunInv

(* What RunInv says of the uses.                                           *)
LEMMA RunDominated ==
    ASSUME GraphInv, ProgInv, PhiInv, NEW at, NEW Q, phase = "run" => RunInv(at, Q)
    PROVE  UsesAreDominated
<1>1. SUFFICES ASSUME phase = "run" PROVE UsesAreDominated  BY DEF UsesAreDominated
<1>2. Whole(at, Q) /\ Q = GoneLoads  BY <1>1 DEF RunInv, Whole
<1>3. ASSUME NEW x, NEW b, NEW k, Avail(Q, x, b, k), x # undef
      PROVE  /\ Exists(x) /\ b \in dom[x[1]]
             /\ x \in Written => (x[1] = b => x[2] < k)
  <2>1. x \in DOMAIN new_phi_nodes => x \notin Written  BY ValueKinds DEF PhiInv
  <2> QED  BY <1>2, <1>3, <2>1 DEF Avail, Exists, GoneLoads
<1>4. ASSUME NEW p \in Users, operand[p] # undef, operand[p] # p
      PROVE  LET x == operand[p]
             IN  /\ Exists(x)
                 /\ IF x \in Written THEN Dominates(x, p) ELSE p[1] \in dom[x[1]]
  <2>1. p \in Written /\ Stmt(p).to \notin promoted  BY DEF Users, Gone
  <2>2. p \in Q  BY <1>2, <1>4, <2>1 DEF Whole, Cert, GoodUses
  <2>3. /\ Held(at, p[1], p[2], Stmt(p).from)
        /\ at[<<p[1], p[2], Stmt(p).from>>] = operand[p]
    BY <1>2, <2>1, <2>2 DEF Whole, Cert, GoodUses
  <2>4. Stmt(p).from \in Var /\ p[1] \in Blocks /\ p[2] \in Nat
    BY <1>2, <2>1, <2>2, WrittenIs DEF Whole, Cert, Loads, Statement
  <2>5. Avail(Q, operand[p], p[1], p[2])
    BY <1>2, <2>3, <2>4 DEF Whole, Cert, GoodPoint
  <2> QED  BY <1>3, <1>4, <2>5 DEF Dominates
<1>5. ASSUME NEW phi \in DOMAIN new_phi_nodes, NEW b \in DOMAIN new_phi_nodes[phi],
             new_phi_nodes[phi][b] # undef
      PROVE  LET x == new_phi_nodes[phi][b]
             IN  Exists(x) /\ b \in dom[x[1]]
  <2>1. Avail(Q, new_phi_nodes[phi][b], b, EndOf(b))  BY <1>2, <1>5 DEF Whole, PhiInv
  <2> QED  BY <1>3, <1>5, <2>1
<1> QED  BY <1>4, <1>5 DEF UsesAreDominated

----------------------------------------------------------------------------
(* The cleanup of phis.                                                    *)

(* The certificate without what is held by phi.                            *)
Restricted(at, phi) == [pt \in {q \in DOMAIN at : at[q] # phi} |-> at[pt]]

(* A phi that nothing uses holds what is needed nowhere.                   *)
LEMMA DropKeeps ==
    ASSUME GraphInv, ProgInv, PhiInv, NEW at, NEW Q, CleanInv(at, Q),
           NEW phi \in Phis, DropUnused(phi)
    PROVE  CleanInv(Restricted(at, phi), Q)'
<1> DEFINE at2 == Restricted(at, phi)
<1>1. /\ UNCHANGED <<irVars, promoted, allocas, operand, new_phi_nodes>>
      /\ unseen' = unseen \ {phi} /\ phi_to_erase' = phi_to_erase \cup {phi}
      /\ UseEmpty(phi) /\ phi \in unseen
  BY DEF DropUnused, Erase, fastVars
<1>2. /\ DOMAIN at2 = {pt \in DOMAIN at : at[pt] # phi}
      /\ \A pt \in DOMAIN at2 : at2[pt] = at[pt]
  BY DEF Restricted
<1>3. /\ \A p \in Written : Stmt(p).to \notin promoted => operand[p] # phi
      /\ \A other \in DOMAIN new_phi_nodes : phi \notin Incoming(other)
  BY <1>1 DEF UseEmpty
<1>4. Cert(at, Q) /\ Edges(at, Var) /\ Q = GoneLoads  BY DEF CleanInv, Whole
<1> HIDE DEF at2
<1>5. ASSUME NEW b \in Blocks, NEW k \in Nat, NEW v \in Var, Held(at2, b, k, v)
      PROVE  GoodPoint(at2, Q, b, k, v)
  <2>1. /\ Held(at, b, k, v) /\ at2[<<b, k, v>>] = at[<<b, k, v>>]
        /\ at[<<b, k, v>>] # phi
    BY <1>2, <1>5 DEF Held
  <2>2. GoodPoint(at, Q, b, k, v)  BY <1>4, <2>1 DEF Cert
  <2>3. ASSUME k > 1 PROVE Kept(at2, Q, <<b, k - 1>>, v)
    <3> DEFINE p == <<b, k - 1>>
    <3>1. p \in Written /\ p[1] = b /\ p[2] = k - 1 /\ p[2] + 1 = k
      BY <2>2, <2>3, WrittenIs DEF GoodPoint
    <3>2. Kept(at, Q, p, v)  BY <2>2, <2>3 DEF GoodPoint
    <3>3. at2[<<p[1], p[2] + 1, v>>] = at[<<p[1], p[2] + 1, v>>]
          /\ at[<<p[1], p[2] + 1, v>>] # phi
      BY <2>1, <3>1
    <3>4. Kept(at2, Q, p, v)
      <4> HIDE DEF p
      <4>1. CASE Stmt(p).to = v
        <5>1. at2[<<p[1], p[2] + 1, v>>] = operand[p] /\ operand[p] # phi
          BY <3>2, <3>3, <4>1 DEF Kept
        <5>2. p \in Q => /\ Held(at, p[1], p[2], Stmt(p).from)
                         /\ at[<<p[1], p[2], Stmt(p).from>>] = operand[p]
          BY <3>2, <4>1 DEF Kept
        <5>3. p \in Q => /\ Held(at2, p[1], p[2], Stmt(p).from)
                         /\ at2[<<p[1], p[2], Stmt(p).from>>] = operand[p]
          BY <1>2, <5>1, <5>2 DEF Held
        <5> QED  BY <4>1, <5>1, <5>3 DEF Kept
      <4>2. CASE Stmt(p).to # v
        BY <1>2, <3>2, <3>3, <4>2 DEF Kept, Held
      <4> QED  BY <4>1, <4>2
    <3> QED  BY <3>4
  <2> QED  BY <2>1, <2>2, <2>3 DEF GoodPoint
<1>6. GoodUses(at2, Q)
  <2>1. ASSUME NEW p \in Q, Stmt(p).to \notin promoted
        PROVE  /\ Held(at2, p[1], p[2], Stmt(p).from)
               /\ at2[<<p[1], p[2], Stmt(p).from>>] = operand[p]
    <3>1. /\ Held(at, p[1], p[2], Stmt(p).from)
          /\ at[<<p[1], p[2], Stmt(p).from>>] = operand[p]
      BY <1>4, <2>1 DEF Cert, GoodUses
    <3>2. operand[p] # phi  BY <1>3, <1>4, <2>1 DEF Cert, Loads
    <3> QED  BY <1>2, <3>1, <3>2 DEF Held
  <2> QED  BY <1>4, <2>1 DEF Cert, GoodUses
<1>7. Cert(at2, Q)
  BY <1>2, <1>4, <1>5, <1>6 DEF Cert
<1>8. ASSUME NEW s \in Blocks, NEW v \in Var, Held(at2, s, 1, v)
      PROVE  GoodEdges(at2, s, v)
  <2>1. /\ Held(at, s, 1, v) /\ at2[<<s, 1, v>>] = at[<<s, 1, v>>]
        /\ at[<<s, 1, v>>] # phi
    BY <1>2, <1>8 DEF Held
  <2>2. ASSUME NEW b \in Preds(succ, s) \cap Reachable(succ)
        PROVE  /\ Held(at2, b, EndOf(b), v)
               /\ at2[<<b, EndOf(b), v>>] = at[<<b, EndOf(b), v>>]
    <3> DEFINE y == at[<<s, 1, v>>]
    <3>1. /\ Held(at, b, EndOf(b), v)
          /\ IF y \in DOMAIN new_phi_nodes /\ y[1] = s
             THEN at[<<b, EndOf(b), v>>] = new_phi_nodes[y][b]
             ELSE at[<<b, EndOf(b), v>>] = y
      BY <1>4, <2>1, <2>2 DEF Edges, GoodEdges
    <3>2. CASE y \in DOMAIN new_phi_nodes /\ y[1] = s
      <4>1. new_phi_nodes[y][b] \in Incoming(y)
        BY <2>2, <3>2 DEF Incoming, PhiInv
      <4> QED  BY <1>2, <1>3, <3>1, <3>2, <4>1 DEF Held
    <3>3. CASE ~(y \in DOMAIN new_phi_nodes /\ y[1] = s)
      BY <1>2, <2>1, <3>1, <3>3 DEF Held
    <3> QED  BY <3>2, <3>3
  <2>3. GoodEdges(at, s, v)  BY <1>4, <2>1 DEF Edges
  <2> QED  BY <2>1, <2>2, <2>3 DEF GoodEdges
<1>9. Whole(at2, Q)
  BY <1>4, <1>7, <1>8 DEF Whole, Edges, CleanInv
<1>10. Whole(at2, Q)'  BY <1>1, <1>9, WholeKept
<1>11. \A other : Incoming(other)' = Incoming(other)  BY <1>1 DEF Incoming
<1> QED  BY <1>1, <1>2, <1>3, <1>10, <1>11 DEF CleanInv, at2

----------------------------------------------------------------------------
(* What comes into a phi but the phi itself is there before it.            *)
LEMMA CommonIsAbove ==
    ASSUME GraphInv, ProgInv, PhiInv, NEW at, NEW Q, CleanInv(at, Q),
           NEW phi \in DOMAIN new_phi_nodes, NEW c \in Common(phi)
    PROVE  /\ c # phi /\ Avail(Q, c, phi[1], 1)
           /\ c # undef => phi[1] \in dom[c[1]] /\ c[1] # phi[1] /\ c[1] \in Blocks
<1>1. /\ phi \in Phis /\ phi[1] \in Reachable(succ) /\ phi[1] # entry /\ phi[1] \in Blocks
      /\ DOMAIN new_phi_nodes[phi] = Preds(succ, phi[1]) /\ phi # undef
  BY ValueKinds DEF PhiInv
<1>2. c # phi /\ c \in Incoming(phi) /\ \A x \in Incoming(phi) : x = phi \/ x = c
  BY DEF Common
<1>3. ASSUME NEW b \in Preds(succ, phi[1]) PROVE Avail(Q, new_phi_nodes[phi][b], b, EndOf(b))
                                        /\ new_phi_nodes[phi][b] \in {c, phi}
  BY <1>1, <1>2 DEF CleanInv, Whole, Incoming
<1>4. SUFFICES ASSUME c # undef
               PROVE  /\ Avail(Q, c, phi[1], 1)
                      /\ phi[1] \in dom[c[1]] /\ c[1] # phi[1] /\ c[1] \in Blocks
  BY <1>2 DEF Avail
<1>5. PICK a \in Preds(succ, phi[1]) : new_phi_nodes[phi][a] = c
  BY <1>1, <1>2 DEF Incoming
<1>6. c \in DOMAIN new_phi_nodes \/ c \in Written \ Q
  BY <1>3, <1>4, <1>5 DEF Avail
<1>7. c[1] \in Blocks  BY <1>6, WrittenIs DEF PhiInv, Phis
<1>8. \A b \in Preds(succ, phi[1]) : b \in dom[c[1]] \/ b \in dom[phi[1]]
  <2>1. SUFFICES ASSUME NEW b \in Preds(succ, phi[1])
                 PROVE  b \in dom[c[1]] \/ b \in dom[phi[1]]
    OBVIOUS
  <2> DEFINE x == new_phi_nodes[phi][b]
  <2>2. Avail(Q, x, b, EndOf(b)) /\ x \in {c, phi} /\ x # undef  BY <1>1, <1>3, <1>4
  <2> HIDE DEF x
  <2> QED  BY <2>2 DEF Avail
<1>9. phi[1] \in dom[c[1]] /\ phi[1] # c[1]
  BY <1>1, <1>7, <1>8, DomOfPreds
<1> QED  BY <1>6, <1>7, <1>9 DEF Avail

(* A phi that is the same as another value.                                *)
LEMMA SimplifyKeeps ==
    ASSUME GraphInv, ProgInv, PhiInv, PhiInv', NEW at, NEW Q, CleanInv(at, Q),
           NEW phi \in Phis, Simplify(phi)
    PROVE  \E at2 : CleanInv(at2, Q)'
<1>1. PICK c \in Common(phi) : ReplaceAllUses([x \in {phi} |-> c])
  BY DEF Simplify
<1> DEFINE sub == [x \in {phi} |-> c]
           at2 == [pt \in DOMAIN at |-> Subst(sub, at[pt])]
<1>2. /\ UNCHANGED irVars /\ promoted' = promoted /\ allocas' = allocas
      /\ unseen' = unseen \ {phi} /\ phi_to_erase' = phi_to_erase \cup {phi}
      /\ phi \in unseen /\ phi \in DOMAIN new_phi_nodes
  BY DEF Simplify, Erase, fastVars, CleanInv
<1>3. Cert(at, Q) /\ Edges(at, Var) /\ Q = GoneLoads  BY DEF CleanInv, Whole
<1>4. /\ phi \in Phis /\ phi[1] \in Reachable(succ) /\ phi[1] # entry /\ phi[1] \in Blocks
      /\ phi \notin Written /\ phi # undef
  BY <1>2, ValueKinds DEF PhiInv
<1>5. /\ c # phi /\ Avail(Q, c, phi[1], 1)
      /\ c # undef => phi[1] \in dom[c[1]] /\ c[1] # phi[1] /\ c[1] \in Blocks
  BY <1>2, CommonIsAbove
<1>6. /\ \A x : Subst(sub, x) = IF x = phi THEN c ELSE x
      /\ DOMAIN at2 = DOMAIN at /\ \A pt \in DOMAIN at : at2[pt] = Subst(sub, at[pt])
  BY DEF Subst
<1>7. /\ \A p \in Written : operand'[p] = Subst(sub, operand[p])
      /\ DOMAIN new_phi_nodes' = DOMAIN new_phi_nodes
      /\ \A other \in DOMAIN new_phi_nodes : \A b \in Preds(succ, other[1]) :
            new_phi_nodes'[other][b] = Subst(sub, new_phi_nodes[other][b])
  BY <1>1 DEF ReplaceAllUses, PhiInv
<1> HIDE DEF sub, at2
(* What was there is there.                                                *)
<1>8. ASSUME NEW x, NEW b \in Blocks, NEW k \in Nat, k >= 1, Avail(Q, x, b, k)
      PROVE  Avail(Q, Subst(sub, x), b, k)'
  <2>1. CASE x = phi
    <3>1. b \in dom[phi[1]]  BY <1>4, <1>8, <2>1 DEF Avail
    <3>2. Avail(Q, c, b, k)  BY <1>4, <1>5, <1>8, <3>1, AvailOn
    <3> QED  BY <1>2, <1>6, <1>7, <2>1, <3>2, AvailKept
  <2>2. CASE x # phi
    BY <1>2, <1>6, <1>7, <1>8, <2>2, AvailKept
  <2> QED  BY <2>1, <2>2
<1>9. ASSUME NEW b \in Blocks, NEW k \in Nat, NEW v \in Var, Held(at2, b, k, v)
      PROVE  GoodPoint(at2, Q, b, k, v)'
  <2>1. /\ Held(at, b, k, v) /\ at2[<<b, k, v>>] = Subst(sub, at[<<b, k, v>>])
        /\ GoodPoint(at, Q, b, k, v)
    BY <1>3, <1>6, <1>9 DEF Held, Cert
  <2>2. Avail(Q, at2[<<b, k, v>>], b, k)'
    BY <1>8, <2>1 DEF GoodPoint
  <2>3. b = entry /\ k = 1 => at2[<<b, k, v>>] = undef
    BY <1>4, <1>6, <2>1 DEF GoodPoint
  <2>4. ASSUME k > 1 PROVE Kept(at2, Q, <<b, k - 1>>, v)'
    <3> DEFINE p == <<b, k - 1>>
    <3>1. p \in Written /\ p[1] = b /\ p[2] = k - 1 /\ p[2] + 1 = k
      BY <2>1, <2>4, WrittenIs DEF GoodPoint
    <3>2. Kept(at, Q, p, v)  BY <2>1, <2>4 DEF GoodPoint
    <3>3. at2[<<p[1], p[2] + 1, v>>] = Subst(sub, at[<<p[1], p[2] + 1, v>>])
      BY <2>1, <3>1
    <3>4. operand'[p] = Subst(sub, operand[p]) /\ Stmt(p)' = Stmt(p)
      BY <1>2, <1>7, <3>1, IrKept
    <3>5. Kept(at2, Q, p, v)'
      <4> HIDE DEF p
      <4>1. CASE Stmt(p).to = v
        BY <1>6, <3>2, <3>3, <3>4, <4>1 DEF Kept, Held
      <4>2. CASE Stmt(p).to # v
        BY <1>6, <3>2, <3>3, <3>4, <4>2 DEF Kept, Held
      <4> QED  BY <4>1, <4>2
    <3> QED  BY <3>5
  <2> QED  BY <1>2, <2>1, <2>2, <2>3, <2>4, IrKept DEF GoodPoint
<1>10. GoodUses(at2, Q)'
  <2>1. ASSUME NEW p \in Q, Stmt(p).to \notin promoted
        PROVE  /\ Held(at2, p[1], p[2], Stmt(p).from)
               /\ at2[<<p[1], p[2], Stmt(p).from>>] = operand'[p]
    <3>1. /\ Held(at, p[1], p[2], Stmt(p).from)
          /\ at[<<p[1], p[2], Stmt(p).from>>] = operand[p]
      BY <1>3, <2>1 DEF Cert, GoodUses
    <3>2. p \in Written  BY <1>3 DEF Cert, Loads
    <3> QED  BY <1>6, <1>7, <3>1, <3>2 DEF Held
  <2>2. ASSUME NEW p \in Written \ Q PROVE operand'[p] = p
    <3>1. operand[p] = p  BY <1>3 DEF Cert, GoodUses
    <3> QED  BY <1>4, <1>6, <1>7, <3>1
  <2> QED  BY <1>2, <2>1, <2>2, IrKept DEF GoodUses, Held
<1>11. Cert(at2, Q)'
  BY <1>2, <1>3, <1>6, <1>9, <1>10, IrKept DEF Cert, Held, Points
<1>12. ASSUME NEW s \in Blocks, NEW v \in Var, Held(at2, s, 1, v)
       PROVE  GoodEdges(at2, s, v)'
  <2> DEFINE y == at[<<s, 1, v>>]
  <2>1. Held(at, s, 1, v) /\ at2[<<s, 1, v>>] = Subst(sub, y)
    BY <1>6, <1>12 DEF Held
  <2>2. ASSUME NEW b \in Preds(succ, s) \cap Reachable(succ)
        PROVE  /\ Held(at2, b, EndOf(b), v)
               /\ IF at2[<<s, 1, v>>] \in DOMAIN new_phi_nodes /\ at2[<<s, 1, v>>][1] = s
                  THEN at2[<<b, EndOf(b), v>>] = new_phi_nodes'[at2[<<s, 1, v>>]][b]
                  ELSE at2[<<b, EndOf(b), v>>] = at2[<<s, 1, v>>]
    <3>1. /\ Held(at, b, EndOf(b), v)
          /\ IF y \in DOMAIN new_phi_nodes /\ y[1] = s
             THEN at[<<b, EndOf(b), v>>] = new_phi_nodes[y][b]
             ELSE at[<<b, EndOf(b), v>>] = y
      BY <1>3, <2>1, <2>2 DEF Edges, GoodEdges
    <3>2. /\ Held(at2, b, EndOf(b), v)
          /\ at2[<<b, EndOf(b), v>>] = Subst(sub, at[<<b, EndOf(b), v>>])
      BY <1>6, <3>1 DEF Held
    <3>3. undef \notin DOMAIN new_phi_nodes  BY ValueKinds DEF PhiInv
    <3>4. CASE y = phi
      <4>1. at2[<<s, 1, v>>] = c  BY <1>6, <2>1, <3>4
      <4>2. c = undef \/ c[1] # s
        <5>1. s \in dom[phi[1]]
          <6>1. Avail(Q, phi, s, 1)  BY <1>3, <2>1, <3>4 DEF Cert, GoodPoint
          <6> QED  BY <1>4, <6>1 DEF Avail
        <5>2. ASSUME c # undef, c[1] = s PROVE FALSE
          <6>1. phi[1] \in dom[s] /\ s # phi[1]  BY <1>5, <5>2
          <6> QED  BY <1>4, <5>1, <6>1, DomAntisymmetric
        <5> QED  BY <5>2
      <4>3. at2[<<b, EndOf(b), v>>] = c
        <5>1. CASE y[1] = s
          <6>1. new_phi_nodes[phi][b] \in Incoming(phi)
            BY <1>2, <2>2, <3>4, <5>1 DEF Incoming, PhiInv
          <6>2. new_phi_nodes[phi][b] \in {c, phi}  BY <6>1 DEF Common
          <6> QED  BY <1>2, <1>6, <3>1, <3>2, <3>4, <5>1, <6>2
        <5>2. CASE y[1] # s
          BY <1>6, <3>1, <3>2, <3>4, <5>2
        <5> QED  BY <5>1, <5>2
      <4> QED  BY <3>2, <3>3, <4>1, <4>2, <4>3
    <3>5. CASE y # phi /\ y \in DOMAIN new_phi_nodes /\ y[1] = s
      <4>1. at2[<<s, 1, v>>] = y  BY <1>6, <2>1, <3>5
      <4>2. new_phi_nodes'[y][b] = Subst(sub, new_phi_nodes[y][b])
        BY <1>7, <2>2, <3>5
      <4> QED  BY <3>1, <3>2, <3>5, <4>1, <4>2
    <3>6. CASE y # phi /\ ~(y \in DOMAIN new_phi_nodes /\ y[1] = s)
      <4>1. at2[<<s, 1, v>>] = y /\ at2[<<b, EndOf(b), v>>] = y
        BY <1>6, <2>1, <3>1, <3>2, <3>6
      <4> QED  BY <3>2, <3>6, <4>1
    <3> QED  BY <3>4, <3>5, <3>6
  <2> QED  BY <1>2, <1>7, <2>2, IrKept DEF GoodEdges, Held
<1>13. Edges(at2, Var)'  BY <1>12 DEF Edges, Held
<1>14. ASSUME NEW other \in DOMAIN new_phi_nodes, NEW b \in Preds(succ, other[1])
       PROVE  Avail(Q, new_phi_nodes[other][b], b, EndOf(b))'
  <2> DEFINE x == new_phi_nodes[other][b]
             k == EndOf(b)
  <2>1. b \in Blocks /\ k \in Nat /\ k >= 1 /\ k' = k
    BY <1>2, WrittenIs, IrKept DEF EndOf, Preds
  <2>2. Avail(Q, x, b, k)  BY DEF CleanInv, Whole
  <2>3. x' = Subst(sub, x)  BY <1>7
  <2> HIDE DEF x, k
  <2>4. ASSUME NEW y, y = x, NEW j \in Nat, j = k, NEW w, w = Subst(sub, y)
        PROVE  Avail(Q, w, b, j)'
    <3>1. j >= 1 /\ Avail(Q, y, b, j)  BY <2>1, <2>2, <2>4
    <3>2. Avail(Q, Subst(sub, y), b, j)'  BY <1>8, <2>1, <3>1
    <3> QED  BY <2>4, <3>2
  <2>5. Avail(Q, x, b, k)'  BY <2>1, <2>3, <2>4 DEF Avail
  <2> QED  BY <2>5 DEF x, k
<1>15. Whole(at2, Q)'
  <2>1. Q = GoneLoads'  BY <1>2, <1>3, IrKept DEF GoneLoads, Gone
  <2> QED  BY <1>2, <1>7, <1>11, <1>13, <1>14, <2>1, IrKept DEF Whole
<1>16. ASSUME NEW x \in phi_to_erase', NEW other \in DOMAIN new_phi_nodes
       PROVE  x \notin Incoming(other)' /\ \A pt \in DOMAIN at2 : at2[pt] # x
  <2>1. x # c /\ (x # phi => x \notin Incoming(other) /\ \A pt \in DOMAIN at : at[pt] # x)
    BY <1>2, <1>5 DEF CleanInv, Common
  <2>2. ASSUME NEW y, y # x \/ x = phi PROVE Subst(sub, y) # x
    BY <1>6, <2>1, <2>2
  <2>3. \A pt \in DOMAIN at2 : at2[pt] # x  BY <1>6, <2>1, <2>2
  <2>4. ASSUME x \in Incoming(other)' PROVE FALSE
    <3>1. PICK b \in DOMAIN new_phi_nodes'[other] : x = new_phi_nodes'[other][b]
      BY <2>4 DEF Incoming
    <3>2. b \in DOMAIN new_phi_nodes[other] /\ b \in Preds(succ, other[1])
      BY <1>2, <1>7, <3>1, IrKept DEF PhiInv
    <3>3. x = Subst(sub, new_phi_nodes[other][b])  BY <1>7, <3>1, <3>2
    <3> QED  BY <2>1, <2>2, <3>2, <3>3 DEF Incoming
  <2> QED  BY <2>3, <2>4
<1>17. unseen' \subseteq DOMAIN new_phi_nodes'
  BY <1>2, <1>7 DEF CleanInv
<1>18. CleanInv(at2, Q)'
  <2>1. \A x \in phi_to_erase' : \A pt \in DOMAIN at2 : at2[pt] # x
    BY <1>2, <1>16
  <2> QED  BY <1>7, <1>15, <1>16, <1>17, <2>1 DEF CleanInv
<1> QED  BY <1>18

(* Execution starts at the entry, and every variable is undefined.         *)
LEMMA RunStarts ==
    ASSUME GraphInv, ProgInv, UNCHANGED irVars, NEW at, NEW Q, Whole(at, Q)',
           block' = entry, index' = 1, mem' = [v \in Var |-> undef]
    PROVE  RunInv(at, Q)'
<1>1. entry \in Reachable(succ) /\ entry \in Blocks /\ EndOf(entry) \in Nat /\ 1 \in 1..EndOf(entry)
  BY DomTable, ReachableClosed, BlockIds, WrittenIs DEF EndOf
<1>2. ASSUME NEW v \in Var, Held(at, entry, 1, v) PROVE at[<<entry, 1, v>>] = undef
  <2>1. GoodPoint(at, Q, entry, 1, v)'  BY <1>1, <1>2 DEF Whole, Cert, Held
  <2> QED  BY <2>1 DEF GoodPoint
<1>3. block' \in Reachable(succ)' /\ index' \in 1..EndOf(block)'
  BY <1>1, IrKept DEF EndOf
<1>4. \A v \in Var : Held(at, entry, 1, v) =>
            (IF at[<<entry, 1, v>>] = undef THEN undef ELSE env'[at[<<entry, 1, v>>]]) = mem'[v]
  BY <1>2
<1> QED  BY <1>3, <1>4 DEF RunInv, Eval, Held

(* A phi is kept.                                                          *)
LEMMA KeepPhiKeeps ==
    ASSUME NEW at, NEW Q, CleanInv(at, Q), NEW phi \in Phis, KeepPhi(phi)
    PROVE  CleanInv(at, Q)'
<1>1. /\ UNCHANGED <<irVars, promoted, allocas, operand, new_phi_nodes>>
      /\ unseen' = unseen \ {phi} /\ phi_to_erase' = phi_to_erase
  BY DEF KeepPhi, fastVars
<1>2. Whole(at, Q)'  BY <1>1, WholeKept DEF CleanInv
<1>3. \A other : Incoming(other)' = Incoming(other)  BY <1>1 DEF Incoming
<1> QED  BY <1>1, <1>2, <1>3 DEF CleanInv

(* The phis that are erased are used nowhere.                              *)
LEMMA EndRoundKeeps ==
    ASSUME GraphInv, ProgInv, PhiInv, IdleInv, NEW at, NEW Q, CleanInv(at, Q), EndRound
    PROVE  CleanInv(at, Q)' /\ (phase' = "run" => RunInv(at, Q)')
<1> DEFINE alive == DOMAIN new_phi_nodes \ phi_to_erase
<1>1. /\ UNCHANGED <<irVars, promoted, allocas, operand, block, index, mem>>
      /\ new_phi_nodes' = [phi \in alive |-> new_phi_nodes[phi]]
      /\ phi_to_erase' = {} /\ unseen' \subseteq alive
      /\ phase = "cleanup"
  BY DEF EndRound, Changed, fastVars, runVars
<1>2. DOMAIN new_phi_nodes' = alive
      /\ \A phi \in alive : new_phi_nodes'[phi] = new_phi_nodes[phi]
  BY <1>1
<1>3. Cert(at, Q) /\ Edges(at, Var) /\ Q = GoneLoads  BY DEF CleanInv, Whole
<1>4. \A pt \in DOMAIN at : at[pt] \in DOMAIN new_phi_nodes => at[pt] \in alive
  BY DEF CleanInv
<1>5. \A phi \in alive : \A x \in Incoming(phi) : x \in DOMAIN new_phi_nodes => x \in alive
  BY DEF CleanInv
<1>6. Cert(at, Q)'  BY <1>1, <1>2, <1>3, <1>4, CertKept
<1>7. Edges(at, Var)'
  <2>1. ASSUME NEW s \in Blocks, NEW v \in Var, Held(at, s, 1, v)
        PROVE  GoodEdges(at, s, v)'
    <3>1. GoodEdges(at, s, v)  BY <1>3, <2>1 DEF Edges
    <3>2. at[<<s, 1, v>>] \in DOMAIN new_phi_nodes <=> at[<<s, 1, v>>] \in alive
      BY <1>4, <2>1 DEF Held
    <3> HIDE DEF alive
    <3> QED  BY <1>1, <1>2, <3>1, <3>2, IrKept DEF GoodEdges, Held
  <2> QED  BY <2>1 DEF Edges, Held
<1>8. \A phi \in alive : \A b \in Preds(succ, phi[1]) :
          Avail(Q, new_phi_nodes[phi][b], b, EndOf(b))'
  <2>1. SUFFICES ASSUME NEW phi \in alive, NEW b \in Preds(succ, phi[1]),
                        NEW x, x = new_phi_nodes[phi][b], NEW k, k = EndOf(b)
                 PROVE  Avail(Q, x, b, k)'
    BY <1>1, <1>2, IrKept
  <2>2. Avail(Q, x, b, k)  BY <2>1 DEF CleanInv, Whole
  <2>3. x \in Incoming(phi)  BY <2>1 DEF Incoming, PhiInv
  <2> QED  BY <1>1, <1>2, <1>5, <2>2, <2>3, AvailKept
<1>9. Whole(at, Q)'
  <2>1. Q = GoneLoads'  BY <1>1, <1>3, IrKept DEF GoneLoads, Gone
  <2> QED  BY <1>1, <1>2, <1>6, <1>7, <1>8, <2>1, IrKept DEF Whole
<1>10. CleanInv(at, Q)'
  BY <1>1, <1>2, <1>9 DEF CleanInv
<1>11. ASSUME phase' = "run" PROVE RunInv(at, Q)'
  <2>1. block' = entry /\ index' = 1 /\ mem' = [v \in Var |-> undef]
    BY <1>1 DEF IdleInv
  <2> QED  BY <1>1, <1>9, <2>1, RunStarts
<1> QED  BY <1>10, <1>11

----------------------------------------------------------------------------
(* The fast path of a single store.                                        *)

(* new is what is known of v once its loads have been replaced by sub.     *)
PointOf(new, v, sub, R, b, k) ==
    /\ b \in Reachable(succ) /\ k \in 1..EndOf(b)
    /\ Avail(R, new[<<b, k, v>>], b, k)
    /\ b = entry /\ k = 1 => new[<<b, k, v>>] = undef
    /\ k > 1 => IF Stmt(<<b, k - 1>>).to = v
                THEN new[<<b, k, v>>] = Subst(sub, operand[<<b, k - 1>>])
                ELSE /\ <<b, k - 1, v>> \in DOMAIN new
                     /\ new[<<b, k, v>>] = new[<<b, k - 1, v>>]

(* At the edges,                                                           *)
EdgeOf(new, v, s) == \A b \in Preds(succ, s) \cap Reachable(succ) :
    /\ <<b, EndOf(b), v>> \in DOMAIN new
    /\ new[<<b, EndOf(b), v>>] = new[<<s, 1, v>>]

(* and altogether.                                                         *)
Entries(new, v, sub, R) ==
    /\ DOMAIN new \subseteq {<<b, k, v>> : b \in Blocks, k \in Nat}
    /\ \A x \in LoadsOf(v) : <<x[1], x[2], v>> \in DOMAIN new /\ new[<<x[1], x[2], v>>] = sub[x]
    /\ \A b \in Blocks, k \in Nat : <<b, k, v>> \in DOMAIN new => PointOf(new, v, sub, R, b, k)
    /\ \A s \in Blocks : <<s, 1, v>> \in DOMAIN new => EdgeOf(new, v, s)

(* The same, to be cited.                                                  *)
LEMMA EntriesAre ==
    ASSUME NEW v, NEW sub, NEW R, NEW new, Entries(new, v, sub, R)
    PROVE  /\ DOMAIN new \subseteq {<<b, k, v>> : b \in Blocks, k \in Nat}
           /\ \A x \in LoadsOf(v) :
                 <<x[1], x[2], v>> \in DOMAIN new /\ new[<<x[1], x[2], v>>] = sub[x]
           /\ \A b \in Blocks, k \in Nat :
                 <<b, k, v>> \in DOMAIN new => PointOf(new, v, sub, R, b, k)
           /\ \A s \in Blocks : <<s, 1, v>> \in DOMAIN new => EdgeOf(new, v, s)
BY DEF Entries

(* A variable is promoted.                                                 *)
LEMMA FastPromotes ==
    ASSUME GraphInv, ProgInv, PhiInv, NEW at, NEW Q, FastInv(at, Q),
           DOMAIN new_phi_nodes = {}, UNCHANGED irVars,
           NEW v \in Var, v \notin promoted, promoted' = promoted \cup {v}, promoted \subseteq Var,
           NEW sub, DOMAIN sub = LoadsOf(v), ReplaceAllUses(sub),
           NEW R, R = Q \cup LoadsOf(v), NEW new, Entries(new, v, sub, R)
    PROVE  \E at2 : FastInv(at2, R)'
<1> DEFINE at2 == [pt \in DOMAIN at \cup DOMAIN new |->
                      IF pt \in DOMAIN new THEN new[pt] ELSE Subst(sub, at[pt])]
<1> HIDE DEF at2
<1>0a. DOMAIN new \subseteq {<<b, k, v>> : b \in Blocks, k \in Nat}
  BY EntriesAre
<1>0b. \A x \in LoadsOf(v) : <<x[1], x[2], v>> \in DOMAIN new /\ new[<<x[1], x[2], v>>] = sub[x]
  BY EntriesAre
<1>0c. \A b \in Blocks, k \in Nat :
          <<b, k, v>> \in DOMAIN new => PointOf(new, v, sub, R, b, k)
  BY EntriesAre
<1>0d. \A s \in Blocks : <<s, 1, v>> \in DOMAIN new => EdgeOf(new, v, s)
  BY EntriesAre
<1>1. /\ Cert(at, Q) /\ Q = FastLoads /\ Edges(at, promoted)
      /\ \A b \in Blocks, k \in Nat, u \in Var : Held(at, b, k, u) =>
            u \in promoted /\ at[<<b, k, u>>] \notin Phis
      /\ DOMAIN at \subseteq Points
  BY DEF FastInv, Cert
<1>2. DOMAIN at \cap DOMAIN new = {}
  <2>1. ASSUME NEW pt \in DOMAIN at, pt \in DOMAIN new PROVE FALSE
    <3>1. PICK b \in Blocks, k \in Nat : pt = <<b, k, v>>  BY <1>0a, <2>1
    <3> QED  BY <1>1, <2>1, <3>1 DEF Held
  <2> QED  BY <2>1
<1>3. /\ DOMAIN at2 = DOMAIN at \cup DOMAIN new
      /\ \A pt \in DOMAIN at : at2[pt] = Subst(sub, at[pt])
      /\ \A pt \in DOMAIN new : at2[pt] = new[pt]
  BY <1>2 DEF at2
<1>4. DOMAIN at2 \subseteq Points
  <2>1. DOMAIN new \subseteq Points  BY <1>0a DEF Points
  <2> QED  BY <1>1, <1>3, <2>1
<1>5. \A b \in Blocks, k \in Nat : Held(at2, b, k, v) <=> <<b, k, v>> \in DOMAIN new
  BY <1>1, <1>3 DEF Held
<1>6. \A b \in Blocks, k \in Nat, u \in Var : u # v => (Held(at2, b, k, u) <=> Held(at, b, k, u))
  <2>1. SUFFICES ASSUME NEW b \in Blocks, NEW k \in Nat, NEW u \in Var, u # v,
                        <<b, k, u>> \in DOMAIN new
                 PROVE  FALSE
    BY <1>3 DEF Held
  <2> QED  BY <1>0a, <2>1
<1>7. v # None /\ LoadsOf(v) \subseteq Loads \ Q /\ LoadsOf(v) \subseteq Written
  BY <1>1, VarAssumption DEF LoadsOf, Loads, FastLoads
<1>8. \A x \in LoadsOf(v) : /\ Held(at2, x[1], x[2], Stmt(x).from)
                            /\ at2[<<x[1], x[2], Stmt(x).from>>] = sub[x]
                            /\ Avail(R, sub[x], x[1], x[2])
  <2>1. SUFFICES ASSUME NEW x \in LoadsOf(v)
                 PROVE  /\ Held(at2, x[1], x[2], Stmt(x).from)
                        /\ at2[<<x[1], x[2], Stmt(x).from>>] = sub[x]
                        /\ Avail(R, sub[x], x[1], x[2])
    OBVIOUS
  <2>2. Stmt(x).from = v /\ x[1] \in Blocks /\ x[2] \in Nat
    BY <1>7, WrittenIs DEF LoadsOf
  <2>3. <<x[1], x[2], v>> \in DOMAIN new /\ new[<<x[1], x[2], v>>] = sub[x]  BY <1>0b
  <2>4. Avail(R, sub[x], x[1], x[2])  BY <1>0c, <2>2, <2>3 DEF PointOf
  <2> QED  BY <1>3, <2>2, <2>3, <2>4 DEF Held
<1>9. /\ \A b \in Blocks, k \in Nat, u \in Var :
            Held(at, b, k, u) => GoodPoint(at2, R, b, k, u)'
      /\ GoodUses(at2, R)' /\ R \subseteq Loads'
      /\ \A s \in Blocks, u \in Var :
            Held(at, s, 1, u) /\ GoodEdges(at, s, u) => GoodEdges(at2, s, u)'
  <2>1. /\ DOMAIN sub \subseteq Loads \ Q /\ R = Q \cup DOMAIN sub
        /\ promoted \subseteq promoted' /\ DOMAIN at \subseteq DOMAIN at2
    BY <1>3, <1>7
  <2>2. \A x \in DOMAIN sub : /\ Held(at2, x[1], x[2], Stmt(x).from)
                              /\ at2[<<x[1], x[2], Stmt(x).from>>] = sub[x]
                              /\ Avail(R, sub[x], x[1], x[2])
    BY <1>8
  <2> QED  BY <1>1, <1>3, <1>4, <2>1, <2>2, Substituted
<1>10. ASSUME NEW b \in Blocks, NEW k \in Nat, Held(at2, b, k, v)
       PROVE  GoodPoint(at2, R, b, k, v)'
  <2>0. <<b, k, v>> \in DOMAIN new /\ PointOf(new, v, sub, R, b, k)
    BY <1>0c, <1>5, <1>10
  <2>1. /\ <<b, k, v>> \in DOMAIN new /\ at2[<<b, k, v>>] = new[<<b, k, v>>]
        /\ b \in Reachable(succ) /\ k \in 1..EndOf(b)
        /\ Avail(R, at2[<<b, k, v>>], b, k)
        /\ b = entry /\ k = 1 => at2[<<b, k, v>>] = undef
    BY <1>3, <2>0 DEF PointOf
  <2>2. Avail(R, at2[<<b, k, v>>], b, k)'  BY <2>1, AvailKept DEF ReplaceAllUses
  <2>3. ASSUME k > 1 PROVE Kept(at2, R, <<b, k - 1>>, v)'
    <3> DEFINE p == <<b, k - 1>>
    <3>1. p \in Written /\ p[1] = b /\ p[2] = k - 1 /\ p[2] + 1 = k /\ k - 1 \in Nat
      BY <2>1, <2>3, WrittenIs DEF EndOf
    <3>2. operand'[p] = Subst(sub, operand[p]) /\ Stmt(p)' = Stmt(p)
      BY <3>1, IrKept DEF ReplaceAllUses
    <3>3. CASE Stmt(p).to = v
      <4>1. at2[<<p[1], p[2] + 1, v>>] = operand'[p]
        BY <2>0, <2>1, <2>3, <3>1, <3>2, <3>3 DEF PointOf
      <4>2. ASSUME p \in Q
            PROVE  /\ Held(at2, p[1], p[2], Stmt(p).from)
                   /\ at2[<<p[1], p[2], Stmt(p).from>>] = operand'[p]
        <5>1. /\ Held(at, p[1], p[2], Stmt(p).from)
              /\ at[<<p[1], p[2], Stmt(p).from>>] = operand[p]
          BY <1>1, <3>3, <4>2 DEF Cert, GoodUses
        <5> QED  BY <1>3, <3>2, <5>1 DEF Held
      <4>3. ASSUME p \in LoadsOf(v)
            PROVE  /\ Held(at2, p[1], p[2], Stmt(p).from)
                   /\ at2[<<p[1], p[2], Stmt(p).from>>] = operand'[p]
        <5>1. operand[p] = p  BY <1>1, <1>7, <4>3 DEF Cert, GoodUses
        <5>2. operand'[p] = sub[p]  BY <3>2, <4>3, <5>1 DEF Subst
        <5> QED  BY <1>8, <4>3, <5>2
      <4>4. Kept(at2, R, p, v)'
        <5> HIDE DEF p
        <5> QED  BY <3>2, <3>3, <4>1, <4>2, <4>3 DEF Kept, Held
      <4> QED  BY <4>4
    <3>4. CASE Stmt(p).to # v
      <4>1. Held(at2, p[1], p[2], v) /\ at2[<<p[1], p[2] + 1, v>>] = at2[<<p[1], p[2], v>>]
        <5>1. <<b, k - 1, v>> \in DOMAIN new /\ new[<<b, k, v>>] = new[<<b, k - 1, v>>]
          BY <2>0, <2>3, <3>4 DEF PointOf
        <5> QED  BY <1>3, <2>1, <3>1, <5>1 DEF Held
      <4>2. Kept(at2, R, p, v)'
        <5> HIDE DEF p
        <5> QED  BY <3>2, <3>4, <4>1 DEF Kept, Held
      <4> QED  BY <4>2
    <3> QED  BY <3>3, <3>4
  <2> QED  BY <2>1, <2>2, <2>3, IrKept DEF GoodPoint, EndOf
<1>11. Cert(at2, R)'
  <2>1. ASSUME NEW b \in Blocks, NEW k \in Nat, NEW u \in Var, Held(at2, b, k, u)
        PROVE  GoodPoint(at2, R, b, k, u)'
    BY <1>6, <1>9, <1>10, <2>1
  <2> QED  BY <1>4, <1>9, <2>1 DEF Cert, Held, Points
<1>12. Edges(at2, promoted)'
  <2>1. ASSUME NEW s \in Blocks, NEW u \in promoted, Held(at2, s, 1, u)
        PROVE  GoodEdges(at2, s, u)'
    <3>1. u # v /\ u \in Var  OBVIOUS
    <3> QED  BY <1>1, <1>6, <1>9, <2>1, <3>1 DEF Edges
  <2>2. ASSUME NEW s \in Blocks, Held(at2, s, 1, v) PROVE GoodEdges(at2, s, v)'
    <3>1. <<s, 1, v>> \in DOMAIN new  BY <1>5, <2>2
    <3>2. \A b \in Preds(succ, s) \cap Reachable(succ) :
             Held(at2, b, EndOf(b), v) /\ at2[<<b, EndOf(b), v>>] = at2[<<s, 1, v>>]
      BY <1>0d, <1>3, <3>1 DEF Held, EdgeOf
    <3>3. DOMAIN new_phi_nodes' = {}  BY DEF ReplaceAllUses
    <3> QED  BY <3>2, <3>3, IrKept DEF GoodEdges, Held
  <2> QED  BY <2>1, <2>2 DEF Edges, Held
<1>13. R = FastLoads'
  BY <1>1, IrKept DEF FastLoads, LoadsOf
<1>14. \A b \in Blocks, k \in Nat, u \in Var : Held(at2, b, k, u) =>
          u \in promoted' /\ at2[<<b, k, u>>] \notin Phis
  <2>1. SUFFICES ASSUME NEW b \in Blocks, NEW k \in Nat, NEW u \in Var, Held(at2, b, k, u)
                 PROVE  u \in promoted' /\ at2[<<b, k, u>>] \notin Phis
    OBVIOUS
  <2>2. u \in promoted'  BY <1>1, <1>6, <2>1
  <2>3. Avail(R, at2[<<b, k, u>>], b, k)'  BY <1>11, <2>1 DEF Cert, GoodPoint, Held
  <2>4. DOMAIN new_phi_nodes' = {}  BY DEF ReplaceAllUses
  <2> QED  BY <2>2, <2>3, <2>4, ValueKinds, IrKept DEF Avail
<1>15. FastInv(at2, R)'
  <2>1. DOMAIN new_phi_nodes' = {}  BY DEF ReplaceAllUses
  <2> QED  BY <1>11, <1>12, <1>13, <1>14, <2>1 DEF FastInv, Held
<1> QED  BY <1>15

----------------------------------------------------------------------------
(* The value of the only store, wherever the store dominates.              *)
LEMMA SingleStoreKeeps ==
    ASSUME GraphInv, ProgInv, PhiInv, SortInv, IdleInv, NEW at, NEW Q, FastInv(at, Q),
           NEW v \in Var, PromoteSingleStore(v)
    PROVE  \E at2, R : FastInv(at2, R)'
<1>1. PICK st \in OnlyStore(v) :
            ReplaceAllUses([load \in LoadsOf(v) |->
                IF Dominates(st, load) THEN operand[st] ELSE undef])
  BY DEF PromoteSingleStore
<1> DEFINE Behind(b, k) == b \in dom[st[1]] /\ (st[1] = b => st[2] < k)
           There == {<<b, k, v>> : b \in Blocks, k \in Nat} \cap
                    {pt \in Blocks \X Nat \X Var :
                        pt[2] \in 1..EndOf(pt[1]) /\ Behind(pt[1], pt[2])}
<1>1a. PICK sub : sub = [load \in LoadsOf(v) |->
                         IF Dominates(st, load) THEN operand[st] ELSE undef]
  OBVIOUS
<1>1b. PICK w : w = operand[st]  OBVIOUS
<1>1c. PICK R : R = Q \cup LoadsOf(v)  OBVIOUS
<1>1d. PICK new : new = [pt \in There |-> w]
  <2> HIDE DEF There
  <2> QED  OBVIOUS
<1>2. /\ phase = "fast" /\ v \in candidates /\ v \notin promoted
      /\ UNCHANGED irVars /\ promoted' = promoted \cup {v} /\ promoted \subseteq Var
      /\ DOMAIN new_phi_nodes = {}
  BY DEF PromoteSingleStore, Promoted, SortInv, IdleInv
<1>3. StoresTo(v) = {st} /\ st \in Written /\ Stmt(st).to = v
  BY DEF OnlyStore, StoresTo
<1>4. st[1] \in Blocks /\ st[2] \in Nat /\ st = <<st[1], st[2]>> /\ st[2] \in 1..Len(code[st[1]])
      /\ Len(code[st[1]]) \in Nat
  BY <1>3, WrittenIs
<1>5. Cert(at, Q) /\ Q = FastLoads  BY DEF FastInv
<1>6. /\ DOMAIN sub = LoadsOf(v) /\ ReplaceAllUses(sub)
      /\ \A b, k : <<b, k, v>> \in DOMAIN new <=>
            b \in Blocks /\ k \in Nat /\ k \in 1..EndOf(b) /\ Behind(b, k)
      /\ \A pt \in DOMAIN new : new[pt] = w
      /\ DOMAIN new \subseteq {<<b, k, v>> : b \in Blocks, k \in Nat}
  BY <1>1, <1>1a, <1>1d
<1>7. \A x \in LoadsOf(v) : sub[x] = w /\ Behind(x[1], x[2]) /\ x[1] \in Reachable(succ)
  <2>1. SUFFICES ASSUME NEW x \in LoadsOf(v)
                 PROVE  sub[x] = w /\ Behind(x[1], x[2]) /\ x[1] \in Reachable(succ)
    OBVIOUS
  <2>2. Dominates(st, x) /\ x[1] \in Reachable(succ)  BY <1>3 DEF ProgInv
  <2>3. Behind(x[1], x[2])  BY <1>4, <2>2, DomReflexive DEF Dominates
  <2> QED  BY <1>1a, <1>1b, <2>2, <2>3
<1>8. st \notin LoadsOf(v)  BY <1>4, <1>7
<1>9. ASSUME NEW b \in Blocks, NEW k \in Nat, Behind(b, k)
      PROVE  Avail(R, w, b, k) /\ w \notin LoadsOf(v) /\ st[1] \in Reachable(succ)
             /\ b \in Reachable(succ)
  <2>1. st[1] \in Reachable(succ) /\ b \in Reachable(succ)  BY <1>4, <1>9, DomReachable
  <2>2. CASE st \in Q
    <3>1. /\ Held(at, st[1], st[2], Stmt(st).from)
          /\ at[<<st[1], st[2], Stmt(st).from>>] = w
      BY <1>1b, <1>2, <1>3, <1>5, <2>2 DEF Cert, GoodUses
    <3>2. Stmt(st).from \in Var
      BY <1>3, <1>5, <2>2, WrittenIs DEF Cert, Loads, Statement
    <3>3. Avail(Q, w, st[1], st[2])  BY <1>4, <1>5, <3>1, <3>2 DEF Cert, GoodPoint
    <3>4. w \notin LoadsOf(v)
      <4>1. SUFFICES ASSUME w \in LoadsOf(v) PROVE FALSE  OBVIOUS
      <4>2. w \in Written /\ w # undef  BY <4>1, ValueKinds DEF LoadsOf
      <4>3. st[1] \in dom[w[1]] /\ (w[1] = st[1] => w[2] < st[2])
        BY <1>2, <3>3, <4>2 DEF Avail
      <4>4. w[1] \in dom[st[1]] /\ (st[1] = w[1] => st[2] < w[2])  BY <1>7, <4>1
      <4>5. w[1] \in Blocks /\ w[2] \in Nat  BY <4>2, WrittenIs
      <4>6. w[1] = st[1]  BY <1>4, <4>3, <4>4, <4>5, DomAntisymmetric
      <4> QED  BY <1>4, <4>3, <4>4, <4>5, <4>6
    <3>5. Avail(R, w, st[1], st[2])  BY <1>1c, <3>3, <3>4 DEF Avail
    <3>6. b = st[1] => st[2] <= k  BY <1>4, <1>9
    <3>7. Avail(R, w, b, k)  BY <1>4, <1>9, <3>5, <3>6, AvailOn
    <3> QED  BY <2>1, <3>4, <3>7
  <2>3. CASE st \notin Q
    <3>1. w = st  BY <1>1b, <1>3, <1>5, <2>3 DEF Cert, GoodUses
    <3> QED  BY <1>1c, <1>3, <1>8, <1>9, <2>1, <2>3, <3>1 DEF Avail
  <2> QED  BY <2>2, <2>3
<1>10. \A x \in LoadsOf(v) : /\ <<x[1], x[2], v>> \in DOMAIN new
                             /\ new[<<x[1], x[2], v>>] = sub[x]
  <2>1. \A x \in LoadsOf(v) : x[1] \in Blocks /\ x[2] \in Nat /\ x[2] \in 1..EndOf(x[1])
    BY WrittenIs DEF LoadsOf, EndOf
  <2> QED  BY <1>6, <1>7, <2>1
<1>11. ASSUME NEW b \in Blocks, NEW k \in Nat, <<b, k, v>> \in DOMAIN new
       PROVE  PointOf(new, v, sub, R, b, k)
  <2>1. k \in 1..EndOf(b) /\ Behind(b, k) /\ new[<<b, k, v>>] = w  BY <1>6, <1>11
  <2>2. Avail(R, w, b, k) /\ w \notin LoadsOf(v) /\ st[1] \in Reachable(succ)
        /\ b \in Reachable(succ)
    BY <1>9, <2>1
  <2>3. ~(b = entry /\ k = 1)
    <3>1. SUFFICES ASSUME b = entry, k = 1 PROVE FALSE  OBVIOUS
    <3>2. st[1] \in dom[entry] /\ entry \in dom[st[1]]  BY <2>1, <2>2, <3>1, DomReflexive
    <3>3. st[1] = entry  BY <1>4, <3>2, BlockIds, DomAntisymmetric
    <3> QED  BY <1>4, <2>1, <3>1, <3>3
  <2>4. ASSUME k > 1, Stmt(<<b, k - 1>>).to = v
        PROVE  w = Subst(sub, operand[<<b, k - 1>>])
    <3>1. <<b, k - 1>> \in Written  BY <2>1, <2>4, WrittenIs DEF EndOf
    <3>2. <<b, k - 1>> = st  BY <1>3, <2>4, <3>1 DEF StoresTo
    <3> QED  BY <1>1b, <1>6, <2>2, <3>2 DEF Subst
  <2>5. ASSUME k > 1, Stmt(<<b, k - 1>>).to # v
        PROVE  <<b, k - 1, v>> \in DOMAIN new /\ new[<<b, k - 1, v>>] = w
    <3>1. st[1] = b => st[2] # k - 1  BY <1>3, <1>4, <2>5
    <3>2. Behind(b, k - 1) /\ k - 1 \in Nat /\ k - 1 \in 1..EndOf(b)
      BY <1>4, <2>1, <2>5, <3>1, WrittenIs DEF EndOf
    <3> QED  BY <1>6, <3>2
  <2> QED  BY <2>1, <2>2, <2>3, <2>4, <2>5 DEF PointOf
<1>12. ASSUME NEW s \in Blocks, <<s, 1, v>> \in DOMAIN new,
              NEW b \in Preds(succ, s) \cap Reachable(succ)
       PROVE  /\ <<b, EndOf(b), v>> \in DOMAIN new
              /\ new[<<b, EndOf(b), v>>] = new[<<s, 1, v>>]
  <2>1. Behind(s, 1)  BY <1>6, <1>12
  <2>2. s # st[1]  BY <1>4, <2>1
  <2>3. b \in Blocks /\ b \in dom[st[1]]
    BY <1>4, <2>1, <2>2, DomPreds, DomTable, ReachableClosed
  <2>4. EndOf(b) \in Nat /\ EndOf(b) \in 1..EndOf(b) /\ (st[1] = b => st[2] < EndOf(b))
    BY <1>4, <2>3, WrittenIs DEF EndOf
  <2> QED  BY <1>6, <1>12, <2>3, <2>4
<1>13. \E at2 : FastInv(at2, R)'
  <2>1. Entries(new, v, sub, R)
    BY <1>6, <1>10, <1>11, <1>12 DEF Entries, EdgeOf
  <2> QED  BY <1>1c, <1>2, <1>6, <2>1, FastPromotes
<1> QED  BY <1>13

----------------------------------------------------------------------------
(* The fast path of a single block.                                        *)

(* A set of numbers has a least one.                                       *)
LEMMA LeastOf ==
    ASSUME NEW M \in Nat, NEW T \in SUBSET (0..M), T # {}
    PROVE  \E i \in T : \A j \in T : i <= j
<1> DEFINE U == {0..i : i \in T}
<1>1. IsFiniteSet(0..M)  BY FS_Interval
<1>2. U \subseteq SUBSET (0..M) /\ U # {}
  <2>1. \A i \in T : 0..i \in SUBSET (0..M)  OBVIOUS
  <2> QED  BY <2>1
<1>3. PICK u \in U : \A w \in U : w \subseteq u => w = u
  <2> DEFINE S == 0..M
  <2>1. IsFiniteSet(S) /\ U \subseteq SUBSET S /\ U # {}  BY <1>1, <1>2
  <2> HIDE DEF U, S
  <2> QED  BY <2>1, SmallestSet
<1>4. PICK i \in T : u = 0..i  BY <1>3
<1>5. ASSUME NEW j \in T, j < i PROVE FALSE
  <2>1. 0..j \in U /\ 0..j \subseteq 0..i /\ i \in 0..i /\ i \notin 0..j
    BY <1>5
  <2> QED  BY <1>3, <1>4, <2>1
<1> QED  BY <1>5

(* What goes back to a smaller argument is a function.                     *)
GoesBack(M, B, val, back) ==
    /\ DOMAIN val = 0..M /\ DOMAIN back = 0..M
    /\ 0 \in B
    /\ \A k \in 0..M : k \notin B => back[k] \in 0..(k - 1)

(* Such a recursion defines a function.                                    *)
LEMMA RecursionExists ==
    ASSUME NEW M \in Nat, NEW B, NEW val, NEW back, GoesBack(M, B, val, back)
    PROVE  \E g : g = [k \in 0..M |-> IF k \in B THEN val[k] ELSE g[back[k]]]
<1> DEFINE To(n) == \E g : g = [k \in 0..n |-> IF k \in B THEN val[k] ELSE g[back[k]]]
           T == {n \in 0..M : ~To(n)}
<1>0. /\ DOMAIN val = 0..M /\ DOMAIN back = 0..M /\ 0 \in B
      /\ \A k \in 0..M : k \notin B => back[k] \in 0..(k - 1)
  BY DEF GoesBack
<1>1. SUFFICES ASSUME T # {} PROVE FALSE  OBVIOUS
<1>2. PICK n \in T : \A m \in T : n <= m
  <2> HIDE DEF T
  <2>1. T \in SUBSET (0..M)  BY DEF T
  <2> QED  BY <1>1, <2>1, LeastOf
<1>3. To(0)
  <2> DEFINE g == [k \in 0..0 |-> val[k]]
  <2>1. g = [k \in 0..0 |-> IF k \in B THEN val[k] ELSE g[back[k]]]  BY <1>0
  <2> HIDE DEF g
  <2> QED  BY <2>1
<1>4. n \in 1..M /\ n - 1 \in 0..M /\ To(n - 1)
  <2>1. n # 0  BY <1>2, <1>3
  <2>2. n \in 1..M /\ n - 1 \in 0..M /\ n - 1 < n  BY <2>1
  <2> HIDE DEF To
  <2> QED  BY <1>2, <2>2
<1>5. PICK f : f = [k \in 0..(n - 1) |-> IF k \in B THEN val[k] ELSE f[back[k]]]
  BY <1>4
<1> DEFINE g == [k \in 0..n |-> IF k = n THEN IF n \in B THEN val[n] ELSE f[back[n]] ELSE f[k]]
<1>6. \A k \in 0..(n - 1) : g[k] = f[k]  BY <1>4
<1>7. ASSUME NEW k \in 0..n PROVE g[k] = IF k \in B THEN val[k] ELSE g[back[k]]
  <2>0. k \notin B => back[k] \in 0..(k - 1)  BY <1>0, <1>4
  <2>1. CASE k = n
    <3>1. g[n] = IF n \in B THEN val[n] ELSE f[back[n]]  BY <1>4
    <3> HIDE DEF g
    <3> QED  BY <1>6, <2>0, <2>1, <3>1
  <2>2. CASE k # n
    <3>1. k \in 0..(n - 1) /\ g[k] = f[k]  BY <1>4, <1>6, <2>2
    <3>2. f[k] = IF k \in B THEN val[k] ELSE f[back[k]]  BY <1>5, <3>1
    <3>3. k \notin B => back[k] \in 0..(n - 1)  BY <2>0, <3>1, <1>4
    <3> HIDE DEF g
    <3> QED  BY <1>6, <3>1, <3>2, <3>3
  <2> QED  BY <2>1, <2>2
<1>8. g = [k \in 0..n |-> IF k \in B THEN val[k] ELSE g[back[k]]]
  <2>1. g = [k \in 0..n |-> g[k]]  OBVIOUS
  <2> HIDE DEF g
  <2> QED  BY <1>7, <2>1
<1>9. To(n)
  <2> HIDE DEF g
  <2> QED  BY <1>8
<1> QED  BY <1>2, <1>9

(* The last value stored to v, where the loads of v that are stored to it  *)
(* are in front of their stores.                                           *)
LEMMA CurValIs ==
    ASSUME NEW v, NEW b,
           \A k \in 0..MaxBlock : <<b, k>> \in StoresTo(v) /\ operand[<<b, k>>] \in LoadsOf(v) =>
              operand[<<b, k>>][2] - 1 \in 0..(k - 1)
    PROVE  CurVal(v, b) = [k \in 0..MaxBlock |->
              IF k = 0 THEN undef
              ELSE IF <<b, k>> \notin StoresTo(v) THEN CurVal(v, b)[k - 1]
              ELSE IF operand[<<b, k>>] \in LoadsOf(v)
                   THEN CurVal(v, b)[operand[<<b, k>>][2] - 1]
              ELSE operand[<<b, k>>]]
<1> DEFINE Is(g) == g = [k \in 0..MaxBlock |->
              IF k = 0 THEN undef
              ELSE IF <<b, k>> \notin StoresTo(v) THEN g[k - 1]
              ELSE IF operand[<<b, k>>] \in LoadsOf(v)
                   THEN g[operand[<<b, k>>][2] - 1]
              ELSE operand[<<b, k>>]]
           B == {0} \cup {k \in 0..MaxBlock : /\ <<b, k>> \in StoresTo(v)
                                              /\ operand[<<b, k>>] \notin LoadsOf(v)}
           val == [k \in 0..MaxBlock |-> IF k = 0 THEN undef ELSE operand[<<b, k>>]]
           back == [k \in 0..MaxBlock |-> IF <<b, k>> \notin StoresTo(v) THEN k - 1
                                          ELSE operand[<<b, k>>][2] - 1]
<1>1. MaxBlock \in Nat  BY ValueKinds
<1>2. \A k \in 0..MaxBlock : k \notin B => back[k] \in 0..(k - 1)
  BY <1>1
<1>3. PICK g : g = [k \in 0..MaxBlock |-> IF k \in B THEN val[k] ELSE g[back[k]]]
  <2>1. PICK BB, vals, backs : BB = B /\ vals = val /\ backs = back  OBVIOUS
  <2>2. GoesBack(MaxBlock, BB, vals, backs)
    <3>1. 0 \in B /\ DOMAIN val = 0..MaxBlock /\ DOMAIN back = 0..MaxBlock  OBVIOUS
    <3> HIDE DEF B, val, back
    <3> QED  BY <1>2, <2>1, <3>1 DEF GoesBack
  <2> HIDE DEF B, val, back
  <2>4. \E g : g = [k \in 0..MaxBlock |-> IF k \in BB THEN vals[k] ELSE g[backs[k]]]
    BY <1>1, <2>2, RecursionExists
  <2> QED  BY <2>1, <2>4
<1>4. Is(g)
  <2>1. \A k \in 0..MaxBlock : (IF k \in B THEN val[k] ELSE g[back[k]]) =
           IF k = 0 THEN undef
              ELSE IF <<b, k>> \notin StoresTo(v) THEN g[k - 1]
              ELSE IF operand[<<b, k>>] \in LoadsOf(v)
                   THEN g[operand[<<b, k>>][2] - 1]
              ELSE operand[<<b, k>>]
    OBVIOUS
  <2> HIDE DEF B, val, back
  <2> QED  BY <1>3, <2>1
<1> QED  BY <1>4, Zenon DEF CurVal

(* In the only block of a variable, cur_val is the value the last store    *)
(* before it left.                                                         *)
LEMMA SingleBlockKeeps ==
    ASSUME GraphInv, ProgInv, PhiInv, SortInv, IdleInv, NEW at, NEW Q, FastInv(at, Q),
           NEW v \in Var, PromoteSingleBlock(v)
    PROVE  \E at2, R : FastInv(at2, R)'
<1>1. PICK b \in OnlyBlock(v) :
            ReplaceAllUses([load \in LoadsOf(v) |-> CurVal(v, b)[load[2] - 1]])
  BY DEF PromoteSingleBlock
<1>2. /\ phase = "fast" /\ v \in candidates /\ v \notin promoted
      /\ UNCHANGED irVars /\ promoted' = promoted \cup {v} /\ promoted \subseteq Var
      /\ DOMAIN new_phi_nodes = {}
  BY DEF PromoteSingleBlock, Promoted, SortInv, IdleInv
<1>3. /\ b \in Blocks /\ Len(code[b]) \in Nat /\ EndOf(b) \in Nat
      /\ Len(code[b]) <= MaxBlock /\ MaxBlock \in Nat
      /\ \A p \in StoresTo(v) : /\ p \in Written /\ p[1] = b /\ p[2] \in 1..Len(code[b])
                                /\ p = <<b, p[2]>> /\ Stmt(p).to = v
      /\ \A p \in LoadsOf(v) : /\ p \in Written /\ p[1] = b /\ p[2] \in 1..Len(code[b])
                               /\ p = <<b, p[2]>> /\ p # undef
  BY WrittenIs, ValueKinds DEF OnlyBlock, StoresTo, LoadsOf, EndOf, ProgInv
<1>4. Cert(at, Q) /\ Q = FastLoads  BY DEF FastInv
(* What is stored.                                                         *)
<1>5. ASSUME NEW k, <<b, k>> \in StoresTo(v), NEW w, w = operand[<<b, k>>]
      PROVE  /\ w \in LoadsOf(v) => w[2] - 1 \in 0..(k - 1)
             /\ w \notin LoadsOf(v) /\ b \in Reachable(succ) =>
                   Avail(Q \cup LoadsOf(v), w, b, k + 1)
  <2> DEFINE st == <<b, k>>
  <2>1. st \in Written /\ st[1] = b /\ st[2] = k /\ k \in 1..Len(code[b]) /\ Stmt(st).to = v
        /\ k \in Nat /\ k + 1 \in Nat
    BY <1>3, <1>5
  <2>2. CASE st \in Q
    <3>1. /\ Held(at, b, k, Stmt(st).from)
          /\ at[<<b, k, Stmt(st).from>>] = w
      BY <1>2, <1>4, <1>5, <2>1, <2>2 DEF Cert, GoodUses
    <3>2. Stmt(st).from \in Var
      BY <1>4, <2>1, <2>2, WrittenIs DEF Cert, Loads, Statement
    <3>3. Avail(Q, w, b, k)  BY <1>3, <1>4, <2>1, <3>1, <3>2 DEF Cert, GoodPoint
    <3>4. ASSUME w \in LoadsOf(v) PROVE w[2] - 1 \in 0..(k - 1)
      <4>1. w[1] = b /\ w[2] \in 1..Len(code[b]) /\ w # undef  BY <1>3, <3>4
      <4>2. w[2] < k  BY <1>2, <3>3, <4>1 DEF Avail
      <4> QED  BY <1>3, <2>1, <4>1, <4>2
    <3>5. ASSUME w \notin LoadsOf(v), b \in Reachable(succ)
          PROVE  Avail(Q \cup LoadsOf(v), w, b, k + 1)
      <4>1. b \in dom[b]  BY <3>5, DomReflexive
      <4>2. Avail(Q, w, b, k + 1)
        <5>1. k <= k + 1  BY <2>1
        <5> QED  BY <1>3, <2>1, <3>3, <4>1, <5>1, AvailOn
      <4> QED  BY <3>5, <4>2 DEF Avail
    <3> QED  BY <3>4, <3>5
  <2>3. CASE st \notin Q
    <3>1. w = st  BY <1>4, <1>5, <2>1, <2>3 DEF Cert, GoodUses
    <3>2. w[2] - 1 \in 0..(k - 1)  BY <2>1, <3>1
    <3>3. ASSUME w \notin LoadsOf(v), b \in Reachable(succ)
          PROVE  Avail(Q \cup LoadsOf(v), w, b, k + 1)
      <4>1. b \in dom[b]  BY <3>3, DomReflexive
      <4>2. w \in Written \ (Q \cup LoadsOf(v)) /\ w[1] = b /\ w[2] < k + 1
        BY <2>1, <2>3, <3>1, <3>3
      <4> QED  BY <4>1, <4>2 DEF Avail
    <3> QED  BY <3>2, <3>3
  <2> QED  BY <2>2, <2>3
(* cur_val.                                                                *)
<1>6. PICK cv : cv = CurVal(v, b)  OBVIOUS
<1>7. \A k \in 0..MaxBlock : cv[k] =
         IF k = 0 THEN undef
         ELSE IF <<b, k>> \notin StoresTo(v) THEN cv[k - 1]
         ELSE IF operand[<<b, k>>] \in LoadsOf(v) THEN cv[operand[<<b, k>>][2] - 1]
         ELSE operand[<<b, k>>]
  <2>1. \A k \in 0..MaxBlock : <<b, k>> \in StoresTo(v) /\ operand[<<b, k>>] \in LoadsOf(v) =>
              operand[<<b, k>>][2] - 1 \in 0..(k - 1)
    BY <1>5
  <2>2. cv = [k \in 0..MaxBlock |->
              IF k = 0 THEN undef
              ELSE IF <<b, k>> \notin StoresTo(v) THEN cv[k - 1]
              ELSE IF operand[<<b, k>>] \in LoadsOf(v)
                   THEN cv[operand[<<b, k>>][2] - 1]
              ELSE operand[<<b, k>>]]
    BY <1>6, <2>1, CurValIs
  <2> QED  BY <2>2
<1>8. PICK sub : sub = [load \in LoadsOf(v) |-> cv[load[2] - 1]]  OBVIOUS
<1>9. PICK R : R = Q \cup LoadsOf(v)  OBVIOUS
<1>10. ASSUME b \in Reachable(succ), NEW k \in 1..EndOf(b) PROVE Avail(R, cv[k - 1], b, k)
  <2> DEFINE T == {i \in 0..EndOf(b) : i # 0 /\ ~Avail(R, cv[i - 1], b, i)}
  <2>1. SUFFICES ASSUME T # {} PROVE FALSE  BY <1>3, <1>10
  <2>2. PICK i \in T : \A j \in T : i <= j
    <3>1. T \in SUBSET (0..EndOf(b))  OBVIOUS
    <3> HIDE DEF T
    <3> QED  BY <1>3, <2>1, <3>1, LeastOf
  <2>3. i \in 1..EndOf(b) /\ ~Avail(R, cv[i - 1], b, i)  BY <1>3, <2>2
  <2>4. \A j \in 1..EndOf(b) : j < i => Avail(R, cv[j - 1], b, j)
    <3>1. SUFFICES ASSUME NEW j \in 1..EndOf(b), j < i, j \in T PROVE FALSE
      BY <1>3
    <3> HIDE DEF T
    <3> QED  BY <1>3, <2>2, <2>3, <3>1
  <2> HIDE DEF T
  <2>5. b \in dom[b]  BY <1>10, DomReflexive
  <2>6. CASE i = 1
    <3>1. 0 \in 0..MaxBlock  BY <1>3
    <3>2. cv[0] = undef  BY <1>7, <3>1
    <3>3. cv[i - 1] = undef  BY <2>6, <3>2
    <3> QED  BY <2>3, <3>3 DEF Avail
  <2>7. CASE i # 1
    <3> DEFINE k0 == i - 1
    <3>1. k0 \in 1..MaxBlock /\ k0 \in 0..MaxBlock /\ k0 # 0 /\ k0 \in Nat /\ i = k0 + 1
          /\ k0 \in 1..EndOf(b) /\ i \in Nat
      BY <1>3, <2>3, <2>7 DEF EndOf
    <3> HIDE DEF k0
    <3>2. ASSUME NEW j \in 1..EndOf(b), j < i, cv[k0] = cv[j - 1] PROVE FALSE
      <4>1. Avail(R, cv[k0], b, j) /\ j \in Nat /\ j <= i  BY <1>3, <2>4, <3>1, <3>2
      <4>2. Avail(R, cv[k0], b, i)
        BY <1>3, <2>5, <3>1, <4>1, AvailOn
      <4> QED  BY <2>3, <4>2 DEF k0
    <3>3. CASE <<b, k0>> \notin StoresTo(v)
      <4>1. cv[k0] = cv[k0 - 1]  BY <1>7, <3>1, <3>3
      <4> QED  BY <3>1, <3>2, <4>1
    <3>4. CASE <<b, k0>> \in StoresTo(v) /\ operand[<<b, k0>>] \in LoadsOf(v)
      <4> DEFINE j == operand[<<b, k0>>][2]
      <4>1. cv[k0] = cv[j - 1]  BY <1>7, <3>1, <3>4
      <4>2. j - 1 \in 0..(k0 - 1) /\ j \in 1..Len(code[b])  BY <1>3, <1>5, <3>4
      <4> HIDE DEF j
      <4>3. j \in 1..EndOf(b) /\ j < i  BY <1>3, <3>1, <4>2 DEF EndOf
      <4> QED  BY <3>2, <4>1, <4>3
    <3>5. CASE <<b, k0>> \in StoresTo(v) /\ operand[<<b, k0>>] \notin LoadsOf(v)
      <4>1. cv[k0] = operand[<<b, k0>>]  BY <1>7, <3>1, <3>5
      <4>2. Avail(R, cv[k0], b, k0 + 1)  BY <1>5, <1>9, <1>10, <3>5, <4>1
      <4> QED  BY <2>3, <3>1, <4>2 DEF k0
    <3> QED  BY <3>3, <3>4, <3>5
  <2> QED  BY <2>6, <2>7
(* What is known of v behind its first store.                              *)
<1> DEFINE Stored(k) == \E s \in StoresTo(v) : s[2] < k
           There == {pt \in {<<b, k, v>> : k \in Nat} :
                        b \in Reachable(succ) /\ pt[2] \in 1..EndOf(b) /\ Stored(pt[2])}
<1>11. PICK new : new = [pt \in There |-> cv[pt[2] - 1]]
  <2> HIDE DEF There
  <2> QED  OBVIOUS
<1>12. /\ \A c, k : <<c, k, v>> \in DOMAIN new <=>
            c = b /\ k \in Nat /\ b \in Reachable(succ) /\ k \in 1..EndOf(b) /\ Stored(k)
       /\ \A k : <<b, k, v>> \in DOMAIN new => new[<<b, k, v>>] = cv[k - 1]
       /\ DOMAIN new \subseteq {<<c, k, v>> : c \in Blocks, k \in Nat}
  BY <1>3, <1>11
<1>13. DOMAIN sub = LoadsOf(v) /\ ReplaceAllUses(sub)
       /\ \A x \in LoadsOf(v) : sub[x] = cv[x[2] - 1]
  BY <1>1, <1>6, <1>8
<1> HIDE DEF There
<1>14. ASSUME NEW x \in LoadsOf(v)
       PROVE  <<x[1], x[2], v>> \in DOMAIN new /\ new[<<x[1], x[2], v>>] = sub[x]
  <2>1. x[1] = b /\ x[2] \in 1..EndOf(b) /\ x[2] \in Nat  BY <1>3 DEF EndOf
  <2>2. x[1] \in Reachable(succ) /\ \E q \in StoresTo(v) : Dominates(q, x)
    BY DEF ProgInv
  <2>3. Stored(x[2])  BY <1>3, <2>1, <2>2 DEF Dominates
  <2> QED  BY <1>12, <1>13, <2>1, <2>2, <2>3
<1>15. ASSUME NEW c \in Blocks, NEW k \in Nat, <<c, k, v>> \in DOMAIN new
       PROVE  PointOf(new, v, sub, R, c, k)
  <2>1. /\ c = b /\ b \in Reachable(succ) /\ k \in 1..EndOf(b) /\ Stored(k)
        /\ new[<<c, k, v>>] = cv[k - 1]
    BY <1>12, <1>15
  <2>2. Avail(R, cv[k - 1], b, k)  BY <1>10, <2>1
  <2>3. k # 1  BY <1>3, <2>1
  <2> DEFINE p == <<b, k - 1>>
  <2>4. k - 1 \in 0..MaxBlock /\ k - 1 # 0 /\ k - 1 \in 1..Len(code[b]) /\ p \in Written
        /\ k - 1 \in 1..EndOf(b) /\ k - 1 \in Nat
    BY <1>3, <2>1, <2>3, WrittenIs DEF EndOf
  <2>5. ASSUME Stmt(p).to = v PROVE cv[k - 1] = Subst(sub, operand[p])
    <3>1. p \in StoresTo(v)  BY <2>4, <2>5 DEF StoresTo
    <3>2. CASE operand[p] \in LoadsOf(v)
      <4>1. cv[k - 1] = cv[operand[p][2] - 1]  BY <1>7, <2>4, <3>1, <3>2
      <4> QED  BY <1>13, <3>2, <4>1 DEF Subst
    <3>3. CASE operand[p] \notin LoadsOf(v)
      <4>1. cv[k - 1] = operand[p]  BY <1>7, <2>4, <3>1, <3>3
      <4> QED  BY <1>13, <3>3, <4>1 DEF Subst
    <3> QED  BY <3>2, <3>3
  <2>6. ASSUME Stmt(p).to # v
        PROVE  <<b, k - 1, v>> \in DOMAIN new /\ new[<<b, k - 1, v>>] = cv[k - 1]
    <3>1. p \notin StoresTo(v)  BY <2>6 DEF StoresTo
    <3>2. cv[k - 1] = cv[(k - 1) - 1]  BY <1>7, <2>4, <3>1
    <3>3. Stored(k - 1)
      <4>1. PICK s \in StoresTo(v) : s[2] < k  BY <2>1
      <4>2. s[2] \in Nat /\ s = <<b, s[2]>>  BY <1>3
      <4>3. s[2] # k - 1  BY <3>1, <4>2
      <4>4. s[2] < k - 1  BY <2>4, <4>1, <4>2, <4>3
      <4> QED  BY <4>4
    <3> QED  BY <1>12, <2>1, <2>4, <3>2, <3>3
  <2> QED  BY <2>1, <2>2, <2>3, <2>5, <2>6 DEF PointOf
<1>16. ASSUME NEW s \in Blocks, <<s, 1, v>> \in DOMAIN new PROVE EdgeOf(new, v, s)
  BY <1>3, <1>12, <1>16
<1>17. \E at2 : FastInv(at2, R)'
  <2>1. Entries(new, v, sub, R)
    BY <1>12, <1>14, <1>15, <1>16 DEF Entries
  <2> QED  BY <1>2, <1>9, <1>13, <2>1, FastPromotes
<1> QED  BY <1>17

----------------------------------------------------------------------------
(* The emission.                                                           *)

(* A statement is emitted: what it loads has been stored on every way.     *)
LEMMA EmitStatementKeeps ==
    ASSUME GraphInv, ProgInv, EmitInv, NEW s \in Statement, EmitStatement(s)
    PROVE  ProgInv' /\ EmitInv'
<1>1. /\ phase = "emit" /\ phase' = "emit" /\ index <= MaxBlock
      /\ s.from # None => InScope(s.from)
      /\ s.to # None /\ Declared(s.to) => InScope(s.to)
      /\ code' = [code EXCEPT ![block] = Append(code[block], s)]
      /\ decl' = [v \in Var |-> IF v = s.to /\ ~Declared(v) THEN block ELSE decl[v]]
      /\ operand' = [p \in Written' |-> p]
      /\ index' = index + 1 /\ block' = block
      /\ UNCHANGED <<succ, dom>>
  BY DEF EmitStatement, dtVars
<1>2. /\ block \in Blocks /\ index = Len(code[block]) + 1
      /\ \A b \in Blocks : b > block => code[b] = <<>>
      /\ \A v \in Var : Declared(v) =>
            decl[v] \in Blocks /\ \E q \in StoresTo(v) : q[1] = decl[v]
      /\ MaxBlock \in Nat
  BY <1>1, ValueKinds DEF EmitInv
<1>3. /\ code \in [Blocks -> Seq(Statement)]
      /\ \A b \in Blocks : Len(code[b]) \in Nat /\ Len(code[b]) <= MaxBlock
      /\ index \in Nat
  BY <1>2 DEF ProgInv
<1>3a. PICK b0, i0, new : b0 = block /\ i0 = index /\ new = <<b0, i0>>  OBVIOUS
<1>4. /\ code'[block] = Append(code[block], s) /\ Len(code'[block]) = index
      /\ code'[block] \in Seq(Statement)
      /\ code'[block][index] = s
      /\ \A k \in 1..Len(code[block]) : code'[block][k] = code[block][k]
      /\ \A b \in Blocks : b # block => code'[b] = code[b]
      /\ code' \in [Blocks -> Seq(Statement)]
  <2>1. code[block] \in Seq(Statement)  BY <1>2, <1>3
  <2>2. /\ code'[block] = Append(code[block], s)
        /\ \A b \in Blocks : b # block => code'[b] = code[b]
        /\ DOMAIN code' = Blocks
    BY <1>1, <1>2, <1>3
  <2>3. /\ Append(code[block], s) \in Seq(Statement)
        /\ Len(Append(code[block], s)) = index
        /\ Append(code[block], s)[index] = s
        /\ \A k \in 1..Len(code[block]) : Append(code[block], s)[k] = code[block][k]
    BY <1>2, <2>1
  <2>4. code' \in [Blocks -> Seq(Statement)]
    BY <1>1, <1>2, <1>3, <2>3
  <2> QED  BY <2>2, <2>3, <2>4
<1>5. Written' = Written \cup {new} /\ new \notin Written
      /\ Stmt(new)' = s /\ \A p \in Written : Stmt(p)' = Stmt(p)
  <2>1. ASSUME NEW p \in Written
        PROVE  p \in Written' /\ Stmt(p)' = Stmt(p) /\ p # new
    <3>1. p[1] \in Blocks /\ p[2] \in 1..Len(code[p[1]]) /\ p \in Positions
          /\ p = <<p[1], p[2]>> /\ p[2] \in Nat
      BY WrittenIs DEF Written
    <3>2. CASE p[1] = block
      <4>1. code'[p[1]][p[2]] = code[p[1]][p[2]] /\ p[2] <= Len(code'[p[1]])
            /\ p[2] # index
        BY <1>2, <1>3, <1>4, <3>1, <3>2
      <4> QED  BY <1>3a, <3>1, <4>1 DEF Written, Stmt
    <3>3. CASE p[1] # block
      BY <1>3a, <1>4, <3>1, <3>3 DEF Written, Stmt
    <3> QED  BY <3>2, <3>3
  <2>2. new \in Written' /\ Stmt(new)' = s
    <3>1. index \in 1..MaxBlock  BY <1>1, <1>2, <1>3
    <3>2. new \in Positions  BY <1>2, <1>3a, <3>1 DEF Positions
    <3>3. code'[block][index] = s /\ index <= Len(code'[block])  BY <1>3, <1>4
    <3>4. new[1] = block /\ new[2] = index  BY <1>3a
    <3> QED  BY <1>3a, <3>2, <3>3, <3>4 DEF Written, Stmt
  <2>3. ASSUME NEW p \in Written', p # new PROVE p \in Written
    <3>1. p \in Positions /\ p[2] <= Len(code'[p[1]])  BY <2>3 DEF Written
    <3>2. p[1] \in Blocks /\ p[2] \in Nat /\ p[2] \in 1..MaxBlock /\ p = <<p[1], p[2]>>
      BY <1>2, <3>1, ValueKinds
    <3>3. CASE p[1] = block
      <4>1. p[2] # index  BY <1>3a, <2>3, <3>2, <3>3
      <4>2. p[2] <= Len(code[p[1]])  BY <1>2, <1>3, <1>4, <3>1, <3>2, <3>3, <4>1
      <4> QED  BY <3>1, <4>2 DEF Written
    <3>4. CASE p[1] # block
      BY <1>4, <3>1, <3>2, <3>4 DEF Written
    <3> QED  BY <3>3, <3>4
  <2> QED  BY <2>1, <2>2, <2>3
<1>6. ASSUME NEW v
      PROVE  /\ StoresTo(v) \subseteq StoresTo(v)'
             /\ s.to = v => new \in StoresTo(v)'
  BY <1>5 DEF StoresTo
<1>6a. ASSUME NEW v, NEW p, p \in LoadsOf(v)'
       PROVE  p \in LoadsOf(v) \/ (p = new /\ s.from = v)
  BY <1>5, <1>6a DEF LoadsOf
<1>7. new[1] = block /\ new[2] = index  BY <1>3a
<1>8. ASSUME NEW v \in Var, NEW p \in LoadsOf(v)'
      PROVE  p[1] \in Reachable(succ) /\ \E q \in StoresTo(v)' : Dominates(q, p)'
  <2>1. \A x, y : Dominates(x, y)' <=> Dominates(x, y)  BY <1>1 DEF Dominates
  <2>2. CASE p \in LoadsOf(v)
    BY <1>6, <2>1, <2>2 DEF ProgInv
  <2>3. CASE p = new /\ s.from = v
    <3>1. Declared(v) /\ block \in dom[decl[v]]
      BY <1>1, <2>3, VarAssumption DEF InScope
    <3>2. PICK q \in StoresTo(v) : q[1] = decl[v] /\ decl[v] \in Blocks  BY <1>2, <3>1
    <3>3. q \in Written /\ q[2] \in 1..Len(code[q[1]]) /\ q[2] \in Nat
      BY WrittenIs DEF StoresTo
    <3>4. Dominates(q, p)
      BY <1>2, <1>3, <1>7, <2>3, <3>1, <3>2, <3>3 DEF Dominates
    <3>5. p[1] \in Reachable(succ)  BY <1>7, <2>3, <3>1, <3>2, DomReachable
    <3> QED  BY <1>6, <2>1, <3>4, <3>5
  <2> QED  BY <1>6a, <1>8, <2>2, <2>3
<1>9. ProgInv'
  <2>1. \A b \in Blocks : Len(code'[b]) <= MaxBlock
    BY <1>1, <1>3, <1>4
  <2> QED  BY <1>1, <1>4, <1>8, <2>1 DEF ProgInv
<1>10. ASSUME NEW v \in Var, Declared(v)'
       PROVE  decl'[v] \in Blocks /\ \E q \in StoresTo(v)' : q[1] = decl'[v]
  <2>1. CASE v = s.to /\ ~Declared(v)
    <3>1. decl'[v] = block  BY <1>1, <2>1
    <3>2. new \in StoresTo(v)'  BY <1>6, <2>1
    <3> QED  BY <1>2, <1>7, <3>1, <3>2
  <2>2. CASE ~(v = s.to /\ ~Declared(v))
    <3>1. decl'[v] = decl[v] /\ Declared(v)  BY <1>1, <1>10, <2>2 DEF Declared
    <3> QED  BY <1>2, <1>6, <3>1
  <2> QED  BY <2>1, <2>2
<1>11. EmitInv'
  <2>1. block' \in Blocks /\ index' = Len(code'[block']) + 1 /\ index' <= MaxBlock + 1
    BY <1>1, <1>2, <1>3, <1>4
  <2>2. \A b \in Blocks : b > block' => code'[b] = <<>>
    <3>1. \A b \in Blocks : b > block => b # block  BY <1>2, BlockIds
    <3> QED  BY <1>1, <1>2, <1>4, <3>1
  <2> QED  BY <1>1, <1>10, <2>1, <2>2 DEF EmitInv
<1> QED  BY <1>9, <1>11

(* The emitter goes on to the next block.                                  *)
LEMMA EmitBlockKeeps ==
    ASSUME EmitInv, EmitBlock
    PROVE  EmitInv'
<1>1. /\ phase = "emit" /\ phase' = "emit" /\ block < N - 1 /\ block' = block + 1 /\ index' = 1
      /\ UNCHANGED irVars /\ operand' = operand
  BY DEF EmitBlock
<1>2. /\ block \in Blocks /\ \A b \in Blocks : b > block => code[b] = <<>>
      /\ MaxBlock \in Nat /\ N \in Nat
  BY <1>1, ValueKinds, SizeAssumption DEF EmitInv
<1>3. block' \in Blocks /\ block' > block /\ \A b \in Blocks : b > block' => b > block
  BY <1>1, <1>2 DEF Blocks
<1>4. code[block'] = <<>> /\ code' = code /\ decl' = decl /\ Written' = Written
      /\ \A v : StoresTo(v)' = StoresTo(v)
  BY <1>1, <1>2, <1>3, IrKept
<1>5. index' = Len(code'[block']) + 1 /\ index' <= MaxBlock + 1
  BY <1>1, <1>2, <1>4
<1>6. \A b \in Blocks : b > block' => code'[b] = <<>>  BY <1>2, <1>3, <1>4
<1>7. \A v \in Var : Declared(v)' =>
          decl'[v] \in Blocks /\ \E q \in StoresTo(v)' : q[1] = decl'[v]
  BY <1>1, <1>4 DEF EmitInv, Declared
<1>8. operand' = [p \in Written' |-> p]  BY <1>1, <1>4 DEF EmitInv
<1> QED  BY <1>1, <1>3, <1>5, <1>6, <1>7, <1>8 DEF EmitInv

(* Before anything is promoted, nothing is known.                          *)
LEMMA CollectStarts ==
    ASSUME SortInv, EmitInv, IdleInv, Collect
    PROVE  \E at, Q : FastInv(at, Q)'
<1> DEFINE at == [pt \in {} |-> undef]
           Q == {}
<1>1. /\ phase = "emit" /\ UNCHANGED irVars /\ operand' = operand
      /\ promoted' = promoted /\ new_phi_nodes' = new_phi_nodes
  BY DEF Collect
<1>2. promoted = {} /\ operand = [p \in Written |-> p] /\ DOMAIN new_phi_nodes = {}
  BY <1>1 DEF SortInv, EmitInv, IdleInv
<1>3. DOMAIN at = {} /\ \A b, k, v : ~Held(at, b, k, v)  BY DEF Held
<1> HIDE DEF at
<1>4. GoodUses(at, Q)'
  BY <1>1, <1>2, IrKept DEF GoodUses
<1>5. Cert(at, Q)'
  BY <1>3, <1>4 DEF Cert, Held
<1>6. Q = FastLoads'  BY <1>1, <1>2 DEF FastLoads
<1>7. Edges(at, promoted)'  BY <1>3 DEF Edges, Held
<1>8. FastInv(at, Q)'
  BY <1>1, <1>2, <1>3, <1>5, <1>6, <1>7 DEF FastInv, Held
<1> QED  BY <1>8

----------------------------------------------------------------------------
(* The placing of phis.                                                    *)

(* Placing a phi changes nothing that is known.                            *)
LEMMA FastKept ==
    ASSUME UNCHANGED irVars, promoted' = promoted, operand' = operand,
           NEW at, NEW Q, FastInv(at, Q), DOMAIN new_phi_nodes \subseteq DOMAIN new_phi_nodes',
           DOMAIN new_phi_nodes' \subseteq Phis,
           \A phi \in DOMAIN new_phi_nodes' : \A b \in Preds(succ, phi[1]) :
              new_phi_nodes'[phi][b] = undef
    PROVE  FastInv(at, Q)'
<1>1. /\ Q = FastLoads /\ Cert(at, Q) /\ Edges(at, promoted)
      /\ \A b \in Blocks, k \in Nat, v \in Var : Held(at, b, k, v) =>
            v \in promoted /\ at[<<b, k, v>>] \notin Phis
  BY DEF FastInv
<1>2. Cert(at, Q)'  BY <1>1, CertKept
<1>3. Q = FastLoads'  BY <1>1, IrKept DEF FastLoads
<1>4. ASSUME NEW s \in Blocks, NEW v \in promoted, Held(at, s, 1, v)
      PROVE  GoodEdges(at, s, v)'
  <2>1. GoodEdges(at, s, v)  BY <1>1, <1>4 DEF Edges
  <2>2. v \in Var  BY <1>1, <1>4 DEF Cert, Held, Points
  <2>3. at[<<s, 1, v>>] \notin Phis  BY <1>1, <1>4, <2>2
  <2> QED  BY <2>1, <2>3, IrKept DEF GoodEdges, Held
<1>5. Edges(at, promoted)'  BY <1>4 DEF Edges, Held
<1> QED  BY <1>1, <1>2, <1>3, <1>5, IrKept DEF FastInv, Held

(* A variable is left for SSA construction.                                *)
LEMMA KeepForSSAKeeps ==
    ASSUME IdleInv, NEW at, NEW Q, FastInv(at, Q), NEW v \in Var, KeepForSSA(v)
    PROVE  FastInv(at, Q)'
<1>1. /\ phase = "fast" /\ UNCHANGED irVars /\ promoted' = promoted /\ operand' = operand
      /\ new_phi_nodes' = new_phi_nodes
  BY DEF KeepForSSA
<1>2. DOMAIN new_phi_nodes = {}  BY <1>1 DEF IdleInv
<1> QED  BY <1>1, <1>2, FastKept

(* No candidate is left.                                                   *)
LEMMA FastPathsDoneKeeps ==
    ASSUME GraphInv, ProgInv, SortInv, IdleInv, NEW at, NEW Q, FastInv(at, Q), FastPathsDone
    PROVE  FastInv(at, Q)' /\ (phase' = "run" => RunInv(at, Q)')
<1>1. /\ phase = "fast" /\ UNCHANGED irVars /\ promoted' = promoted /\ operand' = operand
      /\ new_phi_nodes' = new_phi_nodes /\ allocas' = allocas
      /\ phase' = "run" => allocas = {}
      /\ UNCHANGED <<block, index, mem>>
  BY DEF FastPathsDone, runVars
<1>2. DOMAIN new_phi_nodes = {}  BY <1>1 DEF IdleInv
<1>3. FastInv(at, Q)'  BY <1>1, <1>2, FastKept
<1>4. ASSUME phase' = "run" PROVE RunInv(at, Q)'
  <2>1. Q = GoneLoads'  BY <1>1, <1>3, <1>4 DEF FastInv, FastLoads, GoneLoads, Gone
  <2>2. Cert(at, Q)' /\ Edges(at, promoted)'  BY <1>3 DEF FastInv
  <2>3. \A s \in Blocks, v \in Var : Held(at, s, 1, v) => v \in promoted'
    BY <1>3 DEF FastInv, Held
  <2>4. Edges(at, Var)'
    BY <2>2, <2>3 DEF Edges, Held
  <2>5. Whole(at, Q)'  BY <1>1, <1>2, <2>1, <2>2, <2>4 DEF Whole
  <2>6. block' = entry /\ index' = 1 /\ mem' = [v \in Var |-> undef]
    BY <1>1 DEF IdleInv
  <2> QED  BY <1>1, <2>5, <2>6, RunStarts
<1> QED  BY <1>3, <1>4

(* What a turn of the worklist's loop adds are phis of reachable blocks.   *)
LEMMA PlacePhisShape ==
    ASSUME GraphInv, PhiInv, SortInv, worklist \subseteq Blocks, PlacePhis
    PROVE  /\ PhiInv'
           /\ DOMAIN new_phi_nodes \subseteq DOMAIN new_phi_nodes'
           /\ \A phi \in DOMAIN new_phi_nodes' : phi[2] \in allocas
           /\ \A phi \in DOMAIN new_phi_nodes' : \/ /\ phi \in DOMAIN new_phi_nodes
                                                    /\ new_phi_nodes'[phi] = new_phi_nodes[phi]
                                                 \/ \A b \in Preds(succ, phi[1]) :
                                                       new_phi_nodes'[phi][b] = undef
<1>1. /\ phase = "phis" /\ current # None /\ UNCHANGED irVars
  BY DEF PlacePhis
<1>2. current \in allocas /\ current \in Var  BY <1>1 DEF SortInv
<1>3. PICK b \in worklist :
         new_phi_nodes' =
            [phi \in DOMAIN new_phi_nodes \cup ((frontiers[b] \ visited_frontier) \X {current}) |->
               IF phi \in DOMAIN new_phi_nodes THEN new_phi_nodes[phi]
               ELSE [pred \in Preds(succ, phi[1]) |-> undef]]
  BY DEF PlacePhis
<1> DEFINE new == (frontiers[b] \ visited_frontier) \X {current}
<1>4. ASSUME NEW phi \in new
      PROVE  phi \in Phis /\ phi[1] \in Reachable(succ) /\ phi[1] # entry /\ phi[2] = current
  <2>1. phi[1] \in frontiers[b] /\ phi[2] = current /\ phi = <<phi[1], phi[2]>>  OBVIOUS
  <2> HIDE DEF new
  <2>2. phi[1] \in Reachable(succ) /\ phi[1] \in Blocks /\ phi[1] # entry
    BY <2>1, FrontierReachable
  <2> QED  BY <1>2, <2>1, <2>2 DEF Phis
<1>5. /\ DOMAIN new_phi_nodes' = DOMAIN new_phi_nodes \cup new
      /\ \A phi \in DOMAIN new_phi_nodes : new_phi_nodes'[phi] = new_phi_nodes[phi]
      /\ \A phi \in new : phi \notin DOMAIN new_phi_nodes =>
            new_phi_nodes'[phi] = [pred \in Preds(succ, phi[1]) |-> undef]
  BY <1>3
<1> HIDE DEF new
<1>6. PhiInv'
  <2>1. SUFFICES ASSUME NEW phi \in DOMAIN new_phi_nodes'
                 PROVE  /\ phi \in Phis
                        /\ phi[1] \in Reachable(succ) /\ phi[1] # entry
                        /\ DOMAIN new_phi_nodes'[phi] = Preds(succ, phi[1])
    BY <1>1, IrKept DEF PhiInv
  <2>2. CASE phi \in DOMAIN new_phi_nodes  BY <1>5, <2>2 DEF PhiInv
  <2>3. CASE phi \notin DOMAIN new_phi_nodes  BY <1>4, <1>5, <2>1, <2>3
  <2> QED  BY <2>2, <2>3
<1>7. \A phi \in DOMAIN new_phi_nodes' : phi[2] \in allocas
  BY <1>2, <1>4, <1>5 DEF SortInv
<1> QED  BY <1>5, <1>6, <1>7

(* Placing phis changes nothing that is known.                             *)
LEMMA PlacingKeeps ==
    ASSUME GraphInv, PhiInv, SortInv, worklist \subseteq Blocks, NEW at, NEW Q, FastInv(at, Q),
           PlacePhis \/ Placed \/ \E v \in Var : StartPlacing(v)
    PROVE  FastInv(at, Q)'
<1>1. UNCHANGED irVars /\ promoted' = promoted /\ operand' = operand
  BY DEF PlacePhis, Placed, StartPlacing, fastVars
<1>2. CASE PlacePhis
  BY <1>1, <1>2, PlacePhisShape, FastKept DEF FastInv, PhiInv
<1>3. CASE Placed \/ \E v \in Var : StartPlacing(v)
  <2>1. new_phi_nodes' = new_phi_nodes  BY <1>3 DEF Placed, StartPlacing
  <2> QED  BY <1>1, <2>1, FastKept DEF FastInv, PhiInv
<1> QED  BY <1>2, <1>3

----------------------------------------------------------------------------
(* The renaming: what the calls and the stacks are.                        *)

(* The first elements of a sequence.                                       *)
LEMMA FirstOf ==
    ASSUME NEW S, NEW s \in Seq(S), NEW n \in 0..Len(s)
    PROVE  /\ SubSeq(s, 1, n) \in Seq(S) /\ Len(SubSeq(s, 1, n)) = n
           /\ \A i \in 1..n : SubSeq(s, 1, n)[i] = s[i]
<1>1. SubSeq(s, 1, n) = [i \in 1..n |-> s[i]]  OBVIOUS
<1>2. \A i \in 1..n : s[i] \in S  OBVIOUS
<1>3. SubSeq(s, 1, n) \in Seq(S)  OBVIOUS
<1>4. Len(SubSeq(s, 1, n)) = n  OBVIOUS
<1> QED  BY <1>1, <1>3, <1>4

(* The open call on top.                                                   *)
LEMMA OpenCall ==
    ASSUME GraphInv, ProgInv, NEW seen, CallsInv(seen), SeenInv(seen), calls # <<>>
    PROVE  /\ Len(calls) \in Nat /\ Len(calls) \in 1..Len(calls)
           /\ Top \in Calls /\ Top = calls[Len(calls)]
           /\ Top.block \in Blocks /\ Top.block \in seen /\ Top.block \in Reachable(succ)
           /\ Top.next \in Nat /\ Top.next \in 1..(EndOf(Top.block) + 1)
           /\ EndOf(Top.block) \in Nat /\ EndOf(Top.block) = Len(code[Top.block]) + 1
           /\ Below \in Seq(Calls) /\ Len(Below) = Len(calls) - 1
           /\ \A i \in 1..(Len(calls) - 1) : Below[i] = calls[i]
<1>1. calls \in Seq(Calls)  BY DEF CallsInv
<1>2. Len(calls) \in Nat /\ Len(calls) \in 1..Len(calls) /\ Top = calls[Len(calls)]
      /\ Top \in Calls
  BY <1>1 DEF Top
<1>3. /\ Below \in Seq(Calls) /\ Len(Below) = Len(calls) - 1
      /\ \A i \in 1..(Len(calls) - 1) : Below[i] = calls[i]
  <2>1. Len(calls) - 1 \in 0..Len(calls)  BY <1>2
  <2> QED  BY <1>1, <2>1, FirstOf DEF Below
<1>4. CallInv(seen, Len(calls))  BY <1>2 DEF CallsInv
<1>5. Top.block \in seen /\ Top.next \in 1..(EndOf(Top.block) + 1)
  BY <1>2, <1>4 DEF CallInv
<1>6. Top.block \in Blocks /\ Top.next \in Nat  BY <1>2 DEF Calls
<1>7. Len(code[Top.block]) \in Nat  BY <1>6, WrittenIs
<1> QED  BY <1>2, <1>3, <1>5, <1>6, <1>7 DEF SeenInv, EndOf

(* What is on top of the stack is what holds where the call is.            *)
LEMMA TopHolds ==
    ASSUME GraphInv, ProgInv, NEW seen, CallsInv(seen), SeenInv(seen), calls # <<>>,
           NEW at, NEW h, StacksInv(at, h), NEW v \in allocas, v \in Var
    PROVE  Back(v) = at[<<Top.block, Here(Len(calls)), v>>]
<1>1. Len(calls) \in 1..Len(calls) /\ Top = calls[Len(calls)]  BY OpenCall
<1>2. StackInv(at, h, v) /\ value_stacks[v] \in Seq({undef} \cup Positions \cup Phis)
  BY DEF StacksInv
<1>3. /\ Len(value_stacks[v]) = h[Len(calls)][v]
      /\ at[<<Top.block, Here(Len(calls)), v>>] =
            IF h[Len(calls)][v] = 0 THEN undef ELSE value_stacks[v][h[Len(calls)][v]]
  BY <1>1, <1>2 DEF StackInv
<1> QED  BY <1>2, <1>3 DEF Back

(* The call on top goes on to its next statement.                          *)
LEMMA NextCall ==
    ASSUME GraphInv, ProgInv, NEW seen, CallsInv(seen), SeenInv(seen), calls # <<>>,
           UNCHANGED irVars, NEW r \in Calls, calls' = Append(Below, r),
           r.block = Top.block, r.rest = Top.rest, r.next = Top.next + 1,
           Top.next <= EndOf(Top.block)
    PROVE  /\ CallsInv(seen)' /\ SeenInv(seen)'
           /\ calls' # <<>> /\ Top' = r /\ Len(calls') = Len(calls)
           /\ calls'[Len(calls)] = r
           /\ \A i \in 1..Len(calls) : i # Len(calls) => calls'[i] = calls[i]
<1>1. /\ Len(calls) \in Nat /\ Len(calls) \in 1..Len(calls)
      /\ Below \in Seq(Calls) /\ Len(Below) = Len(calls) - 1
      /\ \A i \in 1..(Len(calls) - 1) : Below[i] = calls[i]
      /\ Top = calls[Len(calls)] /\ Top.next \in Nat /\ EndOf(Top.block) \in Nat
      /\ Top.next \in 1..(EndOf(Top.block) + 1)
  BY OpenCall
<1>2. /\ calls' \in Seq(Calls) /\ Len(calls') = Len(calls) /\ calls'[Len(calls)] = r
      /\ \A i \in 1..(Len(calls) - 1) : calls'[i] = calls[i]
  BY <1>1
<1>3. calls' # <<>> /\ Top' = r
  BY <1>1, <1>2 DEF Top
<1>4. \A i \in 1..Len(calls) : i # Len(calls) => calls'[i] = calls[i]
  BY <1>1, <1>2
<1>5. \A i \in 1..Len(calls) : /\ calls'[i].block = calls[i].block
                               /\ calls'[i].rest = calls[i].rest
  BY <1>1, <1>2, <1>4
<1>6. ASSUME NEW i \in 1..Len(calls) PROVE CallInv(seen, i)'
  <2>1. CallInv(seen, i)  BY DEF CallsInv
  <2>2. CASE i # Len(calls)
    BY <1>2, <1>4, <2>1, <2>2, IrKept DEF CallInv
  <2>3. CASE i = Len(calls)
    BY <1>1, <1>2, <1>5, <2>1, <2>3, IrKept DEF CallInv
  <2> QED  BY <2>2, <2>3
<1>7. \A i \in 1..Len(calls'), j \in 1..Len(calls') : i < j =>
          /\ calls'[i].block # calls'[j].block
          /\ calls'[j].block \in dom'[calls'[i].block]
  BY <1>2, <1>5, IrKept DEF CallsInv
<1>8. CallsInv(seen)'  BY <1>2, <1>6, <1>7 DEF CallsInv
<1>9. SeenInv(seen)'
  BY <1>2, <1>5, IrKept DEF SeenInv
<1> QED  BY <1>2, <1>3, <1>4, <1>8, <1>9

----------------------------------------------------------------------------
(* The renaming: the phis of the successors.                               *)

(* What holds at the end of a block that is done.                          *)
LEMMA DoneHeld ==
    ASSUME GraphInv, ProgInv, NEW seen, CallsInv(seen), SeenInv(seen), NEW at, HeldInv(at, seen),
           NEW v \in allocas, v \in Var, NEW b \in seen,
           calls # <<>> /\ b = Top.block => Top.next >= EndOf(b)
    PROVE  Held(at, b, EndOf(b), v) /\ b \in Blocks /\ EndOf(b) \in Nat
<1>1. b \in Blocks  BY DomTable, ReachableClosed DEF SeenInv
<1>2. EndOf(b) \in Nat /\ EndOf(b) \in 1..EndOf(b)  BY <1>1, WrittenIs DEF EndOf
<1>3. Passed(b, EndOf(b))
  <2>1. calls # <<>> => Top.next \in Nat  BY OpenCall
  <2> QED  BY <1>2, <2>1 DEF Passed
<1> QED  BY <1>1, <1>2, <1>3 DEF HeldInv

(* The phis of the successors are told.                                    *)
LEMMA FillPhisKeeps ==
    ASSUME GraphInv, ProgInv, PhiInv, SortInv,
           NEW at, NEW Q, NEW seen, NEW h, RenameInv(at, Q, seen, h), FillPhis
    PROVE  RenameInv(at, Q, seen, h)'
<1>1. /\ calls # <<>> /\ Top.next = Len(code[Top.block]) + 1
      /\ new_phi_nodes' = [phi \in DOMAIN new_phi_nodes |->
            [pred \in DOMAIN new_phi_nodes[phi] |->
                IF pred = Top.block THEN Back(phi[2]) ELSE new_phi_nodes[phi][pred]]]
      /\ calls' = Append(Below, [block |-> Top.block, next |-> Top.next + 1,
                                 rest |-> Top.rest, pushed |-> Top.pushed])
      /\ UNCHANGED irVars /\ operand' = operand /\ value_stacks' = value_stacks
      /\ promoted' = promoted /\ allocas' = allocas
  BY DEF FillPhis, fastVars
<1>2. /\ Q = RenamedLoads(seen) /\ Cert(at, Q) /\ Edges(at, promoted)
      /\ CallsInv(seen) /\ SeenInv(seen) /\ StacksInv(at, h) /\ HeldInv(at, seen)
      /\ PhiStarts(at, seen) /\ Inherits(at, seen) /\ Undefined(at, seen)
      /\ PhisTold(at, seen) /\ NoOwnPhi(at)
  BY DEF RenameInv
<1>3. /\ Top \in Calls /\ Top.block \in Blocks /\ Top.block \in seen
      /\ Top.next \in Nat /\ EndOf(Top.block) \in Nat
      /\ Top.next = EndOf(Top.block) /\ Len(calls) \in 1..Len(calls)
      /\ Top = calls[Len(calls)]
  BY <1>1, <1>2, OpenCall
<1>4. PICK r, b, n : /\ r = [block |-> Top.block, next |-> Top.next + 1,
                             rest |-> Top.rest, pushed |-> Top.pushed]
                     /\ b = Top.block /\ n = Len(calls)
  OBVIOUS
<1>5. r \in Calls /\ r.block = b /\ r.rest = Top.rest /\ r.next = EndOf(b) + 1
      /\ r.next = Top.next + 1 /\ r.pushed = Top.pushed
  BY <1>3, <1>4 DEF Calls
<1>6. /\ CallsInv(seen)' /\ SeenInv(seen)'
      /\ calls' # <<>> /\ Top' = r /\ Len(calls') = Len(calls) /\ calls'[n] = r
      /\ \A i \in 1..Len(calls) : i # n => calls'[i] = calls[i]
  <2>1. calls' = Append(Below, r) /\ r.block = Top.block /\ Top.next <= EndOf(Top.block)
    BY <1>1, <1>3, <1>4, <1>5
  <2> QED  BY <1>1, <1>2, <1>4, <1>5, <2>1, NextCall
<1>7. DOMAIN new_phi_nodes' = DOMAIN new_phi_nodes  BY <1>1
<1>8. Cert(at, Q)'  BY <1>1, <1>2, <1>7, CertKept
<1>9. Q = RenamedLoads(seen)'
  <2>1. \A p \in Written : p[1] = b => p[2] < EndOf(b)
    <3> SUFFICES ASSUME NEW p \in Written, p[1] = b PROVE p[2] < EndOf(b)
      OBVIOUS
    <3>1. p[2] \in 1..Len(code[b]) /\ Len(code[b]) \in Nat  BY WrittenIs
    <3> QED  BY <3>1 DEF EndOf
  <2>2. \A p \in Written : p[1] = b => p[2] < EndOf(b) + 1 /\ p[2] \in Nat
    BY <2>1, <1>3, <1>4, WrittenIs
  <2>3. RenamedLoads(seen)' = FastLoads' \cup
          {p \in Written : /\ Stmt(p).from \in allocas /\ p[1] \in seen
                           /\ p[1] = b => p[2] < EndOf(b) + 1}
    BY <1>1, <1>5, <1>6, IrKept DEF RenamedLoads
  <2>4. RenamedLoads(seen) = FastLoads \cup
          {p \in Written : /\ Stmt(p).from \in allocas /\ p[1] \in seen
                           /\ p[1] = b => p[2] < EndOf(b)}
    BY <1>1, <1>3, <1>4 DEF RenamedLoads
  <2>5. FastLoads' = FastLoads  BY <1>1, IrKept DEF FastLoads
  <2> QED  BY <1>2, <2>1, <2>2, <2>3, <2>4, <2>5
<1>10. Edges(at, promoted)'
  <2>1. SUFFICES ASSUME NEW s \in Blocks, NEW v \in promoted, Held(at, s, 1, v)
                 PROVE  GoodEdges(at, s, v)'
    BY <1>1 DEF Edges, Held
  <2>2. GoodEdges(at, s, v)  BY <1>2, <2>1 DEF Edges
  <2>3. ~(at[<<s, 1, v>>] \in DOMAIN new_phi_nodes /\ at[<<s, 1, v>>][1] = s)
    BY <1>2, <2>1 DEF NoOwnPhi, PhiInv
  <2> QED  BY <1>1, <1>7, <2>2, <2>3, IrKept DEF GoodEdges, Held
<1>11. \A i \in 1..Len(calls) : /\ calls'[i].block = calls[i].block
                                /\ calls'[i].pushed = calls[i].pushed
                                /\ Here(i)' = Here(i)
  <2>1. SUFFICES ASSUME NEW i \in 1..Len(calls)
                 PROVE  /\ calls'[i].block = calls[i].block
                        /\ calls'[i].pushed = calls[i].pushed
                        /\ Here(i)' = Here(i)
    OBVIOUS
  <2>2. CASE i # n  BY <1>1, <1>6, <2>2, IrKept DEF Here
  <2>3. CASE i = n  BY <1>1, <1>3, <1>4, <1>5, <1>6, <2>3, IrKept DEF Here
  <2> QED  BY <2>2, <2>3
<1>12. StacksInv(at, h)'
  <2>1. ASSUME NEW v \in Var PROVE StackInv(at, h, v)'
    <3>1. StackInv(at, h, v)  BY <1>2 DEF StacksInv
    <3>2. /\ h[0][v] = 0 /\ Len(value_stacks'[v]) = h[Len(calls')][v]
      BY <1>1, <1>6, <3>1 DEF StackInv
    <3>3. ASSUME NEW i \in 1..Len(calls')
          PROVE  /\ h[i][v] = h[i - 1][v] + calls'[i].pushed[v]
                 /\ \A j \in i..Len(calls') : h[i][v] <= h[j][v]
                 /\ v \in allocas' => at[<<calls'[i].block, Here(i)', v>>] =
                      IF h[i][v] = 0 THEN undef ELSE value_stacks'[v][h[i][v]]
      <4>1. i \in 1..Len(calls)  BY <1>6
      <4>2. /\ calls'[i].block = calls[i].block /\ calls'[i].pushed = calls[i].pushed
            /\ Here(i)' = Here(i)
        BY <1>11, <4>1
      <4>3. /\ h[i][v] = h[i - 1][v] + calls[i].pushed[v]
            /\ \A j \in i..Len(calls) : h[i][v] <= h[j][v]
            /\ v \in allocas => at[<<calls[i].block, Here(i), v>>] =
                 IF h[i][v] = 0 THEN undef ELSE value_stacks[v][h[i][v]]
        BY <3>1, <4>1 DEF StackInv
      <4> QED  BY <1>1, <1>6, <4>2, <4>3
    <3> QED  BY <3>2, <3>3 DEF StackInv
  <2> QED  BY <1>1, <1>2, <1>6, <2>1 DEF StacksInv
<1>13. \A c \in Blocks, k \in Nat : Passed(c, k)' <=> Passed(c, k)
  <2>1. SUFFICES ASSUME NEW c \in Blocks, NEW k \in Nat PROVE Passed(c, k)' <=> Passed(c, k)
    OBVIOUS
  <2>2. Passed(c, k)' <=> k \in 1..EndOf(c) /\ (c = b => k <= EndOf(b) + 1)
    BY <1>1, <1>5, <1>6, IrKept DEF Passed
  <2>3. Passed(c, k) <=> k \in 1..EndOf(c) /\ (c = b => k <= EndOf(b))
    BY <1>1, <1>3, <1>4 DEF Passed
  <2> QED  BY <1>3, <1>4, <2>2, <2>3
<1>14. HeldInv(at, seen)'
  BY <1>1, <1>2, <1>13 DEF HeldInv, Held
<1>15. PhiStarts(at, seen)' /\ Inherits(at, seen)'
  BY <1>1, <1>2, <1>7, IrKept DEF PhiStarts, Inherits
<1>16. \A v, a, c : DefinedBetween(v, a, c)' <=> DefinedBetween(v, a, c)
  BY <1>1, <1>7, IrKept DEF DefinedBetween, PhiBlocks
<1>17. Undefined(at, seen)'
  BY <1>1, <1>2, <1>16, IrKept DEF Undefined, Held
<1>18. NoOwnPhi(at)'
  BY <1>1, <1>2 DEF NoOwnPhi, Held
<1>19. PhisTold(at, seen)'
  <2>1. SUFFICES ASSUME NEW phi \in DOMAIN new_phi_nodes, NEW c \in Preds(succ, phi[1])
                 PROVE  /\ Told(seen, c)' => new_phi_nodes'[phi][c] = at[<<c, EndOf(c), phi[2]>>]
                        /\ ~Told(seen, c)' => new_phi_nodes'[phi][c] = undef
    <3>1. succ' = succ /\ \A c : EndOf(c)' = EndOf(c)  BY <1>1, IrKept
    <3> QED  BY <1>7, <2>1, <3>1 DEF PhisTold
  <2>2. c \in DOMAIN new_phi_nodes[phi] /\ phi[2] \in allocas /\ phi[2] \in Var
    BY <2>1 DEF PhiInv, SortInv
  <2>3. new_phi_nodes'[phi][c] = IF c = b THEN Back(phi[2]) ELSE new_phi_nodes[phi][c]
    BY <1>1, <1>4, <2>2
  <2>4. Told(seen, c)' <=> c \in seen
    BY <1>1, <1>5, <1>6, IrKept DEF Told
  <2>5. c # b => (Told(seen, c) <=> c \in seen)
    BY <1>4 DEF Told
  <2>6. CASE c = b
    <3>1. Here(Len(calls)) = EndOf(b)  BY <1>3, <1>4 DEF Here
    <3>2. Back(phi[2]) = at[<<Top.block, Here(Len(calls)), phi[2]>>]
      BY <1>1, <1>2, <2>2, TopHolds
    <3> QED  BY <1>3, <1>4, <2>3, <2>4, <2>6, <3>1, <3>2
  <2>7. CASE c # b
    BY <1>2, <2>3, <2>4, <2>5, <2>7 DEF PhisTold
  <2> QED  BY <2>6, <2>7
<1> QED  BY <1>6, <1>8, <1>9, <1>10, <1>12, <1>14, <1>15, <1>17, <1>18, <1>19 DEF RenameInv

----------------------------------------------------------------------------
(* The renaming: a call returns.                                           *)

(* A call returns: what it pushed is popped.                               *)
LEMMA LeaveKeeps ==
    ASSUME GraphInv, ProgInv, PhiInv, SortInv,
           NEW at, NEW Q, NEW seen, NEW h, RenameInv(at, Q, seen, h), Leave
    PROVE  \E h2 : RenameInv(at, Q, seen, h2)'
<1>1. /\ calls # <<>> /\ Top.next = Len(code[Top.block]) + 2 /\ Top.rest = {}
      /\ value_stacks' = [v \in Var |->
            SubSeq(value_stacks[v], 1, Len(value_stacks[v]) - Top.pushed[v])]
      /\ calls' = Below
      /\ UNCHANGED irVars /\ operand' = operand /\ new_phi_nodes' = new_phi_nodes
      /\ promoted' = promoted /\ allocas' = allocas
  BY DEF Leave, fastVars
<1>2. /\ Q = RenamedLoads(seen) /\ Cert(at, Q) /\ Edges(at, promoted)
      /\ CallsInv(seen) /\ SeenInv(seen) /\ StacksInv(at, h) /\ HeldInv(at, seen)
      /\ PhiStarts(at, seen) /\ Inherits(at, seen) /\ Undefined(at, seen)
      /\ PhisTold(at, seen) /\ NoOwnPhi(at)
  BY DEF RenameInv
<1>3. PICK n, m : n = Len(calls) /\ m = Len(calls) - 1  OBVIOUS
<1>4. /\ n \in Nat /\ n \in 1..n /\ m \in Nat /\ m = n - 1
      /\ Below \in Seq(Calls) /\ Len(Below) = m
      /\ \A i \in 1..m : Below[i] = calls[i]
      /\ Top = calls[n] /\ Top \in Calls /\ Top.next \in Nat
      /\ EndOf(Top.block) \in Nat /\ Top.next = EndOf(Top.block) + 1
      /\ Top.block \in Blocks
  BY <1>1, <1>2, <1>3, OpenCall
<1>5. /\ calls' \in Seq(Calls) /\ Len(calls') = m
      /\ \A i \in 1..m : calls'[i] = calls[i]
      /\ \A i \in 1..m : i \in 1..n /\ i # n
  BY <1>1, <1>4
(* Whatever call is on top, its block is done.                             *)
<1>6. calls' # <<>> => /\ Top' = calls[m] /\ m \in 1..m
                       /\ Top'.next = EndOf(Top'.block) + 1
  <2>1. SUFFICES ASSUME calls' # <<>>
                 PROVE  /\ Top' = calls[m] /\ m \in 1..m
                        /\ Top'.next = EndOf(Top'.block) + 1
    OBVIOUS
  <2>2. m \in 1..m /\ calls'[m] = calls[m] /\ m \in 1..n /\ m # n
    BY <1>4, <1>5, <2>1
  <2>3. Top' = calls[m]  BY <1>5, <2>2 DEF Top
  <2>4. CallInv(seen, m)  BY <1>2, <1>3, <2>2 DEF CallsInv
  <2>5. calls[m].next = EndOf(calls[m].block) + 1  BY <1>3, <2>2, <2>4 DEF CallInv
  <2> QED  BY <2>2, <2>3, <2>5
<1>7. \A c \in Blocks, k \in Nat : Passed(c, k)' <=> Passed(c, k)
  <2>1. SUFFICES ASSUME NEW c \in Blocks, NEW k \in Nat PROVE Passed(c, k)' <=> Passed(c, k)
    OBVIOUS
  <2>2. EndOf(c)' = EndOf(c) /\ EndOf(c) \in Nat  BY <1>1, IrKept, WrittenIs DEF EndOf
  <2>3. Passed(c, k)' <=> k \in 1..EndOf(c)
    BY <1>6, <2>2 DEF Passed
  <2>4. Passed(c, k) <=> k \in 1..EndOf(c)
    BY <1>4, <2>2 DEF Passed
  <2> QED  BY <2>3, <2>4
<1>8. \A c : Told(seen, c)' <=> Told(seen, c)
  <2>1. \A c : Told(seen, c)' <=> c \in seen  BY <1>6, <1>1, IrKept DEF Told
  <2>2. \A c : Told(seen, c) <=> c \in seen  BY <1>4 DEF Told
  <2> QED  BY <2>1, <2>2
<1>9. Cert(at, Q)'  BY <1>1, <1>2, CertKept
<1>10. Q = RenamedLoads(seen)'
  <2>1. \A p \in Written : p[1] \in Blocks /\ p[2] < EndOf(p[1]) + 1
    <3> SUFFICES ASSUME NEW p \in Written PROVE p[1] \in Blocks /\ p[2] < EndOf(p[1]) + 1
      OBVIOUS
    <3>1. p[1] \in Blocks /\ p[2] \in 1..Len(code[p[1]]) /\ Len(code[p[1]]) \in Nat
      BY WrittenIs
    <3> QED  BY <3>1 DEF EndOf
  <2>2. RenamedLoads(seen)' = FastLoads' \cup
          {p \in Written : Stmt(p).from \in allocas /\ p[1] \in seen}
    BY <1>1, <1>6, <2>1, IrKept DEF RenamedLoads
  <2>3. RenamedLoads(seen) = FastLoads \cup
          {p \in Written : Stmt(p).from \in allocas /\ p[1] \in seen}
    BY <1>4, <2>1 DEF RenamedLoads
  <2>4. FastLoads' = FastLoads  BY <1>1, IrKept DEF FastLoads
  <2> QED  BY <1>2, <2>2, <2>3, <2>4
<1>11. Edges(at, promoted)'  BY <1>1, <1>2, EdgesKept
<1>12. CallsInv(seen)'
  <2>1. ASSUME NEW i \in 1..m PROVE CallInv(seen, i)'
    <3>1. CallInv(seen, i) /\ i # n /\ calls'[i] = calls[i] /\ i \in 1..n
      BY <1>2, <1>3, <1>5 DEF CallsInv
    <3> QED  BY <1>1, <1>3, <3>1, IrKept DEF CallInv
  <2>2. \A i \in 1..m, j \in 1..m : i < j =>
          /\ calls'[i].block # calls'[j].block
          /\ calls'[j].block \in dom'[calls'[i].block]
    <3>1. dom' = dom  BY <1>1, IrKept
    <3>2. \A i \in 1..n, j \in 1..n : i < j =>
              /\ calls[i].block # calls[j].block
              /\ calls[j].block \in dom[calls[i].block]
      BY <1>2, <1>3 DEF CallsInv
    <3> QED  BY <1>5, <3>1, <3>2
  <2> QED  BY <1>5, <2>1, <2>2 DEF CallsInv
<1>13. SeenInv(seen)'
  <2>1. ASSUME NEW c \in seen, NEW d \in children[c], d \notin seen
        PROVE  \E i \in 1..m : calls'[i].block = c /\ d \in calls'[i].rest
    <3>1. PICK i \in 1..n : calls[i].block = c /\ d \in calls[i].rest
      BY <1>2, <1>3, <2>1 DEF SeenInv
    <3>2. i # n  BY <1>1, <1>4, <3>1
    <3>3. i \in 1..m  BY <1>4, <3>2
    <3> QED  BY <1>5, <3>1, <3>3
  <2> QED  BY <1>1, <1>2, <1>5, <2>1, IrKept DEF SeenInv
<1>14. PICK h2 : h2 = [i \in 0..m |-> h[i]]  OBVIOUS
<1>15. \A i \in 1..m : Here(i)' = Here(i)
  BY <1>1, <1>5, IrKept DEF Here
<1>16. h \in [0..n -> [Var -> Nat]] /\ m \in 0..n /\ 0 \in 0..m
  BY <1>2, <1>3, <1>4 DEF StacksInv
<1>17. ASSUME NEW v \in Var
       PROVE  /\ value_stacks'[v] \in Seq({undef} \cup Positions \cup Phis)
              /\ StackInv(at, h2, v)'
  <2>1. /\ StackInv(at, h, v)
        /\ value_stacks[v] \in Seq({undef} \cup Positions \cup Phis)
    BY <1>2 DEF StacksInv
  <2>2. /\ Len(value_stacks[v]) = h[n][v] /\ h[n][v] = h[m][v] + Top.pushed[v]
        /\ h[m][v] \in Nat /\ Top.pushed[v] \in Nat
    BY <1>3, <1>4, <1>16, <2>1 DEF StackInv, Calls
  <2>3. /\ Len(value_stacks[v]) - Top.pushed[v] = h[m][v]
        /\ h[m][v] \in 0..Len(value_stacks[v])
    BY <2>2
  <2>4. value_stacks'[v] = SubSeq(value_stacks[v], 1, h[m][v])
    BY <1>1, <2>3
  <2>5. /\ value_stacks'[v] \in Seq({undef} \cup Positions \cup Phis)
        /\ Len(value_stacks'[v]) = h[m][v]
        /\ \A i \in 1..h[m][v] : value_stacks'[v][i] = value_stacks[v][i]
    BY <2>1, <2>3, <2>4, FirstOf
  <2>6. /\ h2[0][v] = 0 /\ Len(value_stacks'[v]) = h2[Len(calls')][v]
    BY <1>3, <1>5, <1>14, <1>16, <1>4, <2>1, <2>5 DEF StackInv
  <2>7. ASSUME NEW i \in 1..Len(calls')
        PROVE  /\ h2[i][v] = h2[i - 1][v] + calls'[i].pushed[v]
               /\ \A j \in i..Len(calls') : h2[i][v] <= h2[j][v]
               /\ v \in allocas' => at[<<calls'[i].block, Here(i)', v>>] =
                     IF h2[i][v] = 0 THEN undef ELSE value_stacks'[v][h2[i][v]]
    <3>1. i \in 1..m /\ i \in 1..n /\ calls'[i] = calls[i]  BY <1>5
    <3>2. /\ h2[i] = h[i] /\ h2[i - 1] = h[i - 1] /\ \A j \in i..m : h2[j] = h[j]
          /\ \A j \in i..m : j \in i..n
          /\ m \in i..n /\ i \in 0..n
      BY <1>4, <1>14, <3>1
    <3>3. /\ h[i][v] = h[i - 1][v] + calls[i].pushed[v]
          /\ \A j \in i..n : h[i][v] <= h[j][v]
          /\ v \in allocas => at[<<calls[i].block, Here(i), v>>] =
                IF h[i][v] = 0 THEN undef ELSE value_stacks[v][h[i][v]]
      BY <1>3, <2>1, <3>1 DEF StackInv
    <3>4. h[i][v] <= h[m][v] /\ h[i][v] \in Nat
      BY <1>16, <3>2, <3>3
    <3>5. h[i][v] = 0 \/ value_stacks'[v][h[i][v]] = value_stacks[v][h[i][v]]
      BY <2>2, <2>5, <3>4
    <3>6. v \in allocas' => at[<<calls'[i].block, Here(i)', v>>] =
                     IF h2[i][v] = 0 THEN undef ELSE value_stacks'[v][h2[i][v]]
      BY <1>1, <1>15, <3>1, <3>2, <3>3, <3>5
    <3>7. \A j \in i..Len(calls') : h2[i][v] <= h2[j][v]
      BY <1>5, <3>1, <3>2, <3>3
    <3> QED  BY <3>1, <3>2, <3>3, <3>6, <3>7
  <2>8. StackInv(at, h2, v)'  BY <2>6, <2>7 DEF StackInv
  <2> QED  BY <2>5, <2>8
<1>18. StacksInv(at, h2)'
  <2>1. h2 \in [0..m -> [Var -> Nat]]  BY <1>4, <1>14, <1>16
  <2>2. value_stacks' \in [Var -> Seq({undef} \cup Positions \cup Phis)]
    BY <1>1, <1>17
  <2> QED  BY <1>5, <1>17, <2>1, <2>2 DEF StacksInv
<1>19. HeldInv(at, seen)'
  BY <1>1, <1>2, <1>7 DEF HeldInv, Held
<1>20. PhiStarts(at, seen)' /\ Inherits(at, seen)'
  BY <1>1, <1>2, IrKept DEF PhiStarts, Inherits
<1>21. \A v, a, c : DefinedBetween(v, a, c)' <=> DefinedBetween(v, a, c)
  BY <1>1, IrKept DEF DefinedBetween, PhiBlocks
<1>22. Undefined(at, seen)'
  BY <1>1, <1>2, <1>21, IrKept DEF Undefined, Held
<1>23. NoOwnPhi(at)'
  BY <1>1, <1>2 DEF NoOwnPhi, Held
<1>24. PhisTold(at, seen)'
  <2>1. succ' = succ /\ \A c : EndOf(c)' = EndOf(c)  BY <1>1, IrKept
  <2> QED  BY <1>1, <1>2, <1>8, <2>1 DEF PhisTold
<1>25. RenameInv(at, Q, seen, h2)'
  BY <1>9, <1>10, <1>11, <1>12, <1>13, <1>18, <1>19, <1>20, <1>22, <1>23, <1>24 DEF RenameInv
<1> QED  BY <1>25

----------------------------------------------------------------------------
(* The renaming: the first call.                                           *)

(* What is held at the beginning of further blocks is added.               *)
LEMMA Extended ==
    ASSUME GraphInv, ProgInv,
           UNCHANGED irVars, operand' = operand, new_phi_nodes' = new_phi_nodes,
           promoted' = promoted, NEW at, NEW Q, Cert(at, Q), Edges(at, promoted),
           NEW at2, DOMAIN at \subseteq DOMAIN at2, DOMAIN at2 \subseteq Points,
           \A pt \in DOMAIN at : at2[pt] = at[pt],
           \A b \in Blocks, k \in Nat, v \in Var : Held(at2, b, k, v) /\ ~Held(at, b, k, v) =>
              /\ k = 1 /\ v \notin promoted /\ b \in Reachable(succ)
              /\ Avail(Q, at2[<<b, k, v>>], b, k)
              /\ b = entry => at2[<<b, k, v>>] = undef
    PROVE  Cert(at2, Q)' /\ Edges(at2, promoted)'
<1>1. ASSUME NEW b \in Blocks, NEW k \in Nat, NEW v \in Var, Held(at2, b, k, v)
      PROVE  GoodPoint(at2, Q, b, k, v)'
  <2>1. CASE Held(at, b, k, v)
    <3>1. GoodPoint(at, Q, b, k, v) /\ at2[<<b, k, v>>] = at[<<b, k, v>>]
      BY <2>1 DEF Cert, Held
    <3>2. Avail(Q, at2[<<b, k, v>>], b, k)'
      BY <3>1, AvailKept DEF GoodPoint
    <3>3. ASSUME k > 1 PROVE Kept(at2, Q, <<b, k - 1>>, v)'
      <4> DEFINE p == <<b, k - 1>>
      <4>1. Kept(at, Q, p, v)  BY <3>1, <3>3 DEF GoodPoint
      <4>2. p[1] = b /\ p[2] = k - 1 /\ p[2] + 1 = k
        BY <1>1, <3>3
      <4>3. at2[<<p[1], p[2] + 1, v>>] = at[<<p[1], p[2] + 1, v>>]
        BY <3>1, <4>2
      <4> HIDE DEF p
      <4>4. Kept(at2, Q, p, v)
        BY <4>1, <4>3 DEF Kept, Held
      <4>5. Kept(at2, Q, p, v)'
        BY <4>4, KeptKept
      <4> QED  BY <4>5 DEF p
    <3> QED  BY <3>1, <3>2, <3>3, IrKept DEF GoodPoint
  <2>2. CASE ~Held(at, b, k, v)
    <3>1. /\ k = 1 /\ b \in Reachable(succ)
          /\ Avail(Q, at2[<<b, k, v>>], b, k)
          /\ b = entry => at2[<<b, k, v>>] = undef
      BY <1>1, <2>2
    <3>2. Avail(Q, at2[<<b, k, v>>], b, k)'  BY <3>1, AvailKept
    <3>3. 1 \in 1..(Len(code[b]) + 1)  BY WrittenIs
    <3> QED  BY <3>1, <3>2, <3>3, IrKept DEF GoodPoint
  <2> QED  BY <2>1, <2>2
<1>2. GoodUses(at2, Q)'
  <2>1. GoodUses(at2, Q)  BY DEF Cert, GoodUses, Held
  <2> QED  BY <2>1, IrKept DEF GoodUses, Held
<1>3. DOMAIN at2 \subseteq Points /\ Q \subseteq Loads'
  BY IrKept DEF Cert
<1>4. Cert(at2, Q)'  BY <1>1, <1>2, <1>3 DEF Cert, Held, Points
<1>5. ASSUME NEW s \in Blocks, NEW v \in promoted, Held(at2, s, 1, v)
      PROVE  GoodEdges(at2, s, v)'
  <2>1. v \in Var  BY <1>5 DEF Held, Points
  <2>2. Held(at, s, 1, v)  BY <1>5, <2>1
  <2>3. GoodEdges(at, s, v)  BY <2>2 DEF Edges
  <2>4. at2[<<s, 1, v>>] = at[<<s, 1, v>>]  BY <2>2 DEF Held
  <2>5. GoodEdges(at2, s, v)
    BY <2>3, <2>4 DEF GoodEdges, Held
  <2> QED  BY <2>5, IrKept DEF GoodEdges, Held
<1>6. Edges(at2, promoted)'  BY <1>5 DEF Edges, Held
<1> QED  BY <1>4, <1>6

(* The renaming begins at the entry.                                       *)
LEMMA StartRenameKeeps ==
    ASSUME GraphInv, ProgInv, PhiInv, SortInv, IdleInv,
           NEW at, NEW Q, FastInv(at, Q), StartRename
    PROVE  \E at2, seen, h : RenameInv(at2, Q, seen, h)'
<1>1. /\ phase = "phis"
      /\ value_stacks' = [v \in Var |->
            IF <<entry, v>> \in DOMAIN new_phi_nodes THEN Append(value_stacks[v], <<entry, v>>)
                                                     ELSE value_stacks[v]]
      /\ calls' = <<Enter(entry)>>
      /\ UNCHANGED irVars /\ operand' = operand /\ new_phi_nodes' = new_phi_nodes
      /\ promoted' = promoted /\ allocas' = allocas
  BY DEF StartRename, PushPhis, fastVars
<1>2. /\ Q = FastLoads /\ Cert(at, Q) /\ Edges(at, promoted)
      /\ \A b \in Blocks, k \in Nat, v \in Var : Held(at, b, k, v) =>
            v \in promoted /\ at[<<b, k, v>>] \notin Phis
      /\ \A phi \in DOMAIN new_phi_nodes : \A b \in Preds(succ, phi[1]) :
            new_phi_nodes[phi][b] = undef
  BY DEF FastInv
<1>3. /\ allocas \subseteq Var /\ promoted \subseteq Var /\ promoted \cap allocas = {}
  BY DEF SortInv
<1>4. /\ entry \in Blocks /\ entry \in Reachable(succ) /\ EndOf(entry) \in Nat
      /\ EndOf(entry) \in 1..EndOf(entry)
  <2>1. entry \in Blocks /\ entry \in Reachable(succ)
    BY BlockIds, DomTable, ReachableClosed
  <2> QED  BY <2>1, WrittenIs DEF EndOf
<1>5. \A v : <<entry, v>> \notin DOMAIN new_phi_nodes  BY DEF PhiInv
<1>6. value_stacks' = [v \in Var |-> <<>>]
  BY <1>1, <1>5 DEF IdleInv
<1>7. PICK r : r = [block |-> entry, next |-> 1, rest |-> children[entry],
                    pushed |-> [v \in Var |-> 0]]
  OBVIOUS
<1>8. calls' = <<r>>
  BY <1>1, <1>5, <1>7 DEF Enter
<1>9. /\ r \in Calls /\ r.block = entry /\ r.next = 1 /\ r.rest = children[entry]
      /\ r.pushed = [v \in Var |-> 0]
  BY <1>4, <1>7 DEF Calls, GraphInv
<1>10. /\ calls' \in Seq(Calls) /\ Len(calls') = 1 /\ calls'[1] = r /\ calls' # <<>>
       /\ 1..Len(calls') = {1}
  BY <1>8, <1>9
<1>11. Top' = r  BY <1>10 DEF Top
<1>12. PICK seen, h, al : /\ seen = {entry} /\ h = [i \in 0..1 |-> [v \in Var |-> 0]]
                          /\ al = allocas
  OBVIOUS
<1>13. PICK at2 : at2 = [pt \in DOMAIN at \cup {<<entry, 1, v>> : v \in al} |->
                            IF pt \in DOMAIN at THEN at[pt] ELSE undef]
  OBVIOUS
<1>14. /\ DOMAIN at \subseteq DOMAIN at2 /\ DOMAIN at2 \subseteq Points
       /\ \A pt \in DOMAIN at : at2[pt] = at[pt]
  BY <1>2, <1>3, <1>4, <1>12, <1>13 DEF Cert, Points
<1>15. \A b \in Blocks, k \in Nat, v \in Var : Held(at2, b, k, v) =>
          \/ Held(at, b, k, v) /\ at2[<<b, k, v>>] = at[<<b, k, v>>] /\ v \in promoted
          \/ ~Held(at, b, k, v) /\ v \in allocas /\ b = entry /\ k = 1
             /\ at2[<<b, k, v>>] = undef
  BY <1>2, <1>12, <1>13 DEF Held
<1>16. \A v \in allocas : Held(at2, entry, 1, v) /\ at2[<<entry, 1, v>>] = undef
  <2>1. \A v \in allocas : Held(at2, entry, 1, v)  BY <1>12, <1>13 DEF Held
  <2>2. entry \in Blocks /\ 1 \in Nat /\ \A v \in allocas : v \in Var /\ v \notin promoted
    BY <1>3, <1>4
  <2> QED  BY <1>15, <2>1, <2>2
<1>17. Cert(at2, Q)' /\ Edges(at2, promoted)'
  <2>1. \A b \in Blocks, k \in Nat, v \in Var : Held(at2, b, k, v) /\ ~Held(at, b, k, v) =>
              /\ k = 1 /\ v \notin promoted /\ b \in Reachable(succ)
              /\ Avail(Q, at2[<<b, k, v>>], b, k)
              /\ b = entry => at2[<<b, k, v>>] = undef
    BY <1>3, <1>4, <1>15 DEF Avail
  <2> QED  BY <1>1, <1>2, <1>14, <2>1, Extended
<1>18. Q = RenamedLoads(seen)'
  <2>1. \A p \in Written : p[1] = entry => ~(p[2] < 1)
    BY WrittenIs
  <2>2. RenamedLoads(seen)' = FastLoads'
    BY <1>9, <1>10, <1>11, <1>12, <2>1, IrKept, <1>1 DEF RenamedLoads
  <2> QED  BY <1>1, <1>2, <2>2, IrKept DEF FastLoads
<1>19. \A c \in children[entry] : c \in Blocks /\ c # entry
  BY <1>4, ChildrenAre DEF ImmediatelyDominates
<1>20. CallsInv(seen)'
  <2>1. CallInv(seen, 1)'
    BY <1>1, <1>4, <1>9, <1>10, <1>12, <1>19, IrKept DEF CallInv
  <2> QED  BY <1>10, <2>1 DEF CallsInv
<1>21. \A a \in Blocks : entry \in dom[a] => a = entry
  <2>1. SUFFICES ASSUME NEW a \in Blocks, entry \in dom[a] PROVE a = entry  OBVIOUS
  <2>2. a \in Reachable(succ)  BY <2>1, DomReachable
  <2>3. a \in dom[entry]  BY <2>2, DomReflexive
  <2> QED  BY <2>1, <2>3, DomAntisymmetric
<1>22. SeenInv(seen)'
  BY <1>1, <1>4, <1>9, <1>10, <1>12, <1>21, IrKept DEF SeenInv
<1>23. Here(1)' = 1
  BY <1>1, <1>4, <1>9, <1>10, IrKept DEF Here
<1>24. StacksInv(at2, h)'
  <2>1. ASSUME NEW v \in Var PROVE StackInv(at2, h, v)'
    <3>1. h[0][v] = 0 /\ h[1][v] = 0 /\ Len(value_stacks'[v]) = 0 /\ r.pushed[v] = 0
      BY <1>6, <1>9, <1>12
    <3>2. v \in allocas' => at2[<<calls'[1].block, Here(1)', v>>] = undef
      BY <1>1, <1>9, <1>10, <1>16, <1>23
    <3> QED  BY <1>10, <3>1, <3>2 DEF StackInv
  <2>2. h \in [0..1 -> [Var -> Nat]]  BY <1>12
  <2> QED  BY <1>6, <1>10, <2>1, <2>2 DEF StacksInv
<1>25. HeldInv(at2, seen)'
  <2>1. \A b \in Blocks, k \in Nat : Passed(b, k)' /\ b \in seen <=> b = entry /\ k = 1
    <3>1. \A b \in Blocks, k \in Nat : Passed(b, k)' <=> k \in 1..EndOf(b) /\ (b = entry => k <= 1)
      BY <1>1, <1>9, <1>10, <1>11, IrKept DEF Passed
    <3> QED  BY <1>4, <1>12, <3>1
  <2>2. \A b \in Blocks, k \in Nat, v \in allocas : Held(at2, b, k, v) <=> b = entry /\ k = 1
    BY <1>3, <1>15, <1>16
  <2>3. \A b \in Blocks, k \in Nat, v \in Var :
           Held(at2, b, k, v) => v \in promoted \cup allocas
    BY <1>15
  <2> QED  BY <1>1, <2>1, <2>2, <2>3 DEF HeldInv, Held
<1>26. PhiStarts(at2, seen)'
  BY <1>1, <1>5, <1>12 DEF PhiStarts
<1>27. Inherits(at2, seen)'
  BY <1>1, <1>12, <1>21, IrKept DEF Inherits, ImmediatelyDominates
<1>28. Undefined(at2, seen)'
  BY <1>1, <1>12, <1>21, IrKept DEF Undefined
<1>29. NoOwnPhi(at2)'
  <2>1. ASSUME NEW s \in Blocks, NEW v \in promoted, Held(at2, s, 1, v)
        PROVE  at2[<<s, 1, v>>] \notin Phis
    <3>1. v \in Var /\ v \notin allocas  BY <1>3
    <3>2. Held(at, s, 1, v) /\ at2[<<s, 1, v>>] = at[<<s, 1, v>>]
      BY <1>15, <2>1, <3>1
    <3> QED  BY <1>2, <3>1, <3>2
  <2> QED  BY <1>1, <2>1 DEF NoOwnPhi, Held
<1>30. PhisTold(at2, seen)'
  <2>1. \A c : ~Told(seen, c)'
    BY <1>1, <1>4, <1>9, <1>10, <1>11, <1>12, IrKept DEF Told
  <2>2. succ' = succ /\ \A c : EndOf(c)' = EndOf(c)  BY <1>1, IrKept
  <2> QED  BY <1>1, <1>2, <2>1, <2>2 DEF PhisTold
<1>31. RenameInv(at2, Q, seen, h)'
  BY <1>17, <1>18, <1>20, <1>22, <1>24, <1>25, <1>26, <1>27, <1>28, <1>29, <1>30 DEF RenameInv
<1> QED  BY <1>31

----------------------------------------------------------------------------
(* The renaming: the call of a child.                                      *)

(* Two sequences, one behind the other.                                    *)
LEMMA ConcatIs ==
    ASSUME NEW S, NEW s \in Seq(S), NEW t \in Seq(S)
    PROVE  /\ s \o t \in Seq(S) /\ Len(s \o t) = Len(s) + Len(t)
           /\ \A i \in 1..(Len(s) + Len(t)) :
                 (s \o t)[i] = IF i <= Len(s) THEN s[i] ELSE t[i - Len(s)]
<1>1. s \o t \in Seq(S)  BY ConcatProperties, Zenon
<1>2. Len(s \o t) = Len(s) + Len(t)  BY ConcatProperties, Zenon
<1>3. \A i \in 1..(Len(s) + Len(t)) :
         (s \o t)[i] = IF i <= Len(s) THEN s[i] ELSE t[i - Len(s)]
  BY ConcatProperties, Zenon
<1> QED  BY <1>1, <1>2, <1>3

(* Two elements behind a sequence.                                         *)
LEMMA TwoMore ==
    ASSUME NEW S, NEW s \in Seq(S), NEW r \in S, NEW e \in S
    PROVE  /\ s \o <<r, e>> \in Seq(S) /\ Len(s \o <<r, e>>) = Len(s) + 2
           /\ (s \o <<r, e>>)[Len(s) + 1] = r /\ (s \o <<r, e>>)[Len(s) + 2] = e
           /\ \A i \in 1..Len(s) : (s \o <<r, e>>)[i] = s[i]
<1>1. PICK t : t = <<r, e>>  OBVIOUS
<1>2. t \in Seq(S) /\ Len(t) = 2 /\ t[1] = r /\ t[2] = e  BY <1>1
<1>3. s \o t \in Seq(S)  BY <1>2, ConcatIs, Zenon
<1>4. Len(s \o t) = Len(s) + Len(t)  BY <1>2, ConcatIs, Zenon
<1>5. \A i \in 1..(Len(s) + Len(t)) :
         (s \o t)[i] = IF i <= Len(s) THEN s[i] ELSE t[i - Len(s)]
  BY <1>2, ConcatIs, Zenon
<1>6. /\ Len(s) \in Nat
      /\ Len(s) + 1 \in 1..(Len(s) + Len(t)) /\ ~(Len(s) + 1 <= Len(s))
      /\ Len(s) + 2 \in 1..(Len(s) + Len(t)) /\ ~(Len(s) + 2 <= Len(s))
      /\ (Len(s) + 1) - Len(s) = 1 /\ (Len(s) + 2) - Len(s) = 2
      /\ \A i \in 1..Len(s) : i \in 1..(Len(s) + Len(t)) /\ i <= Len(s)
  BY <1>2
<1>7. (s \o t)[Len(s) + 1] = r /\ (s \o t)[Len(s) + 2] = e
  BY <1>2, <1>5, <1>6
<1>8. \A i \in 1..Len(s) : (s \o t)[i] = s[i]
  BY <1>5, <1>6
<1> QED  BY <1>1, <1>2, <1>3, <1>4, <1>7, <1>8

(* The calls when the one on top has called another.                       *)
Called(seen, c, r, e) ==
    /\ UNCHANGED irVars
    /\ CallsInv(seen) /\ SeenInv(seen) /\ calls # <<>>
    /\ Top.next = EndOf(Top.block) + 1 /\ c \in Top.rest
    /\ r \in Calls /\ r.block = Top.block /\ r.next = Top.next /\ r.rest = Top.rest \ {c}
    /\ e \in Calls /\ e.block = c /\ e.next = 1 /\ e.rest = children[c]
    /\ calls' = Below \o <<r, e>>

(* What the call of a child does to the calls.                             *)
LEMMA CallChild ==
    ASSUME GraphInv, ProgInv, NEW seen, NEW c, NEW r, NEW e, Called(seen, c, r, e),
           NEW seen2, seen2 = seen \cup {c}
    PROVE  /\ CallsInv(seen2)' /\ SeenInv(seen2)'
           /\ Len(calls') = Len(calls) + 1
           /\ calls'[Len(calls)] = r /\ calls'[Len(calls) + 1] = e /\ Top' = e
           /\ \A i \in 1..Len(calls) : i # Len(calls) => calls'[i] = calls[i]
<1>0. /\ UNCHANGED irVars
      /\ CallsInv(seen) /\ SeenInv(seen) /\ calls # <<>>
      /\ Top.next = EndOf(Top.block) + 1 /\ c \in Top.rest
      /\ r \in Calls /\ r.block = Top.block /\ r.next = Top.next /\ r.rest = Top.rest \ {c}
      /\ e \in Calls /\ e.block = c /\ e.next = 1 /\ e.rest = children[c]
      /\ calls' = Below \o <<r, e>>
  BY DEF Called
<1> USE <1>0
<1>1. PICK n, b : n = Len(calls) /\ b = Top.block  OBVIOUS
<1>2. /\ n \in Nat /\ n \in 1..n
      /\ Below \in Seq(Calls) /\ Len(Below) = n - 1
      /\ \A i \in 1..(n - 1) : Below[i] = calls[i]
      /\ Top = calls[n] /\ b \in Blocks /\ b \in seen /\ EndOf(b) \in Nat
  BY <1>1, OpenCall
<1>2a. \A i \in 1..n : calls[i] \in Calls /\ calls[i].block \in Blocks
  <2>1. calls \in Seq(Calls)  BY DEF CallsInv
  <2>2. \A i \in 1..n : calls[i] \in Calls  BY <1>1, <2>1
  <2> QED  BY <2>2 DEF Calls
<1>4. /\ calls' \in Seq(Calls) /\ Len(calls') = n + 1
      /\ calls'[n] = r /\ calls'[n + 1] = e
      /\ \A i \in 1..(n - 1) : calls'[i] = calls[i]
  <2>1. PICK B, t : B = Below /\ t = B \o <<r, e>>  OBVIOUS
  <2>2. B \in Seq(Calls) /\ Len(B) = n - 1  BY <1>2, <2>1
  <2>3. /\ t \in Seq(Calls) /\ Len(t) = Len(B) + 2
        /\ t[Len(B) + 1] = r /\ t[Len(B) + 2] = e
        /\ \A i \in 1..Len(B) : t[i] = B[i]
    BY <2>1, <2>2, TwoMore
  <2>4. Len(B) + 1 = n /\ Len(B) + 2 = n + 1  BY <1>2, <2>2
  <2> QED  BY <1>2, <2>1, <2>2, <2>3, <2>4
<1>5. Top' = e /\ n + 1 \in 1..(n + 1)
  BY <1>2, <1>4 DEF Top
<1>6. \A i \in 1..n : i # n => calls'[i] = calls[i]
  BY <1>2, <1>4
<1>7. \A i \in 1..n : i # n => i \in 1..(n - 1)  BY <1>2
<1>8. CallInv(seen, n)  BY <1>1, <1>2 DEF CallsInv
<1>9. c \in children[b] /\ c \notin seen
  BY <1>1, <1>2, <1>8 DEF CallInv
<1>10. /\ c \in Blocks /\ ImmediatelyDominates(dom, b, c) /\ c # b
       /\ c \in dom[b] /\ c \in Reachable(succ)
  BY <1>2, <1>9, ChildrenAre, DomReachable DEF ImmediatelyDominates
(* Nothing that c dominates has been seen.                                 *)
<1>11. \A d \in seen : d \notin dom[c]
  BY <1>9, <1>10 DEF SeenInv
<1>12. \A d \in children[c] : d \in Blocks /\ d \in dom[c] /\ d # c
  BY <1>10, ChildrenAre DEF ImmediatelyDominates
<1>13. EndOf(c) \in Nat /\ EndOf(c) >= 1  BY <1>10, WrittenIs DEF EndOf
<1>14. ASSUME NEW i \in 1..(n + 1) PROVE CallInv(seen2, i)'
  <2>1. CASE i = n + 1
    <3>1. calls'[i] = e /\ i = Len(calls')  BY <1>4, <2>1
    <3>2. /\ e.block \in seen2 /\ e.next \in 1..(EndOf(e.block)' + 1)
          /\ e.rest \subseteq children'[e.block]
          /\ e.rest \cap seen2 = {}
          /\ \A d \in seen2 : d \in dom'[e.block] => d = e.block
      BY <1>11, <1>12, <1>13, IrKept
    <3> QED  BY <3>1, <3>2 DEF CallInv
  <2>2. CASE i = n
    <3>1. calls'[i] = r  BY <1>4, <2>2
    <3>2. /\ r.block \in seen2 /\ r.next = EndOf(r.block)' + 1
          /\ r.next \in 1..(EndOf(r.block)' + 1) /\ ~(r.next <= EndOf(r.block)')
          /\ r.rest \subseteq children'[r.block]
          /\ r.rest \cap seen2 = {}
      BY <1>1, <1>2, <1>8, IrKept DEF CallInv
    <3> QED  BY <3>1, <3>2 DEF CallInv
  <2>3. CASE i # n /\ i # n + 1
    <3>1. i \in 1..n /\ calls'[i] = calls[i] /\ CallInv(seen, i)
      BY <1>1, <1>2, <1>6, <2>3 DEF CallsInv
    <3>2. calls[i].block # b
      BY <1>1, <1>2, <2>3, <3>1 DEF CallsInv
    <3>3. calls[i].block \in Blocks /\ calls[i].next = EndOf(calls[i].block) + 1
          /\ calls[i].next \in 1..(EndOf(calls[i].block) + 1)
          /\ calls[i].block \in seen
          /\ calls[i].rest \subseteq children[calls[i].block]
          /\ calls[i].rest \cap seen = {}
      BY <1>1, <1>2a, <2>3, <3>1 DEF CallInv
    <3>4. c \notin calls[i].rest
      <4>1. SUFFICES ASSUME c \in children[calls[i].block] PROVE FALSE  BY <3>3
      <4>2. ImmediatelyDominates(dom, calls[i].block, c)  BY <3>3, <4>1, ChildrenAre
      <4> QED  BY <1>2, <1>10, <3>2, <3>3, <4>2, OneIdom
    <3>5. EndOf(calls[i].block) \in Nat  BY <3>3, WrittenIs DEF EndOf
    <3>6. ~(calls[i].next <= EndOf(calls[i].block))  BY <3>3, <3>5
    <3> QED  BY <3>1, <3>3, <3>4, <3>6, IrKept DEF CallInv
  <2> QED  BY <2>1, <2>2, <2>3
<1>15. /\ \A i \in 1..n : calls'[i].block = calls[i].block /\ calls'[i].block \in seen
       /\ calls'[n + 1].block = c
  <2>1. \A i \in 1..n : calls[i].block \in seen  BY <1>1 DEF CallsInv, CallInv
  <2> QED  BY <1>1, <1>2, <1>4, <1>6, <2>1
<1>16. \A i \in 1..n : c \in dom[calls[i].block]
  <2>1. SUFFICES ASSUME NEW i \in 1..n PROVE c \in dom[calls[i].block]  OBVIOUS
  <2>2. CASE i = n  BY <1>1, <1>2, <1>10, <2>2
  <2>3. CASE i # n
    <3>1. i < n  BY <1>2, <2>3
    <3>2. b \in dom[calls[i].block]  BY <1>1, <1>2, <3>1 DEF CallsInv
    <3>3. calls[i].block \in Blocks  BY <1>2a
    <3> QED  BY <1>10, <3>2, <3>3, DomTransitive
  <2> QED  BY <2>2, <2>3
<1>17. ASSUME NEW i \in 1..(n + 1), NEW j \in 1..(n + 1), i < j
       PROVE  /\ calls'[i].block # calls'[j].block
              /\ calls'[j].block \in dom'[calls'[i].block]
  <2>1. i \in 1..n  BY <1>2, <1>17
  <2>2. dom' = dom  BY IrKept
  <2>3. CASE j = n + 1
    BY <1>9, <1>15, <1>16, <2>1, <2>2, <2>3
  <2>4. CASE j # n + 1
    <3>1. j \in 1..n  BY <1>2, <2>4
    <3>2. calls[i].block # calls[j].block /\ calls[j].block \in dom[calls[i].block]
      BY <1>1, <1>17, <2>1, <3>1 DEF CallsInv
    <3> QED  BY <1>15, <2>1, <2>2, <3>1, <3>2
  <2> QED  BY <2>3, <2>4
<1>18. CallsInv(seen2)'
  BY <1>4, <1>14, <1>17 DEF CallsInv
<1>19. SeenInv(seen2)'
  <2>1. seen2 \subseteq Reachable(succ) /\ entry \in seen2
    BY <1>10 DEF SeenInv
  <2>2. ASSUME NEW d \in seen2, NEW a \in Blocks, d \in dom[a] PROVE a \in seen2
    <3>1. CASE d \in seen  BY <2>2, <3>1 DEF SeenInv
    <3>2. CASE d = c /\ a # c
      <4>1. b \in dom[a]  BY <1>10, <2>2, <3>2 DEF ImmediatelyDominates
      <4> QED  BY <1>2, <4>1 DEF SeenInv
    <3> QED  BY <3>1, <3>2
  <2>3. ASSUME NEW d \in seen2, NEW f \in children[d]
        PROVE  f \in seen2 \/ \E i \in 1..(n + 1) : calls'[i].block = d /\ f \in calls'[i].rest
    <3>1. CASE d = c
      <4>1. calls'[n + 1].block = d /\ f \in calls'[n + 1].rest  BY <1>4, <2>3, <3>1
      <4> QED  BY <1>5, <4>1
    <3>2. CASE d \in seen
      <4>1. f \in seen \/ \E i \in 1..n : calls[i].block = d /\ f \in calls[i].rest
        BY <1>1, <2>3, <3>2 DEF SeenInv
      <4>2. ASSUME NEW i \in 1..n, calls[i].block = d, f \in calls[i].rest, f # c
            PROVE  calls'[i].block = d /\ f \in calls'[i].rest /\ i \in 1..(n + 1)
        BY <1>1, <1>2, <1>4, <1>6, <4>2
      <4> QED  BY <4>1, <4>2
    <3> QED  BY <3>1, <3>2
  <2> QED  BY <1>4, <2>1, <2>2, <2>3, IrKept DEF SeenInv
<1> QED  BY <1>1, <1>4, <1>5, <1>6, <1>18, <1>19

(* A child of the dominator tree is entered.                               *)
LEMMA DescendKeeps ==
    ASSUME GraphInv, ProgInv, PhiInv, SortInv,
           NEW at, NEW Q, NEW seen, NEW h, RenameInv(at, Q, seen, h), Descend
    PROVE  \E at2, seen2, h2 : RenameInv(at2, Q, seen2, h2)'
<1>1. /\ calls # <<>> /\ Top.next = Len(code[Top.block]) + 2
      /\ UNCHANGED irVars /\ operand' = operand /\ new_phi_nodes' = new_phi_nodes
      /\ promoted' = promoted /\ allocas' = allocas
  BY DEF Descend, fastVars
<1>2. PICK c \in Top.rest :
         /\ PushPhis(c)
         /\ calls' = Below \o
                <<[block |-> Top.block, next |-> Top.next,
                   rest |-> Top.rest \ {c}, pushed |-> Top.pushed], Enter(c)>>
  BY DEF Descend
<1>3. /\ Q = RenamedLoads(seen) /\ Cert(at, Q) /\ Edges(at, promoted)
      /\ CallsInv(seen) /\ SeenInv(seen) /\ StacksInv(at, h) /\ HeldInv(at, seen)
      /\ PhiStarts(at, seen) /\ Inherits(at, seen) /\ Undefined(at, seen)
      /\ PhisTold(at, seen) /\ NoOwnPhi(at)
  BY DEF RenameInv
<1>4. /\ allocas \subseteq Var /\ promoted \subseteq Var /\ promoted \cap allocas = {}
  BY DEF SortInv
<1>5. PICK n, b, eb : n = Len(calls) /\ b = Top.block /\ eb = EndOf(b)  OBVIOUS
<1>6. /\ n \in Nat /\ n \in 1..n /\ Top \in Calls /\ Top = calls[n]
      /\ b \in Blocks /\ b \in seen /\ b \in Reachable(succ) /\ eb \in Nat
      /\ Top.next = eb + 1 /\ eb = Len(code[b]) + 1
  BY <1>1, <1>3, <1>5, OpenCall
<1>7. CallInv(seen, n)  BY <1>3, <1>5, <1>6 DEF CallsInv
<1>8. c \in children[b] /\ c \notin seen
  BY <1>2, <1>5, <1>6, <1>7 DEF CallInv
<1>9. /\ c \in Blocks /\ ImmediatelyDominates(dom, b, c) /\ c # b
      /\ c \in dom[b] /\ c \in Reachable(succ) /\ c \in dom[c] /\ c # entry
  <2>1. c \in Blocks /\ ImmediatelyDominates(dom, b, c)  BY <1>6, <1>8, ChildrenAre
  <2>2. c # b /\ c \in dom[b]  BY <2>1 DEF ImmediatelyDominates
  <2>3. c \in Reachable(succ)  BY <1>6, <2>2, DomReachable
  <2> QED  BY <1>3, <1>8, <2>1, <2>2, <2>3, DomReflexive DEF SeenInv
<1>10. EndOf(c) \in Nat /\ EndOf(c) >= 1  BY <1>9, WrittenIs DEF EndOf
(* The calls.                                                              *)
<1>11. PICK r, e : /\ r = [block |-> Top.block, next |-> Top.next,
                           rest |-> Top.rest \ {c}, pushed |-> Top.pushed]
                   /\ e = Enter(c)
  OBVIOUS
<1>12. /\ r \in Calls /\ r.block = Top.block /\ r.next = Top.next /\ r.rest = Top.rest \ {c}
       /\ r.pushed = Top.pushed
  BY <1>6, <1>11 DEF Calls
<1>13. children[c] \subseteq Blocks  BY <1>9, ChildrenAre
<1>14. /\ e \in Calls /\ e.block = c /\ e.next = 1 /\ e.rest = children[c]
       /\ \A v \in Var : e.pushed[v] = IF <<c, v>> \in DOMAIN new_phi_nodes THEN 1 ELSE 0
  BY <1>9, <1>11, <1>13 DEF Calls, Enter
<1>15. PICK seen2, al, phis : seen2 = seen \cup {c} /\ al = allocas /\ phis = DOMAIN new_phi_nodes
  OBVIOUS
<1>16. /\ CallsInv(seen2)' /\ SeenInv(seen2)' /\ Len(calls') = n + 1
       /\ calls'[n] = r /\ calls'[n + 1] = e /\ Top' = e
       /\ \A i \in 1..n : i # n => calls'[i] = calls[i]
  <2>1. calls' = Below \o <<r, e>> /\ Top.next = EndOf(Top.block) + 1
    BY <1>2, <1>5, <1>6, <1>11
  <2>2. Called(seen, c, r, e)
    BY <1>1, <1>3, <1>12, <1>14, <2>1 DEF Called
  <2>5. /\ CallsInv(seen2)' /\ SeenInv(seen2)'
        /\ Len(calls') = Len(calls) + 1
        /\ calls'[Len(calls)] = r /\ calls'[Len(calls) + 1] = e /\ Top' = e
        /\ \A i \in 1..Len(calls) : i # Len(calls) => calls'[i] = calls[i]
    <3>1. CallsInv(seen2)'  BY <1>15, <2>2, CallChild
    <3>2. SeenInv(seen2)'  BY <1>15, <2>2, CallChild
    <3>3. /\ Len(calls') = Len(calls) + 1
          /\ calls'[Len(calls)] = r /\ calls'[Len(calls) + 1] = e
          /\ \A i \in 1..Len(calls) : i # Len(calls) => calls'[i] = calls[i]
      BY <1>15, <2>2, CallChild
    <3>4. Top' = e  BY <3>3 DEF Top
    <3> QED  BY <3>1, <3>2, <3>3, <3>4
  <2> QED  BY <1>5, <2>5
<1>17. calls' # <<>>  BY <1>6, <1>16
(* What is held.                                                           *)
<1>18. PICK at2 : at2 = [pt \in DOMAIN at \cup {<<c, 1, v>> : v \in al} |->
                            IF pt \in DOMAIN at THEN at[pt]
                            ELSE IF <<c, pt[3]>> \in phis THEN <<c, pt[3]>>
                            ELSE at[<<b, eb, pt[3]>>]]
  OBVIOUS
<1>19. \A k \in Nat, v \in allocas : ~Held(at, c, k, v)
  BY <1>3, <1>8, <1>9 DEF HeldInv
<1>20. /\ DOMAIN at \subseteq DOMAIN at2 /\ DOMAIN at2 \subseteq Points
       /\ \A pt \in DOMAIN at : at2[pt] = at[pt]
  BY <1>3, <1>4, <1>9, <1>15, <1>18 DEF Cert, Points
<1>21. \A k \in Nat, x \in Blocks, v \in Var : Held(at2, x, k, v) =>
          \/ Held(at, x, k, v)
          \/ ~Held(at, x, k, v) /\ v \in allocas /\ x = c /\ k = 1
  BY <1>15, <1>18 DEF Held
<1>22. \A v \in allocas : /\ Held(at2, c, 1, v)
                          /\ at2[<<c, 1, v>>] = IF <<c, v>> \in DOMAIN new_phi_nodes THEN <<c, v>>
                                                ELSE at[<<b, eb, v>>]
  BY <1>15, <1>18, <1>19 DEF Held
<1>23. ASSUME NEW v \in allocas
       PROVE  Held(at, b, eb, v) /\ Avail(Q, at[<<b, eb, v>>], b, eb)
  <2>1. Held(at, b, eb, v)
    BY <1>1, <1>3, <1>4, <1>5, <1>6, <1>23, DoneHeld
  <2>2. GoodPoint(at, Q, b, eb, v)  BY <1>3, <1>4, <1>6, <2>1 DEF Cert
  <2> QED  BY <2>1, <2>2 DEF GoodPoint
<1>24. Cert(at2, Q)' /\ Edges(at2, promoted)'
  <2>1. ASSUME NEW x \in Blocks, NEW k \in Nat, NEW v \in Var,
               Held(at2, x, k, v), ~Held(at, x, k, v)
        PROVE  /\ k = 1 /\ v \notin promoted /\ x \in Reachable(succ)
               /\ Avail(Q, at2[<<x, k, v>>], x, k)
               /\ x = entry => at2[<<x, k, v>>] = undef
    <3>1. v \in allocas /\ x = c /\ k = 1  BY <1>21, <2>1
    <3>2. CASE <<c, v>> \in DOMAIN new_phi_nodes
      <4>1. PICK y : y = <<c, v>>  OBVIOUS
      <4>2. y \in DOMAIN new_phi_nodes /\ y[1] = c  BY <3>2, <4>1
      <4>3. Avail(Q, y, c, 1)  BY <1>9, <4>2 DEF Avail
      <4> QED  BY <1>4, <1>9, <1>22, <3>1, <3>2, <4>1, <4>3
    <3>3. CASE <<c, v>> \notin DOMAIN new_phi_nodes
      <4>1. Avail(Q, at[<<b, eb, v>>], b, eb)  BY <1>23, <3>1
      <4>2. PICK y : y = at[<<b, eb, v>>]  OBVIOUS
      <4>3. Avail(Q, y, c, 1)  BY <1>6, <1>9, <4>1, <4>2, AvailOn
      <4> QED  BY <1>4, <1>9, <1>22, <3>1, <3>3, <4>2, <4>3
    <3> QED  BY <3>2, <3>3
  <2>2. \A x \in Blocks, k \in Nat, v \in Var : Held(at2, x, k, v) /\ ~Held(at, x, k, v) =>
           /\ k = 1 /\ v \notin promoted /\ x \in Reachable(succ)
           /\ Avail(Q, at2[<<x, k, v>>], x, k)
           /\ x = entry => at2[<<x, k, v>>] = undef
    BY <2>1
  <2>3. UNCHANGED irVars /\ operand' = operand /\ new_phi_nodes' = new_phi_nodes
        /\ promoted' = promoted /\ Cert(at, Q) /\ Edges(at, promoted)
    BY <1>1, <1>3
  <2> QED  BY <1>20, <2>2, <2>3, Extended
<1>25. \A p \in Written : /\ p[2] \in Nat /\ p[1] \in Blocks /\ ~(p[2] < 1)
                          /\ (p[1] = b => p[2] < eb + 1)
  <2> SUFFICES ASSUME NEW p \in Written
               PROVE  p[2] \in Nat /\ p[1] \in Blocks /\ ~(p[2] < 1) /\ (p[1] = b => p[2] < eb + 1)
    OBVIOUS
  <2>1. p[1] \in Blocks /\ p[2] \in 1..Len(code[p[1]]) /\ Len(code[p[1]]) \in Nat
    BY WrittenIs
  <2> QED  BY <1>6, <2>1
<1>26. Q = RenamedLoads(seen2)'
  <2>1. RenamedLoads(seen2)' = FastLoads' \cup
          {p \in Written : Stmt(p).from \in allocas /\ p[1] \in seen}
    BY <1>1, <1>8, <1>14, <1>15, <1>16, <1>17, <1>25, IrKept DEF RenamedLoads
  <2>2. RenamedLoads(seen) = FastLoads \cup
          {p \in Written : Stmt(p).from \in allocas /\ p[1] \in seen}
    BY <1>1, <1>5, <1>6, <1>25 DEF RenamedLoads
  <2>3. FastLoads' = FastLoads  BY <1>1, IrKept DEF FastLoads
  <2> QED  BY <1>3, <2>1, <2>2, <2>3
(* The stacks.                                                             *)
<1>27. PICK h2 : h2 = [i \in 0..(n + 1) |->
                          IF i <= n THEN h[i] ELSE [v \in Var |-> h[n][v] + e.pushed[v]]]
  OBVIOUS
<1>28. /\ h \in [0..n -> [Var -> Nat]]
       /\ value_stacks \in [Var -> Seq({undef} \cup Positions \cup Phis)]
       /\ \A v \in Var : StackInv(at, h, v)
  BY <1>3, <1>5 DEF StacksInv
<1>29. /\ \A i \in 0..n : h2[i] = h[i]
       /\ h2[n + 1] = [v \in Var |-> h[n][v] + e.pushed[v]]
       /\ h2 \in [0..(n + 1) -> [Var -> Nat]]
       /\ \A i \in 1..n : i \in 0..n /\ i - 1 \in 0..n /\ i \in 0..(n + 1)
       /\ n \in 0..n /\ 0 \in 0..n
  <2>1. \A v \in Var : h[n][v] + e.pushed[v] \in Nat
    <3> SUFFICES ASSUME NEW v \in Var PROVE h[n][v] + e.pushed[v] \in Nat  OBVIOUS
    <3>1. n \in 0..n  BY <1>6
    <3>2. h[n][v] \in Nat  BY <1>28, <3>1
    <3>3. e.pushed[v] \in Nat  BY <1>14 DEF Calls
    <3> QED  BY <3>2, <3>3
  <2> QED  BY <1>6, <1>27, <1>28, <2>1
<1>30. \A i \in 1..n : /\ calls'[i].block = calls[i].block
                       /\ calls'[i].pushed = calls[i].pushed
                       /\ Here(i)' = Here(i)
  <2>1. SUFFICES ASSUME NEW i \in 1..n
                 PROVE  /\ calls'[i].block = calls[i].block
                        /\ calls'[i].pushed = calls[i].pushed
                        /\ Here(i)' = Here(i)
    OBVIOUS
  <2>2. calls'[i].block = calls[i].block /\ calls'[i].next = calls[i].next
        /\ calls'[i].pushed = calls[i].pushed
    BY <1>6, <1>12, <1>16
  <2> QED  BY <1>1, <2>2, IrKept DEF Here
<1>31. Here(n + 1)' = 1
  BY <1>1, <1>10, <1>14, <1>16, IrKept DEF Here
<1>32. ASSUME NEW v \in Var
       PROVE  /\ value_stacks'[v] \in Seq({undef} \cup Positions \cup Phis)
              /\ StackInv(at2, h2, v)'
  <2> DEFINE isPhi == <<c, v>> \in DOMAIN new_phi_nodes
  <2>1. /\ StackInv(at, h, v) /\ value_stacks[v] \in Seq({undef} \cup Positions \cup Phis)
        /\ Len(value_stacks[v]) = h[n][v] /\ h[n][v] \in Nat
    BY <1>5, <1>28, <1>29 DEF StackInv
  <2>2. value_stacks'[v] = IF isPhi THEN Append(value_stacks[v], <<c, v>>) ELSE value_stacks[v]
    BY <1>2 DEF PushPhis
  <2>3. <<c, v>> \in Phis  BY <1>9 DEF Phis
  <2>4. /\ value_stacks'[v] \in Seq({undef} \cup Positions \cup Phis)
        /\ Len(value_stacks'[v]) = h[n][v] + e.pushed[v]
        /\ \A i \in 1..h[n][v] : value_stacks'[v][i] = value_stacks[v][i]
        /\ isPhi => value_stacks'[v][h[n][v] + 1] = <<c, v>>
    <3> HIDE DEF isPhi
    <3>1. e.pushed[v] = IF isPhi THEN 1 ELSE 0  BY <1>14 DEF isPhi
    <3>2. CASE isPhi  BY <2>1, <2>2, <2>3, <3>1, <3>2
    <3>3. CASE ~isPhi  BY <2>1, <2>2, <3>1, <3>3
    <3> QED  BY <3>2, <3>3
  <2>5. h2[0][v] = 0 /\ Len(value_stacks'[v]) = h2[n + 1][v]
        /\ h2[n + 1][v] = h2[n][v] + e.pushed[v] /\ h2[n][v] = h[n][v]
        /\ e.pushed[v] \in Nat
    BY <1>14, <1>29, <2>1, <2>4 DEF StackInv
  <2>6. ASSUME NEW i \in 1..Len(calls')
        PROVE  /\ h2[i][v] = h2[i - 1][v] + calls'[i].pushed[v]
               /\ \A j \in i..Len(calls') : h2[i][v] <= h2[j][v]
               /\ v \in allocas' => at2[<<calls'[i].block, Here(i)', v>>] =
                     IF h2[i][v] = 0 THEN undef ELSE value_stacks'[v][h2[i][v]]
    <3>1. CASE i = n + 1
      <4>1. i - 1 = n /\ calls'[i] = e  BY <1>6, <1>16, <3>1
      <4>2. \A j \in i..Len(calls') : j = i  BY <1>6, <1>16, <3>1
      <4>3. h2[i][v] \in Nat  BY <2>1, <2>5, <3>1
      <4>4. ASSUME v \in allocas
            PROVE  at2[<<c, 1, v>>] = IF h2[i][v] = 0 THEN undef ELSE value_stacks'[v][h2[i][v]]
        <5>1. CASE isPhi
          <6>1. h2[i][v] = h[n][v] + 1  BY <1>14, <2>5, <3>1, <5>1
          <6>2. at2[<<c, 1, v>>] = <<c, v>>  BY <1>22, <4>4, <5>1
          <6>3. value_stacks'[v][h2[i][v]] = <<c, v>>  BY <2>4, <5>1, <6>1
          <6>4. h2[i][v] # 0  BY <2>1, <6>1
          <6> QED  BY <6>2, <6>3, <6>4
        <5>2. CASE ~isPhi
          <6>1. h2[i][v] = h[n][v]  BY <1>14, <2>1, <2>5, <3>1, <5>2
          <6>2. Back(v) = at[<<b, Here(n), v>>]
            BY <1>1, <1>3, <1>5, <4>4, TopHolds
          <6>3. Here(n) = eb
            BY <1>5, <1>6 DEF Here
          <6>4. at2[<<c, 1, v>>] = Back(v)  BY <1>22, <4>4, <5>2, <6>2, <6>3
          <6>5. Back(v) = IF h[n][v] = 0 THEN undef ELSE value_stacks[v][h[n][v]]
            BY <2>1 DEF Back
          <6> QED  BY <2>2, <5>2, <6>1, <6>4, <6>5
        <5> QED  BY <5>1, <5>2
      <4>5. Here(i)' = 1  BY <1>31, <3>1
      <4>6. v \in allocas' => at2[<<calls'[i].block, Here(i)', v>>] =
                     IF h2[i][v] = 0 THEN undef ELSE value_stacks'[v][h2[i][v]]
        BY <1>1, <1>14, <4>1, <4>4, <4>5
      <4> QED  BY <2>5, <3>1, <4>1, <4>2, <4>3, <4>6
    <3>2. CASE i # n + 1
      <4>1. i \in 1..n /\ i \in 0..n /\ i - 1 \in 0..n /\ n \in i..n  BY <1>6, <1>16, <3>2
      <4>2. h2[i] = h[i] /\ h2[i - 1] = h[i - 1] /\ h[i][v] \in Nat
        BY <1>28, <1>29, <4>1
      <4>3. /\ h[i][v] = h[i - 1][v] + calls[i].pushed[v]
            /\ \A j \in i..n : h[i][v] <= h[j][v]
            /\ v \in allocas => at[<<calls[i].block, Here(i), v>>] =
                  IF h[i][v] = 0 THEN undef ELSE value_stacks[v][h[i][v]]
        BY <1>5, <2>1, <4>1 DEF StackInv
      <4>4. ASSUME NEW j \in i..Len(calls') PROVE h2[i][v] <= h2[j][v]
        <5>1. CASE j = n + 1
          <6>1. h[i][v] <= h[n][v]  BY <4>1, <4>3
          <6> QED  BY <2>1, <2>5, <4>2, <5>1, <6>1
        <5>2. CASE j # n + 1
          <6>1. j \in i..n /\ j \in 0..n  BY <1>6, <1>16, <4>1, <5>2
          <6> QED  BY <1>29, <4>2, <4>3, <6>1
        <5> QED  BY <5>1, <5>2
      <4>5. ASSUME v \in allocas
            PROVE  at2[<<calls[i].block, Here(i), v>>] = at[<<calls[i].block, Here(i), v>>]
        <5>1. /\ calls[i].block \in seen /\ calls[i].block \in Blocks
              /\ calls[i].next \in Nat /\ calls[i].next >= 1
              /\ i # n => calls[i].next = EndOf(calls[i].block) + 1
          <6>1. CallInv(seen, i)  BY <1>3, <1>5, <4>1 DEF CallsInv
          <6>2. calls[i].block \in Blocks
            BY <1>3, <6>1, DomTable, ReachableClosed DEF CallInv, SeenInv
          <6>3. EndOf(calls[i].block) \in Nat  BY <6>2, WrittenIs DEF EndOf
          <6> QED  BY <1>5, <6>1, <6>2, <6>3 DEF CallInv
        <5>2. EndOf(calls[i].block) \in Nat /\ EndOf(calls[i].block) >= 1
          BY <5>1, WrittenIs DEF EndOf
        <5>3. Here(i) = EndOf(calls[i].block)
          BY <1>5, <1>6, <5>1, <5>2 DEF Here
        <5>4. calls # <<>> /\ calls[i].block = Top.block => Top.next >= EndOf(calls[i].block)
          BY <1>5, <1>6
        <5>5. PICK x : x = calls[i].block  OBVIOUS
        <5>6. Held(at, x, EndOf(x), v)
          BY <1>3, <1>4, <4>5, <5>1, <5>4, <5>5, DoneHeld
        <5> QED  BY <1>20, <5>3, <5>5, <5>6 DEF Held
      <4>6. h[i][v] = 0 \/ value_stacks'[v][h[i][v]] = value_stacks[v][h[i][v]]
        <5>1. h[i][v] <= h[n][v]  BY <4>1, <4>3
        <5> QED  BY <2>1, <2>4, <4>2, <5>1
      <4>7. v \in allocas' => at2[<<calls'[i].block, Here(i)', v>>] =
                     IF h2[i][v] = 0 THEN undef ELSE value_stacks'[v][h2[i][v]]
        BY <1>1, <1>30, <4>1, <4>2, <4>3, <4>5, <4>6
      <4> QED  BY <1>30, <4>1, <4>2, <4>3, <4>4, <4>7
    <3> QED  BY <3>1, <3>2
  <2>7. StackInv(at2, h2, v)'  BY <1>16, <2>5, <2>6 DEF StackInv
  <2> QED  BY <2>4, <2>7
<1>33. StacksInv(at2, h2)'
  <2>1. value_stacks' \in [Var -> Seq({undef} \cup Positions \cup Phis)]
    BY <1>2, <1>32 DEF PushPhis
  <2> QED  BY <1>16, <1>29, <1>32, <2>1 DEF StacksInv
(* The blocks that are seen.                                               *)
<1>34. \A x \in Blocks, k \in Nat : /\ Passed(x, k)' <=> k \in 1..EndOf(x) /\ (x = c => k <= 1)
                                    /\ Passed(x, k) <=> k \in 1..EndOf(x)
  <2>1. \A x \in Blocks, k \in Nat : Passed(x, k)' <=> k \in 1..EndOf(x) /\ (x = c => k <= 1)
    BY <1>1, <1>14, <1>16, <1>17, IrKept DEF Passed
  <2>2. \A x \in Blocks, k \in Nat : Passed(x, k) <=> k \in 1..EndOf(x)
    BY <1>5, <1>6 DEF Passed
  <2> QED  BY <2>1, <2>2
<1>35. HeldInv(at2, seen2)'
  <2>1. ASSUME NEW x \in Blocks, NEW k \in Nat, NEW v \in allocas
        PROVE  Held(at2, x, k, v) <=> x \in seen2 /\ Passed(x, k)'
    <3>1. v \in Var  BY <1>4
    <3>2. CASE x = c
      <4>1. x \in seen2 /\ Passed(x, k)' <=> k = 1  BY <1>10, <1>15, <1>34, <3>2
      <4>2. Held(at2, x, k, v) <=> k = 1  BY <1>19, <1>21, <1>22, <3>1, <3>2
      <4> QED  BY <4>1, <4>2
    <3>3. CASE x # c
      <4>1. x \in seen2 /\ Passed(x, k)' <=> x \in seen /\ Passed(x, k)
        BY <1>15, <1>34, <3>3
      <4>2. Held(at2, x, k, v) <=> Held(at, x, k, v)
        BY <1>20, <1>21, <3>1, <3>3 DEF Held
      <4> QED  BY <1>3, <4>1, <4>2 DEF HeldInv
    <3> QED  BY <3>2, <3>3
  <2>2. \A x \in Blocks, k \in Nat, v \in Var : Held(at2, x, k, v) => v \in promoted \cup allocas
    BY <1>3, <1>21 DEF HeldInv
  <2> QED  BY <1>1, <2>1, <2>2 DEF HeldInv, Held
<1>36. ASSUME NEW x \in seen, NEW v \in allocas
       PROVE  /\ at2[<<x, 1, v>>] = at[<<x, 1, v>>]
              /\ at2[<<x, EndOf(x), v>>] = at[<<x, EndOf(x), v>>]
  <2>1. x \in Blocks  BY <1>3, DomTable, ReachableClosed DEF SeenInv
  <2>2. EndOf(x) \in Nat /\ EndOf(x) >= 1  BY <2>1, WrittenIs DEF EndOf
  <2>3. Held(at, x, 1, v) /\ Held(at, x, EndOf(x), v)
    BY <1>3, <1>34, <2>1, <2>2 DEF HeldInv
  <2> QED  BY <1>20, <2>3 DEF Held
<1>37. PhiStarts(at2, seen2)'
  <2>1. \A x \in seen2, v \in allocas :
           <<x, v>> \in DOMAIN new_phi_nodes => at2[<<x, 1, v>>] = <<x, v>>
    BY <1>3, <1>15, <1>22, <1>36 DEF PhiStarts
  <2> QED  BY <1>1, <2>1 DEF PhiStarts
<1>38. Inherits(at2, seen2)'
  <2>1. ASSUME NEW x \in seen2, NEW v \in allocas, NEW d \in Blocks,
               <<x, v>> \notin DOMAIN new_phi_nodes, ImmediatelyDominates(dom, d, x)
        PROVE  at2[<<x, 1, v>>] = at2[<<d, EndOf(d), v>>]
    <3>1. CASE x = c
      <4>1. d = b  BY <1>6, <1>9, <2>1, <3>1, OneIdom
      <4>2. at2[<<c, 1, v>>] = at[<<b, eb, v>>]  BY <1>22, <2>1, <3>1
      <4>3. at2[<<b, EndOf(b), v>>] = at[<<b, EndOf(b), v>>]  BY <1>6, <1>36
      <4> QED  BY <1>5, <3>1, <4>1, <4>2, <4>3
    <3>2. CASE x # c
      <4>1. x \in seen  BY <1>15, <3>2
      <4>2. d \in seen  BY <1>3, <2>1, <4>1 DEF SeenInv, ImmediatelyDominates
      <4>3. at[<<x, 1, v>>] = at[<<d, EndOf(d), v>>]
        BY <1>3, <2>1, <4>1 DEF Inherits
      <4> QED  BY <1>36, <4>1, <4>2, <4>3
    <3> QED  BY <3>1, <3>2
  <2> QED  BY <1>1, <2>1, IrKept DEF Inherits
<1>39. \A v, a, x : DefinedBetween(v, a, x)' <=> DefinedBetween(v, a, x)
  BY <1>1, IrKept DEF DefinedBetween, PhiBlocks
<1>40. Undefined(at2, seen2)'
  <2>1. ASSUME NEW x \in seen2, NEW a \in Blocks, NEW k \in Nat, NEW v \in allocas,
               Held(at2, x, k, v), x \in dom[a], a # x, ~DefinedBetween(v, a, x)
        PROVE  at2[<<x, k, v>>] = at2[<<a, EndOf(a), v>>]
    <3>1. v \in Var  BY <1>4
    <3>2. CASE x = c
      <4>1. k = 1  BY <1>9, <1>19, <1>21, <2>1, <3>1, <3>2
      <4>2. <<c, v>> \notin DOMAIN new_phi_nodes
        <5>1. SUFFICES ASSUME <<c, v>> \in DOMAIN new_phi_nodes PROVE FALSE  OBVIOUS
        <5>2. c \in PhiBlocks(v)  BY <1>9, <5>1 DEF PhiBlocks
        <5> QED  BY <1>9, <2>1, <3>2, <5>2 DEF DefinedBetween
      <4>3. at2[<<x, k, v>>] = at[<<b, eb, v>>]  BY <1>22, <3>2, <4>1, <4>2
      <4>4. b \in dom[a]  BY <1>9, <2>1, <3>2 DEF ImmediatelyDominates
      <4>5. a \in seen  BY <1>3, <1>6, <4>4 DEF SeenInv
      <4>6. CASE a = b  BY <1>5, <1>36, <4>3, <4>5, <4>6
      <4>7. CASE a # b
        <5>1. ~DefinedBetween(v, a, b)
          <6>1. SUFFICES ASSUME NEW m \in Defining(v) \cup PhiBlocks(v),
                                m \in dom[a], m # a, b \in dom[m]
                         PROVE  FALSE
            BY DEF DefinedBetween
          <6>2. m \in Blocks  BY <6>1, DomTable
          <6>3. c \in dom[m]  BY <1>9, <6>1, <6>2, DomTransitive
          <6> QED  BY <2>1, <3>2, <6>1, <6>3 DEF DefinedBetween
        <5>2. at[<<b, eb, v>>] = at[<<a, EndOf(a), v>>]
          BY <1>3, <1>6, <1>23, <4>4, <4>7, <5>1 DEF Undefined
        <5> QED  BY <1>36, <4>3, <4>5, <5>2
      <4> QED  BY <4>6, <4>7
    <3>3. CASE x # c
      <4>1. x \in seen /\ x \in Blocks
        BY <1>3, <1>15, <3>3, DomTable, ReachableClosed DEF SeenInv
      <4>2. Held(at, x, k, v)  BY <1>21, <2>1, <3>1, <3>3, <4>1
      <4>3. a \in seen  BY <1>3, <2>1, <4>1 DEF SeenInv
      <4>4. at[<<x, k, v>>] = at[<<a, EndOf(a), v>>]
        BY <1>3, <2>1, <4>1, <4>2 DEF Undefined
      <4> QED  BY <1>20, <1>36, <4>2, <4>3, <4>4 DEF Held
    <3> QED  BY <3>2, <3>3
  <2> QED  BY <1>1, <1>39, <2>1, IrKept DEF Undefined, Held
<1>41. NoOwnPhi(at2)'
  <2>1. ASSUME NEW s \in Blocks, NEW v \in promoted, Held(at2, s, 1, v), at2[<<s, 1, v>>] \in Phis
        PROVE  at2[<<s, 1, v>>][1] # s
    <3>1. v \in Var /\ v \notin allocas  BY <1>4
    <3>2. Held(at, s, 1, v)  BY <1>21, <2>1, <3>1
    <3>3. at2[<<s, 1, v>>] = at[<<s, 1, v>>]  BY <1>20, <3>2 DEF Held
    <3> QED  BY <1>3, <2>1, <3>2, <3>3 DEF NoOwnPhi
  <2> QED  BY <1>1, <2>1 DEF NoOwnPhi, Held
<1>42. PhisTold(at2, seen2)'
  <2>1. \A x : Told(seen2, x)' <=> x \in seen
    BY <1>1, <1>8, <1>10, <1>14, <1>15, <1>16, <1>17, IrKept DEF Told
  <2>2. \A x : Told(seen, x) <=> x \in seen
    BY <1>5, <1>6 DEF Told
  <2>3. succ' = succ /\ \A x : EndOf(x)' = EndOf(x)  BY <1>1, IrKept
  <2>4. \A phi \in DOMAIN new_phi_nodes : phi[2] \in allocas  BY DEF SortInv
  <2>5. \A phi \in DOMAIN new_phi_nodes : \A x \in Preds(succ, phi[1]) :
           /\ x \in seen => new_phi_nodes[phi][x] = at2[<<x, EndOf(x), phi[2]>>]
           /\ x \notin seen => new_phi_nodes[phi][x] = undef
    BY <1>3, <1>36, <2>2, <2>4 DEF PhisTold
  <2> QED  BY <1>1, <2>1, <2>3, <2>5 DEF PhisTold
<1>43. RenameInv(at2, Q, seen2, h2)'
  BY <1>16, <1>24, <1>26, <1>33, <1>35, <1>37, <1>38, <1>40, <1>41, <1>42 DEF RenameInv
<1> QED  BY <1>43

----------------------------------------------------------------------------
(* The end of the renaming.                                                *)

(* When the first call has returned, all blocks have been seen, and what   *)
(* comes in at a block is what it begins with.                             *)
LEMMA StartCleanupKeeps ==
    ASSUME GraphInv, ProgInv, PhiInv, SortInv, IdleInv,
           phase = "rename" => \A v \in allocas : Covered(v),
           NEW at, NEW Q, NEW seen, NEW h, RenameInv(at, Q, seen, h), StartCleanup
    PROVE  CleanInv(at, Q)'
<1>1. /\ calls = <<>> /\ phase = "rename"
      /\ unseen' = DOMAIN new_phi_nodes /\ phi_to_erase' = phi_to_erase
      /\ UNCHANGED irVars /\ operand' = operand /\ new_phi_nodes' = new_phi_nodes
      /\ promoted' = promoted /\ allocas' = allocas
  BY DEF StartCleanup, fastVars
<1>2. /\ Q = RenamedLoads(seen) /\ Cert(at, Q) /\ Edges(at, promoted)
      /\ SeenInv(seen) /\ HeldInv(at, seen)
      /\ PhiStarts(at, seen) /\ Inherits(at, seen) /\ Undefined(at, seen)
      /\ PhisTold(at, seen) /\ NoOwnPhi(at)
  BY DEF RenameInv
<1>3. /\ allocas \subseteq Var /\ promoted \subseteq Var /\ promoted \cap allocas = {}
      /\ \A phi \in DOMAIN new_phi_nodes : phi[2] \in allocas
  BY DEF SortInv
<1>4. seen = Reachable(succ)
  <2>1. 1..Len(calls) = {}  BY <1>1
  <2>2. \A b \in seen \cap Blocks : children[b] \subseteq seen
    BY <1>2, <2>1 DEF SeenInv
  <2>3. Reachable(succ) \subseteq seen
    BY <1>2, <2>2, TreeReachesAll DEF SeenInv
  <2> QED  BY <1>2, <2>3 DEF SeenInv
<1>5. Q = GoneLoads
  <2>1. \A p \in Written : Stmt(p).from \in allocas => p[1] \in Reachable(succ)
    BY <1>3 DEF ProgInv, LoadsOf
  <2> QED  BY <1>1, <1>2, <1>4, <2>1 DEF RenamedLoads, FastLoads, GoneLoads, Gone
<1>6. \A b \in Reachable(succ), v \in allocas :
         /\ b \in Blocks /\ EndOf(b) \in Nat
         /\ Held(at, b, EndOf(b), v) /\ Held(at, b, 1, v)
  <2>1. \A b \in Reachable(succ) : b \in Blocks /\ EndOf(b) \in Nat /\ EndOf(b) >= 1
    BY DomTable, ReachableClosed, WrittenIs DEF EndOf
  <2>2. \A b \in Reachable(succ) : Passed(b, EndOf(b)) /\ Passed(b, 1)
    BY <1>1, <2>1 DEF Passed
  <2> QED  BY <1>2, <1>4, <2>1, <2>2 DEF HeldInv
<1>7. \A b \in Blocks, k \in Nat, v \in Var : Held(at, b, k, v) => Avail(Q, at[<<b, k, v>>], b, k)
  BY <1>2 DEF Cert, GoodPoint
<1>8. ASSUME NEW s \in Blocks, NEW v \in Var, Held(at, s, 1, v)
      PROVE  GoodEdges(at, s, v)
  <2>1. CASE v \in promoted  BY <1>2, <1>8, <2>1 DEF Edges
  <2>2. CASE v \in allocas
    <3>1. s \in Reachable(succ)  BY <1>2, <1>4, <1>8, <2>2 DEF HeldInv
    <3> SUFFICES ASSUME NEW b \in Preds(succ, s), b \in Reachable(succ)
                 PROVE  IF at[<<s, 1, v>>] \in DOMAIN new_phi_nodes /\ at[<<s, 1, v>>][1] = s
                        THEN at[<<b, EndOf(b), v>>] = new_phi_nodes[at[<<s, 1, v>>]][b]
                        ELSE at[<<b, EndOf(b), v>>] = at[<<s, 1, v>>]
      BY <1>6, <2>2 DEF GoodEdges
    <3>2. s # entry  BY DomTable
    <3>3. CASE <<s, v>> \in DOMAIN new_phi_nodes
      <4>1. PICK phi : phi = <<s, v>>  OBVIOUS
      <4>2. phi \in DOMAIN new_phi_nodes /\ phi[1] = s /\ phi[2] = v  BY <3>3, <4>1
      <4>3. at[<<s, 1, v>>] = phi
        BY <1>2, <1>4, <2>2, <3>1, <3>3, <4>1 DEF PhiStarts
      <4>4. Told(seen, b)  BY <1>1, <1>4 DEF Told
      <4>5. new_phi_nodes[phi][b] = at[<<b, EndOf(b), v>>]
        BY <1>2, <4>2, <4>4 DEF PhisTold
      <4> QED  BY <4>2, <4>3, <4>5
    <3>4. CASE <<s, v>> \notin DOMAIN new_phi_nodes
      <4>1. PICK d \in Blocks : ImmediatelyDominates(dom, d, s)  BY <3>1, <3>2, HasIdom
      <4>2. s \in dom[d] /\ s # d /\ d \in Reachable(succ)
        BY <4>1, DomReachable DEF ImmediatelyDominates
      <4>3. at[<<s, 1, v>>] = at[<<d, EndOf(d), v>>]
        BY <1>2, <1>4, <2>2, <3>1, <3>4, <4>1 DEF Inherits
      <4>4. PICK y, k : y = at[<<d, EndOf(d), v>>] /\ k = EndOf(d)  OBVIOUS
      <4>5. Avail(Q, y, d, k) /\ k \in Nat
        BY <1>6, <1>7, <2>2, <4>2, <4>4
      <4>6. y # undef => y[1] # s
        BY <4>2, <4>5, AvailAbove
      <4>7. ~(at[<<s, 1, v>>] \in DOMAIN new_phi_nodes /\ at[<<s, 1, v>>][1] = s)
        <5>1. undef \notin DOMAIN new_phi_nodes  BY ValueKinds DEF PhiInv
        <5> QED  BY <4>3, <4>4, <4>6, <5>1
      <4>8. b \in dom[d]  BY <4>2, DomPreds
      <4>9. at[<<b, EndOf(b), v>>] = at[<<d, EndOf(d), v>>]
        <5>1. CASE b = d  BY <5>1
        <5>2. CASE b # d
          <6>1. ~DefinedBetween(v, d, b)
            <7>1. SUFFICES ASSUME NEW m \in Defining(v) \cup PhiBlocks(v),
                                  m \in dom[d], m # d, b \in dom[m]
                           PROVE  FALSE
              BY DEF DefinedBetween
            <7>2. m \in Blocks  BY <7>1, DomTable
            <7>3. s \in frontiers[m]  BY <4>1, <7>1, <7>2, Between
            <7>4. s \in PhiBlocks(v)  BY <1>1, <2>2, <7>3 DEF Covered
            <7> QED  BY <3>4, <7>4 DEF PhiBlocks
          <6>2. Held(at, b, EndOf(b), v) /\ EndOf(b) \in Nat  BY <1>6, <2>2
          <6> QED  BY <1>2, <1>4, <2>2, <4>8, <5>2, <6>1, <6>2 DEF Undefined
        <5> QED  BY <5>1, <5>2
      <4> QED  BY <4>3, <4>7, <4>9
    <3> QED  BY <3>3, <3>4
  <2> QED  BY <1>2, <1>8, <2>1, <2>2 DEF HeldInv
<1>9. \A phi \in DOMAIN new_phi_nodes : \A b \in Preds(succ, phi[1]) :
         Avail(Q, new_phi_nodes[phi][b], b, EndOf(b))
  <2> SUFFICES ASSUME NEW phi \in DOMAIN new_phi_nodes, NEW b \in Preds(succ, phi[1])
               PROVE  Avail(Q, new_phi_nodes[phi][b], b, EndOf(b))
    OBVIOUS
  <2>1. CASE b \in Reachable(succ)
    <3>1. Told(seen, b)  BY <1>1, <1>4, <2>1 DEF Told
    <3>2. new_phi_nodes[phi][b] = at[<<b, EndOf(b), phi[2]>>]
      BY <1>2, <3>1 DEF PhisTold
    <3>3. phi[2] \in allocas  BY <1>3
    <3> QED  BY <1>3, <1>6, <1>7, <2>1, <3>2, <3>3
  <2>2. CASE b \notin Reachable(succ)
    <3>1. ~Told(seen, b)  BY <1>4, <2>2 DEF Told
    <3>2. new_phi_nodes[phi][b] = undef  BY <1>2, <3>1 DEF PhisTold
    <3> QED  BY <3>2 DEF Avail
  <2> QED  BY <2>1, <2>2
<1>10. Edges(at, Var)  BY <1>8 DEF Edges
<1>11. Whole(at, Q)  BY <1>2, <1>5, <1>9, <1>10 DEF Whole
<1>12. Whole(at, Q)'  BY <1>1, <1>11, WholeKept
<1>13. phi_to_erase' = {}  BY <1>1 DEF IdleInv
<1> QED  BY <1>1, <1>12, <1>13 DEF CleanInv

----------------------------------------------------------------------------
(* The renaming: a statement.                                              *)

(* What is there is a value.                                               *)
LEMMA AvailIsValue ==
    ASSUME PhiInv, NEW Q, NEW x, NEW b, NEW k, Avail(Q, x, b, k)
    PROVE  x \in {undef} \cup Positions \cup Phis
BY ValueKinds DEF Avail, PhiInv

(* A statement is not there in front of itself, nor where it is dominated. *)
LEMMA NotItself ==
    ASSUME GraphInv, ProgInv, PhiInv, NEW p \in Written, NEW Q, NEW c \in Blocks, NEW k \in Nat,
           Avail(Q, p, c, k)
    PROVE  p \in Written \ Q /\ c \in dom[p[1]] /\ (p[1] = c => p[2] < k)
BY ValueKinds DEF Avail, PhiInv

(* What rename_block does with one statement, in names.                    *)
Renamed(b, k, p, from, to, sub, store, r) ==
    /\ phase = "rename" /\ calls # <<>>
    /\ b = Top.block /\ k = Top.next /\ p = <<b, k>>
    /\ from = Stmt(p).from /\ to = Stmt(p).to
    /\ p \in Written /\ k \in Nat /\ b \in Blocks
    /\ DOMAIN sub = {q \in {p} : from \in allocas}
    /\ \A q \in DOMAIN sub : q = p /\ sub[q] = Back(from)
    /\ store = [v \in Var |-> IF v = to /\ v \in allocas THEN 1 ELSE 0]
    /\ ReplaceAllUses(sub)
    /\ value_stacks' = [v \in Var |->
          IF store[v] = 1 THEN Append(value_stacks[v], Subst(sub, operand[p]))
                          ELSE value_stacks[v]]
    /\ calls' = Append(Below, r)
    /\ r \in Calls /\ r.block = b /\ r.next = k + 1 /\ r.rest = Top.rest
    /\ r.pushed = [v \in Var |-> Top.pushed[v] + store[v]]
    /\ UNCHANGED irVars /\ promoted' = promoted /\ allocas' = allocas

(* Rename is that.                                                         *)
LEMMA RenameIs ==
    ASSUME GraphInv, ProgInv, NEW seen, CallsInv(seen), SeenInv(seen), Rename
    PROVE  \E b, k, p, from, to, sub, store, r : Renamed(b, k, p, from, to, sub, store, r)
<1>1. /\ phase = "rename" /\ calls # <<>> /\ Top.next <= Len(code[Top.block])
      /\ UNCHANGED irVars /\ promoted' = promoted /\ allocas' = allocas
  BY DEF Rename, fastVars
<1>2. PICK b, k, p : b = Top.block /\ k = Top.next /\ p = <<b, k>>  OBVIOUS
<1>3. PICK from, to : from = Stmt(p).from /\ to = Stmt(p).to  OBVIOUS
<1>4. /\ Top \in Calls /\ b \in Blocks /\ k \in Nat /\ k \in 1..Len(code[b])
  BY <1>1, <1>2, OpenCall
<1>5. p \in Written  BY <1>2, <1>4, WrittenIs
<1>6. PICK sub : sub = [load \in {q \in {p} : Stmt(q).from \in allocas} |->
                          Back(Stmt(load).from)]
  OBVIOUS
<1>7. PICK store : store = [v \in Var |-> IF v = to /\ v \in allocas THEN 1 ELSE 0]  OBVIOUS
<1>8. PICK r : r = [block |-> b, next |-> k + 1, rest |-> Top.rest,
                    pushed |-> [v \in Var |-> Top.pushed[v] + store[v]]]
  OBVIOUS
<1>9. /\ ReplaceAllUses(sub)
      /\ value_stacks' = [v \in Var |->
            IF store[v] = 1 THEN Append(value_stacks[v], Subst(sub, operand[p]))
                            ELSE value_stacks[v]]
      /\ calls' = Append(Below, r)
  BY <1>2, <1>3, <1>6, <1>7, <1>8 DEF Rename
<1>10. /\ DOMAIN sub = {q \in {p} : from \in allocas}
       /\ \A q \in DOMAIN sub : q = p /\ sub[q] = Back(from)
  BY <1>3, <1>6
<1>11. [v \in Var |-> Top.pushed[v] + store[v]] \in [Var -> Nat]
  BY <1>4, <1>7 DEF Calls
<1>12. r \in Calls /\ r.block = b /\ r.next = k + 1 /\ r.rest = Top.rest
       /\ r.pushed = [v \in Var |-> Top.pushed[v] + store[v]]
  BY <1>4, <1>8, <1>11 DEF Calls
<1>13. Renamed(b, k, p, from, to, sub, store, r)
  BY <1>1, <1>2, <1>3, <1>4, <1>5, <1>7, <1>9, <1>10, <1>12 DEF Renamed
<1> QED  BY <1>13

(* One statement of the renaming.                                          *)
LEMMA RenamedKeeps ==
    ASSUME GraphInv, ProgInv, PhiInv, SortInv,
           NEW at, NEW Q, NEW seen, NEW h, RenameInv(at, Q, seen, h),
           NEW b, NEW k, NEW p, NEW from, NEW to, NEW sub, NEW store, NEW r,
           Renamed(b, k, p, from, to, sub, store, r)
    PROVE  \E at2, R, h2 : RenameInv(at2, R, seen, h2)'
<1>1. /\ calls # <<>>
      /\ b = Top.block /\ k = Top.next /\ p = <<b, k>>
      /\ from = Stmt(p).from /\ to = Stmt(p).to
      /\ p \in Written /\ k \in Nat /\ b \in Blocks
      /\ DOMAIN sub = {q \in {p} : from \in allocas}
      /\ \A q \in DOMAIN sub : q = p /\ sub[q] = Back(from)
      /\ store = [v \in Var |-> IF v = to /\ v \in allocas THEN 1 ELSE 0]
      /\ ReplaceAllUses(sub)
      /\ value_stacks' = [v \in Var |->
            IF store[v] = 1 THEN Append(value_stacks[v], Subst(sub, operand[p]))
                            ELSE value_stacks[v]]
      /\ calls' = Append(Below, r)
      /\ r \in Calls /\ r.block = b /\ r.next = k + 1 /\ r.rest = Top.rest
      /\ r.pushed = [v \in Var |-> Top.pushed[v] + store[v]]
      /\ UNCHANGED irVars /\ promoted' = promoted /\ allocas' = allocas
  BY DEF Renamed
<1>2. /\ Q = RenamedLoads(seen) /\ Cert(at, Q) /\ Edges(at, promoted)
      /\ CallsInv(seen) /\ SeenInv(seen) /\ StacksInv(at, h) /\ HeldInv(at, seen)
      /\ PhiStarts(at, seen) /\ Inherits(at, seen) /\ Undefined(at, seen)
      /\ PhisTold(at, seen) /\ NoOwnPhi(at)
  BY DEF RenameInv
<1>3. /\ allocas \subseteq Var /\ promoted \subseteq Var /\ promoted \cap allocas = {}
      /\ \A phi \in DOMAIN new_phi_nodes : phi[2] \in allocas
  BY DEF SortInv
<1>4. PICK n, al, eb : n = Len(calls) /\ al = allocas /\ eb = EndOf(b)  OBVIOUS
<1>5. /\ n \in Nat /\ n \in 1..n /\ Top \in Calls /\ Top = calls[n]
      /\ b \in seen /\ b \in Reachable(succ) /\ eb \in Nat /\ eb = Len(code[b]) + 1
  BY <1>1, <1>2, <1>4, OpenCall
<1>6. /\ p[1] = b /\ p[2] = k /\ k \in 1..Len(code[b]) /\ k < eb /\ k + 1 \in 1..eb
      /\ k + 1 \in Nat /\ k + 1 > 1 /\ (k + 1) - 1 = k /\ k # k + 1
  <2>1. p[1] = b /\ p[2] = k  BY <1>1
  <2>2. k \in 1..Len(code[b])  BY <1>1, <2>1, WrittenIs
  <2> QED  BY <1>1, <1>5, <2>1, <2>2
<1>7. /\ CallsInv(seen)' /\ SeenInv(seen)'
      /\ calls' # <<>> /\ Top' = r /\ Len(calls') = n /\ calls'[n] = r
      /\ \A i \in 1..n : i # n => calls'[i] = calls[i]
  <2>1. Top.next <= EndOf(Top.block)  BY <1>1, <1>4, <1>5, <1>6
  <2> QED  BY <1>1, <1>2, <1>4, <2>1, NextCall
(* Nothing that b dominates has been seen.                                 *)
<1>8. \A c \in seen : c \in dom[b] => c = b
  <2>1. CallInv(seen, n)  BY <1>2, <1>4, <1>5 DEF CallsInv
  <2> QED  BY <1>1, <1>4, <1>5, <1>6, <2>1 DEF CallInv
(* What has been replaced.                                                 *)
<1>9. PICK R : R = Q \cup DOMAIN sub  OBVIOUS
<1>10. DOMAIN sub \subseteq Loads \ Q /\ (from \in allocas => p \notin Q)
  <2>1. from \in allocas => p \in Loads
    BY <1>1, <1>3, VarAssumption DEF Loads
  <2>2. from \in allocas => p \notin Q
    <3>1. SUFFICES ASSUME from \in allocas, p \in Q PROVE FALSE  OBVIOUS
    <3>2. p \notin FastLoads  BY <1>1, <1>3, <3>1 DEF FastLoads
    <3>3. p[2] < Top.next  BY <1>1, <1>2, <1>6, <3>1, <3>2 DEF RenamedLoads
    <3> QED  BY <1>1, <1>6, <3>3
  <2> QED  BY <1>1, <2>1, <2>2
<1>11. R = RenamedLoads(seen)'
  <2>1. RenamedLoads(seen)' = FastLoads' \cup
          {q \in Written : /\ Stmt(q).from \in allocas /\ q[1] \in seen
                           /\ q[1] = b => q[2] < k + 1}
    BY <1>1, <1>7, IrKept DEF RenamedLoads
  <2>2. RenamedLoads(seen) = FastLoads \cup
          {q \in Written : /\ Stmt(q).from \in allocas /\ q[1] \in seen
                           /\ q[1] = b => q[2] < k}
    BY <1>1 DEF RenamedLoads
  <2>3. FastLoads' = FastLoads  BY <1>1, IrKept DEF FastLoads
  <2>4. \A q \in Written : (q[1] = b => q[2] < k + 1) <=> ((q[1] = b => q[2] < k) \/ q = p)
    <3> SUFFICES ASSUME NEW q \in Written
                 PROVE  (q[1] = b => q[2] < k + 1) <=> ((q[1] = b => q[2] < k) \/ q = p)
      OBVIOUS
    <3>1. q = <<q[1], q[2]>> /\ q[2] \in Nat  BY WrittenIs
    <3>2. q = p <=> q[1] = b /\ q[2] = k  BY <1>1, <1>6, <3>1
    <3> QED  BY <1>1, <3>1, <3>2
  <2>5. DOMAIN sub = {q \in Written : Stmt(q).from \in allocas /\ q[1] \in seen /\ q = p}
    <3>1. CASE from \in allocas
      <4>1. DOMAIN sub = {p}  BY <1>1, <3>1
      <4>2. p \in Written /\ Stmt(p).from \in allocas /\ p[1] \in seen  BY <1>1, <1>5, <1>6, <3>1
      <4> QED  BY <4>1, <4>2
    <3>2. CASE from \notin allocas
      <4>1. DOMAIN sub = {}  BY <1>1, <3>2
      <4>2. Stmt(p).from \notin allocas  BY <1>1, <3>2
      <4> QED  BY <4>1, <4>2
    <3> QED  BY <3>1, <3>2
  <2> QED  BY <1>2, <1>9, <2>1, <2>2, <2>3, <2>4, <2>5
(* What is held in front of the statement.                                 *)
<1>12. \A c \in Blocks, j \in Nat, v \in Var : Held(at, c, j, v) =>
          GoodPoint(at, Q, c, j, v) /\ Avail(Q, at[<<c, j, v>>], c, j)
  BY <1>2 DEF Cert, GoodPoint
<1>13. ASSUME NEW v \in allocas
       PROVE  /\ Held(at, b, k, v) /\ at[<<b, k, v>>] = Back(v)
              /\ Avail(Q, at[<<b, k, v>>], b, k)
              /\ ~Held(at, b, k + 1, v)
  <2>1. v \in Var  BY <1>3
  <2>2. Held(at, b, k, v)
    <3>1. Passed(b, k)  BY <1>1, <1>4, <1>5, <1>6 DEF Passed
    <3> QED  BY <1>1, <1>2, <1>5, <3>1 DEF HeldInv
  <2>3. Here(n) = k  BY <1>1, <1>4, <1>5, <1>6 DEF Here
  <2>4. Back(v) = at[<<b, k, v>>]  BY <1>1, <1>2, <1>4, <2>1, <2>3, TopHolds
  <2>5. ~Passed(b, k + 1)  BY <1>1, <1>6 DEF Passed
  <2>6. ~Held(at, b, k + 1, v)  BY <1>1, <1>2, <1>6, <2>5 DEF HeldInv
  <2> QED  BY <1>1, <1>12, <2>1, <2>2, <2>4, <2>6
<1>14. ASSUME NEW x \in DOMAIN sub, NEW c \in Blocks, NEW j \in Nat, Avail(Q, x, c, j)
       PROVE  x = p /\ c \in dom[b] /\ (b = c => k < j)
  <2>1. x = p  BY <1>1
  <2>2. Avail(Q, p, c, j) /\ p \in Written  BY <1>1, <1>14, <2>1
  <2>3. c \in dom[p[1]] /\ (p[1] = c => p[2] < j)  BY <2>2, NotItself
  <2> QED  BY <1>6, <2>1, <2>3
<1>15. \A x : Avail(Q, x, b, k) => x \notin DOMAIN sub /\ Avail(R, x, b, k) /\ Subst(sub, x) = x
  <2>1. \A x : Avail(Q, x, b, k) => x \notin DOMAIN sub
    <3>1. ~(k < k)  BY <1>1
    <3> QED  BY <1>1, <1>14, <3>1
  <2>2. \A x : Avail(Q, x, b, k) => Avail(R, x, b, k)  BY <1>9, <2>1 DEF Avail
  <2> QED  BY <2>1, <2>2 DEF Subst
<1>16. undef \notin DOMAIN sub /\ DOMAIN sub \cap Phis = {}
  <2>1. \A x \in DOMAIN sub : x = p  BY <1>1
  <2>2. p \in Positions  BY <1>1 DEF Written
  <2> QED  BY <2>1, <2>2, ValueKinds
(* What is held behind it.                                                 *)
<1>17. PICK op : op = operand'[p]  OBVIOUS
<1>18. op = Subst(sub, operand[p])  BY <1>1, <1>17 DEF ReplaceAllUses
<1>19. PICK at2 : at2 = [pt \in DOMAIN at \cup {<<b, k + 1, v>> : v \in al} |->
                            IF pt \in DOMAIN at THEN Subst(sub, at[pt])
                            ELSE IF pt[3] = to THEN op
                            ELSE Subst(sub, at[<<b, k, pt[3]>>])]
  OBVIOUS
<1>20. /\ DOMAIN at \subseteq DOMAIN at2 /\ DOMAIN at2 \subseteq Points
       /\ \A pt \in DOMAIN at : at2[pt] = Subst(sub, at[pt])
  BY <1>1, <1>2, <1>3, <1>4, <1>6, <1>19 DEF Cert, Points
<1>21. \A c \in Blocks, j \in Nat, v \in Var : Held(at2, c, j, v) =>
          \/ Held(at, c, j, v)
          \/ ~Held(at, c, j, v) /\ v \in allocas /\ c = b /\ j = k + 1
  BY <1>4, <1>19 DEF Held
<1>22. ASSUME NEW v \in allocas
       PROVE  /\ Held(at2, b, k, v) /\ at2[<<b, k, v>>] = Back(v)
              /\ Held(at2, b, k + 1, v)
              /\ at2[<<b, k + 1, v>>] = IF v = to THEN op ELSE at2[<<b, k, v>>]
  <2>1. /\ Held(at, b, k, v) /\ at[<<b, k, v>>] = Back(v)
        /\ Avail(Q, at[<<b, k, v>>], b, k)
        /\ ~Held(at, b, k + 1, v)
    BY <1>13
  <2>2. at2[<<b, k, v>>] = Subst(sub, at[<<b, k, v>>])  BY <1>20, <2>1 DEF Held
  <2>3. PICK pt : pt = <<b, k + 1, v>>  OBVIOUS
  <2>4. pt \notin DOMAIN at /\ pt \in DOMAIN at2 /\ pt[3] = v
    BY <1>4, <1>19, <2>1, <2>3 DEF Held
  <2>5. at2[pt] = IF v = to THEN op ELSE Subst(sub, at[<<b, k, v>>])
    BY <1>19, <2>4
  <2> QED  BY <1>15, <1>20, <2>1, <2>2, <2>3, <2>4, <2>5 DEF Held
<1>23. /\ \A c \in Blocks, j \in Nat, v \in Var :
             Held(at, c, j, v) => GoodPoint(at2, R, c, j, v)'
       /\ GoodUses(at2, R)' /\ R \subseteq Loads'
       /\ \A s \in Blocks, v \in Var :
             Held(at, s, 1, v) /\ GoodEdges(at, s, v) => GoodEdges(at2, s, v)'
  <2>1. \A x \in DOMAIN sub : /\ Held(at2, x[1], x[2], Stmt(x).from)
                              /\ at2[<<x[1], x[2], Stmt(x).from>>] = sub[x]
                              /\ Avail(R, sub[x], x[1], x[2])
    <3> SUFFICES ASSUME NEW x \in DOMAIN sub
                 PROVE  /\ Held(at2, x[1], x[2], Stmt(x).from)
                        /\ at2[<<x[1], x[2], Stmt(x).from>>] = sub[x]
                        /\ Avail(R, sub[x], x[1], x[2])
      OBVIOUS
    <3>1. x = p /\ sub[x] = Back(from) /\ from \in allocas  BY <1>1
    <3>2. Held(at2, b, k, from) /\ at2[<<b, k, from>>] = Back(from)  BY <1>22, <3>1
    <3>3. Avail(R, Back(from), b, k)  BY <1>13, <1>15, <3>1
    <3> QED  BY <1>1, <1>6, <3>1, <3>2, <3>3
  <2>2. UNCHANGED irVars /\ promoted \subseteq promoted' /\ Cert(at, Q) /\ ReplaceAllUses(sub)
    BY <1>1, <1>2
  <2> QED  BY <1>9, <1>10, <1>20, <2>1, <2>2, Substituted
<1>24. \A x : \A c : \A j : Avail(R, x, c, j)' <=> Avail(R, x, c, j)
  <2>1. DOMAIN new_phi_nodes' = DOMAIN new_phi_nodes  BY <1>1 DEF ReplaceAllUses
  <2> QED  BY <1>1, <2>1, IrKept DEF Avail
<1>25. \A c \in Blocks, j \in Nat, v \in Var : Held(at, c, j, v) => Avail(R, at2[<<c, j, v>>], c, j)
  <2> SUFFICES ASSUME NEW c \in Blocks, NEW j \in Nat, NEW v \in Var, Held(at, c, j, v)
               PROVE  Avail(R, at2[<<c, j, v>>], c, j)
    OBVIOUS
  <2>1. GoodPoint(at2, R, c, j, v)'  BY <1>23
  <2>2. Avail(R, at2[<<c, j, v>>], c, j)'  BY <2>1 DEF GoodPoint
  <2> QED  BY <1>24, <2>2
(* The value that is pushed.                                               *)
<1>26. ASSUME to \in allocas
       PROVE  /\ Avail(R, op, b, k + 1) /\ op \in {undef} \cup Positions \cup Phis
              /\ p \in R => Held(at2, b, k, from) /\ at2[<<b, k, from>>] = op
  <2>1. CASE p \in R
    <3>1. to \notin promoted'  BY <1>1, <1>3, <1>26
    <3>2. Held(at2, b, k, from) /\ at2[<<b, k, from>>] = op
      BY <1>1, <1>6, <1>17, <1>23, <2>1, <3>1, IrKept DEF GoodUses, Held
    <3>3. from \in Var  BY <3>2, <1>20 DEF Held, Points
    <3>4. Held(at, b, k, from)  BY <1>1, <1>6, <1>21, <3>2, <3>3
    <3>5. Avail(R, op, b, k)  BY <1>1, <1>25, <3>2, <3>3, <3>4
    <3>6. b \in dom[b] /\ k <= k + 1  BY <1>1, <1>5, DomReflexive
    <3>7. Avail(R, op, b, k + 1)  BY <1>1, <1>6, <3>5, <3>6, AvailOn
    <3> QED  BY <3>2, <3>7, AvailIsValue
  <2>2. CASE p \notin R
    <3>1. op = p  BY <1>1, <1>17, <1>23, <2>2, IrKept DEF GoodUses
    <3>2. p \in Written \ R /\ b \in dom[p[1]] /\ p[2] < k + 1
      BY <1>1, <1>5, <1>6, <2>2, DomReflexive
    <3>3. Avail(R, p, b, k + 1)  BY <3>2 DEF Avail
    <3> QED  BY <2>2, <3>1, <3>3, AvailIsValue
  <2> QED  BY <2>1, <2>2
<1>27. ASSUME NEW v \in allocas PROVE GoodPoint(at2, R, b, k + 1, v)'
  <2>1. /\ Held(at2, b, k, v) /\ Held(at, b, k, v) /\ v \in Var
        /\ at2[<<b, k + 1, v>>] = IF v = to THEN op ELSE at2[<<b, k, v>>]
    BY <1>3, <1>13, <1>22
  <2>2. Avail(R, at2[<<b, k + 1, v>>], b, k + 1)
    <3>1. CASE v = to  BY <1>26, <2>1, <3>1
    <3>2. CASE v # to
      <4>1. PICK y : y = at2[<<b, k, v>>]  OBVIOUS
      <4>2. Avail(R, y, b, k)  BY <1>1, <1>25, <2>1, <4>1
      <4>3. b \in dom[b] /\ k <= k + 1  BY <1>1, <1>5, DomReflexive
      <4>4. Avail(R, y, b, k + 1)  BY <1>1, <1>6, <4>2, <4>3, AvailOn
      <4> QED  BY <2>1, <3>2, <4>1, <4>4
    <3> QED  BY <3>1, <3>2
  <2>3. Avail(R, at2[<<b, k + 1, v>>], b, k + 1)'  BY <1>24, <2>2
  <2>4. Kept(at2, R, p, v)'
    <3>1. Stmt(p)' = Stmt(p) /\ Stmt(p).to = to /\ Stmt(p).from = from
      BY <1>1, IrKept
    <3>2. CASE v = to
      <4>1. at2[<<p[1], p[2] + 1, v>>] = operand'[p]  BY <1>6, <1>17, <2>1, <3>2
      <4>2. p \in R => Held(at2, p[1], p[2], from) /\ at2[<<p[1], p[2], from>>] = operand'[p]
        BY <1>6, <1>17, <1>26, <3>2
      <4> QED  BY <3>1, <3>2, <4>1, <4>2 DEF Kept, Held
    <3>3. CASE v # to
      <4>1. Held(at2, p[1], p[2], v) /\ at2[<<p[1], p[2] + 1, v>>] = at2[<<p[1], p[2], v>>]
        BY <1>6, <2>1, <3>3
      <4> QED  BY <3>1, <3>3, <4>1 DEF Kept, Held
    <3> QED  BY <3>2, <3>3
  <2>5. <<b, (k + 1) - 1>> = p  BY <1>1, <1>6
  <2>6. Kept(at2, R, <<b, (k + 1) - 1>>, v)'  BY <2>4, <2>5
  <2>7. k + 1 \in 1..(Len(code[b]) + 1)  BY <1>5, <1>6
  <2> QED  BY <1>1, <1>5, <1>6, <2>3, <2>6, <2>7, IrKept DEF GoodPoint
<1>28. Cert(at2, R)'
  <2>1. ASSUME NEW c \in Blocks, NEW j \in Nat, NEW v \in Var, Held(at2, c, j, v)
        PROVE  GoodPoint(at2, R, c, j, v)'
    BY <1>21, <1>23, <1>27, <2>1
  <2> QED  BY <1>20, <1>23, <2>1 DEF Cert, Held, Points
<1>29. \A s \in Blocks, v \in promoted : Held(at2, s, 1, v) => Held(at, s, 1, v) /\ v \in Var
  BY <1>3, <1>21
<1>30. Edges(at2, promoted)'
  <2>1. ASSUME NEW s \in Blocks, NEW v \in promoted, Held(at2, s, 1, v)
        PROVE  GoodEdges(at2, s, v)'
    <3>1. Held(at, s, 1, v) /\ v \in Var  BY <1>29, <2>1
    <3>2. GoodEdges(at, s, v)  BY <1>2, <3>1 DEF Edges
    <3> QED  BY <1>23, <3>1, <3>2
  <2> QED  BY <1>1, <2>1 DEF Edges, Held
<1>31. NoOwnPhi(at2)'
  <2>1. ASSUME NEW s \in Blocks, NEW v \in promoted, Held(at2, s, 1, v), at2[<<s, 1, v>>] \in Phis
        PROVE  at2[<<s, 1, v>>][1] # s
    <3>1. Held(at, s, 1, v) /\ v \in Var  BY <1>29, <2>1
    <3>2. PICK y : y = at[<<s, 1, v>>]  OBVIOUS
    <3>3. at2[<<s, 1, v>>] = Subst(sub, y) /\ Avail(Q, y, s, 1)
      BY <1>12, <1>20, <3>1, <3>2 DEF Held
    <3>4. CASE y \notin DOMAIN sub
      <4>1. at2[<<s, 1, v>>] = y  BY <3>3, <3>4 DEF Subst
      <4> QED  BY <1>2, <2>1, <3>1, <3>2, <4>1 DEF NoOwnPhi
    <3>5. CASE y \in DOMAIN sub
      <4>1. s \in dom[b] /\ (b = s => k < 1)  BY <1>14, <3>3, <3>5
      <4>2. s # b  BY <1>6, <4>1
      <4>3. PICK z : z = sub[y]  OBVIOUS
      <4>4. at2[<<s, 1, v>>] = z /\ z = Back(from) /\ from \in allocas
        BY <1>1, <3>3, <3>5, <4>3 DEF Subst
      <4>5. Avail(Q, z, b, k)  BY <1>13, <4>4
      <4>6. z # undef  BY <2>1, <4>4, ValueKinds
      <4>7. b \in Blocks /\ k \in Nat  BY <1>1
      <4>8. z[1] # s  BY <4>1, <4>2, <4>5, <4>6, <4>7, AvailAbove
      <4> QED  BY <4>4, <4>8
    <3> QED  BY <3>4, <3>5
  <2> QED  BY <1>1, <2>1 DEF NoOwnPhi, Held
(* The blocks that are seen.                                               *)
<1>32. ASSUME NEW c \in Blocks, NEW j \in Nat
       PROVE  /\ Passed(c, j)' <=> j \in 1..EndOf(c) /\ (c = b => j <= k + 1)
              /\ Passed(c, j) <=> j \in 1..EndOf(c) /\ (c = b => j <= k)
  <2>1. Passed(c, j)' <=> j \in 1..EndOf(c) /\ (c = b => j <= k + 1)
    BY <1>1, <1>7, IrKept DEF Passed
  <2>2. Passed(c, j) <=> j \in 1..EndOf(c) /\ (c = b => j <= k)
    BY <1>1 DEF Passed
  <2> QED  BY <2>1, <2>2
<1>33. HeldInv(at2, seen)'
  <2>1. ASSUME NEW c \in Blocks, NEW j \in Nat, NEW v \in allocas
        PROVE  Held(at2, c, j, v) <=> c \in seen /\ Passed(c, j)'
    <3>1. v \in Var /\ Held(at2, b, k + 1, v)  BY <1>3, <1>22
    <3>2. Held(at2, c, j, v) <=> Held(at, c, j, v) \/ (c = b /\ j = k + 1)
      BY <1>20, <1>21, <3>1 DEF Held
    <3>3. Held(at, c, j, v) <=> c \in seen /\ Passed(c, j)  BY <1>2 DEF HeldInv
    <3>4. Passed(c, j)' <=> Passed(c, j) \/ (c = b /\ j = k + 1)
      <4>1. /\ Passed(c, j)' <=> j \in 1..EndOf(c) /\ (c = b => j <= k + 1)
            /\ Passed(c, j) <=> j \in 1..EndOf(c) /\ (c = b => j <= k)
        BY <1>32
      <4>2. c = b => (j <= k + 1 <=> j <= k \/ j = k + 1)  BY <1>1
      <4>3. c = b /\ j = k + 1 => j \in 1..EndOf(c)  BY <1>4, <1>6
      <4> QED  BY <4>1, <4>2, <4>3
    <3> QED  BY <1>5, <3>2, <3>3, <3>4
  <2>2. \A c \in Blocks, j \in Nat, v \in Var : Held(at2, c, j, v) => v \in promoted \cup allocas
    BY <1>2, <1>21 DEF HeldInv
  <2> QED  BY <1>1, <2>1, <2>2 DEF HeldInv, Held
<1>34. ASSUME NEW c \in seen, NEW v \in allocas
       PROVE  /\ c \in Blocks /\ EndOf(c) \in Nat /\ EndOf(c) >= 1
              /\ at2[<<c, 1, v>>] = Subst(sub, at[<<c, 1, v>>])
              /\ c # b => at2[<<c, EndOf(c), v>>] = Subst(sub, at[<<c, EndOf(c), v>>])
  <2>1. c \in Blocks  BY <1>2, DomTable, ReachableClosed DEF SeenInv
  <2>2. EndOf(c) \in Nat /\ EndOf(c) >= 1  BY <2>1, WrittenIs DEF EndOf
  <2>3. Passed(c, 1) /\ (c # b => Passed(c, EndOf(c)))
    <3>1. 1 \in 1..EndOf(c) /\ EndOf(c) \in 1..EndOf(c) /\ 1 <= k  BY <1>1, <1>6, <2>2
    <3>2. Passed(c, 1)  BY <1>32, <2>1, <3>1
    <3>3. c # b => Passed(c, EndOf(c))  BY <1>32, <2>1, <2>2, <3>1
    <3> QED  BY <3>2, <3>3
  <2>4. Held(at, c, 1, v) /\ (c # b => Held(at, c, EndOf(c), v))
    BY <1>2, <2>1, <2>2, <2>3 DEF HeldInv
  <2> QED  BY <1>20, <2>1, <2>2, <2>4 DEF Held
<1>35. DOMAIN new_phi_nodes' = DOMAIN new_phi_nodes /\ DOMAIN new_phi_nodes \subseteq Phis
  BY <1>1 DEF ReplaceAllUses, PhiInv
<1>36. PhiStarts(at2, seen)'
  <2>1. ASSUME NEW c \in seen, NEW v \in allocas, <<c, v>> \in DOMAIN new_phi_nodes
        PROVE  at2[<<c, 1, v>>] = <<c, v>>
    <3>1. at[<<c, 1, v>>] = <<c, v>>  BY <1>2, <2>1 DEF PhiStarts
    <3>2. <<c, v>> \notin DOMAIN sub  BY <1>16, <1>35, <2>1
    <3> QED  BY <1>34, <3>1, <3>2 DEF Subst
  <2> QED  BY <1>1, <1>35, <2>1 DEF PhiStarts
<1>37. Inherits(at2, seen)'
  <2>1. ASSUME NEW c \in seen, NEW v \in allocas, NEW d \in Blocks,
               <<c, v>> \notin DOMAIN new_phi_nodes, ImmediatelyDominates(dom, d, c)
        PROVE  at2[<<c, 1, v>>] = at2[<<d, EndOf(d), v>>]
    <3>1. c \in dom[d] /\ d # c  BY <2>1 DEF ImmediatelyDominates
    <3>2. d \in seen /\ d # b  BY <1>2, <1>8, <3>1 DEF SeenInv
    <3>3. at[<<c, 1, v>>] = at[<<d, EndOf(d), v>>]  BY <1>2, <2>1 DEF Inherits
    <3> QED  BY <1>34, <3>2, <3>3
  <2> QED  BY <1>1, <1>35, <2>1, IrKept DEF Inherits
<1>38. \A v, a, c : DefinedBetween(v, a, c)' <=> DefinedBetween(v, a, c)
  BY <1>1, <1>35, IrKept DEF DefinedBetween, PhiBlocks
<1>39. Undefined(at2, seen)'
  <2>1. ASSUME NEW c \in seen, NEW a \in Blocks, NEW j \in Nat, NEW v \in allocas,
               Held(at2, c, j, v), c \in dom[a], a # c, ~DefinedBetween(v, a, c)
        PROVE  at2[<<c, j, v>>] = at2[<<a, EndOf(a), v>>]
    <3>1. a \in seen /\ a # b /\ c \in Blocks /\ v \in Var
      BY <1>2, <1>3, <1>8, <1>34, <2>1 DEF SeenInv
    <3>2. at2[<<a, EndOf(a), v>>] = Subst(sub, at[<<a, EndOf(a), v>>])  BY <1>34, <3>1
    <3>3. CASE Held(at, c, j, v)
      <4>1. at[<<c, j, v>>] = at[<<a, EndOf(a), v>>]  BY <1>2, <2>1, <3>3 DEF Undefined
      <4>2. at2[<<c, j, v>>] = Subst(sub, at[<<c, j, v>>])  BY <1>20, <3>3 DEF Held
      <4> QED  BY <3>2, <4>1, <4>2
    <3>4. CASE ~Held(at, c, j, v)
      <4>1. c = b /\ j = k + 1  BY <1>21, <2>1, <3>1, <3>4
      <4>2. v # to
        <5>1. SUFFICES ASSUME v = to PROVE FALSE  OBVIOUS
        <5>2. b \in Defining(v)
          BY <1>1, <1>6, <5>1 DEF Defining, StoresTo
        <5>3. b \in dom[b]  BY <1>5, DomReflexive
        <5> QED  BY <2>1, <4>1, <5>2, <5>3 DEF DefinedBetween
      <4>3. at2[<<c, j, v>>] = at2[<<b, k, v>>]  BY <1>22, <4>1, <4>2
      <4>4. Held(at, b, k, v)  BY <1>13
      <4>5. at[<<b, k, v>>] = at[<<a, EndOf(a), v>>]
        BY <1>1, <1>2, <1>5, <2>1, <4>1, <4>4 DEF Undefined
      <4>6. at2[<<b, k, v>>] = Subst(sub, at[<<b, k, v>>])  BY <1>20, <4>4 DEF Held
      <4> QED  BY <3>2, <4>3, <4>5, <4>6
    <3> QED  BY <3>3, <3>4
  <2> QED  BY <1>1, <1>38, <2>1, IrKept DEF Undefined, Held
<1>40. PhisTold(at2, seen)'
  <2>0. k + 1 # EndOf(b) + 1 /\ k # EndOf(b) + 1  BY <1>1, <1>4, <1>5, <1>6
  <2>1. \A c : Told(seen, c)' <=> c \in seen /\ c # b
    <3>1. /\ Top'.block = b /\ Top'.next = k + 1 /\ calls' # <<>>
          /\ \A c : EndOf(c)' = EndOf(c)
      BY <1>1, <1>7, IrKept
    <3> QED  BY <2>0, <3>1 DEF Told
  <2>2. \A c : Told(seen, c) <=> c \in seen /\ c # b
    BY <1>1, <2>0 DEF Told
  <2>3. ASSUME NEW phi \in DOMAIN new_phi_nodes, NEW c \in Preds(succ, phi[1])
        PROVE  /\ c \in seen /\ c # b => new_phi_nodes'[phi][c] = at2[<<c, EndOf(c), phi[2]>>]
               /\ ~(c \in seen /\ c # b) => new_phi_nodes'[phi][c] = undef
    <3>1. c \in DOMAIN new_phi_nodes[phi] /\ phi[2] \in allocas  BY <1>3 DEF PhiInv
    <3>2. new_phi_nodes'[phi][c] = Subst(sub, new_phi_nodes[phi][c])
      BY <1>1, <3>1 DEF ReplaceAllUses
    <3>3. CASE c \in seen /\ c # b
      <4>1. new_phi_nodes[phi][c] = at[<<c, EndOf(c), phi[2]>>]
        BY <1>2, <2>2, <3>3 DEF PhisTold
      <4> QED  BY <1>34, <3>1, <3>2, <3>3, <4>1
    <3>4. CASE ~(c \in seen /\ c # b)
      <4>1. new_phi_nodes[phi][c] = undef  BY <1>2, <2>2, <3>4 DEF PhisTold
      <4> QED  BY <1>16, <3>2, <3>4, <4>1 DEF Subst
    <3> QED  BY <3>3, <3>4
  <2>4. succ' = succ /\ \A c : EndOf(c)' = EndOf(c)  BY <1>1, IrKept
  <2> QED  BY <1>35, <2>1, <2>3, <2>4 DEF PhisTold
(* The stacks.                                                             *)
<1>41. PICK h2 : h2 = [i \in 0..n |-> IF i = n THEN [v \in Var |-> h[n][v] + store[v]] ELSE h[i]]
  OBVIOUS
<1>42. /\ h \in [0..n -> [Var -> Nat]]
       /\ value_stacks \in [Var -> Seq({undef} \cup Positions \cup Phis)]
       /\ \A v \in Var : StackInv(at, h, v)
  BY <1>2, <1>4 DEF StacksInv
<1>43. /\ \A i \in 0..n : i # n => h2[i] = h[i]
       /\ \A v \in Var : h2[n][v] = h[n][v] + store[v] /\ store[v] \in {0, 1} /\ h[n][v] \in Nat
       /\ h2 \in [0..n -> [Var -> Nat]]
       /\ \A i \in 1..n : i \in 0..n /\ i - 1 \in 0..n /\ i - 1 # n
       /\ n \in 0..n /\ 0 \in 0..n /\ 0 # n
  <2>1. n \in 0..n /\ 0 \in 0..n /\ 0 # n  BY <1>5
  <2>2. \A v \in Var : store[v] \in {0, 1} /\ h[n][v] \in Nat  BY <1>1, <1>42, <2>1
  <2>3. [v \in Var |-> h[n][v] + store[v]] \in [Var -> Nat]  BY <2>2
  <2>4. h2 \in [0..n -> [Var -> Nat]]  BY <1>41, <1>42, <2>3
  <2>5. \A v \in Var : h2[n][v] = h[n][v] + store[v]  BY <1>41, <2>1
  <2>6. \A i \in 0..n : i # n => h2[i] = h[i]  BY <1>41
  <2> QED  BY <1>5, <2>1, <2>2, <2>4, <2>5, <2>6
<1>44. \A i \in 1..n : i # n => /\ calls'[i] = calls[i] /\ Here(i)' = Here(i)
  BY <1>1, <1>7, IrKept DEF Here
<1>45. Here(n)' = k + 1
  BY <1>1, <1>4, <1>5, <1>6, <1>7, IrKept DEF Here
<1>46. ASSUME NEW v \in Var
       PROVE  /\ value_stacks'[v] \in Seq({undef} \cup Positions \cup Phis)
              /\ StackInv(at2, h2, v)'
  <2>1. /\ StackInv(at, h, v) /\ value_stacks[v] \in Seq({undef} \cup Positions \cup Phis)
        /\ Len(value_stacks[v]) = h[n][v] /\ h[n][v] \in Nat
    BY <1>4, <1>42, <1>43 DEF StackInv
  <2>2. value_stacks'[v] = IF store[v] = 1 THEN Append(value_stacks[v], op) ELSE value_stacks[v]
    BY <1>1, <1>18
  <2>3. store[v] = 1 <=> v = to /\ v \in allocas  BY <1>1
  <2>4. /\ value_stacks'[v] \in Seq({undef} \cup Positions \cup Phis)
        /\ Len(value_stacks'[v]) = h2[n][v]
        /\ \A i \in 1..h[n][v] : value_stacks'[v][i] = value_stacks[v][i]
        /\ store[v] = 1 => value_stacks'[v][h[n][v] + 1] = op
    <3>1. CASE store[v] = 1
      <4>1. op \in {undef} \cup Positions \cup Phis  BY <1>26, <2>3, <3>1
      <4>2. h2[n][v] = h[n][v] + 1  BY <1>43, <3>1
      <4> QED  BY <2>1, <2>2, <3>1, <4>1, <4>2
    <3>2. CASE store[v] # 1
      <4>1. h2[n][v] = h[n][v]  BY <1>43, <2>1, <3>2
      <4> QED  BY <2>1, <2>2, <3>2, <4>1
    <3> QED  BY <3>1, <3>2
  <2>5. h2[0][v] = 0  BY <1>43, <2>1 DEF StackInv
  <2>6. ASSUME NEW i \in 1..n
        PROVE  /\ h2[i][v] = h2[i - 1][v] + calls'[i].pushed[v]
               /\ \A j \in i..n : h2[i][v] <= h2[j][v]
               /\ v \in allocas' => at2[<<calls'[i].block, Here(i)', v>>] =
                     IF h2[i][v] = 0 THEN undef ELSE value_stacks'[v][h2[i][v]]
    <3>1. /\ h[i][v] = h[i - 1][v] + calls[i].pushed[v]
          /\ \A j \in i..n : h[i][v] <= h[j][v]
          /\ v \in allocas => at[<<calls[i].block, Here(i), v>>] =
                IF h[i][v] = 0 THEN undef ELSE value_stacks[v][h[i][v]]
      BY <1>4, <2>1 DEF StackInv
    <3>2. h2[i - 1] = h[i - 1] /\ i \in 0..n /\ i - 1 \in 0..n  BY <1>43
    <3>3. h[i - 1][v] \in Nat  BY <1>42, <3>2
    <3>4. CASE i = n
      <4>1. calls'[i] = r /\ calls[i].pushed[v] = Top.pushed[v] /\ Top.pushed[v] \in Nat
        BY <1>5, <1>7, <3>4 DEF Calls
      <4>2. r.pushed[v] = Top.pushed[v] + store[v] /\ store[v] \in {0, 1}
            /\ h2[i][v] = h[i][v] + store[v]
        BY <1>1, <1>43, <3>4
      <4>3. h2[i][v] = h2[i - 1][v] + calls'[i].pushed[v]
        BY <3>1, <3>2, <3>3, <4>1, <4>2
      <4>4. \A j \in i..n : h2[i][v] <= h2[j][v]
        <5>1. \A j \in i..n : j = i  BY <1>5, <3>4
        <5>2. h2[i][v] \in Nat  BY <1>43, <3>2
        <5> QED  BY <5>1, <5>2
      <4>5. ASSUME v \in allocas
            PROVE  at2[<<b, k + 1, v>>] = IF h2[i][v] = 0 THEN undef ELSE value_stacks'[v][h2[i][v]]
        <5>1. at2[<<b, k + 1, v>>] = IF v = to THEN op ELSE Back(v)  BY <1>22, <4>5
        <5>2. CASE v = to
          <6>1. store[v] = 1  BY <2>3, <4>5, <5>2
          <6>2. h2[i][v] = h[n][v] + 1 /\ h2[i][v] # 0  BY <1>43, <2>1, <3>4, <6>1
          <6>3. value_stacks'[v][h2[i][v]] = op  BY <2>4, <6>1, <6>2
          <6> QED  BY <5>1, <5>2, <6>2, <6>3
        <5>3. CASE v # to
          <6>1. store[v] = 0 /\ store[v] # 1  BY <1>1, <5>3
          <6>2. h2[i][v] = h[n][v]  BY <1>43, <2>1, <3>4, <6>1
          <6>3. value_stacks'[v] = value_stacks[v]  BY <2>2, <6>1
          <6>4. Back(v) = IF h[n][v] = 0 THEN undef ELSE value_stacks[v][h[n][v]]
            BY <2>1 DEF Back
          <6> QED  BY <5>1, <5>3, <6>2, <6>3, <6>4
        <5> QED  BY <5>2, <5>3
      <4>6. calls'[i].block = b /\ Here(i)' = k + 1  BY <1>1, <1>45, <3>4, <4>1
      <4> QED  BY <1>1, <4>3, <4>4, <4>5, <4>6
    <3>5. CASE i # n
      <4>1. h2[i] = h[i] /\ calls'[i] = calls[i] /\ Here(i)' = Here(i) /\ h[i][v] \in Nat
        BY <1>42, <1>43, <1>44, <3>2, <3>5
      <4>2. ASSUME NEW j \in i..n PROVE h2[i][v] <= h2[j][v]
        <5>1. j \in 0..n /\ h[i][v] <= h[j][v] /\ h[j][v] \in Nat
          <6>1. j \in 0..n  BY <1>5, <4>2
          <6> QED  BY <1>42, <3>1, <6>1
        <5>2. CASE j = n
          <6>1. h2[j][v] = h[j][v] + store[v] /\ store[v] \in {0, 1}  BY <1>43, <5>2
          <6> QED  BY <4>1, <5>1, <6>1
        <5>3. CASE j # n  BY <1>43, <4>1, <5>1, <5>3
        <5> QED  BY <5>2, <5>3
      <4>3. ASSUME v \in allocas
            PROVE  at2[<<calls[i].block, Here(i), v>>] = at[<<calls[i].block, Here(i), v>>]
        <5>1. PICK c, j : c = calls[i].block /\ j = Here(i)  OBVIOUS
        <5>2. CallInv(seen, i) /\ i # Len(calls) /\ calls[i].block # Top.block
          <6>1. i \in 1..Len(calls) /\ Len(calls) \in 1..Len(calls) /\ i < Len(calls)
            BY <1>4, <1>5, <3>5
          <6> QED  BY <1>2, <1>4, <1>5, <6>1 DEF CallsInv
        <5>3. c \in seen /\ c # b /\ calls[i].next = EndOf(c) + 1
          BY <1>1, <5>1, <5>2 DEF CallInv
        <5>4. c \in Blocks /\ EndOf(c) \in Nat  BY <1>34, <4>3, <5>3
        <5>5. j = EndOf(c)  BY <5>1, <5>3, <5>4 DEF Here
        <5>6. Held(at, c, j, v)
          BY <1>1, <1>2, <4>3, <5>3, <5>5, DoneHeld
        <5>7. at2[<<c, j, v>>] = Subst(sub, at[<<c, j, v>>])  BY <1>34, <4>3, <5>3, <5>5
        <5>8. Avail(Q, at[<<c, j, v>>], c, j)  BY <1>12, <5>4, <5>5, <5>6
        <5>9. at[<<c, j, v>>] \notin DOMAIN sub
          <6>1. SUFFICES ASSUME at[<<c, j, v>>] \in DOMAIN sub PROVE FALSE  OBVIOUS
          <6>2. c \in dom[b]  BY <1>14, <5>4, <5>5, <5>8, <6>1
          <6> QED  BY <1>8, <5>3, <6>2
        <5> QED  BY <5>1, <5>7, <5>9 DEF Subst
      <4>4. h[i][v] = 0 \/ value_stacks'[v][h[i][v]] = value_stacks[v][h[i][v]]
        <5>1. n \in i..n  BY <1>5
        <5>2. h[i][v] <= h[n][v]  BY <3>1, <5>1
        <5> QED  BY <2>1, <2>4, <4>1, <5>2
      <4>5. v \in allocas' => at2[<<calls'[i].block, Here(i)', v>>] =
                     IF h2[i][v] = 0 THEN undef ELSE value_stacks'[v][h2[i][v]]
        BY <1>1, <3>1, <4>1, <4>3, <4>4
      <4> QED  BY <3>1, <3>2, <4>1, <4>2, <4>5
    <3> QED  BY <3>4, <3>5
  <2>7. StackInv(at2, h2, v)'  BY <1>7, <2>4, <2>5, <2>6 DEF StackInv
  <2> QED  BY <2>4, <2>7
<1>47. StacksInv(at2, h2)'
  <2>1. value_stacks' \in [Var -> Seq({undef} \cup Positions \cup Phis)]
    BY <1>1, <1>46
  <2> QED  BY <1>7, <1>43, <1>46, <2>1 DEF StacksInv
<1>48. RenameInv(at2, R, seen, h2)'
  BY <1>7, <1>11, <1>28, <1>30, <1>31, <1>33, <1>36, <1>37, <1>39, <1>40, <1>47 DEF RenameInv
<1> QED  BY <1>48

(* One statement of the renaming.                                          *)
LEMMA RenameKeeps ==
    ASSUME GraphInv, ProgInv, PhiInv, SortInv,
           NEW at, NEW Q, NEW seen, NEW h, RenameInv(at, Q, seen, h), Rename
    PROVE  \E at2, R, h2 : RenameInv(at2, R, seen, h2)'
<1>1. CallsInv(seen) /\ SeenInv(seen)  BY DEF RenameInv
<1>2. PICK b, k, p, from, to, sub, store, r : Renamed(b, k, p, from, to, sub, store, r)
  BY <1>1, RenameIs
<1> QED  BY <1>2, RenamedKeeps

----------------------------------------------------------------------------
(* What holds in all phases.                                               *)

(* What holds in all phases.                                               *)
Base == /\ GraphInv /\ ProgInv /\ PhiInv /\ SortInv /\ EmitInv /\ IdleInv

(* Where phis only go and what comes into the others keeps its domain.     *)
LEMMA PhisKept ==
    ASSUME PhiInv, SortInv, succ' = succ, allocas \subseteq allocas',
           DOMAIN new_phi_nodes' \subseteq DOMAIN new_phi_nodes,
           \A phi \in DOMAIN new_phi_nodes' :
              DOMAIN new_phi_nodes'[phi] = DOMAIN new_phi_nodes[phi]
    PROVE  PhiInv' /\ \A phi \in DOMAIN new_phi_nodes' : phi[2] \in allocas'
<1>1. PhiInv'
  BY DEF PhiInv
<1>2. \A phi \in DOMAIN new_phi_nodes' : phi[2] \in allocas'
  BY DEF SortInv
<1> QED  BY <1>1, <1>2

(* Replacing uses keeps the phis and where their values come from.         *)
LEMMA ReplaceKeepsShape ==
    ASSUME NEW sub, ReplaceAllUses(sub)
    PROVE  /\ DOMAIN new_phi_nodes' = DOMAIN new_phi_nodes
           /\ \A phi \in DOMAIN new_phi_nodes' :
                 DOMAIN new_phi_nodes'[phi] = DOMAIN new_phi_nodes[phi]
BY DEF ReplaceAllUses

(* The phases, one by one.                                                 *)
LEMMA EmissionBase ==
    ASSUME Base, Emission
    PROVE  Base'
<1>1. CASE \E s \in Statement : EmitStatement(s)
  <2>1. PICK s \in Statement : EmitStatement(s)  BY <1>1
  <2>2. ProgInv' /\ EmitInv'  BY <2>1, EmitStatementKeeps DEF Base
  <2>3. /\ phase = "emit" /\ phase' = "emit"
        /\ UNCHANGED <<succ, dom, children, frontiers, candidates, promoted, allocas,
                       new_phi_nodes, current, value_stacks, calls, phi_to_erase, mem, env>>
    BY <2>1 DEF EmitStatement, dtVars, fastVars, placeVars, renameVars, deadVars, runVars
  <2>4. GraphInv'  BY <2>3 DEF Base, GraphInv
  <2>5. PhiInv' /\ SortInv'
    BY <2>3, PhisKept DEF Base, SortInv
  <2>6. IdleInv'  BY <2>3 DEF Base, IdleInv
  <2> QED  BY <2>2, <2>4, <2>5, <2>6 DEF Base
<1>2. CASE EmitBlock
  <2>1. EmitInv'  BY <1>2, EmitBlockKeeps DEF Base
  <2>2. /\ phase = "emit" /\ phase' = "emit"
        /\ UNCHANGED <<irVars, candidates, promoted, allocas,
                       new_phi_nodes, current, value_stacks, calls, phi_to_erase, mem, env>>
    BY <1>2 DEF EmitBlock, fastVars, placeVars, renameVars, deadVars, runVars
  <2>3. GraphInv' /\ ProgInv' /\ succ' = succ  BY <2>2, IrKept DEF Base
  <2>4. PhiInv' /\ SortInv'
    BY <2>2, <2>3, PhisKept DEF Base, SortInv
  <2>5. IdleInv'  BY <2>2 DEF Base, IdleInv
  <2> QED  BY <2>1, <2>3, <2>4, <2>5 DEF Base
<1>3. CASE Collect
  <2>1. /\ phase = "emit" /\ phase' = "fast" /\ block' = entry /\ index' = 1
        /\ candidates' \subseteq Var
        /\ UNCHANGED <<irVars, promoted, allocas,
                       new_phi_nodes, current, value_stacks, calls, phi_to_erase, mem, env>>
    BY <1>3 DEF Collect, placeVars, renameVars, deadVars, runVars
  <2>2. GraphInv' /\ ProgInv' /\ succ' = succ  BY <2>1, IrKept DEF Base
  <2>3. PhiInv' /\ SortInv'
    BY <2>1, <2>2, PhisKept DEF Base, SortInv
  <2>4. IdleInv' /\ EmitInv'  BY <2>1 DEF Base, IdleInv, EmitInv
  <2> QED  BY <2>2, <2>3, <2>4 DEF Base
<1> QED  BY <1>1, <1>2, <1>3 DEF Emission

(* The fast paths.                                                         *)
LEMMA FastPathsBase ==
    ASSUME Inv, Base, FastPaths
    PROVE  Base'
<1>1. /\ phase = "fast" /\ phase' \in {"fast", "phis", "run"}
      /\ UNCHANGED <<irVars, block, index, current, value_stacks, calls, phi_to_erase, mem, env>>
  BY DEF FastPaths, PromoteSingleStore, PromoteSingleBlock, Promoted, KeepForSSA,
     FastPathsDone, placeVars, renameVars, deadVars, runVars
<1>2. /\ DOMAIN new_phi_nodes' = DOMAIN new_phi_nodes
      /\ \A phi \in DOMAIN new_phi_nodes' :
            DOMAIN new_phi_nodes'[phi] = DOMAIN new_phi_nodes[phi]
  BY ReplaceKeepsShape DEF FastPaths, PromoteSingleStore, PromoteSingleBlock, KeepForSSA,
     FastPathsDone
<1>3. GraphInv' /\ ProgInv' /\ succ' = succ  BY <1>1, IrKept DEF Base
<1>4. \/ \E v \in candidates : /\ candidates' = candidates \ {v} /\ phase' = "fast"
                               /\ \/ promoted' = promoted \cup {v} /\ allocas' = allocas
                                  \/ allocas' = allocas \cup {v} /\ promoted' = promoted
      \/ /\ candidates' = allocas /\ promoted' = promoted /\ allocas' = allocas
         /\ phase' # "fast"
  BY DEF FastPaths, PromoteSingleStore, PromoteSingleBlock, Promoted, KeepForSSA,
     FastPathsDone
<1>5. current = None /\ current' = None /\ phase = "fast"  BY <1>1 DEF Inv, PlacedInv
<1>6. PhiInv' /\ \A phi \in DOMAIN new_phi_nodes' : phi[2] \in allocas'
  <2>1. allocas \subseteq allocas'  BY <1>4
  <2> QED  BY <1>2, <1>3, <2>1, PhisKept DEF Base
<1>7. SortInv'
  <2>1. CASE \E v \in candidates : /\ candidates' = candidates \ {v} /\ phase' = "fast"
                               /\ \/ promoted' = promoted \cup {v} /\ allocas' = allocas
                                  \/ allocas' = allocas \cup {v} /\ promoted' = promoted
    BY <1>1, <1>6, <2>1 DEF Base, SortInv
  <2>2. CASE /\ candidates' = allocas /\ promoted' = promoted /\ allocas' = allocas
             /\ phase' # "fast"
    BY <1>1, <1>5, <1>6, <2>2 DEF Base, SortInv
  <2> QED  BY <1>4, <2>1, <2>2
<1>8. IdleInv'
  <2>1. DOMAIN new_phi_nodes' = {}  BY <1>1, <1>2 DEF Base, IdleInv
  <2> QED  BY <1>1, <2>1 DEF Base, IdleInv
<1> QED  BY <1>1, <1>3, <1>6, <1>7, <1>8 DEF Base, EmitInv

(* The placing of phis.                                                    *)
LEMMA InsertPhisBase ==
    ASSUME Inv, Base, InsertPhis
    PROVE  Base'
<1>1. /\ phase = "phis" /\ phase' = "phis"
      /\ UNCHANGED <<irVars, promoted, allocas, block, index, value_stacks, calls,
                     phi_to_erase, mem, env>>
      /\ candidates' \subseteq candidates
      /\ current' # None => current' \in candidates \cup {current}
      /\ DOMAIN env' = DOMAIN env
  BY DEF InsertPhis, StartPlacing, PlacePhis, Placed, fastVars, renameVars, deadVars, runVars
<1>2. GraphInv' /\ ProgInv' /\ succ' = succ  BY <1>1, IrKept DEF Base
<1>3. PhiInv' /\ \A phi \in DOMAIN new_phi_nodes' : phi[2] \in allocas'
  <2>1. CASE PlacePhis
    BY <1>1, <2>1, PlacePhisShape DEF Base, Inv, FrontierShape
  <2>2. CASE ~PlacePhis
    <3>1. new_phi_nodes' = new_phi_nodes  BY <2>2 DEF InsertPhis, StartPlacing, Placed
    <3> QED  BY <1>1, <1>2, <3>1, PhisKept DEF Base
  <2> QED  BY <2>1, <2>2
<1>4. SortInv'
  BY <1>1, <1>3 DEF Base, SortInv
<1>5. IdleInv'  BY <1>1 DEF Base, IdleInv
<1> QED  BY <1>1, <1>2, <1>3, <1>4, <1>5 DEF Base, EmitInv

(* Behind the placing, the phis that are left keep their shape.            *)
LEMMA LaterBase ==
    ASSUME Base, phase \notin {"emit", "fast"}, phase' \notin {"emit", "fast", "phis"},
           UNCHANGED <<irVars, candidates, promoted, allocas>>,
           DOMAIN new_phi_nodes' \subseteq DOMAIN new_phi_nodes,
           \A phi \in DOMAIN new_phi_nodes' :
              DOMAIN new_phi_nodes'[phi] = DOMAIN new_phi_nodes[phi],
           IdleInv'
    PROVE  Base'
<1>1. GraphInv' /\ ProgInv' /\ succ' = succ  BY IrKept DEF Base
<1>2. PhiInv' /\ \A phi \in DOMAIN new_phi_nodes' : phi[2] \in allocas'
  BY <1>1, PhisKept DEF Base
<1>3. SortInv'  BY <1>2 DEF Base, SortInv
<1> QED  BY <1>1, <1>2, <1>3 DEF Base, EmitInv

(* The renaming.                                                           *)
LEMMA RenameBase ==
    ASSUME Base, RenameBlocks
    PROVE  Base'
<1>1. /\ phase \in {"phis", "rename"} /\ phase' = "rename"
      /\ UNCHANGED <<irVars, candidates, promoted, allocas, block, index, phi_to_erase,
                     mem, env>>
  BY DEF RenameBlocks, StartRename, Rename, FillPhis, Descend, Leave, fastVars, deadVars,
     runVars
<1>2. /\ DOMAIN new_phi_nodes' = DOMAIN new_phi_nodes
      /\ \A phi \in DOMAIN new_phi_nodes' :
            DOMAIN new_phi_nodes'[phi] = DOMAIN new_phi_nodes[phi]
  <2>1. CASE Rename  BY <2>1, ReplaceKeepsShape DEF Rename
  <2>2. CASE FillPhis  BY <2>2 DEF FillPhis
  <2>3. CASE StartRename \/ Descend \/ Leave
    <3>1. new_phi_nodes' = new_phi_nodes  BY <2>3 DEF StartRename, Descend, Leave
    <3> QED  BY <3>1
  <2> QED  BY <2>1, <2>2, <2>3 DEF RenameBlocks
<1>3. IdleInv'  BY <1>1 DEF Base, IdleInv
<1> QED  BY <1>1, <1>2, <1>3, LaterBase

(* The cleanup.                                                            *)
LEMMA CleanUpBase ==
    ASSUME Base, CleanUp
    PROVE  Base'
<1>1. /\ phase \in {"rename", "cleanup"} /\ phase' \in {"cleanup", "run"}
      /\ UNCHANGED <<irVars, candidates, promoted, allocas, block, index, mem, env>>
  BY DEF CleanUp, StartCleanup, DropUnused, Simplify, KeepPhi, Erase, EndRound, fastVars,
     runVars
<1>2. /\ DOMAIN new_phi_nodes' \subseteq DOMAIN new_phi_nodes
      /\ \A phi \in DOMAIN new_phi_nodes' :
            DOMAIN new_phi_nodes'[phi] = DOMAIN new_phi_nodes[phi]
  <2>1. CASE \E phi \in Phis : Simplify(phi)
    BY <2>1, ReplaceKeepsShape DEF Simplify
  <2>2. CASE EndRound  BY <2>2 DEF EndRound
  <2>3. CASE StartCleanup \/ \E phi \in Phis : DropUnused(phi) \/ KeepPhi(phi)
    <3>1. new_phi_nodes' = new_phi_nodes  BY <2>3 DEF StartCleanup, DropUnused, KeepPhi
    <3> QED  BY <3>1
  <2> QED  BY <2>1, <2>2, <2>3 DEF CleanUp
<1>3. IdleInv'  BY <1>1 DEF Base, IdleInv
<1> QED  BY <1>1, <1>2, <1>3, LaterBase

(* The execution.                                                          *)
LEMMA ExecutionBase ==
    ASSUME Base, Execution
    PROVE  Base'
<1>1. /\ phase = "run" /\ phase' \in {"run", "returned"}
      /\ UNCHANGED <<irVars, candidates, promoted, allocas, new_phi_nodes>>
      /\ DOMAIN env' = DOMAIN env
  BY DEF Execution, Execute, Branch, Return, fastVars, runVars
<1>2. IdleInv'  BY <1>1 DEF Base, IdleInv
<1> QED  BY <1>1, <1>2, LaterBase

(* Nothing happens.                                                        *)
LEMMA StutterBase ==
    ASSUME Base, UNCHANGED vars
    PROVE  Base'
<1>1. /\ UNCHANGED <<irVars, succ, phase, candidates, promoted, allocas, operand,
                     new_phi_nodes, current, value_stacks, calls, phi_to_erase, block,
                     index, mem, env>>
  BY DEF vars, irVars, fastVars, placeVars, renameVars, deadVars, runVars
<1>2. GraphInv' /\ ProgInv'  BY <1>1, IrKept DEF Base
<1>3. PhiInv' /\ SortInv' /\ IdleInv'  BY <1>1 DEF Base, PhiInv, SortInv, IdleInv
<1>4. EmitInv'
  <2>1. \A v : StoresTo(v)' = StoresTo(v)  BY <1>1, IrKept
  <2>2. Written' = Written /\ code' = code /\ decl' = decl  BY <1>1, IrKept
  <2> QED  BY <1>1, <2>1, <2>2 DEF Base, EmitInv, Declared
<1> QED  BY <1>2, <1>3, <1>4 DEF Base

(* Every step keeps it.                                                    *)
LEMMA BaseKeeps ==
    ASSUME Inv, Base, [Next]_vars
    PROVE  Base'
BY EmissionBase, FastPathsBase, InsertPhisBase, RenameBase, CleanUpBase, ExecutionBase,
   StutterBase DEF Next, Promotion, Stopped

(* And it holds at the start.                                              *)
LEMMA BaseStarts ==
    ASSUME Init
    PROVE  Base
<1>1. GraphInv  BY DEF Init, GraphInv
<1>2. /\ code = [b \in Blocks |-> <<>>] /\ Written = {}
      /\ \A v \in Var : ~Declared(v)
  BY ValueKinds DEF Init, Written, Declared
<1>3. ProgInv
  <2>1. \A v : LoadsOf(v) = {}  BY <1>2 DEF LoadsOf
  <2> QED  BY <1>2, <2>1, ValueKinds DEF ProgInv
<1>4. PhiInv /\ SortInv /\ IdleInv  BY DEF Init, PhiInv, SortInv, IdleInv
<1>5. EmitInv
  <2>1. operand = [p \in Written |-> p]  BY <1>2 DEF Init
  <2>2. block = entry /\ index = 1 /\ entry \in Blocks  BY BlockIds DEF Init
  <2> QED  BY <1>2, <2>1, <2>2, ValueKinds DEF EmitInv
<1> QED  BY <1>1, <1>3, <1>4, <1>5 DEF Base

----------------------------------------------------------------------------
(* The invariant, and the theorems.                                        *)

(* What is known in the phases of the pass and behind it.                  *)
Known(at, Q, seen, h) ==
    /\ phase \in {"fast", "phis"} => FastInv(at, Q)
    /\ phase = "rename" => RenameInv(at, Q, seen, h)
    /\ phase = "cleanup" => CleanInv(at, Q)
    /\ phase = "run" => RunInv(at, Q)

(* The inductive invariant.                                                *)
PromotionInv == Inv /\ Base /\ \E at, Q, seen, h : Known(at, Q, seen, h)

(* The phases again, for what is known of the values.                      *)
LEMMA EmissionKnown ==
    ASSUME Base, Emission
    PROVE  \E at, Q, seen, h : Known(at, Q, seen, h)'
<1>1. CASE Collect
  <2>1. phase' = "fast"  BY <1>1 DEF Collect
  <2>2. PICK at, Q : FastInv(at, Q)'  BY <1>1, CollectStarts DEF Base
  <2>3. Known(at, Q, {}, {})'  BY <2>1, <2>2 DEF Known
  <2> QED  BY <2>3
<1>2. CASE ~Collect
  <2>1. phase' = "emit"  BY <1>2 DEF Emission, EmitStatement, EmitBlock
  <2>2. Known({}, {}, {}, {})'  BY <2>1 DEF Known
  <2> QED  BY <2>2
<1> QED  BY <1>1, <1>2

(* The fast paths: one by one, variables join those that are held.         *)
LEMMA FastPathsKnown ==
    ASSUME Inv, Base, NEW at, NEW Q, NEW seen, NEW h, Known(at, Q, seen, h), FastPaths
    PROVE  \E at2, R, seen2, h2 : Known(at2, R, seen2, h2)'
<1>1. phase = "fast"
  BY DEF FastPaths, PromoteSingleStore, PromoteSingleBlock, KeepForSSA, FastPathsDone
<1>2. FastInv(at, Q)  BY <1>1 DEF Known
<1>3. CASE FastPathsDone
  <2>1. phase' \in {"run", "phis"}  BY <1>3 DEF FastPathsDone
  <2>2. FastInv(at, Q)' /\ (phase' = "run" => RunInv(at, Q)')
    BY <1>2, <1>3, FastPathsDoneKeeps DEF Base
  <2>3. Known(at, Q, {}, {})'  BY <2>1, <2>2 DEF Known
  <2> QED  BY <2>3
<1>4. CASE ~FastPathsDone
  <2>1. PICK v \in Var : PromoteSingleStore(v) \/ PromoteSingleBlock(v) \/ KeepForSSA(v)
    BY <1>4 DEF FastPaths
  <2>2. phase' = "fast"
    BY <1>1, <2>1 DEF PromoteSingleStore, PromoteSingleBlock, Promoted, KeepForSSA
  <2>3. \E at2, R : FastInv(at2, R)'
    BY <1>2, <2>1, SingleStoreKeeps, SingleBlockKeeps, KeepForSSAKeeps DEF Base
  <2>4. PICK at2, R : FastInv(at2, R)'  BY <2>3
  <2>5. Known(at2, R, {}, {})'  BY <2>2, <2>4 DEF Known
  <2> QED  BY <2>5
<1> QED  BY <1>3, <1>4

(* The placing of phis: a new phi has no value yet.                        *)
LEMMA InsertPhisKnown ==
    ASSUME Inv, Base, NEW at, NEW Q, NEW seen, NEW h, Known(at, Q, seen, h), InsertPhis
    PROVE  Known(at, Q, seen, h)'
<1>1. phase = "phis" /\ phase' = "phis"
  BY DEF InsertPhis, StartPlacing, PlacePhis, Placed
<1>2. FastInv(at, Q)  BY <1>1 DEF Known
<1>3. FastInv(at, Q)'
  BY <1>2, PlacingKeeps DEF InsertPhis, Base, Inv, FrontierShape
<1> QED  BY <1>1, <1>3 DEF Known

(* The renaming.                                                           *)
LEMMA RenameKnown ==
    ASSUME Inv, Base, NEW at, NEW Q, NEW seen, NEW h, Known(at, Q, seen, h), RenameBlocks
    PROVE  \E at2, R, seen2, h2 : Known(at2, R, seen2, h2)'
<1>1. phase' = "rename"
  BY DEF RenameBlocks, StartRename, Rename, FillPhis, Descend, Leave
<1>2. \E at2, R, seen2, h2 : RenameInv(at2, R, seen2, h2)'
  <2>1. CASE StartRename
    <3>1. phase = "phis"  BY <2>1 DEF StartRename
    <3> QED  BY <2>1, <3>1, StartRenameKeeps DEF Known, Base
  <2>2. CASE Rename \/ FillPhis \/ Descend \/ Leave
    <3>1. phase = "rename"  BY <2>2 DEF Rename, FillPhis, Descend, Leave
    <3>2. RenameInv(at, Q, seen, h)  BY <3>1 DEF Known
    <3>3. CASE Rename  BY <3>2, <3>3, RenameKeeps DEF Base
    <3>4. CASE FillPhis  BY <3>2, <3>4, FillPhisKeeps DEF Base
    <3>5. CASE Descend  BY <3>2, <3>5, DescendKeeps DEF Base
    <3>6. CASE Leave  BY <3>2, <3>6, LeaveKeeps DEF Base
    <3> QED  BY <2>2, <3>3, <3>4, <3>5, <3>6
  <2> QED  BY <2>1, <2>2 DEF RenameBlocks
<1>3. PICK at2, R, seen2, h2 : RenameInv(at2, R, seen2, h2)'  BY <1>2
<1>4. Known(at2, R, seen2, h2)'  BY <1>1, <1>3 DEF Known
<1> QED  BY <1>4

(* The cleanup.                                                            *)
LEMMA CleanUpKnown ==
    ASSUME Inv, Base, Base', NEW at, NEW Q, NEW seen, NEW h, Known(at, Q, seen, h), CleanUp
    PROVE  \E at2, R, seen2, h2 : Known(at2, R, seen2, h2)'
<1>1. \E at2, R : phase' \in {"cleanup", "run"}
                  /\ (phase' = "cleanup" => CleanInv(at2, R)')
                  /\ (phase' = "run" => RunInv(at2, R)')
  <2>1. CASE StartCleanup
    <3>1. phase = "rename" /\ phase' = "cleanup"  BY <2>1 DEF StartCleanup
    <3>2. RenameInv(at, Q, seen, h) /\ \A v \in allocas : Covered(v)
      BY <3>1 DEF Known, Inv, PlacedInv
    <3>3. CleanInv(at, Q)'  BY <2>1, <3>2, StartCleanupKeeps DEF Base
    <3> QED  BY <3>1, <3>3
  <2>2. CASE ~StartCleanup
    <3>1. phase = "cleanup"
      BY <2>2 DEF CleanUp, DropUnused, Simplify, KeepPhi, EndRound
    <3>2. CleanInv(at, Q)  BY <3>1 DEF Known
    <3>3. CASE EndRound
      <4>1. phase' \in {"cleanup", "run"}  BY <3>1, <3>3 DEF EndRound
      <4>2. CleanInv(at, Q)' /\ (phase' = "run" => RunInv(at, Q)')
        BY <3>2, <3>3, EndRoundKeeps DEF Base
      <4> QED  BY <4>1, <4>2
    <3>4. CASE ~EndRound
      <4>1. PICK phi \in Phis : DropUnused(phi) \/ Simplify(phi) \/ KeepPhi(phi)
        BY <2>2, <3>4 DEF CleanUp
      <4>2. phase' = "cleanup"
        BY <3>1, <4>1 DEF DropUnused, Simplify, KeepPhi, Erase
      <4>3. \E at2 : CleanInv(at2, Q)'
        <5>1. CASE DropUnused(phi)  BY <3>2, <5>1, DropKeeps DEF Base
        <5>2. CASE Simplify(phi)  BY <3>2, <5>2, SimplifyKeeps DEF Base
        <5>3. CASE KeepPhi(phi)  BY <3>2, <5>3, KeepPhiKeeps
        <5> QED  BY <4>1, <5>1, <5>2, <5>3
      <4> QED  BY <4>2, <4>3
    <3> QED  BY <3>3, <3>4
  <2> QED  BY <2>1, <2>2
<1>2. PICK at2, R : phase' \in {"cleanup", "run"}
                  /\ (phase' = "cleanup" => CleanInv(at2, R)')
                  /\ (phase' = "run" => RunInv(at2, R)')
  BY <1>1
<1>3. Known(at2, R, {}, {})'  BY <1>2 DEF Known
<1> QED  BY <1>3

(* The execution.                                                          *)
LEMMA ExecutionKnown ==
    ASSUME Inv, Base, NEW at, NEW Q, NEW seen, NEW h, Known(at, Q, seen, h), Execution
    PROVE  Known(at, Q, seen, h)'
<1>1. phase = "run"  BY DEF Execution, Execute, Branch, Return
<1>2. RunInv(at, Q)  BY <1>1 DEF Known
<1>3. CASE Return
  <2>1. phase' = "returned"  BY <1>3 DEF Return
  <2> QED  BY <2>1 DEF Known
<1>4. CASE Execute \/ Branch
  <2>1. phase' = "run"  BY <1>1, <1>4 DEF Execute, Branch
  <2>2. RunInv(at, Q)'  BY <1>2, <1>4, ExecuteKeeps, BranchKeeps DEF Base
  <2> QED  BY <2>1, <2>2 DEF Known
<1> QED  BY <1>3, <1>4 DEF Execution

(* Nothing happens.                                                        *)
LEMMA StutterRename ==
    ASSUME UNCHANGED vars, NEW at, NEW Q, NEW seen, NEW h, RenameInv(at, Q, seen, h)
    PROVE  RenameInv(at, Q, seen, h)'
<1>1. UNCHANGED <<irVars, promoted, allocas, operand, new_phi_nodes, value_stacks, calls>>
  BY DEF vars, fastVars, renameVars
<1>2. Cert(at, Q)'  BY <1>1, CertKept DEF RenameInv
<1>3. Edges(at, promoted)'  BY <1>1, EdgesKept DEF RenameInv
<1>4. /\ succ' = succ /\ dom' = dom /\ children' = children /\ Written' = Written
      /\ \A p : Stmt(p)' = Stmt(p)
      /\ \A b : EndOf(b)' = EndOf(b)
      /\ \A v : Defining(v)' = Defining(v)
  BY <1>1, IrKept
<1>5. calls' = calls /\ Top' = Top  BY <1>1 DEF Top
<1>6. Q = RenamedLoads(seen)'
  BY <1>1, <1>4, <1>5 DEF RenameInv, RenamedLoads, FastLoads
<1>7. \A i : Here(i)' = Here(i) /\ (CallInv(seen, i)' <=> CallInv(seen, i))
  BY <1>4, <1>5 DEF Here, CallInv
<1>8. CallsInv(seen)'
  BY <1>4, <1>5, <1>7 DEF RenameInv, CallsInv, Calls
<1>9. SeenInv(seen)'  BY <1>4, <1>5 DEF RenameInv, SeenInv
<1>10. StacksInv(at, h)'
  <2>1. \A v : StackInv(at, h, v)' <=> StackInv(at, h, v)
    BY <1>1, <1>5, <1>7 DEF StackInv
  <2> QED  BY <1>1, <1>5, <2>1 DEF RenameInv, StacksInv
<1>11. \A b, k : Passed(b, k)' <=> Passed(b, k)  BY <1>4, <1>5 DEF Passed
<1>12. \A b : Told(seen, b)' <=> Told(seen, b)  BY <1>4, <1>5 DEF Told
<1>13. HeldInv(at, seen)'  BY <1>1, <1>11 DEF RenameInv, HeldInv, Held
<1>14. PhiStarts(at, seen)' /\ Inherits(at, seen)'
  BY <1>1, <1>4 DEF RenameInv, PhiStarts, Inherits
<1>15. Undefined(at, seen)'
  <2>1. \A v, a, c : DefinedBetween(v, a, c)' <=> DefinedBetween(v, a, c)
    BY <1>1, <1>4 DEF DefinedBetween, PhiBlocks
  <2> QED  BY <1>1, <1>4, <2>1 DEF RenameInv, Undefined, Held
<1>16. PhisTold(at, seen)'  BY <1>1, <1>4, <1>12 DEF RenameInv, PhisTold
<1>17. NoOwnPhi(at)'  BY <1>1 DEF RenameInv, NoOwnPhi, Held
<1> QED  BY <1>2, <1>3, <1>6, <1>8, <1>9, <1>10, <1>13, <1>14, <1>15, <1>16, <1>17
         DEF RenameInv

(* The same in the other phases.                                           *)
LEMMA StutterKnown ==
    ASSUME Base, UNCHANGED vars, NEW at, NEW Q, NEW seen, NEW h, Known(at, Q, seen, h)
    PROVE  Known(at, Q, seen, h)'
<1>1. UNCHANGED <<irVars, phase, promoted, allocas, operand, new_phi_nodes, unseen,
                  phi_to_erase, block, index, mem, env>>
  BY DEF vars, fastVars, deadVars, runVars
<1>2. ASSUME FastInv(at, Q) PROVE FastInv(at, Q)'
  BY <1>1, <1>2, FastKept DEF FastInv, Base, PhiInv
<1>3. ASSUME RenameInv(at, Q, seen, h) PROVE RenameInv(at, Q, seen, h)'
  BY <1>3, StutterRename
<1>4. ASSUME Whole(at, Q) PROVE Whole(at, Q)'  BY <1>1, <1>4, WholeKept
<1>5. ASSUME CleanInv(at, Q) PROVE CleanInv(at, Q)'
  BY <1>1, <1>4, <1>5 DEF CleanInv, Incoming
<1>6. ASSUME RunInv(at, Q) PROVE RunInv(at, Q)'
  <2>1. succ' = succ /\ \A b : EndOf(b)' = EndOf(b)  BY <1>1, IrKept
  <2>2. \A x : Eval(x)' = Eval(x)  BY <1>1 DEF Eval
  <2> QED  BY <1>1, <1>4, <1>6, <2>1, <2>2 DEF RunInv, Held
<1> QED  BY <1>1, <1>2, <1>3, <1>5, <1>6 DEF Known

(* Every step keeps the invariant.                                         *)
LEMMA PromotionStep ==
    ASSUME PromotionInv, [Next]_vars
    PROVE  PromotionInv'
<1>1. Inv /\ Base /\ Inv' /\ Base'  BY StepKeeps, BaseKeeps DEF PromotionInv
<1>2. PICK at, Q, seen, h : Known(at, Q, seen, h)  BY DEF PromotionInv
<1>3. \E at2, R, seen2, h2 : Known(at2, R, seen2, h2)'
  <2>1. CASE Emission  BY <1>1, <2>1, EmissionKnown
  <2>2. CASE FastPaths  BY <1>1, <1>2, <2>2, FastPathsKnown
  <2>3. CASE InsertPhis
    <3>1. Known(at, Q, seen, h)'  BY <1>1, <1>2, <2>3, InsertPhisKnown
    <3> QED  BY <3>1
  <2>4. CASE RenameBlocks  BY <1>1, <1>2, <2>4, RenameKnown
  <2>5. CASE CleanUp  BY <1>1, <1>2, <2>5, CleanUpKnown
  <2>6. CASE Execution
    <3>1. Known(at, Q, seen, h)'  BY <1>1, <1>2, <2>6, ExecutionKnown
    <3> QED  BY <3>1
  <2>7. CASE Stopped \/ UNCHANGED vars
    <3>1. Known(at, Q, seen, h)'  BY <1>1, <1>2, <2>7, StutterKnown DEF Stopped
    <3> QED  BY <3>1
  <2> QED  BY <2>1, <2>2, <2>3, <2>4, <2>5, <2>6, <2>7 DEF Next, Promotion
<1> QED  BY <1>1, <1>3 DEF PromotionInv

(* It holds at the start.                                                  *)
LEMMA PromotionStart ==
    ASSUME Init
    PROVE  PromotionInv
<1>1. Inv
  BY DEF Init, Inv, FrontierShape, CandidateShape, PlacedInv, FrontierOf
<1>2. Known({}, {}, {}, {})  BY DEF Init, Known
<1> QED  BY <1>1, <1>2, BaseStarts DEF PromotionInv

(* And so it always holds.                                                 *)
LEMMA PromotionAlways == Spec => []PromotionInv
<1>1. Init => PromotionInv  BY PromotionStart
<1>2. PromotionInv /\ [Next]_vars => PromotionInv'  BY PromotionStep
<1> QED  BY <1>1, <1>2, PTL DEF Spec

(* The promoted function computes with what the memory of the emitted one  *)
(* would hold, whatever the function, the variables that are promoted, the *)
(* fast path each of them takes and the way the execution goes             *)
(* (all of mem2reg.cpp).                                                   *)
THEOREM LoadsAlwaysAgree == Spec => []LoadsAgree
<1>1. PromotionInv => LoadsAgree
  <2>1. SUFFICES ASSUME PromotionInv PROVE LoadsAgree  OBVIOUS
  <2>2. PICK at, Q, seen, h : Known(at, Q, seen, h)  BY <2>1 DEF PromotionInv
  <2>3. phase = "run" => RunInv(at, Q)  BY <2>2 DEF Known
  <2> QED  BY <2>1, <2>3, RunAgrees DEF PromotionInv, Base
<1> QED  BY <1>1, PromotionAlways, PTL

(* What the pass leaves is in SSA form: no use of a value that has been    *)
(* erased, none that is not dominated by its definition                    *)
(* (mem2reg.cpp:97-105, 224-236, 273-276, 323-334, 372-395).               *)
THEOREM UsesAlwaysDominated == Spec => []UsesAreDominated
<1>1. PromotionInv => UsesAreDominated
  <2>1. SUFFICES ASSUME PromotionInv PROVE UsesAreDominated  OBVIOUS
  <2>2. PICK at, Q, seen, h : Known(at, Q, seen, h)  BY <2>1 DEF PromotionInv
  <2>3. phase = "run" => RunInv(at, Q)  BY <2>2 DEF Known
  <2> QED  BY <2>1, <2>3, RunDominated DEF PromotionInv, Base
<1> QED  BY <1>1, PromotionAlways, PTL
=============================================================================
