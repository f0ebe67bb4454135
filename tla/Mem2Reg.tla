------------------------------ MODULE Mem2Reg ------------------------------
(***************************************************************************)
(* The promotion of variables from memory to SSA values                    *)
(* (src/src/midend/ir_optimizer/passes/mem2reg.cpp), on the dominator tree *)
(* and the frontiers that DomTree builds, between the emission of a        *)
(* function and its execution: the pass is right if the promoted function  *)
(* computes with what the memory of the emitted one would hold.            *)
(*                                                                         *)
(* A statement is what the emitter makes of an expression: a load of the   *)
(* variable "from" or a value computed otherwise, and then a store to the  *)
(* variable "to" or another use.  Its alloca's first statement declares a  *)
(* variable: the emitter stores right after each alloca                    *)
(* (src/src/midend/ir_emitter/ir_emitter.cpp:848-850), and what it emits   *)
(* for the variable afterwards is dominated by that store.                 *)
(***************************************************************************)
EXTENDS Dominance, FiniteSets, FiniteSetsExt

CONSTANTS
    Var,         \* the allocas
    None,        \* no variable
    undef,       \* UndefValue
    Graphs,      \* the control flow graphs a function may have
    MaxStmts,    \* bound: statements in a function
    MaxBlock     \* bound: statements in a block

(* LLVM's entry block has no predecessor.                                  *)
ASSUME GraphsAssumption ==
    /\ Graphs \subseteq CFG
    /\ \A g \in Graphs : Preds(g, entry) = {}
ASSUME BoundsAssumption == {MaxStmts, MaxBlock} \subseteq Nat
ASSUME VarAssumption ==
    /\ IsFiniteSet(Var)
    /\ None \notin Var
    /\ Var \cap Nat = {}

VARIABLES
    succ,            \* the CFG
    dom, children, frontiers,   \* DT and DF
    code,            \* block -> its statements
    decl,            \* variable -> the block of its alloca
    phase,           \* the stage that is running
    candidates,      \* promotable allocas still to be looked at
    promoted,        \* the allocas a fast path has promoted
    allocas,         \* the allocas left for SSA construction
    operand,         \* statement -> the value it stores or uses
    new_phi_nodes,   \* phi -> predecessor -> incoming value
    current,         \* the alloca whose phis are being placed
    worklist, visited_frontier,
    value_stacks, calls,        \* rename_block
    unseen, phi_to_erase,       \* cleanup_dead_phis
    block, index,    \* the statement that is emitted or executed next
    mem,             \* execution: what the emitted function's memory holds
    env              \* execution: what the SSA values are

dtVars     == <<dom, children, frontiers>>
irVars     == <<succ, dtVars, code, decl>>
fastVars   == <<candidates, promoted, allocas>>
placeVars  == <<current, worklist, visited_frontier>>
renameVars == <<value_stacks, calls>>
deadVars   == <<unseen, phi_to_erase>>
runVars    == <<mem, env>>
vars == <<irVars, phase, fastVars, operand, new_phi_nodes, placeVars,
          renameVars, deadVars, block, index, runVars>>

(* A value of the IR is named by the statement that computes it; a phi     *)
(* node by its block and its variable.                                     *)
Positions == {<<b, k>> : b \in Blocks, k \in 1..MaxBlock}
Phis == Blocks \X Var

ASSUME ValuesAssumption == undef \notin Positions \cup Phis

Statement == [from : Var \cup {None}, to : Var \cup {None}]

Written == {p \in Positions : p[2] <= Len(code[p[1]])}
Stmt(p) == code[p[1]][p[2]]

LoadsOf(v)  == {p \in Written : Stmt(p).from = v}
StoresTo(v) == {p \in Written : Stmt(p).to = v}

Init ==
    /\ succ \in Graphs
    /\ dom = DominanceOf(succ)
    /\ children = [a \in Blocks |-> {b \in Blocks : ImmediatelyDominates(dom, a, b)}]
    /\ frontiers = [a \in Blocks |-> FrontierOf(succ, dom, a)]
    /\ code = [b \in Blocks |-> <<>>]
    /\ decl = [v \in Var |-> kInvalidBlockId]
    /\ phase = "emit"
    /\ candidates = {} /\ promoted = {} /\ allocas = {}
    /\ operand = <<>> /\ new_phi_nodes = <<>>
    /\ current = None /\ worklist = {} /\ visited_frontier = {}
    /\ value_stacks = [v \in Var |-> <<>>]
    /\ calls = <<>>
    /\ unseen = {} /\ phi_to_erase = {}
    /\ block = entry /\ index = 1
    /\ mem = [v \in Var |-> undef]
    /\ env = [x \in Positions \cup Phis |-> undef]

----------------------------------------------------------------------------
(* The function, as the emitter leaves it.                                 *)

Declared(v) == decl[v] # kInvalidBlockId
InScope(v)  == Declared(v) /\ block \in dom[decl[v]]

EmitStatement(s) ==
    /\ phase = "emit"
    /\ index <= MaxBlock /\ Cardinality(Written) < MaxStmts
    /\ s.from # None => InScope(s.from)
    /\ s.to # None /\ Declared(s.to) => InScope(s.to)
    /\ s.from # None \/ s.to # None
    /\ code' = [code EXCEPT ![block] = Append(code[block], s)]
    /\ decl' = [v \in Var |-> IF v = s.to /\ ~Declared(v) THEN block ELSE decl[v]]
    /\ operand' = [p \in Written' |-> p]
    /\ index' = index + 1
    /\ UNCHANGED <<succ, dtVars, phase, fastVars, new_phi_nodes, placeVars,
                   renameVars, deadVars, block, runVars>>

EmitBlock ==
    /\ phase = "emit" /\ block < N - 1
    /\ block' = block + 1 /\ index' = 1
    /\ UNCHANGED <<irVars, phase, fastVars, operand, new_phi_nodes, placeVars,
                   renameVars, deadVars, runVars>>

(* run begins with the allocas that only loads and stores use, and these   *)
(* may be any: what else a program does with a variable is left open.      *)
Collect ==
    /\ phase = "emit" /\ block = N - 1
    /\ \E S \in SUBSET {v \in Var : Declared(v)} : candidates' = S
    /\ phase' = "fast"
    /\ block' = entry /\ index' = 1
    /\ UNCHANGED <<irVars, promoted, allocas, operand, new_phi_nodes, placeVars,
                   renameVars, deadVars, runVars>>

----------------------------------------------------------------------------
(* Stage 2-3: the fast paths.                                              *)

Subst(sub, x) == IF x \in DOMAIN sub THEN sub[x] ELSE x

(* replaceAllUsesWith, for each value in the domain of sub: what the       *)
(* instructions use is replaced, what value_stacks hold is not.            *)
ReplaceAllUses(sub) ==
    /\ operand' = [p \in Written |-> Subst(sub, operand[p])]
    /\ new_phi_nodes' = [phi \in DOMAIN new_phi_nodes |->
            [b \in DOMAIN new_phi_nodes[phi] |-> Subst(sub, new_phi_nodes[phi][b])]]

(* The loads of a variable come first in their statements.                 *)
Dominates(store, load) ==
    IF store[1] = load[1] THEN store[2] < load[2] ELSE load[1] \in dom[store[1]]

OnlyStore(v) == {p \in StoresTo(v) : StoresTo(v) = {p}}

Promoted(v) ==
    /\ candidates' = candidates \ {v}
    /\ promoted' = promoted \cup {v}
    /\ UNCHANGED <<irVars, phase, allocas, placeVars, renameVars, deadVars,
                   block, index, runVars>>

PromoteSingleStore(v) ==
    /\ phase = "fast" /\ v \in candidates
    /\ \E store \in OnlyStore(v) :
            ReplaceAllUses([load \in LoadsOf(v) |->
                IF Dominates(store, load) THEN operand[store] ELSE undef])
    /\ Promoted(v)

OnlyBlock(v) ==
    {b \in Blocks : \A p \in LoadsOf(v) \cup StoresTo(v) : p[1] = b}

(* cur_val behind the first k statements of b: the last value stored to v, *)
(* which for a load of v itself has been replaced by cur_val at that load. *)
CurVal(v, b) ==
    LET cur_val[k \in 0..MaxBlock] ==
            IF k = 0 THEN undef
            ELSE IF <<b, k>> \notin StoresTo(v) THEN cur_val[k - 1]
            ELSE IF operand[<<b, k>>] \in LoadsOf(v)
                 THEN cur_val[operand[<<b, k>>][2] - 1]
            ELSE operand[<<b, k>>]
    IN  cur_val

PromoteSingleBlock(v) ==
    /\ phase = "fast" /\ v \in candidates
    /\ OnlyStore(v) = {}
    /\ \E b \in OnlyBlock(v) :
            ReplaceAllUses([load \in LoadsOf(v) |-> CurVal(v, b)[load[2] - 1]])
    /\ Promoted(v)

KeepForSSA(v) ==
    /\ phase = "fast" /\ v \in candidates
    /\ OnlyStore(v) = {} /\ OnlyBlock(v) = {}
    /\ candidates' = candidates \ {v}
    /\ allocas' = allocas \cup {v}
    /\ UNCHANGED <<irVars, phase, promoted, operand, new_phi_nodes, placeVars,
                   renameVars, deadVars, block, index, runVars>>

(* Nothing may be left; otherwise insert_phi_nodes goes over allocas.      *)
FastPathsDone ==
    /\ phase = "fast" /\ candidates = {}
    /\ candidates' = allocas
    /\ phase' = IF allocas = {} THEN "run" ELSE "phis"
    /\ UNCHANGED <<irVars, promoted, allocas, operand, new_phi_nodes, placeVars,
                   renameVars, deadVars, block, index, runVars>>

----------------------------------------------------------------------------
(* Stage 4: insert_phi_nodes.                                              *)

Defining(v) == {p[1] : p \in StoresTo(v)}
PhiBlocks(v) == {b \in Blocks : <<b, v>> \in DOMAIN new_phi_nodes}

StartPlacing(v) ==
    /\ phase = "phis" /\ current = None /\ v \in candidates
    /\ candidates' = candidates \ {v}
    /\ current' = v
    /\ worklist' = Defining(v)
    /\ visited_frontier' = {}
    /\ UNCHANGED <<irVars, phase, promoted, allocas, operand, new_phi_nodes,
                   renameVars, deadVars, block, index, runVars>>

(* A mutant: a phi is not taken for a definition.                          *)
AgainNever(new) == new \cap Defining(current) \cap worklist

(* The new blocks that go on the worklist.                                 *)
Again(new) == new \ Defining(current)

(* The worklist is a deque; no block is on it twice, and in which order    *)
(* they are taken is left open.                                            *)
PlacePhis ==
    /\ phase = "phis" /\ current # None
    /\ \E b \in worklist :
         LET new == frontiers[b] \ visited_frontier
         IN  /\ new_phi_nodes' =
                   [phi \in DOMAIN new_phi_nodes \cup (new \X {current}) |->
                      IF phi \in DOMAIN new_phi_nodes THEN new_phi_nodes[phi]
                      ELSE [pred \in Preds(succ, phi[1]) |-> undef]]
             /\ visited_frontier' = visited_frontier \cup new
             /\ worklist' = (worklist \ {b}) \cup Again(new)
    /\ UNCHANGED <<irVars, phase, fastVars, operand, current, renameVars,
                   deadVars, block, index, runVars>>

Placed ==
    /\ phase = "phis" /\ current # None /\ worklist = {}
    /\ current' = None
    /\ UNCHANGED <<irVars, phase, fastVars, operand, new_phi_nodes, worklist,
                   visited_frontier, renameVars, deadVars, block, index, runVars>>

----------------------------------------------------------------------------
(* Stage 5: rename_block; calls holds its open calls.                      *)

(* A call first pushes the phis of its block.                              *)
Enter(b) ==
    [block |-> b, next |-> 1, rest |-> children[b],
     pushed |-> [v \in Var |-> IF <<b, v>> \in DOMAIN new_phi_nodes THEN 1 ELSE 0]]

PushPhis(b) ==
    value_stacks' = [v \in Var |->
        IF <<b, v>> \in DOMAIN new_phi_nodes THEN Append(value_stacks[v], <<b, v>>)
                                             ELSE value_stacks[v]]

StartRename ==
    /\ phase = "phis" /\ current = None /\ candidates = {}
    /\ phase' = "rename"
    /\ PushPhis(entry)
    /\ calls' = <<Enter(entry)>>
    /\ UNCHANGED <<irVars, fastVars, operand, new_phi_nodes, placeVars, deadVars,
                   block, index, runVars>>

Top == calls[Len(calls)]
Below == SubSeq(calls, 1, Len(calls) - 1)

(* A mutant: the other end of the stack.                                   *)
Front(v) == IF value_stacks[v] = <<>> THEN undef ELSE value_stacks[v][1]

Back(v) == IF value_stacks[v] = <<>> THEN undef
                                     ELSE value_stacks[v][Len(value_stacks[v])]

(* One statement: its load is replaced, then the value it stores pushed.   *)
Rename ==
    /\ phase = "rename" /\ calls # <<>>
    /\ Top.next <= Len(code[Top.block])
    /\ LET p   == <<Top.block, Top.next>>
           to  == Stmt(p).to
           sub == [load \in {q \in {p} : Stmt(q).from \in allocas} |->
                        Back(Stmt(load).from)]
           store == [v \in Var |-> IF v = to /\ v \in allocas THEN 1 ELSE 0]
       IN  /\ ReplaceAllUses(sub)
           /\ value_stacks' = [v \in Var |->
                IF store[v] = 1 THEN Append(value_stacks[v], Subst(sub, operand[p]))
                                ELSE value_stacks[v]]
           /\ calls' = Append(Below,
                [block |-> Top.block, next |-> Top.next + 1, rest |-> Top.rest,
                 pushed |-> [v \in Var |-> Top.pushed[v] + store[v]]])
    /\ UNCHANGED <<irVars, phase, fastVars, placeVars, deadVars, block, index,
                   runVars>>

(* The phis of the successors get what is on the stacks.                   *)
FillPhis ==
    /\ phase = "rename" /\ calls # <<>>
    /\ Top.next = Len(code[Top.block]) + 1
    /\ new_phi_nodes' = [phi \in DOMAIN new_phi_nodes |->
            [pred \in DOMAIN new_phi_nodes[phi] |->
                IF pred = Top.block THEN Back(phi[2]) ELSE new_phi_nodes[phi][pred]]]
    /\ calls' = Append(Below, [block |-> Top.block, next |-> Top.next + 1,
                               rest |-> Top.rest, pushed |-> Top.pushed])
    /\ UNCHANGED <<irVars, phase, fastVars, operand, placeVars, value_stacks,
                   deadVars, block, index, runVars>>

(* The children of the dominator tree, in ascending order.                 *)
Descend ==
    /\ phase = "rename" /\ calls # <<>>
    /\ Top.next = Len(code[Top.block]) + 2
    /\ \E c \in Top.rest :
         /\ \A d \in Top.rest : c <= d
         /\ PushPhis(c)
         /\ calls' = Below \o
                <<[block |-> Top.block, next |-> Top.next,
                   rest |-> Top.rest \ {c}, pushed |-> Top.pushed], Enter(c)>>
    /\ UNCHANGED <<irVars, phase, fastVars, operand, new_phi_nodes, placeVars,
                   deadVars, block, index, runVars>>

(* The values that the call pushed are popped.                             *)
Leave ==
    /\ phase = "rename" /\ calls # <<>>
    /\ Top.next = Len(code[Top.block]) + 2 /\ Top.rest = {}
    /\ value_stacks' = [v \in Var |->
            SubSeq(value_stacks[v], 1, Len(value_stacks[v]) - Top.pushed[v])]
    /\ calls' = Below
    /\ UNCHANGED <<irVars, phase, fastVars, operand, new_phi_nodes, placeVars,
                   deadVars, block, index, runVars>>

----------------------------------------------------------------------------
(* Stage 6: cleanup_dead_phis.  Until its end the loads and stores of      *)
(* allocas are still there, and a store is a use of its operand.           *)

StartCleanup ==
    /\ phase = "rename" /\ calls = <<>>
    /\ phase' = "cleanup"
    /\ unseen' = DOMAIN new_phi_nodes
    /\ UNCHANGED <<irVars, fastVars, operand, new_phi_nodes, placeVars,
                   renameVars, phi_to_erase, block, index, runVars>>

Incoming(phi) == {new_phi_nodes[phi][b] : b \in DOMAIN new_phi_nodes[phi]}

(* A mutant: the incoming values of other phis are not looked at.          *)
UseEmptyOutside(phi) ==
    \A p \in Written : Stmt(p).to \notin promoted => operand[p] # phi

UseEmpty(phi) ==
    /\ \A p \in Written : Stmt(p).to \notin promoted => operand[p] # phi
    /\ \A other \in DOMAIN new_phi_nodes : phi \notin Incoming(other)

Erase(phi) ==
    /\ unseen' = unseen \ {phi}
    /\ phi_to_erase' = phi_to_erase \cup {phi}
    /\ UNCHANGED <<irVars, phase, fastVars, placeVars, renameVars, block, index,
                   runVars>>

DropUnused(phi) ==
    /\ phase = "cleanup" /\ phi \in unseen
    /\ UseEmpty(phi)
    /\ Erase(phi)
    /\ UNCHANGED <<operand, new_phi_nodes>>

(* All that comes in is the same value, or the phi itself.                 *)
Common(phi) == {x \in Incoming(phi) : Incoming(phi) \ {phi} = {x}}

Simplify(phi) ==
    /\ phase = "cleanup" /\ phi \in unseen
    /\ ~UseEmpty(phi)
    /\ \E common \in Common(phi) : ReplaceAllUses([x \in {phi} |-> common])
    /\ Erase(phi)

KeepPhi(phi) ==
    /\ phase = "cleanup" /\ phi \in unseen
    /\ ~UseEmpty(phi) /\ Common(phi) = {}
    /\ unseen' = unseen \ {phi}
    /\ UNCHANGED <<irVars, phase, fastVars, operand, new_phi_nodes, placeVars,
                   renameVars, phi_to_erase, block, index, runVars>>

(* The loop goes on as long as a round erases phis.                        *)
Changed == phi_to_erase # {}

EndRound ==
    /\ phase = "cleanup" /\ unseen = {}
    /\ LET alive == DOMAIN new_phi_nodes \ phi_to_erase
       IN  /\ new_phi_nodes' = [phi \in alive |-> new_phi_nodes[phi]]
           /\ phi_to_erase' = {}
           /\ IF Changed THEN unseen' = alive /\ phase' = phase
                         ELSE unseen' = {} /\ phase' = "run"
    /\ UNCHANGED <<irVars, fastVars, operand, placeVars, renameVars, block, index,
                   runVars>>

----------------------------------------------------------------------------
(* Execution of the function before and after the pass, in lockstep.       *)

Eval(x) == IF x = undef THEN undef ELSE env[x]

(* A value computed by a statement is the statement, and a bit that tells  *)
(* one time from the next.                                                 *)
Execute ==
    /\ phase = "run" /\ index <= Len(code[block])
    /\ LET p     == <<block, index>>
           datum == <<p, IF env[p] = <<p, 0>> THEN 1 ELSE 0>>
           value == IF Stmt(p).from = None THEN datum ELSE mem[Stmt(p).from]
       IN  /\ mem' = [v \in Var |-> IF v = Stmt(p).to THEN value ELSE mem[v]]
           /\ env' = IF Stmt(p).from \in promoted \cup allocas THEN env
                     ELSE [env EXCEPT ![p] = value]
    /\ index' = index + 1
    /\ UNCHANGED <<irVars, phase, fastVars, operand, new_phi_nodes, placeVars,
                   renameVars, deadVars, block>>

(* A branch computes all phis of its target at once.                       *)
Branch ==
    /\ phase = "run" /\ index > Len(code[block])
    /\ \E s \in Succs(succ, block) :
         /\ block' = s /\ index' = 1
         /\ env' = [x \in DOMAIN env |->
                IF x \in DOMAIN new_phi_nodes /\ x[1] = s
                THEN Eval(new_phi_nodes[x][block]) ELSE env[x]]
    /\ UNCHANGED <<irVars, phase, fastVars, operand, new_phi_nodes, placeVars,
                   renameVars, deadVars, mem>>

Return ==
    /\ phase = "run" /\ index > Len(code[block]) /\ succ[block] = <<>>
    /\ phase' = "returned"
    /\ UNCHANGED <<irVars, fastVars, operand, new_phi_nodes, placeVars,
                   renameVars, deadVars, block, index, runVars>>

Stopped == phase = "returned" /\ UNCHANGED vars

----------------------------------------------------------------------------
Emission == (\E s \in Statement : EmitStatement(s)) \/ EmitBlock \/ Collect

FastPaths ==
    \/ \E v \in Var : PromoteSingleStore(v) \/ PromoteSingleBlock(v) \/ KeepForSSA(v)
    \/ FastPathsDone

InsertPhis == (\E v \in Var : StartPlacing(v)) \/ PlacePhis \/ Placed

RenameBlocks == StartRename \/ Rename \/ FillPhis \/ Descend \/ Leave

CleanUp ==
    \/ StartCleanup
    \/ \E phi \in Phis : DropUnused(phi) \/ Simplify(phi) \/ KeepPhi(phi)
    \/ EndRound

Promotion == FastPaths \/ InsertPhis \/ RenameBlocks \/ CleanUp

Execution == Execute \/ Branch \/ Return

Next == Emission \/ Promotion \/ Execution \/ Stopped

Spec == Init /\ [][Next]_vars

----------------------------------------------------------------------------
(* What the pass leaves of the function: the loads and the stores of       *)
(* promoted variables are gone.                                            *)
Gone(v) == v \in promoted \cup allocas
Users   == {p \in Written : ~Gone(Stmt(p).to)}

(* Wherever the emitted function uses what it loads from a promoted        *)
(* variable, the promoted function uses what the memory would hold (all of *)
(* mem2reg.cpp).                                                           *)
LoadsAgree ==
    phase = "run" /\ <<block, index>> \in Users =>
        LET p == <<block, index>>
        IN  Gone(Stmt(p).from) => Eval(operand[p]) = mem[Stmt(p).from]

(* x is computed by an instruction that is left in the function.           *)
Exists(x) ==
    \/ x \in Written /\ ~Gone(Stmt(x).from)
    \/ x \in DOMAIN new_phi_nodes

(* The IR that the pass leaves is in SSA form: no erased instruction is    *)
(* used, and every value is computed on all paths to where it is used      *)
(* (mem2reg.cpp:97-105, 224-236, 273-276, 323-334, 372-395).               *)
UsesAreDominated ==
    phase = "run" =>
        /\ \A p \in Users :
              LET x == operand[p]
              IN  \/ x = undef \/ x = p
                  \/ /\ Exists(x)
                     /\ IF x \in Written THEN Dominates(x, p) ELSE p[1] \in dom[x[1]]
        /\ \A phi \in DOMAIN new_phi_nodes : \A b \in DOMAIN new_phi_nodes[phi] :
              LET x == new_phi_nodes[phi][b]
              IN  x = undef \/ (Exists(x) /\ b \in dom[x[1]])

(* When renaming begins, every variable has a phi wherever the dominance   *)
(* of one of its definitions ends, phis being definitions themselves       *)
(* (insert_phi_nodes).                                                     *)
PhisPlaced ==
    phase = "rename" /\ Len(calls) = 1 =>
        \A v \in allocas : \A b \in Defining(v) \cup PhiBlocks(v) :
            frontiers[b] \subseteq PhiBlocks(v)
=============================================================================
