---------------------------- MODULE FlowProblem ----------------------------
(***************************************************************************)
(* The data flow problems of src/src/midend/ir_analyzer/dataflow.h and how *)
(* dataflow.cpp extracts them from a function: live variables, reaching    *)
(* definitions, very busy expressions and dominators.  All four have       *)
(* transfer functions of the form gen \cup (x \ kill).                     *)
(*                                                                         *)
(* A function is a record of the terminators' targets and of each block's  *)
(* instructions <<kind, v>> on the alloca v: `field' stands for a          *)
(* getelementptr of v and a store through it.  Definitions and expressions *)
(* are instructions, so they are pairs <<block, index>>.                   *)
(*                                                                         *)
(* The data that build_cfg fills is taken to be there.  As the constructor *)
(* of AnalysisCtxt is written it is not: it dereferences func_data, which  *)
(* nothing has set (dataflow.cpp:10).  Nothing constructs one either.      *)
(***************************************************************************)
EXTENDS Integers, Sequences, FiniteSets

CONSTANTS
    N,          \* the number of basic blocks of the function
    Vars,       \* its allocas
    Tracked     \* those whose names is_valid_var accepts

ASSUME SizeAssumption == N \in Nat \ {0}
ASSUME TrackedAssumption == Tracked \subseteq Vars

entry == 0
exit == N       \* the virtual exit block
Blocks == 0..N

Instructions == {"alloca", "store", "field", "load"} \X Vars
Functions == [targets : [Blocks \ {exit} -> SUBSET (Blocks \ {exit})],
              code    : [Blocks \ {exit} -> Seq(Instructions)]]

----------------------------------------------------------------------------
(* build_cfg: a block without successors goes to the virtual exit.         *)
build_cfg(func) ==
    [b \in Blocks |-> IF b = exit THEN {}
                      ELSE IF func.targets[b] = {} THEN {exit}
                      ELSE func.targets[b]]

Positions(func) ==
    UNION {{b} \X DOMAIN func.code[b] : b \in Blocks \ {exit}}
Kind(func, e) == func.code[e[1]][e[2]][1]
Var(func, e) == func.code[e[1]][e[2]][2]
Of(func, b, kinds) == {e \in Positions(func) : e[1] = b /\ Kind(func, e) \in kinds}

(* extract_block_def_use: a store through a getelementptr defines nothing, *)
(* and every read is a use, whatever is before it in the block.            *)
def(func, b) == {Var(func, e) : e \in Of(func, b, {"alloca", "store"})} \cap Tracked
(* Mutant: a use in a block that also defines the variable does not count. *)
useUndefined(func, b) ==
    {Var(func, e) : e \in Of(func, b, {"field", "load"})} \cap (Tracked \ def(func, b))
use(func, b) == {Var(func, e) : e \in Of(func, b, {"field", "load"})} \cap Tracked

(* Here a store through a getelementptr is a definition of its alloca.     *)
block_defs(func, b) ==
    {e \in Of(func, b, {"alloca", "store", "field"}) : Var(func, e) \in Tracked}
all_defs(func) == UNION {block_defs(func, b) : b \in Blocks}

block_expressions(func, b) == Of(func, b, {"field", "load"})
all_expressions(func) == UNION {block_expressions(func, b) : b \in Blocks}

expr_uses_any_def(func, e, defs) == Var(func, e) \in defs

----------------------------------------------------------------------------
(* Each analysis also carries what an exact look at the instructions of a  *)
(* block would put into its gen set; only properties read it.              *)
Before(d, e) == d[1] = e[1] /\ d[2] < e[2]

(* No store comes before the instruction e in its block.                   *)
Unwritten(func, e) ==
    \A w \in Of(func, e[1], {"alloca", "store"}) :
        Var(func, w) = Var(func, e) => ~ Before(w, e)

(* No other definition comes after d in its block.                         *)
Last(func, d) ==
    \A e \in block_defs(func, d[1]) : Var(func, e) = Var(func, d) => ~ Before(d, e)

LiveVariableAnalysis(func) ==
    [direction |-> "Backward", union |-> TRUE, succ |-> build_cfg(func),
     initial |-> {}, boundary |-> {},
     gen  |-> [b \in Blocks |-> use(func, b)],
     exact |-> [b \in Blocks |-> Tracked \cap
         {Var(func, e) : e \in {r \in Of(func, b, {"field", "load"}) : Unwritten(func, r)}}],
     kill |-> [b \in Blocks |-> def(func, b)]]

ReachingDefinitionAnalysis(func) ==
    [direction |-> "Forward", union |-> TRUE, succ |-> build_cfg(func),
     initial |-> {}, boundary |-> {},
     gen  |-> [b \in Blocks |-> block_defs(func, b)],
     exact |-> [b \in Blocks |-> {d \in block_defs(func, b) : Last(func, d)}],
     kill |-> [b \in Blocks |->
         {d \in all_defs(func) :
             \E e \in block_defs(func, b) : Var(func, d) = Var(func, e)}]]

VeryBusyExpressionAnalysis(func) ==
    LET killed(b) == {e \in all_expressions(func) :
                         expr_uses_any_def(func, e, def(func, b))}
    IN  [direction |-> "Backward", union |-> FALSE, succ |-> build_cfg(func),
         initial |-> {}, boundary |-> {},
         gen  |-> [b \in Blocks |-> block_expressions(func, b) \ killed(b)],
         exact |-> [b \in Blocks |->
             {e \in block_expressions(func, b) :
                 Var(func, e) \in Tracked => Unwritten(func, e)}],
         kill |-> [b \in Blocks |-> killed(b)]]

DominatorAnalysis(func) ==
    [direction |-> "Forward", union |-> FALSE, succ |-> build_cfg(func),
     initial |-> Blocks, boundary |-> {entry},
     gen  |-> [b \in Blocks |-> {b}],
     exact |-> [b \in Blocks |-> {b}],
     kill |-> [b \in Blocks |-> {}]]

Analyses == {"live", "reaching", "busy", "dominators"}

Problem(name, func) ==
    CASE name = "live"     -> LiveVariableAnalysis(func)
      [] name = "reaching" -> ReachingDefinitionAnalysis(func)
      [] name = "busy"     -> VeryBusyExpressionAnalysis(func)
      [] name = "dominators" -> DominatorAnalysis(func)

----------------------------------------------------------------------------
predecessors(p, b) == {m \in Blocks : b \in p.succ[m]}

(* Where the equation of b takes its input from, and whose input depends   *)
(* on b.                                                                   *)
Sources(p, b) == IF p.direction = "Forward" THEN predecessors(p, b) ELSE p.succ[b]
Dependents(p, b) == IF p.direction = "Forward" THEN p.succ[b] ELSE predecessors(p, b)

(* The block whose input is the boundary state.                            *)
Edge(p) == IF p.direction = "Forward" THEN entry ELSE exit

(* Mutant: the must analyses meet in the union, too.                       *)
meetInUnion(p, sets) == UNION sets
meet(p, sets) == IF p.union THEN UNION sets
                 ELSE {x \in UNION sets : \A s \in sets : x \in s}

initial_or_meet(p, states, indices) ==
    IF indices = {} THEN p.initial ELSE meet(p, {states[m] : m \in indices})

transfer(p, b, input) == (input \ p.kill[b]) \cup p.gen[b]

(* The equation of block b, as dataflow.h states it.                       *)
Equation(p, states, b) ==
    transfer(p, b, IF b = Edge(p) THEN p.boundary
                   ELSE initial_or_meet(p, states, Sources(p, b)))

Facts(p) == p.initial \cup p.boundary \cup
            UNION {p.gen[b] \cup p.kill[b] : b \in Blocks}

----------------------------------------------------------------------------
(* What the equations are to say, by paths.  A path from b follows the     *)
(* sources and visits no block twice.                                      *)
Visited(path) == {path[i] : i \in DOMAIN path}

Longer(p, path) ==
    LET last == path[Len(path)]
    IN  {Append(path, m) : m \in IF last = Edge(p) THEN {}
                                 ELSE Sources(p, last) \ Visited(path)}

PathsOfLength(p, b) ==
    LET paths[k \in 1..(N + 1)] ==
            IF k = 1 THEN {<<b>>}
            ELSE UNION {Longer(p, path) : path \in paths[k - 1]}
    IN  paths

Paths(p, b) ==
    LET paths == PathsOfLength(p, b)
    IN  UNION {paths[k] : k \in 1..(N + 1)}

(* Some path comes from a block that generates f, and none kills it.       *)
Supported(p, f, path) ==
    /\ f \in p.gen[path[Len(path)]]
    /\ \A i \in 1..(Len(path) - 1) : f \notin p.kill[path[i]]

(* Nothing on the path generates f, and it ends where f is killed, at the  *)
(* boundary, where nothing is before it or, unless the analysis starts     *)
(* from all facts, in a cycle.                                             *)
Refuted(p, f, path) ==
    LET last == path[Len(path)]
    IN  /\ \A i \in DOMAIN path : f \notin p.gen[path[i]]
        /\ \/ f \in p.kill[last]
           \/ last = Edge(p) /\ f \notin p.boundary
           \/ /\ last # Edge(p) /\ f \notin p.initial
              /\ \/ Sources(p, last) = {}
                 \/ Visited(path) \cap Sources(p, last) # {}

ByPaths(p) ==
    [b \in Blocks |->
        LET paths == Paths(p, b)
        IN  {f \in Facts(p) :
                IF p.union THEN \E path \in paths : Supported(p, f, path)
                ELSE \A path \in paths : ~ Refuted(p, f, path)}]

============================================================================
