------------------------------ MODULE Dataflow ------------------------------
(***************************************************************************)
(* DataflowSolver::solve of src/src/midend/ir_analyzer/dataflow.h: the     *)
(* worklist algorithm for the problems of FlowProblem, and that it         *)
(* implements FlowEquations.                                               *)
(*                                                                         *)
(* The code keeps the states before and behind every block; those it does  *)
(* not return are never stored after their initialisation, so `states' is  *)
(* out_states of a forward and in_states of a backward analysis.  The      *)
(* order of a terminator's successors, in which they are put on the        *)
(* worklist, is not part of the graphs, and any order is allowed.          *)
(***************************************************************************)
EXTENDS FlowProblem

CONSTANT Problems       \* the problems to solve: names of analyses and functions

ASSUME ProblemsAssumption == Problems \subseteq Analyses \X Functions

VARIABLES
    problem,    \* the cfg and the analysis of the solver
    states,     \* the states that solve returns
    worklist,   \* the blocks whose equations may not hold
    returned    \* has solve returned?

vars == <<problem, states, worklist, returned>>

Members(q) == {q[i] : i \in DOMAIN q}

Init ==
    /\ \E call \in Problems : problem = Problem(call[1], call[2])
    /\ states = [b \in Blocks |-> problem.initial]
    /\ worklist = [i \in 1..(N + 1) |-> i - 1]
    /\ returned = FALSE

(* push_unique of each of the blocks.  Mutant: none is pushed.             *)
push_nothing(q, blocks) == {q}
push_unique(q, blocks) ==
    LET new == blocks \ Members(q)
    IN  {q \o order : order \in
            {s \in [1..Cardinality(new) -> new] : Members(s) = new}}

(* One turn of the loop.                                                   *)
ProcessBlock ==
    /\ worklist # <<>>
    /\ LET id == Head(worklist)
           new == Equation(problem, states, id)
       IN  \/ /\ new # states[id]
              /\ states' = [states EXCEPT ![id] = new]
              /\ worklist' \in push_unique(Tail(worklist), Dependents(problem, id))
           \/ /\ new = states[id]
              /\ worklist' = Tail(worklist)
              /\ UNCHANGED states
    /\ UNCHANGED <<problem, returned>>

(* Mutant: the last block is not taken.                                    *)
ReturnEarly ==
    /\ Len(worklist) <= 1 /\ ~ returned
    /\ returned' = TRUE
    /\ UNCHANGED <<problem, states, worklist>>
Return ==
    /\ worklist = <<>> /\ ~ returned
    /\ returned' = TRUE
    /\ UNCHANGED <<problem, states, worklist>>

Next == ProcessBlock \/ Return

(* solve is one call that runs by itself.                                  *)
Spec == Init /\ [][Next]_vars /\ WF_vars(Next)

----------------------------------------------------------------------------
TypeOK ==
    /\ problem.succ \in [Blocks -> SUBSET Blocks]
    /\ states \in [Blocks -> SUBSET Facts(problem)]
    /\ worklist \in Seq(Blocks)
    /\ returned \in BOOLEAN

(* A block that is not on the worklist satisfies its equation: whoever     *)
(* changes an input of it puts it back (lines 93-97, 105-109).             *)
SettledOffList ==
    \A b \in Blocks \ Members(worklist) : states[b] = Equation(problem, states, b)

Equations == INSTANCE FlowEquations

(* The loop of lines 82-113 implements the equation system of the comment  *)
(* in lines 42-55: it changes a state only to what the equation says,      *)
(* returns only when all equations hold, and does return.                  *)
SolvesTheEquations == Equations!Spec

(* What is returned is the solution by paths, the least of the `may' and   *)
(* the one the initial state leads to of the `must' analyses, whatever     *)
(* order the worklist takes the blocks in.                                 *)
ReturnsPaths == returned => states = ByPaths(problem)

(* The sets that extract_block_def_use and build_cfg give a block lose the *)
(* order of its instructions, but only to the safe side: what is live or   *)
(* reaches is found, and what is found very busy is.                       *)
LosesNothing ==
    returned =>
        LET exact == ByPaths([problem EXCEPT !.gen = problem.exact])
        IN  \A b \in Blocks : IF problem.union THEN exact[b] \subseteq states[b]
                              ELSE states[b] \subseteq exact[b]
=============================================================================
