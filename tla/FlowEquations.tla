--------------------------- MODULE FlowEquations ---------------------------
(***************************************************************************)
(* What the solver of dataflow.h promises of any problem: from the initial *)
(* states, the state of one block after another is made what its equation  *)
(* says, in any order; when all equations hold, and only then, the states  *)
(* are returned; and this happens.                                         *)
(***************************************************************************)
CONSTANTS
    Blocks,
    Equation(_, _, _)       \* of a problem, the states and a block

VARIABLES problem, states, returned
vars == <<problem, states, returned>>

Solved == \A b \in Blocks : states[b] = Equation(problem, states, b)

Init ==
    /\ states = [b \in Blocks |-> problem.initial]
    /\ returned = FALSE

Update(b) ==
    /\ ~ returned
    /\ states' = [states EXCEPT ![b] = Equation(problem, states, b)]
    /\ UNCHANGED <<problem, returned>>

Finish ==
    /\ Solved
    /\ returned' = TRUE
    /\ UNCHANGED <<problem, states>>

Next == (\E b \in Blocks : Update(b)) \/ Finish

Spec == Init /\ [][Next]_vars /\ WF_vars(Next)
============================================================================
