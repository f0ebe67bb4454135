--------------------------- MODULE FuncSummaries ---------------------------
(***************************************************************************)
(* The summaries the leak checker makes of the functions of a module       *)
(* (compute_func_summaries, midend/ir_optimizer/passes/leak_checker.cpp):  *)
(* rounds over all functions until nothing changes, ten at most.           *)
(*                                                                         *)
(* A function has one pointer parameter.  What it returns is nothing, what *)
(* malloc gave it or what another function returns; its argument it reads, *)
(* frees, stores in a global variable or passes to another function, on    *)
(* every path or on some.                                                  *)
(***************************************************************************)
EXTENDS Integers, FiniteSets

CONSTANTS
    K,         \* the number of functions, in the order of the module
    Modules    \* the modules: definitions of these functions

Functions == 1..K

(* Other numbers than those of functions.                                  *)
nothing == 0
malloc  == -1
read    == 0
free    == -1
keep    == -2

Definition ==
    [returns : {nothing, malloc} \cup Functions,
     argument : {read, free, keep} \cup Functions,
     always : BOOLEAN]

ASSUME ModulesAssumption == K \in Nat /\ Modules \subseteq [Functions -> Definition]

VARIABLES
    func,       \* the module's functions
    result,     \* function -> its FuncSummary
    round, changed,
    visiting    \* the function a round has come to; 0 between rounds

summaryVars == <<result, round, changed, visiting>>

(* param_effects of the parameter is 1, "frees", or absent.                *)
FuncSummary == [returns_alloc : BOOLEAN, frees : BOOLEAN]
NoSummary == [returns_alloc |-> FALSE, frees |-> FALSE]

SummaryInit ==
    /\ func \in Modules
    /\ result = [f \in Functions |-> NoSummary]
    /\ round = 0
    /\ changed = TRUE
    /\ visiting = 0

(* Mutant of Again: a second round is never made.                          *)
AgainOnce == round < 1 /\ changed

Again == round < 10 /\ changed

StartRound ==
    /\ visiting = 0
    /\ Again
    /\ K > 0
    /\ visiting' = 1
    /\ changed' = FALSE
    /\ UNCHANGED <<func, result, round>>

(* What is known of its callees at this point of the round.                *)
ReturnsFresh(f) ==
    \/ func[f].returns = malloc
    \/ func[f].returns \in Functions /\ result[func[f].returns].returns_alloc

(* Mutant of FreesArgument: an argument that is stored counts as freed.    *)
FreesOrKeeps(f) ==
    \/ result[f].frees
    \/ func[f].argument \in {free, keep}
    \/ func[f].argument \in Functions /\ result[func[f].argument].frees

FreesArgument(f) ==
    \/ result[f].frees
    \/ func[f].argument = free
    \/ func[f].argument \in Functions /\ result[func[f].argument].frees

Visit ==
    LET f == visiting
        sum == [returns_alloc |-> ReturnsFresh(f), frees |-> FreesArgument(f)]
    IN
    /\ visiting # 0
    /\ result' = [result EXCEPT ![f] = sum]
    /\ changed' = (changed \/ sum # result[f])
    /\ visiting' = IF f = K THEN 0 ELSE f + 1
    /\ round' = IF f = K THEN round + 1 ELSE round
    /\ UNCHANGED func

Summarized == visiting = 0 /\ (~Again \/ K = 0)

----------------------------------------------------------------------------
(* What the functions do, whatever the order they are in.                  *)

(* The functions a chain of calls from f comes to.                         *)
Chain(f, Next(_)) ==
    LET closed == {S \in SUBSET Functions :
                       f \in S /\ \A g \in S : Next(g) \in Functions => Next(g) \in S}
    IN  {g \in Functions : \A S \in closed : g \in S}

ResultOf(f) == func[f].returns
ArgumentOf(f) == func[f].argument

ReturnsAlloc(f) == \E g \in Chain(f, ResultOf) : func[g].returns = malloc

(* What may become of the argument of a call that returns.                 *)
Does(f) ==
    {e \in {read, free, keep} :
        \E g \in Chain(f, ArgumentOf) : \/ e = func[g].argument
                                        \/ e = read /\ ~func[g].always}

(* At no point of a round does a summary claim what no path does: a leak   *)
(* checker that uses it takes no pointer for freed that never is.          *)
SummariesSound ==
    \A f \in Functions : /\ result[f].returns_alloc => ReturnsAlloc(f)
                         /\ result[f].frees => free \in Does(f)

(* The rounds end with all that follows from the definitions: a few rounds *)
(* suffice, whatever the order of the functions and however they call each *)
(* other.                                                                  *)
SummariesExact ==
    Summarized => \A f \in Functions :
        /\ ReturnsAlloc(f) => result[f].returns_alloc
        /\ free \in Does(f) => result[f].frees
============================================================================
