------------------------ MODULE LeakChecker_proofs -------------------------
(***************************************************************************)
(* Proofs about the leak checker: its summaries are sound at every point   *)
(* of every round and exact after the last, for up to ten functions, and   *)
(* its meets do not depend on the order in which a block's predecessors    *)
(* are visited.                                                            *)
(***************************************************************************)
EXTENDS LeakChecker, FiniteSetTheorems, TLAPS

USE ModulesAssumption

----------------------------------------------------------------------------
(* Chains of calls.                                                        *)

(* A chain contains its first function.                                    *)
LEMMA ResultStart ==
    ASSUME NEW f \in Functions
    PROVE  f \in Chain(f, ResultOf)
  BY DEF Chain

LEMMA ArgumentStart ==
    ASSUME NEW f \in Functions
    PROVE  f \in Chain(f, ArgumentOf)
  BY DEF Chain

(* The chain of what f returns is part of f's.                             *)
LEMMA ResultChain ==
    ASSUME NEW f \in Functions, ResultOf(f) \in Functions
    PROVE  Chain(ResultOf(f), ResultOf) \subseteq Chain(f, ResultOf)
  BY DEF Chain

(* The chain of what f passes its argument to is part of f's.              *)
LEMMA ArgumentChain ==
    ASSUME NEW f \in Functions, ArgumentOf(f) \in Functions
    PROVE  Chain(ArgumentOf(f), ArgumentOf) \subseteq Chain(f, ArgumentOf)
  BY DEF Chain

(* What f returns is fresh if it is malloc's or that of such a function.   *)
LEMMA FreshIsReal ==
    ASSUME func \in Modules, SummariesSound, NEW f \in Functions, ReturnsFresh(f)
    PROVE  ReturnsAlloc(f)
<1>1. CASE func[f].returns = malloc
  BY <1>1, ResultStart DEF ReturnsAlloc
<1>2. CASE func[f].returns \in Functions /\ result[func[f].returns].returns_alloc
  <2>1. ReturnsAlloc(func[f].returns)
    BY <1>2 DEF SummariesSound
  <2>2. Chain(func[f].returns, ResultOf) \subseteq Chain(f, ResultOf)
    BY <1>2, ResultChain DEF ResultOf
  <2> QED BY <2>1, <2>2 DEF ReturnsAlloc
<1> QED BY <1>1, <1>2 DEF ReturnsFresh

(* An argument counts as freed only if some path frees it.                 *)
LEMMA FreeIsReal ==
    ASSUME func \in Modules, SummariesSound, NEW f \in Functions, FreesArgument(f)
    PROVE  free \in Does(f)
<1>1. CASE result[f].frees
  BY <1>1 DEF SummariesSound
<1>2. CASE func[f].argument = free
  BY <1>2, ArgumentStart DEF Does
<1>3. CASE func[f].argument \in Functions /\ result[func[f].argument].frees
  <2>1. free \in Does(func[f].argument)
    BY <1>3 DEF SummariesSound
  <2>2. Chain(func[f].argument, ArgumentOf) \subseteq Chain(f, ArgumentOf)
    BY <1>3, ArgumentChain DEF ArgumentOf
  <2> QED BY <2>1, <2>2 DEF Does
<1> QED BY <1>1, <1>2, <1>3 DEF FreesArgument

----------------------------------------------------------------------------
(* The rounds.                                                             *)

SummaryTypes ==
    /\ func \in Modules
    /\ result \in [Functions -> FuncSummary]
    /\ visiting \in 0..K

SummaryInv == SummaryTypes /\ SummariesSound

LEMMA SummaryInitially == Init => SummaryInv
  BY DEF Init, SummaryInit, SummaryInv, SummaryTypes, SummariesSound, NoSummary, FuncSummary

(* Only the summary that is visited changes.                               *)
LEMMA VisitKeeps == SummaryInv /\ Visit => SummaryInv'
<1> SUFFICES ASSUME SummaryInv, Visit PROVE SummaryInv'
  OBVIOUS
<1>1. visiting \in Functions /\ K \in Nat
  BY DEF SummaryInv, SummaryTypes, Visit, Functions
<1> DEFINE sum == [returns_alloc |-> ReturnsFresh(visiting), frees |-> FreesArgument(visiting)]
<1>2. sum \in FuncSummary
  <2>1. ReturnsFresh(visiting) \in BOOLEAN
    BY DEF ReturnsFresh
  <2>2. FreesArgument(visiting) \in BOOLEAN
    BY <1>1 DEF FreesArgument
  <2> QED BY <2>1, <2>2 DEF FuncSummary
<1>3. func' = func /\ result' = [result EXCEPT ![visiting] = sum]
  BY DEF Visit
<1>4. visiting' \in 0..K
  BY <1>1 DEF Visit, Functions
<1>5. SummaryTypes'
  BY <1>1, <1>2, <1>3, <1>4 DEF SummaryInv, SummaryTypes
<1>6. ASSUME NEW f \in Functions
      PROVE  /\ result'[f].returns_alloc => ReturnsAlloc(f)
             /\ result'[f].frees => free \in Does(f)
  <2>1. CASE f = visiting
    BY <2>1, <1>1, <1>3, FreshIsReal, FreeIsReal DEF SummaryInv, SummaryTypes
  <2>2. CASE f # visiting
    BY <2>2, <1>1, <1>3 DEF SummaryInv, SummaryTypes, SummariesSound
  <2> QED BY <2>1, <2>2
<1>7. ASSUME NEW f \in Functions
      PROVE  ReturnsAlloc(f)' = ReturnsAlloc(f) /\ Does(f)' = Does(f)
  BY <1>3 DEF ReturnsAlloc, Does, Chain, ResultOf, ArgumentOf
<1>8. SummariesSound'
  BY <1>6, <1>7 DEF SummariesSound
<1> QED BY <1>5, <1>8 DEF SummaryInv

(* A step that leaves the summaries alone keeps what is said of them.      *)
LEMMA UnchangedKeeps ==
    ASSUME SummaryInv, func' = func, result' = result, visiting' \in 0..K
    PROVE  SummaryInv'
  BY DEF SummaryInv, SummaryTypes, SummariesSound, ReturnsAlloc, Does, Chain, ResultOf, ArgumentOf

LEMMA StepKeeps == SummaryInv /\ [Next]_vars => SummaryInv'
<1> SUFFICES ASSUME SummaryInv, [Next]_vars PROVE SummaryInv'
  OBVIOUS
<1> visiting \in 0..K
  BY DEF SummaryInv, SummaryTypes
<1>1. CASE Summaries
  <2>1. CASE StartRound
    BY <2>1, UnchangedKeeps DEF StartRound
  <2> QED BY <2>1, <1>1, VisitKeeps DEF Summaries
<1>2. CASE BeginFunction
  BY <1>2, UnchangedKeeps DEF BeginFunction, summaryVars
<1>3. CASE Emission
  <2>1. func' = func /\ summaryVars' = summaryVars
    BY <1>3 DEF Emission, EmitPhi, EmitMalloc, EmitLoad, EmitUse, EmitCall, Emit, EndBlock,
                FillPhi, Collect, Writes
  <2> QED BY <2>1, UnchangedKeeps DEF summaryVars
<1>4. CASE Dataflow
  <2>1. func' = func /\ summaryVars' = summaryVars
    BY <1>4 DEF Dataflow, StartSite, ProcessBlock, EndSite, StartPaths, Analyses
  <2> QED BY <2>1, UnchangedKeeps DEF summaryVars
<1>5. CASE FollowPaths
  BY <1>5, UnchangedKeeps DEF FollowPaths, summaryVars
<1>6. CASE UNCHANGED vars
  BY <1>6, UnchangedKeeps DEF vars, summaryVars
<1> QED BY <1>1, <1>2, <1>3, <1>4, <1>5, <1>6 DEF Next

(* Whatever the functions of a module and however they call each other, in *)
(* whatever round the summaries are read: a function that is said to       *)
(* return a new object may do so, and one that is said to free its         *)
(* argument frees it on some path (compute_func_summaries).                *)
THEOREM SummariesAlwaysSound == Spec => []SummariesSound
<1>1. SummaryInv => SummariesSound
  BY DEF SummaryInv
<1> QED BY <1>1, SummaryInitially, StepKeeps, PTL DEF Spec

----------------------------------------------------------------------------
(* The end of the rounds.  A round in which a bit of no summary changes    *)
(* leaves nothing to do for that bit, and ten rounds that each set it in   *)
(* one more summary have set it in all of ten functions.                   *)

Freed == {f \in Functions : result[f].frees}
Fresh == {f \in Functions : result[f].returns_alloc}

(* The functions whose summary says what follows from those of the others. *)
FreesSettled == {f \in Functions : FreesArgument(f) => result[f].frees}
FreshSettled == {f \in Functions : ReturnsFresh(f) => result[f].returns_alloc}

(* Where round n has come to v, or n rounds are over and v = 0.            *)
Progress(n, v, found, settled) ==
    \/ Functions \subseteq settled
    \/ Cardinality(found) > n
    \/ Cardinality(found) >= n /\ \A f \in Functions : f < v => f \in settled

Visited == {f \in Functions : visiting = 0 \/ f < visiting}

RoundInv ==
    /\ SummaryInv
    /\ round \in 0..10 /\ changed \in BOOLEAN
    /\ visiting # 0 => round < 10
    /\ \A f \in Fresh : ReturnsFresh(f)
    /\ ~changed => Visited \subseteq FreesSettled \cap FreshSettled
    /\ Progress(round, visiting, Freed, FreesSettled)
    /\ Progress(round, visiting, Fresh, FreshSettled)

(* Some of the functions are finitely many.                                *)
LEMMA SomeFunctions ==
    ASSUME NEW S \in SUBSET Functions
    PROVE  IsFiniteSet(S) /\ Cardinality(S) \in Nat /\ Cardinality(S) <= K
<1>1. IsFiniteSet(Functions) /\ Cardinality(Functions) = K
  <2>1. K \in Nat /\ 1 \in Int /\ K \in Int
    OBVIOUS
  <2>2. IsFiniteSet(1..K) /\ Cardinality(1..K) = IF 1 > K THEN 0 ELSE K - 1 + 1
    BY <2>1, FS_Interval
  <2> QED BY <2>1, <2>2 DEF Functions
<1> QED BY <1>1, FS_Subset, FS_CardinalityType

(* As many as there are functions are all of them.                         *)
LEMMA AllFunctions ==
    ASSUME NEW S \in SUBSET Functions, Cardinality(S) >= K
    PROVE  S = Functions
<1>1. IsFiniteSet(Functions) /\ Cardinality(Functions) \in Nat
  BY SomeFunctions
<1>2. Cardinality(Functions) <= K
  BY SomeFunctions
<1> QED BY <1>1, <1>2, SomeFunctions, FS_Subset

(* Coming to one more function, a round finds something new or settles it. *)
LEMMA ProgressKeeps ==
    ASSUME NEW n \in Nat, NEW v \in Functions,
           NEW found \in SUBSET Functions, NEW settled,
           NEW foundNow, NEW settledNow,
           Progress(n, v, found, settled),
           \/ foundNow = found /\ settledNow = settled /\ v \in settled
           \/ foundNow = found \cup {v} /\ v \notin found /\ v \notin settled
    PROVE  Progress(IF v = K THEN n + 1 ELSE n, IF v = K THEN 0 ELSE v + 1,
                    foundNow, settledNow)
<1>1. Cardinality(found) \in Nat /\ IsFiniteSet(found)
  BY SomeFunctions
<1>2. K \in Nat /\ v \in 1..K
  BY DEF Functions
<1>3. CASE foundNow = found /\ settledNow = settled /\ v \in settled
  <2>1. CASE Functions \subseteq settled
    BY <2>1, <1>3 DEF Progress
  <2>2. CASE Cardinality(found) > n
    BY <2>2, <1>1, <1>2, <1>3 DEF Progress, Functions
  <2>3. CASE Cardinality(found) >= n /\ \A f \in Functions : f < v => f \in settled
    <3>1. \A f \in Functions : f < v + 1 => f \in settled
      BY <2>3, <1>2, <1>3 DEF Functions
    <3>2. CASE v = K
      <4>1. Functions \subseteq settled
        BY <3>1, <3>2, <1>2 DEF Functions
      <4> QED BY <4>1, <1>3 DEF Progress
    <3>3. CASE v # K
      BY <3>1, <3>3, <2>3, <1>3 DEF Progress
    <3> QED BY <3>2, <3>3
  <2> QED BY <2>1, <2>2, <2>3 DEF Progress
<1>4. CASE foundNow = found \cup {v} /\ v \notin found /\ v \notin settled
  <2>1. Cardinality(foundNow) = Cardinality(found) + 1
    BY <1>1, <1>4, FS_AddElement
  <2>2. Cardinality(found) >= n
    BY <1>1, <1>4 DEF Progress
  <2>3. CASE v = K
    BY <2>1, <2>2, <2>3, <1>1, <1>2 DEF Progress, Functions
  <2>4. CASE v # K
    BY <2>1, <2>2, <2>4, <1>1 DEF Progress
  <2> QED BY <2>3, <2>4
<1> QED BY <1>3, <1>4

LEMMA RoundInitially == Init => RoundInv
<1> SUFFICES ASSUME Init PROVE RoundInv
  OBVIOUS
<1>1. round = 0 /\ visiting = 0 /\ changed = TRUE /\ result = [f \in Functions |-> NoSummary]
  BY DEF Init, SummaryInit
<1>2. Freed = {} /\ Fresh = {}
  BY <1>1 DEF Freed, Fresh, NoSummary
<1>3. Cardinality({}) = 0
  BY FS_EmptySet
<1>4. \A f \in Functions : ~(f < 0)
  BY DEF Functions
<1>5. \A s : Progress(0, 0, {}, s)
  BY <1>3, <1>4 DEF Progress
<1> QED BY <1>1, <1>2, <1>5, SummaryInitially DEF RoundInv

(* A round begins with nothing visited.                                    *)
LEMMA StartKeeps == RoundInv /\ StartRound => RoundInv'
<1> SUFFICES ASSUME RoundInv, StartRound PROVE RoundInv'
  OBVIOUS
<1>1. /\ visiting = 0 /\ round < 10 /\ round \in 0..10 /\ visiting' = 1 /\ changed' = FALSE
      /\ func' = func /\ result' = result /\ round' = round /\ K \in Nat /\ K > 0
  BY DEF RoundInv, StartRound, Again
<1>2. SummaryInv'
  BY <1>1, UnchangedKeeps DEF RoundInv
<1>3. /\ Freed' = Freed /\ Fresh' = Fresh
      /\ FreesSettled' = FreesSettled /\ FreshSettled' = FreshSettled
  BY <1>1 DEF Freed, Fresh, FreesSettled, FreshSettled, FreesArgument, ReturnsFresh
<1>4. \A f \in Fresh' : ReturnsFresh(f)'
  BY <1>1, <1>3 DEF RoundInv, ReturnsFresh
<1>5. Visited' = {}
  BY <1>1 DEF Visited, Functions
<1>6. ASSUME NEW found \in SUBSET Functions, NEW settled, Progress(round, 0, found, settled)
      PROVE  Progress(round, 1, found, settled)
  <2>1. Cardinality(found) \in Nat
    BY SomeFunctions
  <2>2. \A f \in Functions : ~(f < 1)
    BY DEF Functions
  <2> QED BY <2>1, <2>2, <1>6, <1>1 DEF Progress
<1>7. Freed \subseteq Functions /\ Fresh \subseteq Functions
  BY DEF Freed, Fresh
<1>8. Progress(round, 1, Freed, FreesSettled) /\ Progress(round, 1, Fresh, FreshSettled)
  BY <1>1, <1>6, <1>7 DEF RoundInv
<1>9. /\ Progress(round, visiting, Freed, FreesSettled)'
      /\ Progress(round, visiting, Fresh, FreshSettled)'
  BY <1>1, <1>3, <1>8 DEF Progress
<1> QED BY <1>1, <1>2, <1>4, <1>5, <1>9 DEF RoundInv

(* A visit of a function settles it, or finds what was not known of it.    *)
LEMMA VisitFinds ==
    ASSUME RoundInv, Visit
    PROVE  /\ \/ Freed' = Freed /\ FreesSettled' = FreesSettled /\ visiting \in FreesSettled
              \/ /\ Freed' = Freed \cup {visiting}
                 /\ visiting \notin Freed /\ visiting \notin FreesSettled
           /\ \/ Fresh' = Fresh /\ FreshSettled' = FreshSettled /\ visiting \in FreshSettled
              \/ /\ Fresh' = Fresh \cup {visiting}
                 /\ visiting \notin Fresh /\ visiting \notin FreshSettled
           /\ \A f \in Fresh' : ReturnsFresh(f)'
           /\ ~changed' => /\ ~changed /\ result' = result
                           /\ visiting \in FreesSettled \cap FreshSettled
<1> DEFINE v == visiting
           sum == [returns_alloc |-> ReturnsFresh(v), frees |-> FreesArgument(v)]
<1>1. /\ v \in Functions /\ func' = func /\ result' = [result EXCEPT ![v] = sum]
      /\ result \in [Functions -> FuncSummary]
  BY DEF Visit, RoundInv, SummaryInv, SummaryTypes, Functions
<1>2. ReturnsFresh(v) \in BOOLEAN /\ FreesArgument(v) \in BOOLEAN
  BY <1>1 DEF ReturnsFresh, FreesArgument, FuncSummary
<1>3. \A f \in Functions : /\ result[f].frees \in BOOLEAN
                           /\ result[f].returns_alloc \in BOOLEAN
  BY <1>1 DEF FuncSummary
<1>4. /\ result'[v].frees = FreesArgument(v) /\ result'[v].returns_alloc = ReturnsFresh(v)
      /\ \A f \in Functions \ {v} : result'[f] = result[f]
  BY <1>1
<1> HIDE DEF v, sum
<1>5. \/ Freed' = Freed /\ FreesSettled' = FreesSettled /\ v \in FreesSettled
      \/ Freed' = Freed \cup {v} /\ v \notin Freed /\ v \notin FreesSettled
  <2>1. result[v].frees => FreesArgument(v)
    BY DEF FreesArgument
  <2>2. CASE FreesArgument(v) => result[v].frees
    <3>1. \A f \in Functions : result'[f].frees = result[f].frees
      <4>1. result'[v].frees = result[v].frees
        BY <1>1, <1>2, <1>3, <1>4, <2>1, <2>2
      <4> QED BY <4>1, <1>4
    <3>2. Freed' = Freed
      BY <3>1 DEF Freed
    <3>3. FreesSettled' = FreesSettled
      <4>1. \A f \in Functions : FreesArgument(f)' = FreesArgument(f)
        BY <3>1, <1>1 DEF FreesArgument
      <4> QED BY <3>1, <4>1 DEF FreesSettled
    <3> QED BY <3>2, <3>3, <2>2, <1>1 DEF FreesSettled
  <2>3. CASE FreesArgument(v) /\ ~result[v].frees
    <3>1. Freed' = Freed \cup {v}
      BY <2>3, <1>1, <1>4 DEF Freed
    <3> QED BY <3>1, <2>3 DEF Freed, FreesSettled
  <2> QED BY <2>2, <2>3, <1>2
<1>6. result[v].returns_alloc => ReturnsFresh(v)
  BY <1>1 DEF RoundInv, Fresh
<1>7. \/ Fresh' = Fresh /\ FreshSettled' = FreshSettled /\ v \in FreshSettled
      \/ Fresh' = Fresh \cup {v} /\ v \notin Fresh /\ v \notin FreshSettled
  <2>1. CASE ReturnsFresh(v) => result[v].returns_alloc
    <3>1. \A f \in Functions : result'[f].returns_alloc = result[f].returns_alloc
      <4>1. result'[v].returns_alloc = result[v].returns_alloc
        BY <1>1, <1>2, <1>3, <1>4, <1>6, <2>1
      <4> QED BY <4>1, <1>4
    <3>2. Fresh' = Fresh
      BY <3>1 DEF Fresh
    <3>3. FreshSettled' = FreshSettled
      <4>1. \A f \in Functions : ReturnsFresh(f)' = ReturnsFresh(f)
        BY <3>1, <1>1 DEF ReturnsFresh
      <4> QED BY <3>1, <4>1 DEF FreshSettled
    <3> QED BY <3>2, <3>3, <2>1, <1>1 DEF FreshSettled
  <2>2. CASE ReturnsFresh(v) /\ ~result[v].returns_alloc
    <3>1. Fresh' = Fresh \cup {v}
      BY <2>2, <1>1, <1>4 DEF Fresh
    <3> QED BY <3>1, <2>2 DEF Fresh, FreshSettled
  <2> QED BY <2>1, <2>2, <1>2
<1>8. ASSUME NEW f \in Fresh' PROVE ReturnsFresh(f)'
  <2>1. Fresh \subseteq Fresh'
    BY <1>7
  <2>2. \A g \in Functions : ReturnsFresh(g) => ReturnsFresh(g)'
    BY <2>1, <1>1 DEF ReturnsFresh, Fresh
  <2>3. ReturnsFresh(f)
    <3>1. CASE f = v
      BY <3>1, <1>4 DEF Fresh
    <3>2. CASE f # v
      BY <3>2, <1>7 DEF RoundInv
    <3> QED BY <3>1, <3>2
  <2> QED BY <2>2, <2>3 DEF Fresh
<1>9. ASSUME ~changed'
      PROVE  ~changed /\ result' = result /\ v \in FreesSettled \cap FreshSettled
  <2>1. ~changed /\ sum = result[v]
    BY <1>9 DEF Visit, v, sum
  <2>2. result' = result
    BY <2>1, <1>1
  <2>3. v \notin Freed \/ v \in Freed'
    BY <2>2 DEF Freed
  <2>4. FreesArgument(v) = result[v].frees /\ ReturnsFresh(v) = result[v].returns_alloc
    BY <2>1 DEF sum
  <2>5. v \in FreesSettled /\ v \in FreshSettled
    BY <2>4, <1>1 DEF FreesSettled, FreshSettled
  <2> QED BY <2>1, <2>2, <2>5
<1> QED BY <1>5, <1>7, <1>8, <1>9 DEF v

(* A visit progresses, or leaves a function settled for good.              *)
LEMMA VisitProgresses == RoundInv /\ Visit => RoundInv'
<1> SUFFICES ASSUME RoundInv, Visit PROVE RoundInv'
  OBVIOUS
<1>1. /\ visiting \in Functions /\ round \in 0..9 /\ K \in Nat
      /\ func' = func
      /\ visiting' = IF visiting = K THEN 0 ELSE visiting + 1
      /\ round' = IF visiting = K THEN round + 1 ELSE round
  BY DEF Visit, RoundInv, SummaryInv, SummaryTypes, Functions
<1>2. SummaryInv'
  BY VisitKeeps DEF RoundInv
<1>3. round' \in 0..10 /\ changed' \in BOOLEAN
  <2>1. changed' \in BOOLEAN
    BY DEF Visit, RoundInv
  <2> QED BY <2>1, <1>1
<1>4. visiting' # 0 => round' < 10
  BY <1>1
<1>5. Freed \in SUBSET Functions /\ Fresh \in SUBSET Functions /\ round \in Nat
  BY <1>1 DEF Freed, Fresh
<1>6. Progress(round', visiting', Freed', FreesSettled')
  BY <1>1, <1>5, VisitFinds, ProgressKeeps DEF RoundInv
<1>7. Progress(round', visiting', Fresh', FreshSettled')
  BY <1>1, <1>5, VisitFinds, ProgressKeeps DEF RoundInv
<1>8. ASSUME ~changed', NEW f \in Visited' PROVE f \in FreesSettled' \cap FreshSettled'
  <2>1. /\ ~changed /\ result' = result
        /\ visiting \in FreesSettled \cap FreshSettled
    BY <1>8, VisitFinds
  <2>2. FreesSettled' = FreesSettled /\ FreshSettled' = FreshSettled
    BY <2>1, <1>1 DEF FreesSettled, FreshSettled, FreesArgument, ReturnsFresh
  <2>3. f \in Visited \cup {visiting}
    BY <1>8, <1>1 DEF Visited, Functions
  <2> QED BY <2>1, <2>2, <2>3 DEF RoundInv
<1>9. \A f \in Fresh' : ReturnsFresh(f)'
  BY VisitFinds
<1> QED BY <1>2, <1>3, <1>4, <1>6, <1>7, <1>8, <1>9 DEF RoundInv, Progress

(* What does not touch the summaries.                                      *)
LEMMA RoundsRest ==
    ASSUME RoundInv, func' = func, summaryVars' = summaryVars
    PROVE  RoundInv'
<1>1. /\ func' = func /\ result' = result /\ round' = round
      /\ changed' = changed /\ visiting' = visiting
  BY DEF summaryVars
<1>2. SummaryInv'
  BY <1>1, UnchangedKeeps DEF RoundInv, SummaryInv, SummaryTypes
<1>3. /\ Freed' = Freed /\ Fresh' = Fresh /\ Visited' = Visited
      /\ FreesSettled' = FreesSettled /\ FreshSettled' = FreshSettled
  BY <1>1 DEF Freed, Fresh, FreesSettled, FreshSettled, FreesArgument, ReturnsFresh, Visited
<1>4. \A f \in Fresh' : ReturnsFresh(f)'
  BY <1>1, <1>3 DEF RoundInv, ReturnsFresh
<1> QED BY <1>1, <1>2, <1>3, <1>4 DEF RoundInv, Progress

LEMMA RoundsKeep == RoundInv /\ [Next]_vars => RoundInv'
<1> SUFFICES ASSUME RoundInv, [Next]_vars PROVE RoundInv'
  OBVIOUS
<1>1. CASE Summaries
  BY <1>1, StartKeeps, VisitProgresses DEF Summaries
<1>2. CASE BeginFunction
  BY <1>2, RoundsRest DEF BeginFunction
<1>3. CASE Emission
  <2>1. func' = func /\ summaryVars' = summaryVars
    BY <1>3 DEF Emission, EmitPhi, EmitMalloc, EmitLoad, EmitUse, EmitCall, Emit, EndBlock,
                FillPhi, Collect, Writes
  <2> QED BY <2>1, RoundsRest
<1>4. CASE Dataflow
  <2>1. func' = func /\ summaryVars' = summaryVars
    BY <1>4 DEF Dataflow, StartSite, ProcessBlock, EndSite, StartPaths, Analyses
  <2> QED BY <2>1, RoundsRest
<1>5. CASE FollowPaths
  BY <1>5, RoundsRest DEF FollowPaths
<1>6. CASE UNCHANGED vars
  BY <1>6, RoundsRest DEF vars
<1> QED BY <1>1, <1>2, <1>3, <1>4, <1>5, <1>6 DEF Next

(* When the rounds are over, ten functions at most are all settled.        *)
LEMMA RoundsSettle ==
    ASSUME RoundInv, Summarized, K <= 10
    PROVE  Functions \subseteq FreesSettled \cap FreshSettled
<1>1. CASE K = 0
  BY <1>1 DEF Functions
<1>2. CASE visiting = 0 /\ ~changed
  BY <1>2 DEF RoundInv, Visited
<1>3. CASE round = 10
  <2>1. Freed \in SUBSET Functions /\ Fresh \in SUBSET Functions
    BY DEF Freed, Fresh
  <2>2. ASSUME NEW found \in SUBSET Functions, NEW settled, found \subseteq settled,
               Progress(round, visiting, found, settled)
        PROVE  Functions \subseteq settled
    <3>1. CASE Functions \subseteq settled
      BY <3>1
    <3>2. CASE Cardinality(found) >= 10
      <4>1. found = Functions
        BY <3>2, AllFunctions, SomeFunctions
      <4> QED BY <4>1, <2>2
    <3> QED BY <3>1, <3>2, <2>2, <1>3, SomeFunctions DEF Progress
  <2>3. Freed \subseteq FreesSettled /\ Fresh \subseteq FreshSettled
    BY DEF Freed, Fresh, FreesSettled, FreshSettled
  <2> QED BY <2>1, <2>2, <2>3 DEF RoundInv
<1> QED BY <1>1, <1>2, <1>3 DEF RoundInv, Summarized, Again

(* What a chain of settled functions ends with is known of its first: the  *)
(* functions of which it is not known would otherwise be closed under it.  *)
LEMMA SettledFrees ==
    ASSUME Functions \subseteq FreesSettled, NEW f \in Functions, free \in Does(f)
    PROVE  result[f].frees
<1> SUFFICES ASSUME ~result[f].frees PROVE FALSE
  OBVIOUS
<1> DEFINE unknown == {h \in Functions : ~result[h].frees}
<1>1. \A g \in unknown : ~FreesArgument(g)
  BY DEF FreesSettled
<1>2. \A g \in unknown : ArgumentOf(g) \in Functions => ArgumentOf(g) \in unknown
  BY <1>1 DEF FreesArgument, ArgumentOf
<1>3. Chain(f, ArgumentOf) \subseteq unknown
  <2>1. unknown \in SUBSET Functions /\ f \in unknown
    OBVIOUS
  <2> QED BY <2>1, <1>2 DEF Chain
<1>4. PICK g \in Chain(f, ArgumentOf) : func[g].argument = free
  BY DEF Does, free, read
<1> QED BY <1>1, <1>3, <1>4 DEF FreesArgument

(* The same for what functions return.                                     *)
LEMMA SettledFresh ==
    ASSUME Functions \subseteq FreshSettled, NEW f \in Functions, ReturnsAlloc(f)
    PROVE  result[f].returns_alloc
<1> SUFFICES ASSUME ~result[f].returns_alloc PROVE FALSE
  OBVIOUS
<1> DEFINE unknown == {h \in Functions : ~result[h].returns_alloc}
<1>1. \A g \in unknown : ~ReturnsFresh(g)
  BY DEF FreshSettled
<1>2. \A g \in unknown : ResultOf(g) \in Functions => ResultOf(g) \in unknown
  BY <1>1 DEF ReturnsFresh, ResultOf
<1>3. Chain(f, ResultOf) \subseteq unknown
  <2>1. unknown \in SUBSET Functions /\ f \in unknown
    OBVIOUS
  <2> QED BY <2>1, <1>2 DEF Chain
<1>4. PICK g \in Chain(f, ResultOf) : func[g].returns = malloc
  BY DEF ReturnsAlloc
<1> QED BY <1>1, <1>3, <1>4 DEF ReturnsFresh

(* In a module of ten functions at most, whatever their order and however  *)
(* they call each other, the summaries are complete when the rounds are    *)
(* over: a function that may return a new object is said to, and so is one *)
(* that frees its argument on some path (compute_func_summaries, whose     *)
(* loop stops after ten rounds; a chain of eleven functions can need more).*)
THEOREM SummariesEndExact ==
    ASSUME K <= 10
    PROVE  Spec => []SummariesExact
<1>1. RoundInv => SummariesExact
  <2> SUFFICES ASSUME RoundInv, Summarized, NEW f \in Functions
               PROVE  /\ ReturnsAlloc(f) => result[f].returns_alloc
                      /\ free \in Does(f) => result[f].frees
    BY DEF SummariesExact
  <2>1. Functions \subseteq FreesSettled /\ Functions \subseteq FreshSettled
    BY RoundsSettle
  <2> QED BY <2>1, SettledFrees, SettledFresh
<1> QED BY <1>1, RoundInitially, RoundsKeep, PTL DEF Spec

----------------------------------------------------------------------------
(* The meets.                                                              *)

MustOrder == <<"Escaped", "DoubleFreed", "Freed", "MaybeAllocated", "Allocated", "Unknown">>
MayOrder  == <<"Escaped", "DoubleFreed", "MaybeAllocated", "Allocated", "Freed", "Unknown">>

(* x is at the place k of the order, and nowhere else.                     *)
At(order, x, k) == k \in 1..6 /\ order[k] = x /\ \A j \in 1..6 : order[j] = x => j = k

Orders == {order \in [1..6 -> LeakState] : \A x \in LeakState : \E k \in 1..6 : At(order, x, k)}

LEMMA TheOrders == MustOrder \in Orders /\ MayOrder \in Orders
<1>1. MustOrder \in [1..6 -> LeakState] /\ MayOrder \in [1..6 -> LeakState]
  BY DEF MustOrder, MayOrder, LeakState
<1>2. ASSUME NEW x \in LeakState PROVE \E k \in 1..6 : At(MustOrder, x, k)
  BY DEF MustOrder, LeakState, At
<1>3. ASSUME NEW x \in LeakState PROVE \E k \in 1..6 : At(MayOrder, x, k)
  BY DEF MayOrder, LeakState, At
<1> QED BY <1>1, <1>2, <1>3 DEF Orders

(* FirstIn finds the state with the lower place.                           *)
LEMMA FirstInIs ==
    ASSUME NEW order \in Orders, NEW a \in LeakState, NEW b \in LeakState,
           NEW i, NEW j, At(order, a, i), At(order, b, j), i <= j
    PROVE  FirstIn(order, a, b) = a /\ FirstIn(order, b, a) = a
<1> DEFINE P(x, S) == \A y \in S : \E k, l \in DOMAIN order : k <= l /\ order[k] = x /\ order[l] = y
<1>1. DOMAIN order = 1..6 /\ i \in 1..6 /\ j \in 1..6
  BY DEF Orders, At
<1>2. P(a, {a, b})
  BY <1>1 DEF At
<1>3. ASSUME NEW x \in {a, b}, P(x, {a, b}) PROVE x = a
  <2>1. PICK k, l \in 1..6 : k <= l /\ order[k] = x /\ order[l] = a
    BY <1>1, <1>3
  <2>2. CASE x = b
    <3>1. k = j /\ l = i
      BY <2>1, <2>2 DEF At
    <3> QED BY <3>1, <2>1, <2>2, <1>1 DEF At
  <2> QED BY <2>2
<1>4. {b, a} = {a, b}
  OBVIOUS
<1> QED BY <1>2, <1>3, <1>4 DEF FirstIn

LEMMA FirstInAssociates ==
    ASSUME NEW order \in Orders, NEW a \in LeakState, NEW b \in LeakState, NEW c \in LeakState
    PROVE  /\ FirstIn(order, a, b) \in LeakState
           /\ FirstIn(order, a, b) = FirstIn(order, b, a)
           /\ FirstIn(order, FirstIn(order, a, b), c) = FirstIn(order, a, FirstIn(order, b, c))
<1>1. PICK i \in 1..6 : At(order, a, i)
  BY DEF Orders
<1>2. PICK j \in 1..6 : At(order, b, j)
  BY DEF Orders
<1>3. PICK k \in 1..6 : At(order, c, k)
  BY DEF Orders
<1>4. i <= j => FirstIn(order, a, b) = a /\ FirstIn(order, b, a) = a
  BY <1>1, <1>2, FirstInIs
<1>5. j <= i => FirstIn(order, a, b) = b /\ FirstIn(order, b, a) = b
  BY <1>1, <1>2, FirstInIs
<1>6. (j <= k => FirstIn(order, b, c) = b) /\ (k <= j => FirstIn(order, b, c) = c)
  BY <1>2, <1>3, FirstInIs
<1>7. (i <= k => FirstIn(order, a, c) = a) /\ (k <= i => FirstIn(order, a, c) = c)
  BY <1>1, <1>3, FirstInIs
<1> HIDE DEF LeakState
<1> QED BY <1>4, <1>5, <1>6, <1>7

(* In whatever order the predecessors of a block are visited, what must    *)
(* have become of an object on entry is the same (meet_must is a           *)
(* semilattice's meet).                                                    *)
THEOREM MustIgnoresOrder ==
    \A a, b, c \in LeakState :
        /\ meet_must(a, a) = a
        /\ meet_must(a, b) = meet_must(b, a)
        /\ meet_must(meet_must(a, b), c) = meet_must(a, meet_must(b, c))
<1> TAKE a, b, c \in LeakState
<1>1. meet_must(a, a) = a
  <2>1. PICK i \in 1..6 : At(MustOrder, a, i)
    BY TheOrders DEF Orders
  <2> QED BY <2>1, TheOrders, FirstInIs DEF meet_must, MustOrder
<1>2. meet_must(a, b) \in LeakState /\ meet_must(a, b) = meet_must(b, a)
  <2> HIDE DEF LeakState
  <2> QED BY TheOrders, FirstInAssociates DEF meet_must, MustOrder
<1>3. meet_must(meet_must(a, b), c) = meet_must(a, meet_must(b, c))
  <2>1. FirstIn(MustOrder, FirstIn(MustOrder, a, b), c)
            = FirstIn(MustOrder, a, FirstIn(MustOrder, b, c))
    BY TheOrders, FirstInAssociates
  <2> QED BY <2>1 DEF meet_must, MustOrder
<1> QED BY <1>1, <1>2, <1>3

(* What meet_may is, in the order of the code's tests.                     *)
LEMMA MayCascade ==
    ASSUME NEW a \in LeakState, NEW b \in LeakState
    PROVE  meet_may(a, b) =
               IF a = "Unknown" THEN b
               ELSE IF b = "Unknown" THEN a
               ELSE IF a = "Escaped" \/ b = "Escaped" THEN "Escaped"
               ELSE IF a = "DoubleFreed" \/ b = "DoubleFreed" THEN "DoubleFreed"
               ELSE IF a = b THEN a
               ELSE "MaybeAllocated"
<1>1. PICK i \in 1..6 : At(MayOrder, a, i)
  BY TheOrders DEF Orders
<1>2. PICK j \in 1..6 : At(MayOrder, b, j)
  BY TheOrders DEF Orders
<1>3. /\ i <= j => FirstIn(MayOrder, a, b) = a
      /\ j <= i => FirstIn(MayOrder, a, b) = b
  BY <1>1, <1>2, TheOrders, FirstInIs
<1>4. a = MayOrder[i] /\ b = MayOrder[j]
  BY <1>1, <1>2 DEF At
<1>5. {a, b} = {"Allocated", "Freed"} <=>
        (a = "Allocated" /\ b = "Freed") \/ (a = "Freed" /\ b = "Allocated")
  OBVIOUS
<1>6. meet_may(a, b) = IF {a, b} = {"Allocated", "Freed"} THEN "MaybeAllocated"
                       ELSE FirstIn(MayOrder, a, b)
  BY DEF meet_may, MayOrder
<1> QED BY <1>3, <1>4, <1>5, <1>6 DEF MayOrder, LeakState

(* The same of what may have become of it (meet_may).                      *)
THEOREM MayIgnoresOrder ==
    \A a, b, c \in LeakState :
        /\ meet_may(a, a) = a
        /\ meet_may(a, b) = meet_may(b, a)
        /\ meet_may(meet_may(a, b), c) = meet_may(a, meet_may(b, c))
<1> TAKE a, b, c \in LeakState
<1>1. meet_may(a, a) = a /\ meet_may(a, b) = meet_may(b, a)
  BY MayCascade
<1>2. meet_may(a, b) \in LeakState /\ meet_may(b, c) \in LeakState
  BY MayCascade DEF LeakState
<1>3. meet_may(meet_may(a, b), c) = meet_may(a, meet_may(b, c))
  BY <1>2, MayCascade
<1> QED BY <1>1, <1>3
============================================================================
