--------------------------- MODULE Dataflow_proofs ---------------------------
(***************************************************************************)
(* For every function and each of the analyses of FlowProblem: a block that *)
(* is not on the worklist satisfies its equation, the solver's steps are    *)
(* steps of FlowEquations, and what it returns is the solution by paths.    *)
(***************************************************************************)
EXTENDS Dataflow, FiniteSetTheorems, SequenceTheorems, WellFoundedInduction, TLAPS

Typed ==
    /\ problem.succ \in [Blocks -> SUBSET Blocks]
    /\ states \in [Blocks -> SUBSET Facts(problem)]
    /\ worklist \in Seq(Blocks)
    /\ returned \in BOOLEAN
    /\ returned => worklist = <<>>

(* The virtual exit is a block, and so is every target.                     *)
LEMMA CfgTyped ==
    ASSUME NEW func \in Functions
    PROVE  build_cfg(func) \in [Blocks -> SUBSET Blocks]
<1>1. entry \in Blocks /\ exit \in Blocks
    BY SizeAssumption DEF Blocks, entry, exit
<1>2. func.targets \in [Blocks \ {exit} -> SUBSET (Blocks \ {exit})]
    BY DEF Functions
<1>. QED BY <1>1, <1>2 DEF build_cfg

(* Every analysis works on the cfg of its function.                         *)
LEMMA ProblemTyped ==
    ASSUME NEW name \in Analyses, NEW func \in Functions
    PROVE  Problem(name, func).succ \in [Blocks -> SUBSET Blocks]
<1>1. Problem(name, func).succ = build_cfg(func)
    <2>1. CASE name = "live"
        BY <2>1 DEF Problem, LiveVariableAnalysis
    <2>2. CASE name = "reaching"
        BY <2>2 DEF Problem, ReachingDefinitionAnalysis
    <2>3. CASE name = "busy"
        BY <2>3 DEF Problem, VeryBusyExpressionAnalysis
    <2>4. CASE name = "dominators"
        BY <2>4 DEF Problem, DominatorAnalysis
    <2>. QED BY <2>1, <2>2, <2>3, <2>4 DEF Analyses
<1>. QED BY <1>1, CfgTyped

(* An equation gives facts of the problem.                                  *)
LEMMA EquationTyped ==
    ASSUME NEW p, NEW st \in [Blocks -> SUBSET Facts(p)], NEW b \in Blocks,
           p.succ \in [Blocks -> SUBSET Blocks]
    PROVE  Equation(p, st, b) \subseteq Facts(p)
<1>1. p.gen[b] \subseteq Facts(p) /\ p.initial \subseteq Facts(p)
        /\ p.boundary \subseteq Facts(p)
    BY DEF Facts
<1>2. Sources(p, b) \subseteq Blocks
    BY DEF Sources, predecessors
<1>3. initial_or_meet(p, st, Sources(p, b)) \subseteq Facts(p)
    <2>1. \A s \in {st[m] : m \in Sources(p, b)} : s \subseteq Facts(p)
        BY <1>2
    <2>2. meet(p, {st[m] : m \in Sources(p, b)}) \subseteq Facts(p)
        BY <2>1 DEF meet
    <2>. QED BY <1>1, <2>2 DEF initial_or_meet
<1>. QED BY <1>1, <1>3 DEF Equation, transfer

(* Whose equation reads the state of b is among the dependents of b.        *)
LEMMA SourcesDepend ==
    ASSUME NEW p, NEW b \in Blocks, NEW m \in Sources(p, b), NEW id,
           m = id
    PROVE  b \in Dependents(p, id)
BY DEF Sources, Dependents, predecessors

(* An equation reads nothing but the states of its sources.                 *)
LEMMA EquationLocal ==
    ASSUME NEW p, NEW st, NEW st2, NEW b,
           \A m \in Sources(p, b) : st[m] = st2[m]
    PROVE  Equation(p, st, b) = Equation(p, st2, b)
<1>1. {st[m] : m \in Sources(p, b)} = {st2[m] : m \in Sources(p, b)}
    OBVIOUS
<1>. QED BY <1>1 DEF Equation, initial_or_meet

(* Who depends on a block is a block.                                       *)
LEMMA DependentsAreBlocks ==
    ASSUME NEW p, NEW b \in Blocks, p.succ \in [Blocks -> SUBSET Blocks]
    PROVE  Dependents(p, b) \subseteq Blocks
BY DEF Dependents, predecessors

(* Taking the front block loses that block only.                            *)
LEMMA TailMembers ==
    ASSUME NEW q \in Seq(Blocks), q # <<>>
    PROVE  /\ Head(q) \in Blocks
           /\ Tail(q) \in Seq(Blocks)
           /\ Members(q) \subseteq Members(Tail(q)) \cup {Head(q)}
<1>1. \A i \in DOMAIN q : i # 1 => i - 1 \in DOMAIN Tail(q) /\ Tail(q)[i - 1] = q[i]
    OBVIOUS
<1>2. Head(q) = q[1] /\ Head(q) \in Blocks /\ Tail(q) \in Seq(Blocks)
    OBVIOUS
<1>3. ASSUME NEW i \in DOMAIN q
      PROVE  q[i] \in Members(Tail(q)) \cup {Head(q)}
    <2>1. CASE i = 1
        BY <2>1, <1>2
    <2>2. CASE i # 1
        BY <2>2, <1>1 DEF Members
    <2>. QED BY <2>1, <2>2
<1>. QED BY <1>2, <1>3 DEF Members

(* Pushing blocks keeps what is on the list and adds all of them.           *)
LEMMA PushMembers ==
    ASSUME NEW q \in Seq(Blocks), NEW S \in SUBSET Blocks,
           NEW r \in push_unique(q, S)
    PROVE  /\ r \in Seq(Blocks)
           /\ Members(q) \cup S \subseteq Members(r)
<1>. DEFINE new == S \ Members(q)
<1>1. IsFiniteSet(Blocks)
    BY SizeAssumption, FS_Interval DEF Blocks
<1>2. Cardinality(new) \in Nat
    BY <1>1, FS_Subset, FS_CardinalityType
<1>3. PICK order \in [1..Cardinality(new) -> new] : Members(order) = new /\ r = q \o order
    BY DEF push_unique
<1>4. order \in Seq(Blocks) /\ Len(order) = Cardinality(new)
    <2>1. order \in [1..Cardinality(new) -> Blocks]
        BY <1>3
    <2>. HIDE DEF new
    <2>. QED BY <2>1, <1>2
<1>5. r \in Seq(Blocks) /\ Len(r) = Len(q) + Len(order)
    <2>1. r = q \o order
        BY <1>3
    <2>. HIDE DEF new
    <2>2. order \in Seq(Blocks)
        BY <1>4
    <2>. QED BY ONLY <2>1, <2>2, q \in Seq(Blocks)
<1>6. \A i \in DOMAIN q : i \in DOMAIN r /\ r[i] = q[i]
    BY <1>3, <1>4, <1>5
<1>7. \A i \in DOMAIN order : i + Len(q) \in DOMAIN r /\ r[i + Len(q)] = order[i]
    <2>. SUFFICES ASSUME NEW i \in DOMAIN order
                  PROVE  i + Len(q) \in DOMAIN r /\ r[i + Len(q)] = order[i]
        OBVIOUS
    <2>. HIDE DEF new
    <2>1. i \in 1..Len(order) /\ Len(q) \in Nat /\ Len(order) \in Nat
        BY <1>4
    <2>2. i + Len(q) \in 1..Len(r) /\ i + Len(q) > Len(q) /\ i + Len(q) - Len(q) = i
        BY <2>1, <1>5
    <2>3. r = q \o order
        BY <1>3
    <2>. QED BY <2>2, <2>3, <1>4, <1>5
<1>8. Members(q) \subseteq Members(r)
    BY <1>6 DEF Members
<1>9. new \subseteq Members(r)
    <2>1. Members(order) \subseteq Members(r)
        BY <1>7 DEF Members
    <2>. QED BY <2>1, <1>3
<1>. QED BY <1>5, <1>8, <1>9

----------------------------------------------------------------------------
(* The problem, the states and the worklist start with their types.         *)
LEMMA InitTyped == Init => Typed
<1>. SUFFICES ASSUME Init PROVE Typed
    OBVIOUS
<1>1. PICK name \in Analyses, func \in Functions : problem = Problem(name, func)
    <2>1. PICK call \in Problems : problem = Problem(call[1], call[2])
        BY DEF Init
    <2>2. call[1] \in Analyses /\ call[2] \in Functions
        BY ProblemsAssumption
    <2>. QED BY <2>1, <2>2
<1>2. problem.succ \in [Blocks -> SUBSET Blocks]
    BY <1>1, ProblemTyped
<1>3. states \in [Blocks -> SUBSET Facts(problem)]
    BY DEF Init, Facts
<1>4. worklist \in Seq(Blocks)
    <2>1. N + 1 \in Nat /\ \A i \in 1..(N + 1) : i - 1 \in Blocks
        BY SizeAssumption DEF Blocks
    <2>. QED BY <2>1 DEF Init
<1>. QED BY <1>2, <1>3, <1>4 DEF Init, Typed

(* And keep them.                                                           *)
LEMMA NextTyped == Typed /\ [Next]_vars => Typed'
<1>. SUFFICES ASSUME Typed, [Next]_vars PROVE Typed'
    OBVIOUS
<1>1. CASE ProcessBlock
    <2>. DEFINE id == Head(worklist)
                new == Equation(problem, states, id)
    <2>1. id \in Blocks /\ Tail(worklist) \in Seq(Blocks)
        BY <1>1, TailMembers DEF Typed, ProcessBlock
    <2>2. new \subseteq Facts(problem)
        BY <2>1, EquationTyped DEF Typed
    <2>3. states' \in [Blocks -> SUBSET Facts(problem)]
        BY <1>1, <2>1, <2>2 DEF Typed, ProcessBlock
    <2>4. Dependents(problem, id) \subseteq Blocks
        BY <2>1, DependentsAreBlocks DEF Typed
    <2>5. worklist' \in Seq(Blocks)
        BY <1>1, <2>1, <2>4, PushMembers DEF ProcessBlock
    <2>. QED BY <1>1, <2>3, <2>5 DEF Typed, ProcessBlock
<1>2. CASE Return
    BY <1>2 DEF Typed, Return
<1>3. CASE UNCHANGED vars
    BY <1>3 DEF Typed, vars
<1>. QED BY <1>1, <1>2, <1>3 DEF Next

(* The solver's states, worklist and result keep their types.               *)
THEOREM TypeCorrect == Spec => []TypeOK
<1>1. Typed => TypeOK
    BY DEF Typed, TypeOK
<1>. QED BY <1>1, InitTyped, NextTyped, PTL DEF Spec

----------------------------------------------------------------------------
(* Every block is on the list to begin with.                                *)
LEMMA InitSettled == Init => SettledOffList
<1>. SUFFICES ASSUME Init, NEW b \in Blocks PROVE b \in Members(worklist)
    BY DEF SettledOffList
<1>1. b + 1 \in 1..(N + 1) /\ (b + 1) - 1 = b
    BY SizeAssumption DEF Blocks
<1>2. b + 1 \in DOMAIN worklist /\ worklist[b + 1] = b
    BY <1>1 DEF Init
<1>. QED BY <1>2 DEF Members

(* A changed state puts back whoever reads it, so what stays off the list   *)
(* reads the states it read before.                                         *)
LEMMA NextSettled == Typed /\ SettledOffList /\ [Next]_vars => SettledOffList'
<1>. SUFFICES ASSUME Typed, SettledOffList, [Next]_vars PROVE SettledOffList'
    OBVIOUS
<1>1. CASE ProcessBlock
    <2>. DEFINE id == Head(worklist)
                new == Equation(problem, states, id)
    <2>1. /\ id \in Blocks /\ Tail(worklist) \in Seq(Blocks)
          /\ Members(worklist) \subseteq Members(Tail(worklist)) \cup {id}
        BY <1>1, TailMembers DEF Typed, ProcessBlock
    <2>2. problem' = problem
        BY <1>1 DEF ProcessBlock
    <2>3. CASE new # states[id]
        <3>1. /\ states' = [states EXCEPT ![id] = new]
              /\ worklist' \in push_unique(Tail(worklist), Dependents(problem, id))
            BY <1>1, <2>3 DEF ProcessBlock
        <3>2. Dependents(problem, id) \in SUBSET Blocks
            BY <2>1, DependentsAreBlocks DEF Typed
        <3>3. Members(Tail(worklist)) \cup Dependents(problem, id) \subseteq Members(worklist')
            BY <3>1, <3>2, <2>1, PushMembers
        <3>. SUFFICES ASSUME NEW b \in Blocks \ Members(worklist')
                      PROVE  states'[b] = Equation(problem, states', b)
            BY <2>2 DEF SettledOffList, Members
        <3>4. b \notin Dependents(problem, id)
            BY <3>3
        <3>5. \A m \in Sources(problem, b) : m # id
            BY <3>4, SourcesDepend
        <3>6. \A m \in Sources(problem, b) : states[m] = states'[m]
            <4>1. Sources(problem, b) \subseteq Blocks
                BY DEF Sources, predecessors, Typed
            <4>. QED BY <4>1, <3>1, <3>5 DEF Typed
        <3>7. Equation(problem, states', b) = Equation(problem, states, b)
            BY <3>6, EquationLocal
        <3>8. CASE b = id
            BY <3>1, <3>7, <3>8, <2>1 DEF Typed
        <3>9. CASE b # id
            <4>1. b \notin Members(worklist)
                BY <3>3, <3>9, <2>1
            <4>2. states[b] = Equation(problem, states, b)
                BY <4>1 DEF SettledOffList
            <4>. QED BY <4>2, <3>1, <3>7, <3>9 DEF Typed
        <3>. QED BY <3>8, <3>9
    <2>4. CASE new = states[id]
        <3>1. states' = states /\ worklist' = Tail(worklist)
            BY <1>1, <2>4 DEF ProcessBlock
        <3>. SUFFICES ASSUME NEW b \in Blocks \ Members(Tail(worklist))
                      PROVE  states[b] = Equation(problem, states, b)
            BY <3>1, <2>2 DEF SettledOffList, Members
        <3>2. CASE b = id
            BY <3>2, <2>4
        <3>3. CASE b # id
            BY <3>3, <2>1 DEF SettledOffList
        <3>. QED BY <3>2, <3>3
    <2>. QED BY <2>3, <2>4
<1>2. CASE Return
    BY <1>2 DEF SettledOffList, Return, Members
<1>3. CASE UNCHANGED vars
    BY <1>3 DEF SettledOffList, vars, Members
<1>. QED BY <1>1, <1>2, <1>3 DEF Next

(* Whatever is not on the worklist satisfies its equation (dataflow.h,      *)
(* lines 93-97 and 105-109).                                                *)
THEOREM AlwaysSettledOffList == Spec => []SettledOffList
<1>. DEFINE Inv == Typed /\ SettledOffList
<1>1. Init => Inv
    BY InitTyped, InitSettled
<1>2. Inv /\ [Next]_vars => Inv'
    BY NextTyped, NextSettled
<1>. QED BY <1>1, <1>2, PTL DEF Spec

----------------------------------------------------------------------------
(* The safety part of SolvesTheEquations: every step of the loop makes one  *)
(* state what its equation says or changes nothing, and the states returned *)
(* satisfy all equations.                                                   *)
THEOREM OnlySolutionsReturned ==
    Spec => Equations!Init /\ [][Equations!Next]_(Equations!vars)
<1>. DEFINE Inv == Typed /\ SettledOffList
<1>1. Init => Equations!Init
    BY DEF Init, Equations!Init
<1>2. Inv /\ [Next]_vars => [Equations!Next]_(Equations!vars)
    <2>. SUFFICES ASSUME Inv, [Next]_vars PROVE [Equations!Next]_(Equations!vars)
        OBVIOUS
    <2>1. CASE ProcessBlock
        <3>1. Head(worklist) \in Blocks
            BY <2>1, TailMembers DEF Typed, ProcessBlock
        <3>2. CASE UNCHANGED states
            BY <2>1, <3>2 DEF ProcessBlock, Equations!vars
        <3>3. CASE states' = [states EXCEPT ![Head(worklist)] =
                                Equation(problem, states, Head(worklist))]
            <4>1. Equations!Update(Head(worklist))
                BY <2>1, <3>3 DEF ProcessBlock, Equations!Update, Typed
            <4>. QED BY <3>1, <4>1 DEF Equations!Next
        <3>. QED BY <2>1, <3>2, <3>3 DEF ProcessBlock
    <2>2. CASE Return
        <3>1. Members(worklist) = {}
            BY <2>2 DEF Return, Members
        <3>2. Equations!Solved
            BY <3>1 DEF SettledOffList, Equations!Solved
        <3>3. Equations!Finish
            BY <2>2, <3>2 DEF Return, Equations!Finish
        <3>. QED BY <3>3 DEF Equations!Next
    <2>3. CASE UNCHANGED vars
        BY <2>3 DEF vars, Equations!vars
    <2>. QED BY <2>1, <2>2, <2>3 DEF Next
<1>3. Spec => []Inv
    <2>1. Init => Inv
        BY InitTyped, InitSettled
    <2>2. Inv /\ [Next]_vars => Inv'
        BY NextTyped, NextSettled
    <2>. QED BY <2>1, <2>2, PTL DEF Spec
<1>. QED BY <1>1, <1>2, <1>3, PTL DEF Spec

----------------------------------------------------------------------------
(* Numbers and paths.                                                       *)

(* A set of numbers up to k has a last one.                                 *)
LEMMA LastOf ==
    ASSUME NEW k \in Nat, NEW T \in SUBSET (1..k), T # {}
    PROVE  \E i \in T : \A j \in T : j <= i
<1>. DEFINE After(i) == (i + 1)..k
            U == {After(i) : i \in T}
<1>1. IsFiniteSet(1..k)
    BY FS_Interval
<1>2. U \subseteq FiniteSubsetsOf(1..k) /\ U # {}
    <2>1. ASSUME NEW i \in T PROVE After(i) \in FiniteSubsetsOf(1..k)
        <3>1. After(i) \subseteq 1..k
            OBVIOUS
        <3>. QED BY <1>1, <3>1, FS_Subset DEF FiniteSubsetsOf
    <2>. QED BY <2>1
<1>3. PICK u \in U : \A v \in U : <<v, u>> \notin StrictSubsetOrdering(1..k)
    <2>. HIDE DEF U
    <2>. QED BY <1>2, FS_StrictSubsetOrderingWellFounded, WFMin
<1>4. PICK i \in T : u = After(i)
    BY <1>3
<1>5. ASSUME NEW j \in T, j > i PROVE FALSE
    <2>1. After(j) \subseteq After(i) /\ j \in After(i) /\ j \notin After(j)
        BY <1>5
    <2>2. <<After(j), After(i)>> \in StrictSubsetOrdering(1..k)
        <3>1. After(j) \in SUBSET (1..k) /\ After(i) \in SUBSET (1..k)
            OBVIOUS
        <3>. HIDE DEF After
        <3>. QED BY <2>1, <3>1 DEF StrictSubsetOrdering
    <2>. QED BY <2>2, <1>3, <1>4
<1>. QED BY <1>5

(* And a first one.                                                         *)
LEMMA FirstOf ==
    ASSUME NEW k \in Nat, NEW T \in SUBSET (1..k), T # {}
    PROVE  \E i \in T : \A j \in T : i <= j
<1>. DEFINE U == {k + 1 - i : i \in T}
<1>1. U \in SUBSET (1..k) /\ U # {}
    <2>1. \A i \in T : k + 1 - i \in 1..k
        OBVIOUS
    <2>. QED BY <2>1
<1>2. PICK u \in U : \A v \in U : v <= u
    <2>. HIDE DEF U
    <2>. QED BY <1>1, LastOf
<1>3. PICK i \in T : u = k + 1 - i
    BY <1>2
<1>4. \A j \in T : k + 1 - j <= k + 1 - i
    BY <1>2, <1>3
<1>. QED BY <1>4

(* A path from b: blocks each of which takes its input from the next one.   *)
IsPath(p, b, path) ==
    /\ path \in Seq(Blocks) /\ path # <<>> /\ path[1] = b
    /\ \A i, j \in 1..Len(path) : path[i] = path[j] => i = j
    /\ \A i \in 1..(Len(path) - 1) :
          path[i] # Edge(p) /\ path[i + 1] \in Sources(p, path[i])

(* A path of one block more goes on from its last block to a new one.       *)
LEMMA PathLonger ==
    ASSUME NEW p, NEW b, NEW path, IsPath(p, b, path), NEW m \in Blocks,
           m \in Sources(p, path[Len(path)]) \ Visited(path), path[Len(path)] # Edge(p)
    PROVE  IsPath(p, b, Append(path, m)) /\ Len(Append(path, m)) = Len(path) + 1
<1>. DEFINE longer == Append(path, m)
<1>0. PICK n : n = Len(path)
    OBVIOUS
<1>1. /\ path \in Seq(Blocks) /\ n \in Nat /\ n >= 1 /\ DOMAIN path = 1..n
      /\ \A i \in 1..n : path[i] # m
    <2>1. path \in Seq(Blocks) /\ path # <<>>
        BY DEF IsPath
    <2>2. n \in Nat /\ n >= 1 /\ DOMAIN path = 1..n
        BY <2>1, <1>0
    <2>. QED BY <2>1, <2>2 DEF Visited
<1>2. /\ longer \in Seq(Blocks) /\ Len(longer) = n + 1 /\ longer[n + 1] = m
      /\ \A i \in 1..n : longer[i] = path[i]
    BY <1>0, <1>1
<1>. HIDE DEF longer
<1>3. \A i, j \in 1..(n + 1) : longer[i] = longer[j] => i = j
    <2>1. 1..(n + 1) = (1..n) \cup {n + 1}
        BY <1>1
    <2>. QED BY <1>0, <1>1, <1>2, <2>1 DEF IsPath
<1>4. ASSUME NEW i \in 1..n
      PROVE  longer[i] # Edge(p) /\ longer[i + 1] \in Sources(p, longer[i])
    <2>1. CASE i = n
        BY <2>1, <1>0, <1>1, <1>2
    <2>2. CASE i # n
        <3>1. i \in 1..(n - 1) /\ i + 1 \in 1..n
            BY <2>2, <1>1
        <3>. QED BY <3>1, <1>0, <1>2 DEF IsPath
    <2>. QED BY <2>1, <2>2
<1>5. longer # <<>> /\ longer[1] = b
    BY <1>1, <1>2 DEF IsPath
<1>6. (n + 1) - 1 = n
    BY <1>1
<1>7. IsPath(p, b, longer)
    BY <1>2, <1>3, <1>4, <1>5, <1>6 DEF IsPath
<1>. QED BY <1>0, <1>2, <1>7 DEF longer

(* And every path but the shortest arises so.                               *)
LEMMA PathShorter ==
    ASSUME NEW p, NEW b, NEW path, IsPath(p, b, path), Len(path) > 1
    PROVE  LET front == SubSeq(path, 1, Len(path) - 1)
           IN  IsPath(p, b, front) /\ path \in Longer(p, front) /\ Len(front) = Len(path) - 1
<1>0. PICK n : n = Len(path) - 1
    OBVIOUS
<1>. DEFINE front == SubSeq(path, 1, n)
            m == path[n + 1]
<1>1. /\ path \in Seq(Blocks) /\ n \in Nat /\ n >= 1 /\ Len(path) = n + 1
      /\ DOMAIN path = 1..(n + 1)
    <2>1. path \in Seq(Blocks)
        BY DEF IsPath
    <2>. QED BY <2>1, <1>0
<1>2. /\ front \in Seq(Blocks) /\ Len(front) = n /\ DOMAIN front = 1..n
      /\ \A i \in 1..n : front[i] = path[i]
    BY <1>1
<1>3. path = Append(front, m)
    BY <1>1, <1>2
<1>. HIDE DEF front
<1>4. IsPath(p, b, front)
    <2>1. \A i, j \in 1..n : i \in 1..(n + 1) /\ (i \in 1..(n - 1) => i \in 1..n /\ i + 1 \in 1..n)
        BY <1>1
    <2>2. 1 \in 1..n /\ front # <<>>
        BY <1>1, <1>2
    <2>3. \A i \in 1..(n - 1) : i \in 1..n /\ i + 1 \in 1..n /\ i \in 1..(Len(path) - 1)
        BY <1>1
    <2>. QED BY <1>1, <1>2, <2>1, <2>2, <2>3 DEF IsPath
<1>5. front[n] # Edge(p) /\ m \in Sources(p, front[n])
    <2>1. n \in 1..(Len(path) - 1) /\ n \in 1..n
        BY <1>1
    <2>. QED BY <2>1, <1>2 DEF IsPath
<1>6. m \notin Visited(front)
    <2>1. \A i \in 1..n : i # n + 1 /\ i \in 1..Len(path) /\ n + 1 \in 1..Len(path)
        BY <1>1
    <2>. QED BY <1>2, <2>1 DEF IsPath, Visited
<1>7. path \in Longer(p, front)
    BY <1>2, <1>3, <1>5, <1>6 DEF Longer
<1>. QED BY <1>0, <1>2, <1>4, <1>7 DEF front

(* No path is longer than there are blocks.                                 *)
LEMMA PathLength ==
    ASSUME NEW p, NEW b, NEW path, IsPath(p, b, path)
    PROVE  Len(path) \in 1..(N + 1)
<1>1. path \in [1..Len(path) -> Blocks] /\ Len(path) \in Nat /\ Len(path) >= 1
    BY DEF IsPath
<1>2. path \in Injection(1..Len(path), Blocks)
    BY <1>1 DEF IsPath, Injection, IsInjective
<1>3. IsFiniteSet(Blocks) /\ Cardinality(Blocks) = N + 1
    <2>1. 0 \in Int /\ N \in Int /\ 0 <= N /\ N - 0 + 1 = N + 1
        BY SizeAssumption
    <2>. QED BY <2>1, FS_Interval DEF Blocks
<1>4. Cardinality(1..Len(path)) = Len(path)
    BY <1>1, FS_Interval
<1>5. Cardinality(1..Len(path)) <= Cardinality(Blocks)
    BY <1>2, <1>3, FS_Injection
<1>. QED BY <1>1, <1>3, <1>4, <1>5

(* The paths of k blocks, and the equations that define Paths.              *)
PathsSoLong(p, b, k) == {path \in Seq(Blocks) : IsPath(p, b, path) /\ Len(path) = k}
Grown(p, b, paths) ==
    paths = [k \in 1..(N + 1) |->
                IF k = 1 THEN {<<b>>} ELSE UNION {Longer(p, path) : path \in paths[k - 1]}]

(* The paths of k blocks are those of one block less, made longer.          *)
LEMMA PathsGrow ==
    ASSUME NEW p, p.succ \in [Blocks -> SUBSET Blocks], NEW b \in Blocks,
           NEW k \in 1..(N + 1)
    PROVE  PathsSoLong(p, b, k) =
              IF k = 1 THEN {<<b>>}
              ELSE UNION {Longer(p, path) : path \in PathsSoLong(p, b, k - 1)}
<1>0. N \in Nat /\ k \in Nat
    BY SizeAssumption
<1>1. ASSUME k = 1
      PROVE  PathsSoLong(p, b, k) = {<<b>>}
    <2>1. <<b>> \in PathsSoLong(p, b, 1)
        <3>1. <<b>> \in Seq(Blocks) /\ Len(<<b>>) = 1 /\ <<b>>[1] = b /\ <<b>> # <<>>
            OBVIOUS
        <3>2. /\ \A i, j \in 1..1 : i = j
              /\ 1..(1 - 1) = {}
            OBVIOUS
        <3>. QED BY <3>1, <3>2 DEF PathsSoLong, IsPath
    <2>2. ASSUME NEW path \in PathsSoLong(p, b, 1) PROVE path = <<b>>
        <3>1. path \in Seq(Blocks) /\ Len(path) = 1 /\ path[1] = b
            BY DEF PathsSoLong, IsPath
        <3>. QED BY <3>1
    <2>. QED BY <1>1, <2>1, <2>2
<1>2. ASSUME k # 1
      PROVE  PathsSoLong(p, b, k) =
                UNION {Longer(p, path) : path \in PathsSoLong(p, b, k - 1)}
    <2>1. ASSUME NEW path \in PathsSoLong(p, b, k)
          PROVE  \E front \in PathsSoLong(p, b, k - 1) : path \in Longer(p, front)
        <3>1. IsPath(p, b, path) /\ Len(path) > 1 /\ Len(path) = k
            BY <1>0, <1>2, <2>1 DEF PathsSoLong
        <3>2. PICK front : /\ IsPath(p, b, front) /\ path \in Longer(p, front)
                           /\ Len(front) = Len(path) - 1
            BY <3>1, PathShorter
        <3>3. front \in PathsSoLong(p, b, k - 1)
            BY <3>1, <3>2 DEF PathsSoLong, IsPath
        <3>. QED BY <3>2, <3>3
    <2>2. ASSUME NEW front \in PathsSoLong(p, b, k - 1), NEW path \in Longer(p, front)
          PROVE  path \in PathsSoLong(p, b, k)
        <3>1. IsPath(p, b, front) /\ Len(front) = k - 1 /\ front \in Seq(Blocks)
            BY DEF PathsSoLong
        <3>2. PICK m : /\ front[Len(front)] # Edge(p)
                       /\ m \in Sources(p, front[Len(front)]) \ Visited(front)
                       /\ path = Append(front, m)
            BY DEF Longer
        <3>3. front[Len(front)] \in Blocks
            <4>1. Len(front) \in 1..Len(front)
                BY <3>1 DEF IsPath
            <4>. QED BY <3>1, <4>1
        <3>4. m \in Blocks
            BY <3>2, <3>3 DEF Sources, predecessors
        <3>5. IsPath(p, b, path) /\ Len(path) = Len(front) + 1
            BY <3>1, <3>2, <3>4, PathLonger
        <3>6. Len(path) = k
            BY <3>1, <3>5, <1>0
        <3>. QED BY <3>5, <3>6 DEF PathsSoLong, IsPath
    <2>. QED BY <2>1, <2>2
<1>. QED BY <1>1, <1>2

(* And what the recursion defines are the paths.                            *)
LEMMA PathsAre ==
    ASSUME NEW p, p.succ \in [Blocks -> SUBSET Blocks], NEW b \in Blocks, NEW path
    PROVE  path \in Paths(p, b) <=> IsPath(p, b, path)
<1>. DEFINE paths == PathsOfLength(p, b)
<1>0. N \in Nat
    BY SizeAssumption
<1>. DEFINE all == [k \in 1..(N + 1) |-> PathsSoLong(p, b, k)]
<1>1. Grown(p, b, all)
    <2>1. \A k \in 1..(N + 1) : k # 1 => all[k - 1] = PathsSoLong(p, b, k - 1)
        <3>1. \A k \in 1..(N + 1) : k # 1 => k - 1 \in 1..(N + 1)
            BY <1>0
        <3>. QED BY <3>1
    <2>2. all = [k \in 1..(N + 1) |-> PathsSoLong(p, b, k)]
        OBVIOUS
    <2>. HIDE DEF all
    <2>3. ASSUME NEW k \in 1..(N + 1)
          PROVE  PathsSoLong(p, b, k) =
                    IF k = 1 THEN {<<b>>} ELSE UNION {Longer(p, q) : q \in all[k - 1]}
        BY <2>1, PathsGrow
    <2>. QED BY <2>2, <2>3 DEF Grown
<1>. HIDE DEF all
<1>2. Grown(p, b, paths)
    BY <1>1 DEF Grown, PathsOfLength
<1>. HIDE DEF paths
<1>3. \A k \in 1..(N + 1) : paths[k] = PathsSoLong(p, b, k)
    <2>. DEFINE T == {k \in 1..(N + 1) : paths[k] # PathsSoLong(p, b, k)}
    <2>1. SUFFICES ASSUME T # {} PROVE FALSE
        OBVIOUS
    <2>2. PICK k \in T : \A j \in T : k <= j
        <3>1. T \in SUBSET (1..(N + 1)) /\ N + 1 \in Nat
            BY <1>0
        <3>. HIDE DEF T
        <3>. QED BY <2>1, <3>1, FirstOf
    <2>3. paths[k] = IF k = 1 THEN {<<b>>} ELSE UNION {Longer(p, q) : q \in paths[k - 1]}
        BY <1>2, <2>2 DEF Grown
    <2>4. k # 1 => paths[k - 1] = PathsSoLong(p, b, k - 1)
        <3>1. HAVE k # 1
        <3>2. k - 1 \in 1..(N + 1) /\ ~ (k <= k - 1)
            BY <1>0, <2>2, <3>1
        <3>. QED BY <2>2, <3>2
    <2>5. paths[k] = PathsSoLong(p, b, k)
        BY <2>2, <2>3, <2>4, PathsGrow
    <2>. QED BY <2>2, <2>5
<1>4. Paths(p, b) = UNION {PathsSoLong(p, b, k) : k \in 1..(N + 1)}
    BY <1>3 DEF Paths, paths
<1>5. IsPath(p, b, path) => Len(path) \in 1..(N + 1) /\ path \in Seq(Blocks)
    BY PathLength DEF IsPath
<1>. QED BY <1>4, <1>5 DEF PathsSoLong

----------------------------------------------------------------------------
(* The blocks that paths reach, and least sets.                             *)

(* What ends in a block of A and is in C in front of it.                    *)
Carries(path, A, C) ==
    path[Len(path)] \in A /\ \A i \in 1..(Len(path) - 1) : path[i] \in C

(* The least set that holds A and every block of C with a source in the set.*)
FedBy(p, A, C, S) ==
    /\ A \subseteq S
    /\ \A c \in C \ {Edge(p)} : Sources(p, c) \cap S # {} => c \in S
Fed(p, A, C) == {b \in Blocks : \A S \in SUBSET Blocks : FedBy(p, A, C, S) => b \in S}

(* The least set that holds A and every block of C with all of its sources, *)
(* and at least one, in the set.                                            *)
HeldBy(p, A, C, S) ==
    /\ A \subseteq S
    /\ \A c \in C \ {Edge(p)} : Sources(p, c) # {} /\ Sources(p, c) \subseteq S => c \in S
Held(p, A, C) == {b \in Blocks : \A S \in SUBSET Blocks : HeldBy(p, A, C, S) => b \in S}

(* Both are such sets themselves.                                           *)
LEMMA LeastAreClosed ==
    ASSUME NEW p, NEW A \in SUBSET Blocks, NEW C \in SUBSET Blocks
    PROVE  /\ Fed(p, A, C) \in SUBSET Blocks /\ FedBy(p, A, C, Fed(p, A, C))
           /\ Held(p, A, C) \in SUBSET Blocks /\ HeldBy(p, A, C, Held(p, A, C))
<1>1. FedBy(p, A, C, Fed(p, A, C))
    <2>1. ASSUME NEW c \in C \ {Edge(p)}, NEW m \in Sources(p, c) \cap Fed(p, A, C),
                 NEW S \in SUBSET Blocks, FedBy(p, A, C, S)
          PROVE  c \in S
        <3>1. m \in S
            BY <2>1 DEF Fed
        <3>. QED BY <2>1, <3>1 DEF FedBy
    <2>2. \A c \in C \ {Edge(p)} : Sources(p, c) \cap Fed(p, A, C) # {} => c \in Fed(p, A, C)
        BY <2>1 DEF Fed
    <2>3. A \subseteq Fed(p, A, C)
        BY DEF Fed, FedBy
    <2>. QED BY <2>2, <2>3 DEF FedBy
<1>2. HeldBy(p, A, C, Held(p, A, C))
    <2>1. ASSUME NEW c \in C \ {Edge(p)}, Sources(p, c) # {},
                 Sources(p, c) \subseteq Held(p, A, C),
                 NEW S \in SUBSET Blocks, HeldBy(p, A, C, S)
          PROVE  c \in S
        <3>1. Sources(p, c) \subseteq S
            BY <2>1 DEF Held
        <3>. QED BY <2>1, <3>1 DEF HeldBy
    <2>2. \A c \in C \ {Edge(p)} :
              Sources(p, c) # {} /\ Sources(p, c) \subseteq Held(p, A, C)
              => c \in Held(p, A, C)
        BY <2>1 DEF Held
    <2>3. A \subseteq Held(p, A, C)
        BY DEF Held, HeldBy
    <2>. QED BY <2>2, <2>3 DEF HeldBy
<1>. QED BY <1>1, <1>2 DEF Fed, Held

(* From any block of a path on, it is a path that carries as much.          *)
LEMMA PathSuffix ==
    ASSUME NEW p, NEW b, NEW path, IsPath(p, b, path), NEW A, NEW C, Carries(path, A, C),
           NEW i \in 1..Len(path)
    PROVE  \E rest : IsPath(p, path[i], rest) /\ Carries(rest, A, C)
<1>0. PICK n : n = Len(path)
    OBVIOUS
<1>. DEFINE rest == SubSeq(path, i, n)
<1>1. path \in Seq(Blocks) /\ n \in Nat /\ i \in 1..n
    <2>1. path \in Seq(Blocks)
        BY DEF IsPath
    <2>. QED BY <2>1, <1>0
<1>2. PICK k \in Nat : k = n + 1 - i /\ k >= 1
    BY <1>1
<1>3. /\ rest \in Seq(Blocks) /\ Len(rest) = k
      /\ \A j \in 1..k : rest[j] = path[j + i - 1]
    BY <1>0, <1>1, <1>2
<1>4. \A j \in 1..k : j + i - 1 \in 1..n
    BY <1>1, <1>2
<1>5. \A j \in 1..(k - 1) : /\ j \in 1..k /\ j + 1 \in 1..k
                            /\ j + i - 1 \in 1..(n - 1)
                            /\ (j + 1) + i - 1 = (j + i - 1) + 1
    BY <1>1, <1>2
<1>6. 1 \in 1..k /\ 1 + i - 1 = i /\ k + i - 1 = n /\ k \in 1..k
    BY <1>1, <1>2
<1>. HIDE DEF rest
<1>7. rest # <<>> /\ rest[1] = path[i]
    BY <1>2, <1>3, <1>6
<1>8. ASSUME NEW j \in 1..k, NEW l \in 1..k, rest[j] = rest[l]
      PROVE  j = l
    <2>1. j + i - 1 = l + i - 1
        BY <1>0, <1>3, <1>4, <1>8 DEF IsPath
    <2>. QED BY <2>1, <1>1
<1>9. \A j \in 1..(k - 1) : rest[j] # Edge(p) /\ rest[j + 1] \in Sources(p, rest[j])
    BY <1>0, <1>3, <1>5 DEF IsPath
<1>10. IsPath(p, path[i], rest)
    BY <1>3, <1>7, <1>8, <1>9 DEF IsPath
<1>11. Carries(rest, A, C)
    BY <1>0, <1>3, <1>5, <1>6 DEF Carries
<1>. QED BY <1>10, <1>11

(* A path may start one block earlier.                                      *)
LEMMA PathFrom ==
    ASSUME NEW p, NEW c \in Blocks, NEW m \in Sources(p, c), c # Edge(p),
           NEW path, IsPath(p, m, path), NEW A, NEW C, c \in C, Carries(path, A, C)
    PROVE  \E longer : IsPath(p, c, longer) /\ Carries(longer, A, C)
<1>0. PICK n : n = Len(path)
    OBVIOUS
<1>1. path \in Seq(Blocks) /\ n \in Nat /\ n >= 1
    <2>1. path \in Seq(Blocks) /\ path # <<>>
        BY DEF IsPath
    <2>. QED BY <2>1, <1>0
<1>2. CASE \E i \in 1..n : path[i] = c
    BY <1>0, <1>2, PathSuffix
<1>3. CASE \A i \in 1..n : path[i] # c
    <2>. DEFINE longer == <<c>> \o path
    <2>1. /\ longer \in Seq(Blocks) /\ Len(longer) = n + 1 /\ longer[1] = c
          /\ \A i \in 2..(n + 1) : longer[i] = path[i - 1]
        <3>1. <<c>> \in Seq(Blocks) /\ Len(<<c>>) = 1 /\ <<c>>[1] = c
            OBVIOUS
        <3>. QED BY <1>0, <1>1, <3>1
    <2>. HIDE DEF longer
    <2>2. \A i \in 1..(n + 1) : i # 1 => i \in 2..(n + 1) /\ i - 1 \in 1..n
        BY <1>1
    <2>3. ASSUME NEW i \in 1..(n + 1), NEW j \in 1..(n + 1), longer[i] = longer[j]
          PROVE  i = j
        <3>1. CASE i = 1 \/ j = 1
            BY <1>3, <2>1, <2>2, <2>3, <3>1
        <3>2. CASE i # 1 /\ j # 1
            <4>1. path[i - 1] = path[j - 1] /\ i - 1 \in 1..n /\ j - 1 \in 1..n
                BY <2>1, <2>2, <2>3, <3>2
            <4>2. i - 1 = j - 1
                BY <1>0, <4>1 DEF IsPath
            <4>. QED BY <1>1, <4>2
        <3>. QED BY <3>1, <3>2
    <2>4. ASSUME NEW i \in 1..n
          PROVE  /\ longer[i] # Edge(p) /\ longer[i + 1] \in Sources(p, longer[i])
                 /\ longer[i] \in C
        <3>1. CASE i = 1
            <4>1. longer[i + 1] = path[1]
                <5>1. i + 1 \in 2..(n + 1) /\ (i + 1) - 1 = 1
                    BY <1>1, <3>1
                <5>. QED BY <2>1, <5>1
            <4>. QED BY <2>1, <3>1, <4>1 DEF IsPath
        <3>2. CASE i # 1
            <4>1. /\ i - 1 \in 1..(n - 1) /\ i \in 2..(n + 1) /\ i + 1 \in 2..(n + 1)
                  /\ (i + 1) - 1 = (i - 1) + 1
                BY <1>1, <3>2
            <4>2. longer[i] = path[i - 1] /\ longer[i + 1] = path[(i - 1) + 1]
                BY <2>1, <4>1
            <4>. QED BY <1>0, <4>1, <4>2 DEF IsPath, Carries
        <3>. QED BY <3>1, <3>2
    <2>5. longer[n + 1] = path[n] /\ (n + 1) - 1 = n /\ longer # <<>>
        <3>1. n + 1 \in 2..(n + 1) /\ (n + 1) - 1 = n
            BY <1>1
        <3>. QED BY <1>1, <2>1, <3>1
    <2>6. IsPath(p, c, longer)
        BY <2>1, <2>3, <2>4, <2>5 DEF IsPath
    <2>7. Carries(longer, A, C)
        BY <1>0, <2>1, <2>4, <2>5 DEF Carries
    <2>. QED BY <2>6, <2>7
<1>. QED BY <1>2, <1>3

(* So what is fed are the blocks from which a path carries.                 *)
LEMMA FedByPaths ==
    ASSUME NEW p, NEW A \in SUBSET Blocks, NEW C \in SUBSET Blocks, NEW b \in Blocks
    PROVE  b \in Fed(p, A, C) <=> \E path : IsPath(p, b, path) /\ Carries(path, A, C)
<1>1. ASSUME NEW path, IsPath(p, b, path), Carries(path, A, C)
      PROVE  b \in Fed(p, A, C)
    <2>0. PICK n : n = Len(path)
        OBVIOUS
    <2>1. path \in Seq(Blocks) /\ n \in Nat /\ n >= 1 /\ path[1] = b
        <3>1. path \in Seq(Blocks) /\ path # <<>> /\ path[1] = b
            BY <1>1 DEF IsPath
        <3>. QED BY <3>1, <2>0
    <2>. DEFINE T == {i \in 1..n : path[i] \notin Fed(p, A, C)}
    <2>2. SUFFICES ASSUME T # {} PROVE FALSE
        <3>1. 1 \in 1..n
            BY <2>1
        <3>. QED BY <2>1, <3>1
    <2>3. PICK i \in T : \A j \in T : j <= i
        <3>1. T \in SUBSET (1..n)
            OBVIOUS
        <3>. HIDE DEF T
        <3>. QED BY <2>1, <2>2, <3>1, LastOf
    <2>4. i \in 1..n /\ path[i] \notin Fed(p, A, C)
        BY <2>3
    <2>5. i # n
        BY <1>1, <2>0, <2>4, LeastAreClosed DEF Carries, FedBy
    <2>6. i \in 1..(n - 1) /\ i + 1 \in 1..n /\ ~ (i + 1 <= i)
        BY <2>1, <2>4, <2>5
    <2>7. path[i + 1] \in Fed(p, A, C)
        BY <2>3, <2>6
    <2>8. path[i] \in C \ {Edge(p)} /\ path[i + 1] \in Sources(p, path[i])
        BY <1>1, <2>0, <2>6 DEF Carries, IsPath
    <2>. QED BY <2>4, <2>7, <2>8, LeastAreClosed DEF FedBy
<1>2. ASSUME b \in Fed(p, A, C)
      PROVE  \E path : IsPath(p, b, path) /\ Carries(path, A, C)
    <2>. DEFINE S == {c \in Blocks : \E path : IsPath(p, c, path) /\ Carries(path, A, C)}
    <2>1. ASSUME NEW c \in A PROVE c \in S
        <3>1. /\ <<c>> \in Seq(Blocks) /\ Len(<<c>>) = 1 /\ <<c>>[1] = c /\ <<c>> # <<>>
              /\ 1..(1 - 1) = {} /\ \A i, j \in 1..1 : i = j
            OBVIOUS
        <3>2. IsPath(p, c, <<c>>)
            BY <3>1 DEF IsPath
        <3>3. Carries(<<c>>, A, C)
            BY <3>1 DEF Carries
        <3>. QED BY <3>2, <3>3
    <2>2. ASSUME NEW c \in C \ {Edge(p)}, NEW m \in Sources(p, c) \cap S
          PROVE  c \in S
        <3>1. PICK path : IsPath(p, m, path) /\ Carries(path, A, C)
            BY <2>2
        <3>2. \E longer : IsPath(p, c, longer) /\ Carries(longer, A, C)
            BY <3>1, PathFrom
        <3>. QED BY <3>2
    <2>3. FedBy(p, A, C, S)
        <3>. HIDE DEF S
        <3>. QED BY <2>1, <2>2 DEF FedBy
    <2>4. b \in S
        <3>1. S \in SUBSET Blocks
            OBVIOUS
        <3>. HIDE DEF S
        <3>. QED BY <1>2, <2>3, <3>1 DEF Fed
    <2>. QED BY <2>4
<1>. QED BY <1>1, <1>2

----------------------------------------------------------------------------
(* Where a fact is to hold, as a least set.                                 *)

Makes(p, f) == {b \in Blocks : f \in p.gen[b]}
Keeps(p, f) == {b \in Blocks : f \notin p.kill[b]}
Silent(p, f) == {b \in Blocks : f \notin p.gen[b]}
Begins(p, f) ==
    {b \in Blocks : \/ f \in p.gen[b]
                    \/ f \notin p.kill[b] /\ b = Edge(p) /\ f \in p.boundary}
Ends(p, f) ==
    {b \in Blocks : /\ f \notin p.gen[b]
                    /\ f \in p.kill[b] \/ (b = Edge(p) /\ f \notin p.boundary)}

(* A `may' analysis finds a fact where it is fed, a `must' analysis where   *)
(* its absence is not fed, if all facts are assumed to begin with, and      *)
(* where it is held, if not.                                                *)
Holding(p, f) ==
    IF p.union THEN Fed(p, Makes(p, f), Keeps(p, f))
    ELSE IF f \in p.initial THEN Blocks \ Fed(p, Ends(p, f), Silent(p, f))
    ELSE Held(p, Begins(p, f), Keeps(p, f))

Posed(p) ==
    /\ p.succ \in [Blocks -> SUBSET Blocks]
    /\ p.union \in BOOLEAN
    /\ p.union => p.initial = {} /\ p.boundary = {}

(* What is not held is refuted by a path: the longest one outside.          *)
LEMMA RefutedOutside ==
    ASSUME NEW p, Posed(p), NEW f, f \notin p.initial, NEW b \in Blocks,
           b \notin Held(p, Begins(p, f), Keeps(p, f))
    PROVE  \E path : IsPath(p, b, path) /\ Refuted(p, f, path)
<1>. DEFINE H == Held(p, Begins(p, f), Keeps(p, f))
            Outside(path) == IsPath(p, b, path) /\ \A i \in 1..Len(path) : path[i] \notin H
            T == {k \in 1..(N + 1) : \E path : Outside(path) /\ Len(path) = k}
<1>0. /\ H \in SUBSET Blocks /\ HeldBy(p, Begins(p, f), Keeps(p, f), H)
      /\ b \notin H
    BY LeastAreClosed DEF Begins, Keeps
<1>. HIDE DEF H
<1>1. Outside(<<b>>) /\ Len(<<b>>) = 1
    <2>1. /\ <<b>> \in Seq(Blocks) /\ Len(<<b>>) = 1 /\ <<b>>[1] = b /\ <<b>> # <<>>
          /\ 1..(1 - 1) = {} /\ \A i, j \in 1..1 : i = j /\ i = 1
        OBVIOUS
    <2>2. IsPath(p, b, <<b>>)
        BY <2>1 DEF IsPath
    <2>. QED BY <1>0, <2>1, <2>2
<1>2. PICK n \in T : \A j \in T : j <= n
    <2>1. 1 \in T
        <3>1. 1 \in 1..(N + 1)
            BY SizeAssumption
        <3>. QED BY <1>1, <3>1
    <2>2. T \in SUBSET (1..(N + 1)) /\ N + 1 \in Nat
        BY SizeAssumption
    <2>. HIDE DEF T
    <2>. QED BY <2>1, <2>2, LastOf
<1>3. PICK path : Outside(path) /\ Len(path) = n
    BY <1>2
<1>4. n \in Nat /\ n \in 1..n /\ DOMAIN path = 1..n /\ path \in Seq(Blocks)
    <2>1. path \in Seq(Blocks) /\ n \in 1..(N + 1)
        BY <1>2, <1>3 DEF IsPath
    <2>2. n \in Nat /\ n \in 1..n
        BY <2>1, SizeAssumption
    <2>. QED BY <1>3, <2>1, <2>2
<1>. DEFINE last == path[n]
<1>5. last \in Blocks /\ last \notin H /\ last = path[Len(path)]
    BY <1>3, <1>4
<1>6. \A i \in DOMAIN path : f \notin p.gen[path[i]]
    BY <1>0, <1>3, <1>4 DEF HeldBy, Begins
<1>. HIDE DEF last
<1>7. CASE f \in p.kill[last]
    BY <1>3, <1>5, <1>6, <1>7 DEF Refuted
<1>8. CASE f \notin p.kill[last] /\ last = Edge(p)
    <2>1. f \notin p.boundary
        BY <1>0, <1>5, <1>8 DEF HeldBy, Begins
    <2>. QED BY <1>3, <1>5, <1>6, <1>8, <2>1 DEF Refuted
<1>9. CASE f \notin p.kill[last] /\ last # Edge(p)
    <2>1. CASE Sources(p, last) = {} \/ Visited(path) \cap Sources(p, last) # {}
        BY <1>3, <1>5, <1>6, <1>9, <2>1 DEF Refuted
    <2>2. CASE Sources(p, last) # {} /\ Visited(path) \cap Sources(p, last) = {}
        <3>1. PICK m \in Sources(p, last) : m \notin H
            BY <1>0, <1>5, <1>9, <2>2 DEF HeldBy, Keeps
        <3>2. m \in Blocks /\ m \notin Visited(path)
            BY <1>5, <2>2, <3>1 DEF Sources, predecessors, Posed
        <3>. DEFINE longer == Append(path, m)
        <3>3. IsPath(p, b, longer) /\ Len(longer) = n + 1
            BY <1>3, <1>5, <1>9, <3>1, <3>2, PathLonger
        <3>4. \A i \in 1..(n + 1) : longer[i] \notin H
            BY <1>3, <1>4, <3>1
        <3>5. n + 1 \in T
            <4>. HIDE DEF longer
            <4>1. n + 1 \in 1..(N + 1)
                BY <3>3, PathLength
            <4>. QED BY <3>3, <3>4, <4>1
        <3>. QED BY <1>2, <1>4, <3>5
    <2>. QED BY <2>1, <2>2
<1>. QED BY <1>7, <1>8, <1>9

(* And what a path refutes is not held: none of its blocks is.              *)
LEMMA RefutedNotHeld ==
    ASSUME NEW p, Posed(p), NEW f, f \notin p.initial, NEW b \in Blocks,
           NEW path, IsPath(p, b, path), Refuted(p, f, path)
    PROVE  b \notin Held(p, Begins(p, f), Keeps(p, f))
<1>0. PICK n : n = Len(path)
    OBVIOUS
<1>. DEFINE H == Held(p, Begins(p, f), Keeps(p, f))
            S == H \ Visited(path)
<1>1. /\ path \in Seq(Blocks) /\ n \in Nat /\ n >= 1 /\ DOMAIN path = 1..n
      /\ path[1] = b
    <2>1. path \in Seq(Blocks) /\ path # <<>> /\ path[1] = b
        BY DEF IsPath
    <2>. QED BY <2>1, <1>0
<1>2. H \in SUBSET Blocks /\ HeldBy(p, Begins(p, f), Keeps(p, f), H)
    BY LeastAreClosed DEF Begins, Keeps
<1>. HIDE DEF H
<1>3. /\ \A i \in 1..n : f \notin p.gen[path[i]]
      /\ \/ f \in p.kill[path[n]]
         \/ path[n] = Edge(p) /\ f \notin p.boundary
         \/ /\ path[n] # Edge(p)
            /\ \/ Sources(p, path[n]) = {}
               \/ Visited(path) \cap Sources(p, path[n]) # {}
    BY <1>0, <1>1 DEF Refuted
<1>4. \A i \in 1..n : i = n \/ (i \in 1..(n - 1) /\ i + 1 \in 1..n)
    BY <1>1
<1>5. \A i \in 1..(n - 1) : path[i] # Edge(p) /\ path[i + 1] \in Sources(p, path[i])
    BY <1>0 DEF IsPath
<1>6. ASSUME NEW i \in 1..n, path[i] \in Begins(p, f) PROVE FALSE
    <2>1. f \notin p.kill[path[i]] /\ path[i] = Edge(p) /\ f \in p.boundary
        BY <1>3, <1>6 DEF Begins
    <2>. QED BY <1>3, <1>4, <1>5, <2>1
<1>7. ASSUME NEW i \in 1..n, path[i] \in Keeps(p, f) \ {Edge(p)},
             Sources(p, path[i]) # {}, Sources(p, path[i]) \cap Visited(path) = {}
      PROVE  FALSE
    <2>1. CASE i = n
        BY <1>3, <1>7, <2>1 DEF Keeps
    <2>2. CASE i # n
        <3>1. i + 1 \in 1..n /\ path[i + 1] \in Sources(p, path[i])
            BY <1>4, <1>5, <2>2
        <3>2. path[i + 1] \in Visited(path)
            BY <1>1, <3>1 DEF Visited
        <3>. QED BY <1>7, <3>1, <3>2
    <2>. QED BY <2>1, <2>2
<1>8. HeldBy(p, Begins(p, f), Keeps(p, f), S)
    <2>1. Begins(p, f) \subseteq S
        BY <1>1, <1>2, <1>6 DEF HeldBy, Visited
    <2>2. ASSUME NEW c \in Keeps(p, f) \ {Edge(p)}, Sources(p, c) # {},
                 Sources(p, c) \subseteq S
          PROVE  c \in S
        <3>1. c \in H
            BY <1>2, <2>2 DEF HeldBy
        <3>2. Sources(p, c) \cap Visited(path) = {}
            BY <2>2
        <3>3. c \notin Visited(path)
            BY <1>1, <1>7, <2>2, <3>2 DEF Visited
        <3>. QED BY <3>1, <3>3
    <2>. HIDE DEF S
    <2>. QED BY <2>1, <2>2 DEF HeldBy
<1>9. H \subseteq S
    <2>1. S \in SUBSET Blocks
        BY <1>2
    <2>. HIDE DEF S
    <2>. QED BY <1>8, <2>1 DEF H, Held
<1>10. b \in Visited(path)
    <2>1. 1 \in 1..n
        BY <1>1
    <2>. QED BY <1>1, <2>1 DEF Visited
<1>. QED BY <1>9, <1>10 DEF H

(* ByPaths finds a fact where it is to hold.                                *)
LEMMA ByPathsAre ==
    ASSUME NEW p, Posed(p), NEW f \in Facts(p), NEW b \in Blocks
    PROVE  f \in ByPaths(p)[b] <=> b \in Holding(p, f)
<1>0. \A path : path \in Paths(p, b) <=> IsPath(p, b, path)
    BY PathsAre DEF Posed
<1>1. f \in ByPaths(p)[b] <=> IF p.union THEN \E path \in Paths(p, b) : Supported(p, f, path)
                              ELSE \A path \in Paths(p, b) : ~ Refuted(p, f, path)
    BY DEF ByPaths
<1>2. ASSUME NEW path, IsPath(p, b, path)
      PROVE  /\ path[Len(path)] \in Blocks
             /\ \A i \in 1..(Len(path) - 1) : path[i] \in Blocks /\ path[i] # Edge(p)
             /\ \A i \in DOMAIN path : i = Len(path) \/ i \in 1..(Len(path) - 1)
             /\ \A i \in 1..(Len(path) - 1) : i \in DOMAIN path
             /\ Len(path) \in DOMAIN path
    <2>0. PICK n : n = Len(path)
        OBVIOUS
    <2>1. path \in Seq(Blocks) /\ n \in Nat /\ n >= 1 /\ DOMAIN path = 1..n
        <3>1. path \in Seq(Blocks) /\ path # <<>>
            BY <1>2 DEF IsPath
        <3>. QED BY <3>1, <2>0
    <2>2. n \in 1..n /\ \A i \in 1..n : i = n \/ i \in 1..(n - 1)
        BY <2>1
    <2>3. \A i \in 1..(n - 1) : i \in 1..n
        BY <2>1
    <2>. QED BY <1>2, <2>0, <2>1, <2>2, <2>3 DEF IsPath
<1>3. CASE p.union
    <2>1. \A path : IsPath(p, b, path) =>
              (Supported(p, f, path) <=> Carries(path, Makes(p, f), Keeps(p, f)))
        BY <1>2 DEF Supported, Carries, Makes, Keeps
    <2>2. b \in Fed(p, Makes(p, f), Keeps(p, f)) <=>
              \E path : IsPath(p, b, path) /\ Carries(path, Makes(p, f), Keeps(p, f))
        BY FedByPaths DEF Makes, Keeps
    <2>. QED BY <1>0, <1>1, <1>3, <2>1, <2>2 DEF Holding
<1>4. CASE ~ p.union /\ f \in p.initial
    <2>1. \A path : IsPath(p, b, path) =>
              (Refuted(p, f, path) <=> Carries(path, Ends(p, f), Silent(p, f)))
        BY <1>2, <1>4 DEF Refuted, Carries, Ends, Silent
    <2>2. b \in Fed(p, Ends(p, f), Silent(p, f)) <=>
              \E path : IsPath(p, b, path) /\ Carries(path, Ends(p, f), Silent(p, f))
        BY FedByPaths DEF Ends, Silent
    <2>. QED BY <1>0, <1>1, <1>4, <2>1, <2>2 DEF Holding
<1>5. CASE ~ p.union /\ f \notin p.initial
    BY <1>0, <1>1, <1>5, RefutedOutside, RefutedNotHeld DEF Holding
<1>. QED BY <1>3, <1>4, <1>5

----------------------------------------------------------------------------
(* The solver's states, between the initial ones and those.                 *)

(* A `may' analysis has no boundary and starts from nothing.                *)
LEMMA ProblemPosed ==
    ASSUME NEW name \in Analyses, NEW func \in Functions
    PROVE  Posed(Problem(name, func))
<1>1. Problem(name, func).succ \in [Blocks -> SUBSET Blocks]
    BY ProblemTyped
<1>2. LET p == Problem(name, func)
      IN  p.union \in BOOLEAN /\ (p.union => p.initial = {} /\ p.boundary = {})
    <2>1. CASE name = "live"
        BY <2>1 DEF Problem, LiveVariableAnalysis
    <2>2. CASE name = "reaching"
        BY <2>2 DEF Problem, ReachingDefinitionAnalysis
    <2>3. CASE name = "busy"
        BY <2>3 DEF Problem, VeryBusyExpressionAnalysis
    <2>4. CASE name = "dominators"
        BY <2>4 DEF Problem, DominatorAnalysis
    <2>. QED BY <2>1, <2>2, <2>3, <2>4 DEF Analyses
<1>. QED BY <1>1, <1>2 DEF Posed

(* When an equation gives a fact.                                           *)
LEMMA EquationSays ==
    ASSUME NEW p, NEW st, NEW f, NEW b
    PROVE  f \in Equation(p, st, b) <=>
              \/ f \in p.gen[b]
              \/ /\ f \notin p.kill[b]
                 /\ IF b = Edge(p) THEN f \in p.boundary
                    ELSE IF Sources(p, b) = {} THEN f \in p.initial
                    ELSE IF p.union THEN \E m \in Sources(p, b) : f \in st[m]
                    ELSE \A m \in Sources(p, b) : f \in st[m]
<1>1. Sources(p, b) # {} =>
         (f \in meet(p, {st[m] : m \in Sources(p, b)}) <=>
             IF p.union THEN \E m \in Sources(p, b) : f \in st[m]
             ELSE \A m \in Sources(p, b) : f \in st[m])
    BY DEF meet
<1>. QED BY <1>1 DEF Equation, transfer, initial_or_meet

(* The states err to one side: what starts without a fact finds it only     *)
(* where it holds, what starts with it loses it only where it does not.     *)
Assumed(p, f) == ~ p.union /\ f \in p.initial
OneSided(p, st) ==
    \A f \in Facts(p), b \in Blocks :
        IF Assumed(p, f) THEN b \in Holding(p, f) => f \in st[b]
        ELSE f \in st[b] => b \in Holding(p, f)

(* An equation keeps the states on that side.                               *)
LEMMA EquationOneSided ==
    ASSUME NEW p, Posed(p), NEW st, OneSided(p, st), NEW f \in Facts(p), NEW b \in Blocks
    PROVE  IF Assumed(p, f) THEN b \in Holding(p, f) => f \in Equation(p, st, b)
           ELSE f \in Equation(p, st, b) => b \in Holding(p, f)
<1>0. Sources(p, b) \subseteq Blocks
    BY DEF Sources, predecessors, Posed
<1>1. CASE Assumed(p, f)
    <2>. DEFINE F == Fed(p, Ends(p, f), Silent(p, f))
    <2>1. FedBy(p, Ends(p, f), Silent(p, f), F)
        BY LeastAreClosed DEF Ends, Silent
    <2>2. Holding(p, f) = Blocks \ F
        BY <1>1 DEF Holding, Assumed
    <2>. HIDE DEF F
    <2>3. SUFFICES ASSUME f \notin Equation(p, st, b) PROVE b \in F
        BY <1>1, <2>2
    <2>4. f \notin p.gen[b]
        BY <2>3, EquationSays
    <2>5. CASE b \in Ends(p, f)
        BY <2>1, <2>5 DEF FedBy
    <2>6. CASE b \notin Ends(p, f)
        <3>1. f \notin p.kill[b] /\ ~ (b = Edge(p) /\ f \notin p.boundary)
            BY <2>4, <2>6 DEF Ends
        <3>2. b # Edge(p) /\ \E m \in Sources(p, b) : f \notin st[m]
            BY <1>1, <2>3, <3>1, EquationSays DEF Assumed
        <3>3. PICK m \in Sources(p, b) : f \notin st[m]
            BY <3>2
        <3>4. m \in F
            BY <1>0, <1>1, <2>2, <3>3 DEF OneSided
        <3>5. b \in Silent(p, f) \ {Edge(p)}
            BY <2>4, <3>2 DEF Silent
        <3>. QED BY <2>1, <3>4, <3>5 DEF FedBy
    <2>. QED BY <2>5, <2>6
<1>2. CASE p.union
    <2>. DEFINE F == Fed(p, Makes(p, f), Keeps(p, f))
    <2>1. FedBy(p, Makes(p, f), Keeps(p, f), F) /\ Holding(p, f) = F
        BY <1>2, LeastAreClosed DEF Makes, Keeps, Holding
    <2>. HIDE DEF F
    <2>2. SUFFICES ASSUME f \in Equation(p, st, b) PROVE b \in F
        BY <1>2, <2>1 DEF Assumed
    <2>3. CASE f \in p.gen[b]
        BY <2>1, <2>3 DEF FedBy, Makes
    <2>4. CASE f \notin p.gen[b]
        <3>1. f \notin p.kill[b] /\ b # Edge(p) /\ \E m \in Sources(p, b) : f \in st[m]
            BY <1>2, <2>2, <2>4, EquationSays DEF Posed
        <3>2. PICK m \in Sources(p, b) : f \in st[m]
            BY <3>1
        <3>3. m \in F
            BY <1>0, <1>2, <2>1, <3>2 DEF OneSided, Assumed
        <3>4. b \in Keeps(p, f) \ {Edge(p)}
            BY <3>1 DEF Keeps
        <3>. QED BY <2>1, <3>3, <3>4 DEF FedBy
    <2>. QED BY <2>3, <2>4
<1>3. CASE ~ p.union /\ f \notin p.initial
    <2>. DEFINE H == Held(p, Begins(p, f), Keeps(p, f))
    <2>1. HeldBy(p, Begins(p, f), Keeps(p, f), H) /\ Holding(p, f) = H
        BY <1>3, LeastAreClosed DEF Begins, Keeps, Holding
    <2>. HIDE DEF H
    <2>2. SUFFICES ASSUME f \in Equation(p, st, b) PROVE b \in H
        BY <1>3, <2>1 DEF Assumed
    <2>3. CASE b \in Begins(p, f)
        BY <2>1, <2>3 DEF HeldBy
    <2>4. CASE b \notin Begins(p, f)
        <3>1. f \notin p.gen[b]
            BY <2>4 DEF Begins
        <3>2. f \notin p.kill[b]
            BY <2>2, <3>1, EquationSays
        <3>3. ~ (b = Edge(p) /\ f \in p.boundary)
            BY <2>4, <3>2 DEF Begins
        <3>4. b # Edge(p) /\ Sources(p, b) # {} /\ \A m \in Sources(p, b) : f \in st[m]
            BY <1>3, <2>2, <3>1, <3>2, <3>3, EquationSays
        <3>5. Sources(p, b) \subseteq H
            BY <1>0, <1>3, <2>1, <3>4 DEF OneSided, Assumed
        <3>6. b \in Keeps(p, f) \ {Edge(p)}
            BY <3>2, <3>4 DEF Keeps
        <3>. QED BY <2>1, <3>4, <3>5, <3>6 DEF HeldBy
    <2>. QED BY <2>3, <2>4
<1>. QED BY <1>1, <1>2, <1>3 DEF Assumed

(* And when all equations hold they err to the other side neither.          *)
LEMMA SolutionHolds ==
    ASSUME NEW p, Posed(p), NEW st, OneSided(p, st),
           \A b \in Blocks : st[b] = Equation(p, st, b),
           NEW f \in Facts(p), NEW b \in Blocks
    PROVE  f \in st[b] <=> b \in Holding(p, f)
<1>0. \A c \in Blocks : f \in st[c] <=> f \in Equation(p, st, c)
    OBVIOUS
<1>. DEFINE With == {c \in Blocks : f \in st[c]}
            Without == {c \in Blocks : f \notin st[c]}
<1>1. ASSUME NEW c \in Blocks PROVE Sources(p, c) \subseteq Blocks
    BY DEF Sources, predecessors, Posed
<1>2. CASE Assumed(p, f)
    <2>1. FedBy(p, Ends(p, f), Silent(p, f), Without)
        <3>1. ASSUME NEW c \in Ends(p, f) PROVE c \in Without
            <4>1. f \notin Equation(p, st, c) /\ c \in Blocks
                BY EquationSays DEF Ends
            <4>. QED BY <1>0, <4>1
        <3>2. ASSUME NEW c \in Silent(p, f) \ {Edge(p)}, NEW m \in Sources(p, c) \cap Without
              PROVE  c \in Without
            <4>1. f \notin p.gen[c] /\ c \in Blocks /\ f \notin st[m] /\ m \in Sources(p, c)
                BY <3>2 DEF Silent
            <4>2. f \notin Equation(p, st, c)
                BY <1>2, <3>2, <4>1, EquationSays DEF Assumed
            <4>. QED BY <1>0, <4>1, <4>2
        <3>. HIDE DEF Without
        <3>. QED BY <3>1, <3>2 DEF FedBy
    <2>2. Fed(p, Ends(p, f), Silent(p, f)) \subseteq Without
        <3>1. Without \in SUBSET Blocks
            OBVIOUS
        <3>. HIDE DEF Without
        <3>. QED BY <2>1, <3>1 DEF Fed
    <2>3. Holding(p, f) = Blocks \ Fed(p, Ends(p, f), Silent(p, f))
        BY <1>2 DEF Assumed, Holding
    <2>4. b \in Holding(p, f) => f \in st[b]
        BY <1>2 DEF OneSided
    <2>. QED BY <2>2, <2>3, <2>4
<1>3. CASE p.union
    <2>1. FedBy(p, Makes(p, f), Keeps(p, f), With)
        <3>1. ASSUME NEW c \in Makes(p, f) PROVE c \in With
            <4>1. f \in Equation(p, st, c) /\ c \in Blocks
                BY EquationSays DEF Makes
            <4>. QED BY <1>0, <4>1
        <3>2. ASSUME NEW c \in Keeps(p, f) \ {Edge(p)}, NEW m \in Sources(p, c) \cap With
              PROVE  c \in With
            <4>1. f \notin p.kill[c] /\ c \in Blocks /\ f \in st[m] /\ m \in Sources(p, c)
                BY <3>2 DEF Keeps
            <4>2. f \in Equation(p, st, c)
                BY <1>3, <3>2, <4>1, EquationSays
            <4>. QED BY <1>0, <4>1, <4>2
        <3>. HIDE DEF With
        <3>. QED BY <3>1, <3>2 DEF FedBy
    <2>2. Fed(p, Makes(p, f), Keeps(p, f)) \subseteq With
        <3>1. With \in SUBSET Blocks
            OBVIOUS
        <3>. HIDE DEF With
        <3>. QED BY <2>1, <3>1 DEF Fed
    <2>3. Holding(p, f) = Fed(p, Makes(p, f), Keeps(p, f))
        BY <1>3 DEF Holding
    <2>4. f \in st[b] => b \in Holding(p, f)
        BY <1>3 DEF OneSided, Assumed
    <2>. QED BY <2>2, <2>3, <2>4
<1>4. CASE ~ p.union /\ f \notin p.initial
    <2>1. HeldBy(p, Begins(p, f), Keeps(p, f), With)
        <3>1. ASSUME NEW c \in Begins(p, f) PROVE c \in With
            <4>1. f \in Equation(p, st, c) /\ c \in Blocks
                BY EquationSays DEF Begins
            <4>. QED BY <1>0, <4>1
        <3>2. ASSUME NEW c \in Keeps(p, f) \ {Edge(p)}, Sources(p, c) # {},
                     Sources(p, c) \subseteq With
              PROVE  c \in With
            <4>1. f \notin p.kill[c] /\ c \in Blocks /\ \A m \in Sources(p, c) : f \in st[m]
                BY <3>2 DEF Keeps
            <4>2. f \in Equation(p, st, c)
                BY <1>4, <3>2, <4>1, EquationSays
            <4>. QED BY <1>0, <4>1, <4>2
        <3>. HIDE DEF With
        <3>. QED BY <3>1, <3>2 DEF HeldBy
    <2>2. Held(p, Begins(p, f), Keeps(p, f)) \subseteq With
        <3>1. With \in SUBSET Blocks
            OBVIOUS
        <3>. HIDE DEF With
        <3>. QED BY <2>1, <3>1 DEF Held
    <2>3. Holding(p, f) = Held(p, Begins(p, f), Keeps(p, f))
        BY <1>4 DEF Holding
    <2>4. f \in st[b] => b \in Holding(p, f)
        BY <1>4 DEF OneSided, Assumed
    <2>. QED BY <2>2, <2>3, <2>4
<1>. QED BY <1>2, <1>3, <1>4 DEF Assumed

(* The problem is one of the analyses, and the states err to one side.      *)
IsProblem == \E name \in Analyses, func \in Functions : problem = Problem(name, func)
SInv == Typed /\ SettledOffList /\ IsProblem /\ OneSided(problem, states)

(* All of this holds of every state of the solver.                          *)
LEMMA SInvHolds == Spec => []SInv
<1>1. Init => SInv
    <2>. SUFFICES ASSUME Init PROVE SInv
        OBVIOUS
    <2>1. IsProblem
        <3>1. PICK call \in Problems : problem = Problem(call[1], call[2])
            BY DEF Init
        <3>2. call[1] \in Analyses /\ call[2] \in Functions
            BY ProblemsAssumption
        <3>. QED BY <3>1, <3>2 DEF IsProblem
    <2>2. Posed(problem)
        BY <2>1, ProblemPosed DEF IsProblem
    <2>3. OneSided(problem, states)
        <3>1. \A b \in Blocks : states[b] = problem.initial
            BY DEF Init
        <3>. QED BY <2>2, <3>1 DEF OneSided, Assumed, Posed
    <2>. QED BY <2>1, <2>3, InitTyped, InitSettled DEF SInv
<1>2. SInv /\ [Next]_vars => SInv'
    <2>. SUFFICES ASSUME SInv, [Next]_vars PROVE SInv'
        OBVIOUS
    <2>1. Typed' /\ SettledOffList'
        BY NextTyped, NextSettled DEF SInv
    <2>2. problem' = problem
        BY DEF Next, ProcessBlock, Return, vars
    <2>3. IsProblem' /\ Posed(problem)
        BY <2>2, ProblemPosed DEF SInv, IsProblem
    <2>4. OneSided(problem, states')
        <3>1. CASE states' = states
            BY <3>1 DEF SInv
        <3>2. CASE states' = [states EXCEPT ![Head(worklist)] =
                                 Equation(problem, states, Head(worklist))]
            <4>. DEFINE new == Equation(problem, states, Head(worklist))
            <4>1. ASSUME NEW f \in Facts(problem), NEW b \in Blocks
                  PROVE  IF Assumed(problem, f)
                         THEN b \in Holding(problem, f) => f \in states'[b]
                         ELSE f \in states'[b] => b \in Holding(problem, f)
                <5>1. states'[b] = IF b = Head(worklist) THEN new ELSE states[b]
                    BY <3>2 DEF SInv, Typed
                <5>2. CASE b = Head(worklist)
                    BY <2>3, <5>1, <5>2, EquationOneSided DEF SInv
                <5>3. CASE b # Head(worklist)
                    BY <5>1, <5>3 DEF SInv, OneSided
                <5>. QED BY <5>2, <5>3
            <4>. QED BY <4>1 DEF OneSided
        <3>. QED BY <3>1, <3>2 DEF Next, ProcessBlock, Return, vars
    <2>. QED BY <2>1, <2>2, <2>3, <2>4 DEF SInv
<1>. QED BY <1>1, <1>2, PTL DEF Spec

(* When the solver returns, a fact is in the state of a block just when the *)
(* paths say so.                                                            *)
LEMMA ReturnedByPaths == SInv /\ returned => states = ByPaths(problem)
<1>. SUFFICES ASSUME SInv, returned PROVE states = ByPaths(problem)
    OBVIOUS
<1>1. Posed(problem)
    BY ProblemPosed DEF SInv, IsProblem
<1>2. \A b \in Blocks : states[b] = Equation(problem, states, b)
    <2>1. Members(worklist) = {}
        BY DEF SInv, Typed, Members
    <2>. QED BY <2>1 DEF SInv, SettledOffList
<1>3. ASSUME NEW b \in Blocks
      PROVE  states[b] = ByPaths(problem)[b]
    <2>1. \A f \in Facts(problem) : f \in states[b] <=> b \in Holding(problem, f)
        BY <1>1, <1>2, SolutionHolds DEF SInv
    <2>2. \A f \in Facts(problem) : f \in ByPaths(problem)[b] <=> b \in Holding(problem, f)
        BY <1>1, ByPathsAre
    <2>3. ByPaths(problem)[b] \subseteq Facts(problem)
        BY DEF ByPaths
    <2>4. states[b] \subseteq Facts(problem)
        BY DEF SInv, Typed
    <2>. QED BY <2>1, <2>2, <2>3, <2>4
<1>4. states = [b \in Blocks |-> states[b]]
    BY DEF SInv, Typed
<1>5. ByPaths(problem) = [b \in Blocks |-> ByPaths(problem)[b]]
    BY DEF ByPaths
<1>. QED BY <1>3, <1>4, <1>5

(* Whatever order the blocks come in, solve returns the solution by paths   *)
(* (dataflow.h, lines 82-113).                                              *)
THEOREM SolutionByPaths == Spec => []ReturnsPaths
<1>1. SInv => ReturnsPaths
    BY ReturnedByPaths DEF ReturnsPaths
<1>. QED BY <1>1, SInvHolds, PTL

----------------------------------------------------------------------------
(* What the sets that a block is given lose.                                *)

(* Exactly those a block has: for a `may' analysis it is given no less, for *)
(* a `must' analysis no more.                                               *)
Exactly(p) == [p EXCEPT !.gen = p.exact]

(* Nothing but the gen sets differ, and to that side.                       *)
LEMMA GivenSets ==
    ASSUME NEW name \in Analyses, NEW func \in Functions, NEW b \in Blocks
    PROVE  LET p == Problem(name, func)
               q == Exactly(p)
           IN  /\ q.direction = p.direction /\ q.union = p.union /\ q.succ = p.succ
               /\ q.initial = p.initial /\ q.boundary = p.boundary
               /\ q.kill = p.kill /\ q.gen = p.exact
               /\ p.union => p.exact[b] \subseteq p.gen[b]
               /\ ~ p.union => p.gen[b] \subseteq p.exact[b]
<1>1. CASE name = "live"
    <2>1. LET p == LiveVariableAnalysis(func) IN p.exact[b] \subseteq p.gen[b]
        BY DEF LiveVariableAnalysis, use
    <2>2. Problem(name, func) = LiveVariableAnalysis(func)
        BY <1>1 DEF Problem
    <2>3. LET p == LiveVariableAnalysis(func)
              q == Exactly(p)
          IN  /\ q.direction = p.direction /\ q.union = p.union /\ q.succ = p.succ
              /\ q.initial = p.initial /\ q.boundary = p.boundary
              /\ q.kill = p.kill /\ q.gen = p.exact /\ p.union
        BY DEF LiveVariableAnalysis, Exactly
    <2>. QED BY <2>1, <2>2, <2>3
<1>2. CASE name = "reaching"
    <2>1. LET p == ReachingDefinitionAnalysis(func) IN p.exact[b] \subseteq p.gen[b]
        BY DEF ReachingDefinitionAnalysis
    <2>2. Problem(name, func) = ReachingDefinitionAnalysis(func)
        BY <1>2 DEF Problem
    <2>3. LET p == ReachingDefinitionAnalysis(func)
              q == Exactly(p)
          IN  /\ q.direction = p.direction /\ q.union = p.union /\ q.succ = p.succ
              /\ q.initial = p.initial /\ q.boundary = p.boundary
              /\ q.kill = p.kill /\ q.gen = p.exact /\ p.union
        BY DEF ReachingDefinitionAnalysis, Exactly
    <2>. QED BY <2>1, <2>2, <2>3
<1>3. CASE name = "busy"
    <2>1. ASSUME NEW e \in block_expressions(func, b), Var(func, e) \notin def(func, b),
                 Var(func, e) \in Tracked
          PROVE  Unwritten(func, e)
        <3>1. e[1] = b
            BY DEF block_expressions, Of
        <3>2. ASSUME NEW w \in Of(func, b, {"alloca", "store"}), Var(func, w) = Var(func, e)
              PROVE  FALSE
            BY <2>1, <3>2 DEF def
        <3>. QED BY <3>1, <3>2 DEF Unwritten
    <2>2. LET p == VeryBusyExpressionAnalysis(func) IN p.gen[b] \subseteq p.exact[b]
        <3>1. \A e \in block_expressions(func, b) : e \in all_expressions(func)
            BY DEF all_expressions
        <3>. QED BY <2>1, <3>1 DEF VeryBusyExpressionAnalysis, expr_uses_any_def
    <2>3. Problem(name, func) = VeryBusyExpressionAnalysis(func)
        BY <1>3 DEF Problem
    <2>4. LET p == VeryBusyExpressionAnalysis(func)
              q == Exactly(p)
          IN  /\ q.direction = p.direction /\ q.union = p.union /\ q.succ = p.succ
              /\ q.initial = p.initial /\ q.boundary = p.boundary
              /\ q.kill = p.kill /\ q.gen = p.exact /\ ~ p.union
        BY DEF VeryBusyExpressionAnalysis, Exactly
    <2>. QED BY <2>2, <2>3, <2>4
<1>4. CASE name = "dominators"
    <2>1. LET p == DominatorAnalysis(func) IN p.gen[b] \subseteq p.exact[b]
        BY DEF DominatorAnalysis
    <2>2. Problem(name, func) = DominatorAnalysis(func)
        BY <1>4 DEF Problem
    <2>3. LET p == DominatorAnalysis(func)
              q == Exactly(p)
          IN  /\ q.direction = p.direction /\ q.union = p.union /\ q.succ = p.succ
              /\ q.initial = p.initial /\ q.boundary = p.boundary
              /\ q.kill = p.kill /\ q.gen = p.exact /\ ~ p.union
        BY DEF DominatorAnalysis, Exactly
    <2>. QED BY <2>1, <2>2, <2>3
<1>. QED BY <1>1, <1>2, <1>3, <1>4 DEF Analyses

(* So the exact solution has no more of a `may' analysis and no less of a   *)
(* `must' analysis than the one found.                                      *)
LEMMA ExactOneSided ==
    ASSUME NEW name \in Analyses, NEW func \in Functions, NEW b \in Blocks
    PROVE  LET p == Problem(name, func)
           IN  IF p.union THEN ByPaths(Exactly(p))[b] \subseteq ByPaths(p)[b]
               ELSE ByPaths(p)[b] \subseteq ByPaths(Exactly(p))[b]
<1>1. PICK p : p = Problem(name, func)
    OBVIOUS
<1>2. PICK q : q = Exactly(p)
    OBVIOUS
<1>3. /\ q.direction = p.direction /\ q.union = p.union /\ q.succ = p.succ
      /\ q.initial = p.initial /\ q.boundary = p.boundary
      /\ q.kill = p.kill /\ q.gen = p.exact
      /\ \A c \in Blocks : /\ p.union => q.gen[c] \subseteq p.gen[c]
                           /\ ~ p.union => p.gen[c] \subseteq q.gen[c]
    BY <1>1, <1>2, GivenSets
<1>4. Posed(p)
    BY <1>1, ProblemPosed
<1>5. Edge(q) = Edge(p) /\ \A c : Sources(q, c) = Sources(p, c)
    BY <1>3 DEF Edge, Sources, predecessors
<1>6. \A path : (path \in Paths(q, b) <=> IsPath(p, b, path))
              /\ (path \in Paths(p, b) <=> IsPath(p, b, path))
    <2>1. q.succ \in [Blocks -> SUBSET Blocks] /\ p.succ \in [Blocks -> SUBSET Blocks]
        BY <1>3, <1>4 DEF Posed
    <2>2. \A path : IsPath(q, b, path) <=> IsPath(p, b, path)
        BY <1>5 DEF IsPath
    <2>. QED BY <2>1, <2>2, PathsAre
<1>7. ASSUME NEW path, IsPath(p, b, path)
      PROVE  /\ path[Len(path)] \in Blocks /\ \A i \in DOMAIN path : path[i] \in Blocks
    <2>1. path \in Seq(Blocks) /\ path # <<>>
        BY <1>7 DEF IsPath
    <2>. QED BY <2>1
<1>8. ASSUME p.union, NEW f \in ByPaths(q)[b]
      PROVE  f \in ByPaths(p)[b]
    <2>1. f \in Facts(q) /\ \E path \in Paths(q, b) : Supported(q, f, path)
        BY <1>3, <1>8 DEF ByPaths
    <2>2. PICK path : IsPath(p, b, path) /\ Supported(q, f, path)
        BY <1>6, <2>1
    <2>3. Supported(p, f, path)
        BY <1>3, <1>7, <1>8, <2>2 DEF Supported
    <2>4. f \in Facts(p)
        BY <1>3, <1>8, <2>1 DEF Facts
    <2>. QED BY <1>6, <1>8, <2>2, <2>3, <2>4 DEF ByPaths
<1>9. ASSUME ~ p.union, NEW f \in ByPaths(p)[b]
      PROVE  f \in ByPaths(q)[b]
    <2>1. f \in Facts(p) /\ \A path \in Paths(p, b) : ~ Refuted(p, f, path)
        BY <1>9 DEF ByPaths
    <2>2. ASSUME NEW path, IsPath(p, b, path), Refuted(q, f, path)
          PROVE  FALSE
        <3>1. Refuted(p, f, path)
            BY <1>3, <1>5, <1>7, <1>9, <2>2 DEF Refuted
        <3>. QED BY <1>6, <2>1, <2>2, <3>1
    <2>3. f \in Facts(q)
        BY <1>3, <1>9, <2>1 DEF Facts
    <2>. QED BY <1>3, <1>6, <1>9, <2>2, <2>3 DEF ByPaths
<1>. QED BY <1>1, <1>2, <1>8, <1>9

(* That extract_block_def_use forgets the order of the instructions costs   *)
(* nothing that is live, or reaches, and invents nothing that is very busy. *)
THEOREM NothingLost == Spec => []LosesNothing
<1>1. SInv => LosesNothing
    <2>. SUFFICES ASSUME SInv, returned PROVE LosesNothing
        BY DEF LosesNothing
    <2>1. states = ByPaths(problem)
        BY ReturnedByPaths
    <2>2. PICK name \in Analyses, func \in Functions : problem = Problem(name, func)
        BY DEF SInv, IsProblem
    <2>. QED BY <2>1, <2>2, ExactOneSided DEF LosesNothing, Exactly
<1>. QED BY <1>1, SInvHolds, PTL
=============================================================================
