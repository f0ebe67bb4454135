-------------------------- MODULE DomTree_proofs --------------------------
(***************************************************************************)
(* Proofs about the construction of the dominator tree, for every number   *)
(* of blocks. First, that no dominator is ever stepped over, for every     *)
(* control flow graph. Then what the construction returns, for the graphs  *)
(* without unreachable blocks: the immediate dominators, intervals that    *)
(* decide dominance, the frontiers, and why the rounds end.                *)
(***************************************************************************)
EXTENDS DomTree, FiniteSetTheorems, SequenceTheorems, TLAPS

(* a dominates b, for blocks b that can be reached.                        *)
Dom(a, b) == b \notin Avoiding(succ, a)

----------------------------------------------------------------------------
(* Paths of the CFG.                                                       *)

(* The ids of the blocks are numbers below N, which is no block.           *)
LEMMA BlockIds ==
    /\ entry \in Blocks
    /\ kInvalidBlockId \notin Blocks
    /\ \A b \in Blocks : b \in Int
BY SizeAssumption DEF Blocks, entry, kInvalidBlockId

(* Branches lead to blocks.                                                *)
LEMMA SuccsAreBlocks ==
    ASSUME NEW g \in CFG, NEW b \in Blocks
    PROVE  /\ g[b] \in Seq(Blocks)
           /\ Succs(g, b) \subseteq Blocks
<1>1. g[b] \in Seq(Blocks)  BY DEF CFG
<1>2. \A k \in DOMAIN g[b] : g[b][k] \in Blocks  BY <1>1
<1> QED  BY <1>1, <1>2 DEF Succs

(* What can be reached without a is the least set that is closed.          *)
LEMMA AvoidingLeast ==
    ASSUME NEW g, NEW a, NEW S \in SUBSET (Blocks \ {a}), Closed(g, a, S)
    PROVE  Avoiding(g, a) \subseteq S
BY DEF Avoiding

(* A path may start at the entry.                                          *)
LEMMA AvoidingEntry ==
    ASSUME NEW g, NEW a, a # entry
    PROVE  entry \in Avoiding(g, a)
BY BlockIds DEF Avoiding, Closed

(* A path may go on to every successor but a.                              *)
LEMMA AvoidingStep ==
    ASSUME NEW g \in CFG, NEW a, NEW p \in Avoiding(g, a),
           NEW s \in Succs(g, p), s # a
    PROVE  s \in Avoiding(g, a)
<1>1. p \in Blocks  BY DEF Avoiding
<1>2. s \in Blocks  BY <1>1, SuccsAreBlocks
<1>3. ASSUME NEW S \in SUBSET (Blocks \ {a}), Closed(g, a, S)
      PROVE  s \in S
  <2>1. p \in S  BY <1>3 DEF Avoiding
  <2>2. Succs(g, p) \subseteq S \cup {a}  BY <2>1, <1>3 DEF Closed
  <2> QED  BY <2>2
<1> QED  BY <1>2, <1>3 DEF Avoiding

(* A dominator of b other than b dominates all predecessors of b.          *)
LEMMA DominatesPreds ==
    ASSUME succ \in CFG, NEW a \in Blocks, NEW b \in Blocks, a # b, Dom(a, b),
           NEW p \in Preds(succ, b)
    PROVE  Dom(a, p)
BY AvoidingStep DEF Dom, Preds

(* Nothing but the entry dominates the entry.                              *)
LEMMA EntryIsRoot ==
    ASSUME NEW a, Dom(a, entry)
    PROVE  a = entry
BY AvoidingEntry DEF Dom

----------------------------------------------------------------------------
(* The stack of dfs.                                                       *)

(* An activation of dfs.                                                   *)
LEMMA CallType ==
    /\ \A b \in Blocks, n \in Nat : [block |-> b, next |-> n] \in Call
    /\ \A c \in Call : c.block \in Blocks /\ c.next \in Nat
BY DEF Call

(* The innermost activation.                                               *)
LEMMA TopOfStack ==
    ASSUME stack \in Seq(Call), stack # <<>>
    PROVE  /\ Len(stack) \in Nat \ {0}
           /\ Top = stack[Len(stack)]
           /\ Top.block \in Blocks /\ Top.next \in Nat
           /\ \A i \in 1..Len(stack) :
                stack[i] \in Call /\ stack[i].block \in Blocks /\ stack[i].next \in Nat
<1>1. Len(stack) \in Nat \ {0} /\ \A i \in 1..Len(stack) : stack[i] \in Call
  BY ElementOfSeq
<1>2. Top = stack[Len(stack)] /\ Len(stack) \in 1..Len(stack)
  BY <1>1 DEF Top
<1> QED  BY ONLY <1>1, <1>2, CallType

(* Returning from dfs drops the innermost activation.                      *)
LEMMA PopCall ==
    ASSUME stack \in Seq(Call), stack # <<>>
    PROVE  /\ Below \in Seq(Call)
           /\ Len(Below) = Len(stack) - 1
           /\ \A i \in 1..(Len(stack) - 1) : Below[i] = stack[i]
<1> DEFINE n == Len(stack) - 1
<1>1. Len(stack) \in Nat \ {0} /\ \A i \in 1..Len(stack) : stack[i] \in Call
  BY TopOfStack
<1>2. \A i \in 1..n : stack[i] \in Call  BY <1>1
<1>3. n \in Int /\ 1 \in Int /\ n >= 0  BY <1>1
<1>4. /\ SubSeq(stack, 1, n) \in Seq(Call)
      /\ Len(SubSeq(stack, 1, n)) = IF 1 <= n THEN n - 1 + 1 ELSE 0
      /\ \A i \in 1..(n - 1 + 1) : SubSeq(stack, 1, n)[i] = stack[1 + i - 1]
  BY ONLY <1>2, <1>3, SubSeqProperties
<1>5. n - 1 + 1 = n /\ \A i \in 1..n : 1 + i - 1 = i  BY <1>3
<1>6. \A k \in Int : k >= 0 => (IF 1 <= k THEN k - 1 + 1 ELSE 0) = k
  OBVIOUS
<1>7. Len(SubSeq(stack, 1, n)) = n  BY ONLY <1>3, <1>4, <1>6
<1> QED  BY <1>4, <1>5, <1>7 DEF Below

(* Looking at a successor only moves the innermost activation on.          *)
LEMMA ResumeCall ==
    ASSUME stack \in Seq(Call), stack # <<>>
    PROVE  /\ Resumed \in Seq(Call)
           /\ Len(Resumed) = Len(stack)
           /\ \A i \in 1..Len(stack) :
                /\ Resumed[i].block = stack[i].block
                /\ Resumed[i].next = IF i = Len(stack) THEN stack[i].next + 1
                                                       ELSE stack[i].next
<1> DEFINE c == [block |-> Top.block, next |-> Top.next + 1]
<1>1. c \in Call  BY TopOfStack, CallType
<1>2. /\ Append(Below, c) \in Seq(Call)
      /\ Len(Append(Below, c)) = Len(Below) + 1
      /\ \A i \in 1..Len(Below) : Append(Below, c)[i] = Below[i]
      /\ Append(Below, c)[Len(Below) + 1] = c
  BY ONLY <1>1, PopCall, AppendProperties, stack \in Seq(Call), stack # <<>>
<1>3. Len(stack) \in Nat \ {0} /\ Len(Below) + 1 = Len(stack)
  BY TopOfStack, PopCall
<1>4. ASSUME NEW i \in 1..Len(stack), i # Len(stack)
      PROVE  Append(Below, c)[i] = stack[i]
  <2>1. i \in 1..Len(Below) /\ i \in 1..(Len(stack) - 1)  BY <1>3, <1>4
  <2> QED  BY <2>1, <1>2, PopCall
<1>5. Append(Below, c)[Len(stack)] = c  BY <1>2, <1>3
<1>6. c.block = stack[Len(stack)].block /\ c.next = stack[Len(stack)].next + 1
  BY TopOfStack
<1> HIDE DEF c
<1>7. Resumed = Append(Below, c)  BY DEF Resumed, c
<1> QED  BY <1>2, <1>3, <1>4, <1>5, <1>6, <1>7

(* Entering a block adds an activation for it.                             *)
LEMMA EnterCall ==
    ASSUME stack \in Seq(Call), stack # <<>>, NEW b \in Blocks
    PROVE  /\ Entered(b) \in Seq(Call)
           /\ Len(Entered(b)) = Len(stack) + 1
           /\ \A i \in 1..Len(stack) : Entered(b)[i] = Resumed[i]
           /\ Entered(b)[Len(stack) + 1].block = b
           /\ Entered(b)[Len(stack) + 1].next = 1
<1> DEFINE c == [block |-> b, next |-> 1]
<1>1. c \in Call  BY CallType
<1>2. c.block = b /\ c.next = 1  OBVIOUS
<1> HIDE DEF c
<1>3. /\ Append(Resumed, c) \in Seq(Call)
      /\ Len(Append(Resumed, c)) = Len(Resumed) + 1
      /\ \A i \in 1..Len(Resumed) : Append(Resumed, c)[i] = Resumed[i]
      /\ Append(Resumed, c)[Len(Resumed) + 1] = c
  BY ONLY <1>1, ResumeCall, AppendProperties, stack \in Seq(Call), stack # <<>>
<1>4. Entered(b) = Append(Resumed, c)  BY DEF Entered, c
<1>5. Len(Resumed) = Len(stack)  BY ResumeCall
<1> QED  BY <1>2, <1>3, <1>4, <1>5

----------------------------------------------------------------------------
(* The invariant of dfs: the stack is a path from the entry, and a block   *)
(* is finished only before its dominators are.                             *)

Open == 1..Len(stack)
Finished == 1..Len(post_order)

DfsShape ==
    /\ stack \in Seq(Call)
    /\ visited \subseteq Blocks
    /\ post_order \in Seq(Blocks)
    /\ \A i \in Open : stack[i].next >= 1

(* A block that is not on the stack below stack[i] has been gone around.   *)
StackIsPath ==
    \A a \in Blocks, i \in Open :
        (\A j \in 1..i : stack[j].block # a) => stack[i].block \in Avoiding(succ, a)

(* The blocks that have been entered are on the stack or finished, once.   *)
Once ==
    /\ \A i, j \in Open : stack[i].block = stack[j].block => i = j
    /\ \A k, l \in Finished : post_order[k] = post_order[l] => k = l
    /\ \A i \in Open, k \in Finished : stack[i].block # post_order[k]

Entries ==
    /\ entry \in visited
    /\ \A i \in Open : stack[i].block \in visited
    /\ \A k \in Finished : post_order[k] \in visited
    /\ \A b \in visited : \/ \E i \in Open : stack[i].block = b
                          \/ \E k \in Finished : post_order[k] = b

(* The successors that the loops of dfs have passed have been entered.     *)
Passed ==
    /\ \A i \in Open : \A n \in DOMAIN succ[stack[i].block] :
            n < stack[i].next => succ[stack[i].block][n] \in visited
    /\ \A k \in Finished : Succs(succ, post_order[k]) \subseteq visited

DominatorsLater ==
    \A a \in Blocks : \A k \in Finished :
        a # post_order[k] /\ Dom(a, post_order[k]) =>
            \A l \in Finished : post_order[l] = a => k < l

DfsInv == DfsShape /\ StackIsPath /\ Once /\ Entries /\ Passed /\ DominatorsLater

(* compute_idoms and what follows have not begun.                          *)
Untouched ==
    /\ idoms = [b \in Blocks |-> kInvalidBlockId]
    /\ new_idom = kInvalidBlockId
    /\ walking = FALSE
    /\ finger \in Blocks

(* dfs begins with the entry.                                              *)
LEMMA DfsInit ==
    ASSUME Init
    PROVE  DfsInv /\ Untouched
<1> DEFINE c == [block |-> entry, next |-> 1]
<1>1. c \in Call /\ c.block = entry /\ c.next = 1  BY BlockIds, CallType
<1> HIDE DEF c
<1>2. stack = <<c>>  BY DEF Init, c
<1>3. /\ stack \in Seq(Call) /\ Len(stack) = 1 /\ stack[1] = c
      /\ Open = 1..1
  BY <1>1, <1>2 DEF Open
<1>4. post_order = <<>> /\ Finished = {} /\ visited = {entry}
  BY DEF Init, Finished
<1>5. DfsShape  BY <1>1, <1>3, <1>4, BlockIds DEF DfsShape
<1>6. StackIsPath
  <2> SUFFICES ASSUME NEW a \in Blocks, NEW i \in Open,
                      \A j \in 1..i : stack[j].block # a
               PROVE  stack[i].block \in Avoiding(succ, a)
    BY DEF StackIsPath
  <2>1. i = 1 /\ stack[1].block = entry  BY <1>1, <1>3
  <2>2. a # entry  BY <2>1
  <2> QED  BY <2>1, <2>2, AvoidingEntry
<1>7. Once  BY <1>3, <1>4 DEF Once
<1>8. Entries  BY <1>1, <1>3, <1>4 DEF Entries
<1>9. Passed
  <2>1. ASSUME NEW i \in Open, NEW n \in DOMAIN succ[stack[i].block],
               n < stack[i].next
        PROVE  FALSE
    <3>1. stack[i].next = 1 /\ stack[i].block = entry  BY <1>1, <1>3
    <3>2. succ[entry] \in Seq(Blocks)
      BY GraphsAssumption, BlockIds, SuccsAreBlocks DEF Init
    <3>3. n \in Nat \ {0}  BY <3>1, <3>2
    <3> QED  BY <2>1, <3>1, <3>3
  <2> QED  BY <1>4, <2>1 DEF Passed
<1>10. DominatorsLater  BY <1>4 DEF DominatorsLater
<1>11. Untouched  BY BlockIds DEF Init, Untouched
<1> QED  BY <1>5, <1>6, <1>7, <1>8, <1>9, <1>10, <1>11 DEF DfsInv

(* A successor that has been entered before is passed.                     *)
LEMMA ResumeKeeps ==
    ASSUME succ \in CFG, DfsInv, stack # <<>>,
           Top.next <= Len(succ[Top.block]),
           succ[Top.block][Top.next] \in visited,
           stack' = Resumed,
           UNCHANGED <<succ, visited, post_order>>
    PROVE  DfsInv'
<1> USE DEF DfsInv
<1>0. stack \in Seq(Call)  BY DEF DfsShape
<1>1. /\ stack' \in Seq(Call) /\ Len(stack') = Len(stack) /\ Open' = Open
      /\ Finished' = Finished
      /\ \A i \in Open :
            /\ stack'[i].block = stack[i].block
            /\ stack'[i].next = IF i = Len(stack) THEN stack[i].next + 1
                                                  ELSE stack[i].next
            /\ stack[i].next \in Nat
  BY <1>0, ResumeCall, TopOfStack DEF Open, Finished
<1>2. Len(stack) \in Open /\ Top = stack[Len(stack)]  BY <1>0, TopOfStack DEF Open
<1>3. DfsShape'  BY <1>1 DEF DfsShape
<1>4. StackIsPath'
  <2> SUFFICES ASSUME NEW a \in Blocks, NEW i \in Open,
                      \A j \in 1..i : stack'[j].block # a
               PROVE  stack'[i].block \in Avoiding(succ, a)
    BY <1>1 DEF StackIsPath
  <2>1. \A j \in 1..i : j \in Open  BY TopOfStack, <1>0 DEF Open
  <2>2. \A j \in 1..i : stack[j].block # a  BY <1>1, <2>1
  <2> QED  BY <1>1, <2>2 DEF StackIsPath
<1>5. Once'  BY <1>1 DEF Once
<1>6. Entries'  BY <1>1 DEF Entries
<1>7. Passed'
  <2>1. ASSUME NEW i \in Open, NEW n \in DOMAIN succ[stack[i].block],
               n < stack'[i].next
        PROVE  succ[stack[i].block][n] \in visited
    <3>1. CASE i # Len(stack)  BY <2>1, <3>1, <1>1 DEF Passed
    <3>2. CASE i = Len(stack)
      <4>1. n < stack[i].next + 1 /\ stack[i] = Top  BY <2>1, <3>2, <1>1, <1>2
      <4>2. succ[Top.block] \in Seq(Blocks) /\ Top.next \in Nat
        BY <1>0, TopOfStack, SuccsAreBlocks
      <4>3. n \in Nat  BY <4>1, <4>2
      <4>4. n < Top.next \/ n = Top.next  BY <4>1, <4>2, <4>3
      <4> QED  BY <4>1, <4>4 DEF Passed
    <3> QED  BY <3>1, <3>2
  <2> QED  BY <1>1, <2>1 DEF Passed
<1>8. DominatorsLater'  BY <1>1 DEF DominatorsLater, Dom
<1> QED  BY <1>3, <1>4, <1>5, <1>6, <1>7, <1>8

(* A successor that is new is entered: the path goes on to it.             *)
LEMMA EnterKeeps ==
    ASSUME succ \in CFG, DfsInv, stack # <<>>,
           Top.next <= Len(succ[Top.block]),
           NEW s, s = succ[Top.block][Top.next], s \notin visited,
           stack' = Entered(s), visited' = visited \cup {s},
           UNCHANGED <<succ, post_order>>
    PROVE  DfsInv'
<1> USE DEF DfsInv
<1> DEFINE m == Len(stack)
<1>0. stack \in Seq(Call) /\ m \in Nat \ {0}  BY TopOfStack DEF DfsShape
<1>1. /\ m \in Open /\ Top = stack[m] /\ Top.next \in Nat /\ Top.next >= 1
      /\ Top.block \in Blocks
  BY <1>0, TopOfStack DEF Open, DfsShape
<1>2. succ[Top.block] \in Seq(Blocks)  BY <1>1, SuccsAreBlocks
<1>3. Top.next \in DOMAIN succ[Top.block]  BY <1>1, <1>2
<1>4. s \in Blocks /\ s \in Succs(succ, Top.block)
  BY <1>1, <1>3, SuccsAreBlocks DEF Succs
<1>5. /\ stack' \in Seq(Call) /\ Len(stack') = m + 1
      /\ \A i \in Open :
            /\ stack'[i].block = stack[i].block
            /\ stack'[i].next = IF i = m THEN stack[i].next + 1
                                         ELSE stack[i].next
            /\ stack[i].next \in Nat /\ stack[i].next >= 1
      /\ stack'[m + 1].block = s /\ stack'[m + 1].next = 1
      /\ Finished' = Finished
  BY <1>0, <1>4, EnterCall, ResumeCall, TopOfStack DEF Open, Finished, DfsShape
<1>6. \A i \in Open' : i \in Open \/ i = m + 1
  BY <1>0, <1>5 DEF Open
<1>7. Open \subseteq Open' /\ m + 1 \in Open' /\ m + 1 \notin Open
  BY <1>0, <1>5 DEF Open
<1> HIDE DEF m
<1>8. DfsShape'
  <2>1. ASSUME NEW i \in Open'  PROVE stack'[i].next >= 1
    <3>1. CASE i \in Open
      <4>1. stack'[i].next = stack[i].next + 1 \/ stack'[i].next = stack[i].next
        BY <3>1, <1>5
      <4> QED  BY <3>1, <4>1, <1>5
    <3>2. CASE i = m + 1  BY <3>2, <1>5
    <3> QED  BY <3>1, <3>2, <1>6
  <2> QED  BY <1>4, <1>5, <2>1 DEF DfsShape
<1>9. StackIsPath'
  <2> SUFFICES ASSUME NEW a \in Blocks, NEW i \in Open',
                      \A j \in 1..i : stack'[j].block # a
               PROVE  stack'[i].block \in Avoiding(succ, a)
    BY DEF StackIsPath
  <2>1. ASSUME NEW h \in Open, h <= i
        PROVE  stack[h].block \in Avoiding(succ, a)
    <3>1. \A j \in 1..h : j \in 1..i /\ j \in Open
      BY <1>0, <1>5, <2>1 DEF Open, m
    <3>2. \A j \in 1..h : stack[j].block # a  BY <3>1, <1>5
    <3> QED  BY <3>2 DEF StackIsPath
  <2>2. CASE i \in Open
    <3>1. i <= i  BY <2>2, <1>0 DEF Open
    <3> QED  BY <2>1, <2>2, <3>1, <1>5
  <2>3. CASE i = m + 1
    <3>1. m <= i /\ i \in 1..i  BY <2>3, <1>0
    <3>2. Top.block \in Avoiding(succ, a)  BY <2>1, <3>1, <1>1
    <3>3. s # a  BY <3>1, <2>3, <1>5
    <3>4. s \in Avoiding(succ, a)  BY <3>2, <3>3, <1>4, AvoidingStep
    <3> QED  BY <3>4, <2>3, <1>5
  <2> QED  BY <2>2, <2>3, <1>6
<1>10. Once'
  <2>1. \A i \in Open : stack[i].block # s  BY DEF Entries
  <2>2. \A k \in Finished : post_order[k] # s  BY DEF Entries
  <2> QED  BY <1>5, <1>6, <2>1, <2>2 DEF Once
<1>11. Entries'
  <2>1. \A i \in Open' : stack'[i].block \in visited'  BY <1>5, <1>6 DEF Entries
  <2>2. ASSUME NEW b \in visited'
        PROVE  \/ \E i \in Open' : stack'[i].block = b
               \/ \E k \in Finished : post_order[k] = b
    <3>1. CASE b = s  BY <3>1, <1>5, <1>7
    <3>2. CASE b \in visited  BY <3>2, <1>5, <1>7 DEF Entries
    <3> QED  BY <3>1, <3>2
  <2> QED  BY <1>5, <2>1, <2>2 DEF Entries
<1>12. Passed'
  <2>1. ASSUME NEW i \in Open', NEW n \in DOMAIN succ[stack'[i].block],
               n < stack'[i].next
        PROVE  succ[stack'[i].block][n] \in visited'
    <3>1. CASE i \in Open /\ i # m  BY <2>1, <3>1, <1>5 DEF Passed
    <3>2. CASE i = m
      <4>1. n < Top.next + 1 /\ stack'[i].block = Top.block
        BY <2>1, <3>2, <1>1, <1>5
      <4>2. n \in Nat  BY <4>1, <1>2
      <4>3. n < Top.next \/ n = Top.next  BY <4>1, <4>2, <1>1
      <4> QED  BY <4>1, <4>3, <1>1 DEF Passed
    <3>3. CASE i = m + 1
      <4>1. n < 1  BY <2>1, <3>3, <1>5
      <4>2. succ[s] \in Seq(Blocks)  BY <1>4, SuccsAreBlocks
      <4>3. n \in Nat \ {0}  BY <4>2, <3>3, <1>5
      <4> QED  BY <4>1, <4>3
    <3> QED  BY <3>1, <3>2, <3>3, <1>6
  <2> QED  BY <1>5, <2>1 DEF Passed
<1>13. DominatorsLater'  BY <1>5 DEF DominatorsLater, Dom
<1> QED  BY <1>8, <1>9, <1>10, <1>11, <1>12, <1>13

(* A block is finished: its dominators are still on the stack, since the   *)
(* stack is a path to it.                                                  *)
LEMMA FinishKeeps ==
    ASSUME succ \in CFG, DfsInv, stack # <<>>,
           Top.next > Len(succ[Top.block]),
           post_order' = Append(post_order, Top.block),
           stack' = Below,
           UNCHANGED <<succ, visited>>
    PROVE  DfsInv'
<1> USE DEF DfsInv
<1> DEFINE m == Len(stack)
           f == Len(post_order)
           b == Top.block
<1>0. stack \in Seq(Call) /\ m \in Nat \ {0}  BY TopOfStack DEF DfsShape
<1>1. /\ m \in Open /\ Top = stack[m] /\ Top.next \in Nat /\ b \in Blocks
      /\ b = stack[m].block
  BY <1>0, TopOfStack DEF Open
<1>2. /\ stack' \in Seq(Call) /\ Len(stack') = m - 1
      /\ \A i \in 1..(m - 1) : stack'[i] = stack[i]
  BY <1>0, PopCall
<1>3. Open' = 1..(m - 1) /\ Open' \subseteq Open /\ m \notin Open'
      /\ \A i \in Open : i \in Open' \/ i = m
  BY <1>0, <1>2 DEF Open
<1>4. post_order \in Seq(Blocks) /\ f \in Nat  BY DEF DfsShape
<1>5. /\ post_order' \in Seq(Blocks) /\ Len(post_order') = f + 1
      /\ \A k \in 1..f : post_order'[k] = post_order[k]
      /\ post_order'[f + 1] = b
  BY <1>1, <1>4, AppendProperties
<1>6. /\ Finished \subseteq Finished' /\ f + 1 \in Finished'
      /\ \A k \in Finished' : k \in Finished \/ k = f + 1
      /\ \A k \in Finished : k < f + 1 /\ k \in 1..f
  BY <1>4, <1>5 DEF Finished
<1> HIDE DEF m, f, b
<1>7. DfsShape'  BY <1>2, <1>3, <1>5 DEF DfsShape
<1>8. StackIsPath'
  <2> SUFFICES ASSUME NEW a \in Blocks, NEW i \in Open',
                      \A j \in 1..i : stack'[j].block # a
               PROVE  stack'[i].block \in Avoiding(succ, a)
    BY DEF StackIsPath
  <2>1. \A j \in 1..i : j \in 1..(m - 1)  BY <1>0, <1>3
  <2>2. \A j \in 1..i : stack[j].block # a  BY <2>1, <1>2
  <2> QED  BY <2>2, <1>2, <1>3 DEF StackIsPath
<1>9. Once'
  <2>1. \A i \in Open' : stack'[i].block # b  BY <1>1, <1>2, <1>3 DEF Once
  <2>2. \A k \in Finished : post_order[k] # b  BY <1>1 DEF Once
  <2>3. \A i, j \in Open' : stack'[i].block = stack'[j].block => i = j
    BY <1>2, <1>3 DEF Once
  <2>4. \A k, l \in Finished' : post_order'[k] = post_order'[l] => k = l
    BY <1>5, <1>6, <2>2 DEF Once
  <2>5. \A i \in Open', k \in Finished' : stack'[i].block # post_order'[k]
    BY <1>2, <1>3, <1>5, <1>6, <2>1 DEF Once
  <2> QED  BY <2>3, <2>4, <2>5 DEF Once
<1>10. Entries'
  <2>1. \A i \in Open' : stack'[i].block \in visited  BY <1>2, <1>3 DEF Entries
  <2>2. \A k \in Finished' : post_order'[k] \in visited
    BY <1>1, <1>5, <1>6 DEF Entries
  <2>3. ASSUME NEW c \in visited
        PROVE  \/ \E i \in Open' : stack'[i].block = c
               \/ \E k \in Finished' : post_order'[k] = c
    <3>1. CASE c = b  BY <3>1, <1>5, <1>6
    <3>2. CASE c # b /\ \E i \in Open : stack[i].block = c
      BY <3>2, <1>1, <1>2, <1>3
    <3>3. CASE \E k \in Finished : post_order[k] = c  BY <3>3, <1>5, <1>6
    <3> QED  BY <3>1, <3>2, <3>3 DEF Entries
  <2> QED  BY <2>1, <2>2, <2>3 DEF Entries
<1>11. Passed'
  <2>1. ASSUME NEW i \in Open', NEW n \in DOMAIN succ[stack'[i].block],
               n < stack'[i].next
        PROVE  succ[stack'[i].block][n] \in visited
    BY <2>1, <1>2, <1>3 DEF Passed
  <2>2. ASSUME NEW k \in Finished'
        PROVE  Succs(succ, post_order'[k]) \subseteq visited
    <3>1. CASE k \in Finished  BY <3>1, <1>5, <1>6 DEF Passed
    <3>2. CASE k = f + 1
      <4>1. succ[b] \in Seq(Blocks)  BY <1>1, SuccsAreBlocks
      <4>2. \A n \in DOMAIN succ[b] : n < Top.next
        BY <4>1, <1>1 DEF b
      <4>3. \A n \in DOMAIN succ[b] : succ[b][n] \in visited
        BY <4>2, <1>1 DEF Passed
      <4> QED  BY <4>3, <3>2, <1>5 DEF Succs
    <3> QED  BY <3>1, <3>2, <1>6
  <2> QED  BY <2>1, <2>2 DEF Passed
<1>12. DominatorsLater'
  <2> SUFFICES ASSUME NEW a \in Blocks, NEW k \in Finished',
                      a # post_order'[k], Dom(a, post_order'[k]),
                      NEW l \in Finished', post_order'[l] = a
               PROVE  k < l
    BY DEF DominatorsLater, Dom
  <2>1. CASE k \in Finished /\ l \in Finished
    BY <2>1, <1>5, <1>6 DEF DominatorsLater
  <2>2. CASE k \in Finished /\ l = f + 1  BY <2>2, <1>6
  <2>3. CASE k = f + 1
    <3>1. Dom(a, b) /\ a # b  BY <2>3, <1>5
    <3>2. l \in Finished /\ post_order[l] = a  BY <3>1, <1>5, <1>6
    <3>3. \A j \in 1..m : stack[j].block # a  BY <3>2 DEF Once, Open, m
    <3>4. b \in Avoiding(succ, a)  BY <3>3, <1>1 DEF StackIsPath
    <3> QED  BY <3>1, <3>4 DEF Dom
  <2> QED  BY <2>1, <2>2, <2>3, <1>6
<1> QED  BY <1>7, <1>8, <1>9, <1>10, <1>11, <1>12

----------------------------------------------------------------------------
(* The numbering of the postorder.                                         *)

(* There are N blocks.                                                     *)
LEMMA BlocksFinite ==
    IsFiniteSet(Blocks) /\ Cardinality(Blocks) = N
<1>1. 0 \in Int /\ N - 1 \in Int /\ 0 <= N - 1  BY SizeAssumption
<1>2. /\ IsFiniteSet(0..(N - 1))
      /\ Cardinality(0..(N - 1)) = IF 0 > N - 1 THEN 0 ELSE N - 1 - 0 + 1
  BY <1>1, FS_Interval
<1> QED  BY <1>1, <1>2, SizeAssumption DEF Blocks

(* When dfs has returned, it has been everywhere a path leads.             *)
LEMMA DfsComplete ==
    ASSUME succ \in CFG, DfsInv, stack = <<>>, AllReachable(succ)
    PROVE  \A b \in Blocks : \E k \in Finished : post_order[k] = b
<1> USE DEF DfsInv
<1>1. Open = {}  BY DEF Open
<1>2. \A b \in visited : \E k \in Finished : post_order[k] = b
  BY <1>1 DEF Entries
<1>3. visited \in SUBSET (Blocks \ {kInvalidBlockId})
  BY BlockIds DEF DfsShape
<1>4. Closed(succ, kInvalidBlockId, visited)
  BY <1>2 DEF Closed, Passed, Entries
<1>5. Reachable(succ) \subseteq visited
  BY <1>3, <1>4, AvoidingLeast DEF Reachable
<1> QED  BY <1>2, <1>5 DEF AllReachable

(* Then the postorder has N elements: nothing is read past its end.        *)
LEMMA PostorderLength ==
    ASSUME succ \in CFG, DfsInv, stack = <<>>, AllReachable(succ)
    PROVE  Len(post_order) = N
<1> DEFINE f == Len(post_order)
<1>1. post_order \in [1..f -> Blocks] /\ f \in Nat
  BY DEF DfsInv, DfsShape
<1>2. \A b \in Blocks : \E k \in 1..f : post_order[k] = b
  BY DfsComplete DEF Finished
<1>3. \A k, l \in 1..f : post_order[k] = post_order[l] => k = l
  BY DEF DfsInv, Once, Finished
<1> HIDE DEF f
<1>4. post_order \in Bijection(1..f, Blocks)
  BY <1>1, <1>2, <1>3 DEF Bijection, Injection, IsInjective, Surjection
<1>5. ExistsBijection(1..f, Blocks)  BY <1>4 DEF ExistsBijection
<1>6. Cardinality(Blocks) = f  BY <1>1, <1>5, FS_CountingElements
<1> QED  BY <1>6, BlocksFinite DEF f

(* The greatest of one number is that number.                              *)
LEMMA MaxOfOne ==
    ASSUME NEW x \in Int
    PROVE  Max({x}) = x
BY DEF Max

(* po_idx is the inverse of post_order, from 0.                            *)
LEMMA PostorderNumbers ==
    ASSUME succ \in CFG, DfsInv, stack = <<>>, AllReachable(succ),
           NEW stray \in Strays
    PROVE  /\ Numbered(stray) \in [Blocks -> Nat]
           /\ \A k \in Finished : Numbered(stray)[post_order[k]] = k - 1
<1> DEFINE read == [i \in 1..N |-> IF i <= Len(post_order) THEN post_order[i]
                                                           ELSE stray[i]]
           places(b) == {i - 1 : i \in {j \in 1..N : read[j] = b}}
<1>1. Len(post_order) = N /\ N \in Nat  BY PostorderLength, SizeAssumption
<1>2. Finished = 1..N  BY <1>1 DEF Finished
<1>3. \A i \in 1..N : read[i] = post_order[i]  BY <1>1
<1>4. \A k \in 1..N : post_order[k] \in Blocks
  BY <1>1 DEF DfsInv, DfsShape
<1>5. ASSUME NEW k \in 1..N
      PROVE  places(post_order[k]) = {k - 1}
  <2>1. \A j \in 1..N : read[j] = post_order[k] <=> j = k
    BY <1>2, <1>3 DEF DfsInv, Once
  <2>2. {j \in 1..N : read[j] = post_order[k]} = {k}  BY <2>1
  <2> QED  BY <2>2
<1>6. ASSUME NEW k \in 1..N
      PROVE  /\ places(post_order[k]) # {}
             /\ Max(places(post_order[k])) = k - 1
             /\ k - 1 \in Nat
  <2>1. k - 1 \in Nat /\ k - 1 \in Int  OBVIOUS
  <2> QED  BY <2>1, <1>5, MaxOfOne
<1> HIDE DEF places, read
<1>7. Numbered(stray) =
        [b \in Blocks |-> IF places(b) = {} THEN 0 ELSE Max(places(b))]
  BY DEF Numbered, places, read
<1>8. \A k \in 1..N : Numbered(stray)[post_order[k]] = k - 1
  BY <1>4, <1>6, <1>7
<1>9. \A b \in Blocks : \E k \in 1..N : post_order[k] = b
  BY <1>2, DfsComplete
<1>10. \A b \in Blocks : Numbered(stray)[b] \in Nat  BY <1>6, <1>8, <1>9
<1> QED  BY <1>2, <1>7, <1>8, <1>10

----------------------------------------------------------------------------
(* The invariant of compute_idoms.                                         *)

IdomShape ==
    /\ idoms \in [Blocks -> Blocks \cup {kInvalidBlockId}]
    /\ new_idom \in Blocks \cup {kInvalidBlockId}
    /\ finger \in Blocks
    /\ walking \in BOOLEAN
    /\ pred \in Nat /\ at \in Nat \ {0}
    /\ post_order \in Seq(Blocks)

(* A dominator has a higher postorder number than what it dominates.       *)
DominatorsHigher ==
    /\ po_idx \in [Blocks -> Nat]
    /\ \A a, b \in Blocks : a # b /\ Dom(a, b) => po_idx[b] < po_idx[a]

(* The dominators of b but b dominate i, and i has an idom already.        *)
Above(i, b) ==
    /\ idoms[i] # kInvalidBlockId
    /\ \A a \in Blocks \ {b} : Dom(a, b) => Dom(a, i)

IdomsAbove ==
    /\ idoms[entry] = entry
    /\ \A b \in Blocks : idoms[b] # kInvalidBlockId => Above(idoms[b], b)

(* The fingers have not climbed past a dominator of the current block.     *)
FingersAbove ==
    /\ new_idom # kInvalidBlockId =>
            /\ at <= Len(post_order)
            /\ Current # entry
            /\ Above(new_idom, Current)
    /\ walking => new_idom # kInvalidBlockId /\ Above(finger, Current)

IdomInv == IdomShape /\ DominatorsHigher /\ IdomsAbove /\ FingersAbove

Inv ==
    /\ succ \in CFG
    /\ phase = "postorder" => DfsInv /\ Untouched
    /\ phase = "idoms" /\ AllReachable(succ) => IdomInv

(* rpo runs over blocks.                                                   *)
LEMMA CurrentIsBlock ==
    ASSUME post_order \in Seq(Blocks), at \in Nat \ {0}, at <= Len(post_order)
    PROVE  Current \in Blocks
<1>1. Len(post_order) + 1 - at \in 1..Len(post_order)  OBVIOUS
<1> QED  BY <1>1, ElementOfSeq DEF Current

(* A graph without unreachable blocks is numbered as the algorithm needs.  *)
LEMMA NumberKeeps ==
    ASSUME Inv, NumberPostorder, AllReachable(succ)
    PROVE  IdomInv'
<1>1. DfsInv /\ Untouched /\ succ \in CFG /\ stack = <<>>
  BY DEF Inv, NumberPostorder
<1>2. PICK stray \in Strays : po_idx' = Numbered(stray)
  BY DEF NumberPostorder
<1>3. /\ po_idx' \in [Blocks -> Nat]
      /\ \A k \in Finished : po_idx'[post_order[k]] = k - 1
  BY <1>1, <1>2, PostorderNumbers
<1>4. /\ idoms' = [idoms EXCEPT ![entry] = entry]
      /\ at' = 1 /\ pred' = 0
      /\ UNCHANGED <<succ, post_order, new_idom, walking, finger>>
  BY DEF NumberPostorder, StartRound
<1>5. /\ idoms' \in [Blocks -> Blocks \cup {kInvalidBlockId}]
      /\ idoms'[entry] = entry
      /\ \A b \in Blocks : b # entry => idoms'[b] = kInvalidBlockId
  BY <1>1, <1>4, BlockIds DEF Untouched
<1>6. IdomShape'
  <2>1. /\ new_idom' = kInvalidBlockId
        /\ finger' \in Blocks /\ walking' = FALSE
    BY <1>1, <1>4 DEF Untouched
  <2>2. post_order' \in Seq(Blocks)  BY <1>1, <1>4 DEF DfsInv, DfsShape
  <2>3. at' \in Nat \ {0} /\ pred' \in Nat  BY <1>4
  <2> QED  BY <1>5, <2>1, <2>2, <2>3 DEF IdomShape
<1>7. DominatorsHigher'
  <2> SUFFICES ASSUME NEW a \in Blocks, NEW b \in Blocks, a # b, Dom(a, b)
               PROVE  po_idx'[b] < po_idx'[a]
    BY <1>3, <1>4 DEF DominatorsHigher, Dom
  <2>1. PICK k \in Finished : post_order[k] = b  BY <1>1, DfsComplete
  <2>2. PICK l \in Finished : post_order[l] = a  BY <1>1, DfsComplete
  <2>3. k < l  BY <1>1, <2>1, <2>2 DEF DfsInv, DominatorsLater
  <2>4. k \in Int /\ l \in Int  BY DEF Finished
  <2> QED  BY <1>3, <2>1, <2>2, <2>3, <2>4
<1>8. IdomsAbove'
  <2>1. ASSUME NEW b \in Blocks, idoms'[b] # kInvalidBlockId
        PROVE  b = entry /\ idoms'[b] = entry
    BY <1>5, <2>1
  <2>2. entry # kInvalidBlockId  BY BlockIds
  <2> QED  BY <1>4, <1>5, <2>1, <2>2 DEF IdomsAbove, Above, Dom
<1>9. FingersAbove'  BY <1>1, <1>4 DEF FingersAbove, Untouched
<1> QED  BY <1>6, <1>7, <1>8, <1>9 DEF IdomInv

(* A predecessor is dominated by all that dominates the block strictly.    *)
LEMMA SeePredKeeps ==
    ASSUME succ \in CFG, IdomInv, SeePred
    PROVE  IdomInv'
<1> USE DEF IdomInv
<1>1. PICK p \in Least(Ahead(Current)) :
        LET known == idoms[p] # kInvalidBlockId
            first == new_idom = kInvalidBlockId
        IN  /\ pred' = p + 1
            /\ new_idom' = IF known /\ first THEN p ELSE new_idom
            /\ walking' = (known /\ ~first)
            /\ finger' = IF known /\ ~first THEN p ELSE finger
  BY DEF SeePred
<1>2. /\ UNCHANGED <<succ, post_order, po_idx, idoms, at>>
      /\ at <= Len(post_order) /\ Current # entry
  BY DEF SeePred, InBlock, orderVars
<1>3. Current \in Blocks /\ Current' = Current
  BY <1>2, CurrentIsBlock DEF IdomShape, Current
<1>4. p \in Preds(succ, Current) /\ p \in Blocks /\ p \in Nat
  BY DEF Least, Ahead, Preds, Blocks
<1>5. \A a \in Blocks \ {Current} : Dom(a, Current) => Dom(a, p)
  BY <1>3, <1>4, DominatesPreds
<1>6. idoms[p] # kInvalidBlockId => Above(p, Current)  BY <1>5 DEF Above
<1>7. IdomShape'  BY <1>1, <1>2, <1>4 DEF IdomShape
<1>8. DominatorsHigher'  BY <1>2 DEF DominatorsHigher, Dom
<1>9. IdomsAbove'  BY <1>2 DEF IdomsAbove, Above, Dom
<1>10. FingersAbove'
  <2>1. p # kInvalidBlockId  BY <1>4, BlockIds
  <2>2. CASE idoms[p] # kInvalidBlockId /\ new_idom = kInvalidBlockId
    <3>1. new_idom' = p /\ walking' = FALSE  BY <1>1, <2>2
    <3> QED  BY <3>1, <2>2, <1>2, <1>3, <1>5 DEF FingersAbove, Above, Dom
  <2>3. CASE idoms[p] # kInvalidBlockId /\ new_idom # kInvalidBlockId
    <3>1. new_idom' = new_idom /\ walking' = TRUE /\ finger' = p
      BY <1>1, <2>3
    <3>2. Above(new_idom, Current)  BY <2>3 DEF FingersAbove
    <3> QED  BY <3>1, <3>2, <2>3, <1>2, <1>3, <1>5 DEF FingersAbove, Above, Dom
  <2>4. CASE idoms[p] = kInvalidBlockId
    <3>1. new_idom' = new_idom /\ walking' = FALSE  BY <1>1, <2>4
    <3> QED  BY <3>1, <1>2, <1>3 DEF FingersAbove, Above, Dom
  <2> QED  BY <2>2, <2>3, <2>4
<1> QED  BY <1>7, <1>8, <1>9, <1>10

(* A finger that is lower than the other is no dominator of the block: one *)
(* that dominates the block dominates the other finger, and is higher.  So *)
(* the step up leaves no dominator behind.                                 *)
LEMMA ClimbKeepsAbove ==
    ASSUME IdomInv, NEW b \in Blocks, NEW f \in Blocks, NEW g \in Blocks,
           f # g, Above(f, b), Above(g, b), ~(po_idx[g] < po_idx[f])
    PROVE  idoms[f] \in Blocks /\ Above(idoms[f], b)
<1> USE DEF IdomInv
<1>1. idoms[f] \in Blocks /\ Above(idoms[f], f)
  BY DEF Above, IdomsAbove, IdomShape
<1>2. ASSUME NEW a \in Blocks \ {b}, Dom(a, b)
      PROVE  Dom(a, idoms[f])
  <2>1. Dom(a, f) /\ Dom(a, g)  BY <1>2 DEF Above
  <2>2. CASE a # f  BY <2>1, <2>2, <1>1 DEF Above
  <2>3. CASE a = f
    <3>1. po_idx[g] < po_idx[f]  BY <2>1, <2>3 DEF DominatorsHigher
    <3> QED  BY <3>1
  <2> QED  BY <2>2, <2>3
<1> QED  BY <1>1, <1>2 DEF Above

(* intersect climbs from the lower finger.                                 *)
LEMMA IntersectStepKeeps ==
    ASSUME succ \in CFG, IdomInv, IntersectStep
    PROVE  IdomInv'
<1> USE DEF IdomInv
<1>1. /\ UNCHANGED <<succ, post_order, po_idx, idoms, at, pred, walking>>
      /\ walking /\ finger # new_idom
  BY DEF IntersectStep, orderVars
<1>2. /\ new_idom # kInvalidBlockId /\ at <= Len(post_order)
      /\ Current # entry /\ Above(new_idom, Current) /\ Above(finger, Current)
  BY <1>1 DEF FingersAbove
<1>3. Current \in Blocks /\ Current' = Current
  BY <1>1, <1>2, CurrentIsBlock DEF IdomShape, Current
<1>4. new_idom \in Blocks /\ finger \in Blocks  BY <1>2 DEF IdomShape
<1>5. po_idx[finger] \in Nat /\ po_idx[new_idom] \in Nat
  BY <1>4 DEF DominatorsHigher
<1>6. DominatorsHigher' /\ IdomsAbove'
  BY <1>1 DEF DominatorsHigher, IdomsAbove, Above, Dom
<1>7. CASE po_idx[finger] < po_idx[new_idom]
  <2>1. finger' = idoms[finger] /\ new_idom' = new_idom
    BY <1>7 DEF IntersectStep
  <2>2. finger' \in Blocks /\ Above(finger', Current)
    BY <1>1, <1>2, <1>3, <1>4, <1>5, <1>7, <2>1, ClimbKeepsAbove
  <2>3. IdomShape'  BY <1>1, <2>1, <2>2 DEF IdomShape
  <2>4. FingersAbove'
    BY <1>1, <1>2, <1>3, <2>1, <2>2 DEF FingersAbove, Above, Dom
  <2> QED  BY <1>6, <2>3, <2>4
<1>8. CASE ~(po_idx[finger] < po_idx[new_idom])
  <2>1. new_idom' = idoms[new_idom] /\ finger' = finger
    BY <1>8 DEF IntersectStep
  <2>2. new_idom' \in Blocks /\ Above(new_idom', Current)
    BY <1>1, <1>2, <1>3, <1>4, <1>8, <2>1, ClimbKeepsAbove
  <2>3. IdomShape'  BY <1>1, <2>1, <2>2 DEF IdomShape
  <2>4. FingersAbove'
    BY <1>1, <1>2, <1>3, <2>1, <2>2 DEF FingersAbove, Above, Dom
  <2> QED  BY <1>6, <2>3, <2>4
<1> QED  BY <1>7, <1>8

(* The block gets the idom that was found.                                 *)
LEMMA SetIdomKeeps ==
    ASSUME succ \in CFG, IdomInv, SetIdom
    PROVE  IdomInv'
<1> USE DEF IdomInv
<1>1. /\ UNCHANGED <<succ, post_order, po_idx, walking, finger>>
      /\ at' = at + 1 /\ pred' = 0 /\ new_idom' = kInvalidBlockId
      /\ at <= Len(post_order) /\ Current # entry /\ ~walking
  BY DEF SetIdom, InBlock, orderVars
<1>2. Current \in Blocks  BY <1>1, CurrentIsBlock DEF IdomShape
<1>3. \/ idoms' = idoms
      \/ /\ new_idom # kInvalidBlockId
         /\ idoms' = [idoms EXCEPT ![Current] = new_idom]
  BY DEF SetIdom
<1>4. IdomShape'
  <2>1. idoms' \in [Blocks -> Blocks \cup {kInvalidBlockId}]
    BY <1>3 DEF IdomShape
  <2>2. at' \in Nat \ {0} /\ pred' \in Nat  BY <1>1 DEF IdomShape
  <2> QED  BY <1>1, <2>1, <2>2 DEF IdomShape
<1>5. DominatorsHigher'  BY <1>1 DEF DominatorsHigher, Dom
<1>6. FingersAbove'  BY <1>1 DEF FingersAbove
<1>7. IdomsAbove'
  <2>1. CASE idoms' = idoms
    BY <1>1, <2>1 DEF IdomsAbove, Above, Dom
  <2>2. CASE /\ new_idom # kInvalidBlockId
             /\ idoms' = [idoms EXCEPT ![Current] = new_idom]
    <3>1. Above(new_idom, Current)  BY <2>2 DEF FingersAbove
    <3>2. /\ \A b \in Blocks : idoms'[b] = IF b = Current THEN new_idom
                                                          ELSE idoms[b]
          /\ new_idom \in Blocks
      BY <2>2, <1>2 DEF IdomShape
    <3>3. \A b \in Blocks : idoms[b] # kInvalidBlockId =>
                                idoms'[b] # kInvalidBlockId
      BY <2>2, <3>2
    <3>4. idoms'[entry] = entry  BY <1>1, <3>2, BlockIds DEF IdomsAbove
    <3>5. ASSUME NEW b \in Blocks, idoms'[b] # kInvalidBlockId
          PROVE  Above(idoms'[b], b)
      BY <3>1, <3>2, <3>5 DEF IdomsAbove
    <3>6. ASSUME NEW b \in Blocks, idoms'[b] # kInvalidBlockId
          PROVE  idoms'[idoms'[b]] # kInvalidBlockId
      <4>1. idoms'[b] \in Blocks  BY <1>4, <3>6 DEF IdomShape
      <4>2. idoms[idoms'[b]] # kInvalidBlockId  BY <3>5, <3>6 DEF Above
      <4> QED  BY <4>1, <4>2, <3>3
    <3> QED  BY <1>1, <3>4, <3>5, <3>6 DEF IdomsAbove, Above, Dom
  <2> QED  BY <1>3, <2>1, <2>2
<1> QED  BY <1>4, <1>5, <1>6, <1>7

(* The other steps of compute_idoms only move the cursor.                  *)
LEMMA CursorKeeps ==
    ASSUME succ \in CFG, IdomInv, SkipEntry \/ IntersectDone \/ NextRound
    PROVE  IdomInv'
<1> USE DEF IdomInv
<1>1. /\ UNCHANGED <<succ, post_order, po_idx, idoms, new_idom, finger>>
      /\ walking' \in {walking, FALSE}
  BY DEF SkipEntry, IntersectDone, NextRound, StartRound, orderVars, idomVars
<1>2. DominatorsHigher' /\ IdomsAbove'
  BY <1>1 DEF DominatorsHigher, IdomsAbove, Above, Dom
<1>3. /\ at' \in Nat \ {0} /\ pred' \in Nat
  BY DEF SkipEntry, IntersectDone, NextRound, StartRound, IdomShape
<1>4. walking' \in BOOLEAN
  <2>1. walking \in BOOLEAN  BY DEF IdomShape
  <2> QED  BY ONLY <1>1, <2>1
<1>5. IdomShape'  BY <1>1, <1>3, <1>4 DEF IdomShape
<1>6. CASE SkipEntry \/ NextRound
  <2>1. at \in Nat /\ Len(post_order) \in Nat  BY DEF IdomShape
  <2>2. new_idom = kInvalidBlockId
    <3>1. CASE SkipEntry  BY <3>1 DEF SkipEntry, FingersAbove
    <3>2. CASE NextRound  BY <2>1, <3>2 DEF NextRound, FingersAbove
    <3> QED  BY <1>6, <3>1, <3>2
  <2>3. ~walking  BY <2>2 DEF FingersAbove
  <2>4. ~walking' BY <2>3, <1>1
  <2> QED  BY <1>1, <1>2, <1>5, <2>2, <2>4 DEF FingersAbove
<1>7. CASE IntersectDone
  <2>1. at' = at /\ ~walking'  BY <1>7 DEF IntersectDone
  <2>2. Current' = Current  BY <1>1, <2>1 DEF Current
  <2> QED  BY <1>1, <1>2, <1>5, <2>1, <2>2 DEF FingersAbove, Above, Dom
<1> QED  BY <1>6, <1>7

----------------------------------------------------------------------------
(* The invariant holds throughout.                                         *)

(* Every step keeps the invariant.                                         *)
LEMMA StepKeeps ==
    ASSUME Inv, [Next]_vars
    PROVE  Inv'
<1>0. succ \in CFG  BY DEF Inv
<1>1. CASE Explore
  <2>1. /\ phase = "postorder" /\ phase' = "postorder" /\ stack # <<>>
        /\ Top.next <= Len(succ[Top.block])
        /\ UNCHANGED <<succ, post_order, idoms, new_idom, walking, finger>>
    BY <1>1 DEF Explore, idomVars, cursorVars
  <2> DEFINE s == succ[Top.block][Top.next]
  <2>2. /\ stack' = IF s \in visited THEN Resumed ELSE Entered(s)
        /\ visited' = visited \cup {s}
    BY <1>1 DEF Explore
  <2>3. DfsInv /\ Untouched  BY <2>1 DEF Inv
  <2>4. CASE s \in visited
    <3>1. stack' = Resumed /\ visited' = visited  BY <2>2, <2>4
    <3> QED  BY <1>0, <2>1, <2>3, <2>4, <3>1, ResumeKeeps DEF Inv, Untouched
  <2>5. CASE s \notin visited
    <3>1. stack' = Entered(s)  BY <2>2, <2>5
    <3> QED  BY <1>0, <2>1, <2>2, <2>3, <2>5, <3>1, EnterKeeps DEF Inv, Untouched
  <2> QED  BY <2>4, <2>5
<1>2. CASE Finish
  <2>1. /\ phase = "postorder" /\ phase' = "postorder" /\ stack # <<>>
        /\ Top.next > Len(succ[Top.block])
        /\ post_order' = Append(post_order, Top.block)
        /\ stack' = Below
        /\ UNCHANGED <<succ, visited, idoms, new_idom, walking, finger>>
    BY <1>2 DEF Finish, idomVars, cursorVars
  <2> QED  BY <1>0, <2>1, FinishKeeps DEF Inv, Untouched
<1>3. CASE NumberPostorder
  <2>1. succ' = succ /\ phase' = "idoms"  BY <1>3 DEF NumberPostorder
  <2> QED  BY <1>0, <1>3, <2>1, NumberKeeps DEF Inv
<1>4. CASE SeePred \/ IntersectStep \/ SetIdom \/ SkipEntry \/ IntersectDone
           \/ NextRound
  <2>1. succ' = succ /\ phase = "idoms" /\ phase' = "idoms"
    BY <1>4 DEF SeePred, InBlock, IntersectStep, SetIdom, SkipEntry,
                IntersectDone, NextRound
  <2>2. AllReachable(succ) => IdomInv'
    BY <1>0, <1>4, <2>1, SeePredKeeps, IntersectStepKeeps, SetIdomKeeps,
       CursorKeeps DEF Inv
  <2> QED  BY <1>0, <2>1, <2>2 DEF Inv
<1>5. CASE WriteOutside \/ Numbers \/ Frontiers
  <2>1. succ' = succ /\ phase' \notin {"postorder", "idoms"}
    BY <1>5 DEF WriteOutside, Numbers, Converge, Descend, Ascend, Frontiers,
                StartFrontier, StartRunner, Run, NextBlock, Return
  <2> QED  BY <1>0, <2>1 DEF Inv
<1>6. CASE Stopped
  <2>1. succ' = succ /\ phase' \notin {"postorder", "idoms"}
    BY <1>6 DEF Stopped, vars
  <2> QED  BY <1>0, <2>1 DEF Inv
<1>7. CASE UNCHANGED vars
  <2>1. UNCHANGED <<succ, phase, stack, visited, post_order, po_idx, idoms,
                    new_idom, at, pred, walking, finger>>
    BY <1>7 DEF vars, orderVars, idomVars, cursorVars
  <2>2. Open' = Open /\ Finished' = Finished  BY <2>1 DEF Open, Finished
  <2>3. Current' = Current  BY <2>1 DEF Current
  <2>4. DfsShape' <=> DfsShape  BY <2>1, <2>2 DEF DfsShape
  <2>5. StackIsPath' <=> StackIsPath  BY <2>1, <2>2 DEF StackIsPath
  <2>6. Once' <=> Once  BY <2>1, <2>2 DEF Once
  <2>7. Entries' <=> Entries  BY <2>1, <2>2 DEF Entries
  <2>8. Passed' <=> Passed  BY <2>1, <2>2 DEF Passed
  <2>9. DominatorsLater' <=> DominatorsLater
    BY <2>1, <2>2 DEF DominatorsLater, Dom
  <2>10. Untouched' <=> Untouched  BY <2>1 DEF Untouched
  <2>11. IdomShape' <=> IdomShape  BY <2>1 DEF IdomShape
  <2>12. DominatorsHigher' <=> DominatorsHigher
    BY <2>1 DEF DominatorsHigher, Dom
  <2>13. IdomsAbove' <=> IdomsAbove  BY <2>1 DEF IdomsAbove, Above, Dom
  <2>14. FingersAbove' <=> FingersAbove
    BY <2>1, <2>3 DEF FingersAbove, Above, Dom
  <2>15. DfsInv' <=> DfsInv
    BY <2>4, <2>5, <2>6, <2>7, <2>8, <2>9 DEF DfsInv
  <2>16. IdomInv' <=> IdomInv  BY <2>11, <2>12, <2>13, <2>14 DEF IdomInv
  <2> QED  BY <2>1, <2>10, <2>15, <2>16 DEF Inv
<1> QED
  BY <1>1, <1>2, <1>3, <1>4, <1>5, <1>6, <1>7 DEF Next, Postorder, Idoms

(* The construction never steps over a dominator on its way up, whatever   *)
(* the control flow graph, as long as all its blocks can be reached.       *)
THEOREM NeverMissesADominator == Spec => []NothingMissed
<1>1. Init => Inv
  <2> SUFFICES ASSUME Init  PROVE Inv
    OBVIOUS
  <2>1. succ \in CFG /\ phase = "postorder"  BY GraphsAssumption DEF Init
  <2> QED  BY <2>1, DfsInit DEF Inv
<1>2. Inv /\ [Next]_vars => Inv'  BY StepKeeps
<1>3. Inv => NothingMissed
  <2> SUFFICES ASSUME Inv, phase = "idoms", AllReachable(succ),
                      NEW b \in Blocks \ {entry}, idoms[b] # kInvalidBlockId,
                      NEW a \in Blocks \ {b}, b \in DominanceOf(succ)[a]
               PROVE  idoms[b] \in DominanceOf(succ)[a]
    BY DEF NothingMissed
  <2>1. \A c \in Blocks : c \in DominanceOf(succ)[a] <=> Dom(a, c)
    BY DEF DominanceOf, Dominated, Dom, AllReachable
  <2>2. IdomInv  BY DEF Inv
  <2>3. idoms[b] \in Blocks /\ Above(idoms[b], b)
    BY <2>2 DEF IdomInv, IdomShape, IdomsAbove
  <2> QED  BY <2>1, <2>3 DEF Above
<1> QED  BY <1>1, <1>2, <1>3, PTL DEF Spec
----------------------------------------------------------------------------
(* The chain of a block b in a table d of parents: b, its parent, and so   *)
(* on: the least set with b that has the parents of its members.           *)

Tables == [Blocks -> Blocks \cup {kInvalidBlockId}]

Up(d, S) == \A x \in S : d[x] \in Blocks => d[x] \in S
Chain(d, b) == {i \in Blocks : \A S \in SUBSET Blocks : b \in S /\ Up(d, S) => i \in S}

(* Parents are numbered higher, and the entry is its own parent.           *)
Rising(d, po) ==
    /\ po \in [Blocks -> Nat]
    /\ d[entry] = entry
    /\ \A b \in Blocks \ {entry} : d[b] \in Blocks => po[b] < po[d[b]]

(* A chain holds what it starts with and the parents of its members.       *)
LEMMA ChainMembers ==
    ASSUME NEW d \in Tables, NEW b \in Blocks
    PROVE  /\ Chain(d, b) \subseteq Blocks
           /\ b \in Chain(d, b)
           /\ \A y \in Chain(d, b) : d[y] \in Blocks => d[y] \in Chain(d, b)
<1>1. Chain(d, b) \subseteq Blocks /\ b \in Chain(d, b)  BY DEF Chain
<1>2. ASSUME NEW y \in Chain(d, b), d[y] \in Blocks,
             NEW S \in SUBSET Blocks, b \in S, Up(d, S)
      PROVE  d[y] \in S
  <2>1. y \in S  BY <1>2 DEF Chain
  <2> QED  BY <1>2, <2>1 DEF Up
<1> QED  BY <1>1, <1>2 DEF Chain

(* It is the least such set.                                               *)
LEMMA ChainLeast ==
    ASSUME NEW d, NEW b, NEW S \in SUBSET Blocks, b \in S, Up(d, S)
    PROVE  Chain(d, b) \subseteq S
BY DEF Chain

(* The chain of a member is a part of the chain.                           *)
LEMMA ChainOfMember ==
    ASSUME NEW d \in Tables, NEW b \in Blocks, NEW y \in Chain(d, b)
    PROVE  Chain(d, y) \subseteq Chain(d, b)
<1>1. Chain(d, b) \in SUBSET Blocks /\ Up(d, Chain(d, b))
  BY ChainMembers DEF Up
<1> QED  BY <1>1, ChainLeast

(* A chain goes on with the chain of the parent.                           *)
LEMMA ChainFirst ==
    ASSUME NEW d \in Tables, NEW b \in Blocks
    PROVE  /\ d[b] \in Blocks => Chain(d, b) = {b} \cup Chain(d, d[b])
           /\ d[b] \notin Blocks => Chain(d, b) = {b}
<1>1. CASE d[b] \in Blocks
  <2> DEFINE S == {b} \cup Chain(d, d[b])
  <2>1. S \in SUBSET Blocks /\ b \in S  BY <1>1, ChainMembers
  <2>2. Up(d, S)  BY <1>1, ChainMembers DEF Up
  <2>3. Chain(d, b) \subseteq S  BY <2>1, <2>2, ChainLeast
  <2>4. d[b] \in Chain(d, b) /\ b \in Chain(d, b)  BY <1>1, ChainMembers
  <2>5. Chain(d, d[b]) \subseteq Chain(d, b)  BY <2>4, ChainOfMember
  <2> QED  BY <1>1, <2>3, <2>4, <2>5
<1>2. CASE d[b] \notin Blocks
  <2>1. Up(d, {b})  BY <1>2 DEF Up
  <2>2. Chain(d, b) \subseteq {b}  BY <2>1, ChainLeast
  <2> QED  BY <1>2, <2>2, ChainMembers
<1> QED  BY <1>1, <1>2

(* Of two members of a chain, one is on the chain of the other.            *)
LEMMA ChainLinear ==
    ASSUME NEW d \in Tables, NEW b \in Blocks,
           NEW x \in Chain(d, b), NEW y \in Chain(d, b)
    PROVE  x \in Chain(d, y) \/ y \in Chain(d, x)
<1> DEFINE S == {z \in Chain(d, b) : x \in Chain(d, z) \/ z \in Chain(d, x)}
<1>1. x \in Blocks /\ Chain(d, b) \subseteq Blocks /\ b \in Chain(d, b)
  BY ChainMembers
<1>2. b \in S  BY <1>1
<1>3. ASSUME NEW z \in S, d[z] \in Blocks
      PROVE  d[z] \in S
  <2>1. z \in Blocks /\ d[z] \in Chain(d, b)  BY <1>1, <1>3, ChainMembers
  <2>2. CASE z \in Chain(d, x)
    <3>1. d[z] \in Chain(d, x)  BY <1>1, <1>3, <2>2, ChainMembers
    <3> QED  BY <2>1, <3>1
  <2>3. CASE x \in Chain(d, z) /\ x # z
    <3>1. x \in Chain(d, d[z])  BY <1>3, <2>1, <2>3, ChainFirst
    <3> QED  BY <2>1, <3>1
  <2>4. CASE x = z  BY <1>1, <2>2, <2>4, ChainMembers
  <2> QED  BY <1>3, <2>2, <2>3, <2>4
<1>4. Up(d, S)  BY <1>3 DEF Up
<1>5. S \in SUBSET Blocks  BY <1>1
<1> HIDE DEF S
<1>6. Chain(d, b) \subseteq S  BY <1>2, <1>4, <1>5, ChainLeast
<1> QED  BY <1>6 DEF S

(* The members behind the first are numbered higher.                       *)
LEMMA ChainRises ==
    ASSUME NEW d \in Tables, NEW po, Rising(d, po), NEW b \in Blocks,
           NEW y \in Chain(d, b), y # b
    PROVE  po[b] < po[y]
<1> DEFINE S == {b} \cup {z \in Blocks : po[b] < po[z]}
<1>1. Up(d, S)
  <2>1. ASSUME NEW z \in S, d[z] \in Blocks
        PROVE  d[z] \in S
    <3>1. CASE z = entry  BY <2>1, <3>1 DEF Rising
    <3>2. CASE z # entry
      <4>1. po[z] < po[d[z]]  BY <2>1, <3>2 DEF Rising
      <4>2. po[b] \in Nat /\ po[z] \in Nat /\ po[d[z]] \in Nat
        BY <2>1 DEF Rising
      <4> QED  BY <2>1, <4>1, <4>2
    <3> QED  BY <3>1, <3>2
  <2> QED  BY <2>1 DEF Up
<1>2. Chain(d, b) \subseteq S  BY <1>1, ChainLeast
<1> QED  BY <1>2

(* So the numbers decide which of two members is behind the other.         *)
LEMMA ChainAbove ==
    ASSUME NEW d \in Tables, NEW po, Rising(d, po), NEW b \in Blocks,
           NEW c \in Chain(d, b), NEW x \in Chain(d, b), ~(po[x] < po[c])
    PROVE  x \in Chain(d, c)
<1>1. c \in Blocks /\ x \in Blocks  BY ChainMembers
<1>2. CASE x \in Chain(d, c)  BY <1>2
<1>3. CASE c \in Chain(d, x)
  <2>1. CASE c = x  BY <1>1, <2>1, ChainMembers
  <2>2. CASE c # x
    <3>1. po[x] < po[c]  BY <1>1, <1>3, <2>2, ChainRises
    <3> QED  BY <3>1
  <2> QED  BY <2>1, <2>2
<1> QED  BY <1>2, <1>3, ChainLinear

(* The entry is alone on its chain.                                        *)
LEMMA ChainOfEntry ==
    ASSUME NEW d \in Tables, d[entry] = entry
    PROVE  Chain(d, entry) = {entry}
<1>1. Up(d, {entry}) /\ entry \in Blocks  BY BlockIds DEF Up
<1> QED  BY <1>1, ChainLeast, ChainMembers

----------------------------------------------------------------------------
(* A block c gets a new parent e whose chain does not come back to c.      *)

(* Chains without c are as they were.                                      *)
LEMMA ChangeElsewhere ==
    ASSUME NEW d \in Tables, NEW c \in Blocks, NEW e \in Blocks,
           NEW b \in Blocks, c \notin Chain(d, b)
    PROVE  Chain([d EXCEPT ![c] = e], b) = Chain(d, b)
<1> DEFINE f == [d EXCEPT ![c] = e]
<1>1. f \in Tables /\ \A y \in Blocks : y # c => f[y] = d[y]  BY DEF Tables
<1>2. Chain(d, b) \in SUBSET Blocks /\ b \in Chain(d, b)  BY ChainMembers
<1>3. Up(f, Chain(d, b))  BY <1>1, <1>2, ChainMembers DEF Up
<1> HIDE DEF f
<1>4. Chain(f, b) \subseteq Chain(d, b)  BY <1>2, <1>3, ChainLeast
<1>5. Chain(f, b) \in SUBSET Blocks /\ b \in Chain(f, b)  BY <1>1, ChainMembers
<1>6. Up(d, Chain(f, b))  BY <1>1, <1>4, <1>5, ChainMembers DEF Up
<1>7. Chain(d, b) \subseteq Chain(f, b)  BY <1>5, <1>6, ChainLeast
<1> QED  BY <1>4, <1>7 DEF f

(* Its own is c and the chain of e.                                        *)
LEMMA ChangeOwn ==
    ASSUME NEW d \in Tables, NEW c \in Blocks, NEW e \in Blocks, c \notin Chain(d, e)
    PROVE  Chain([d EXCEPT ![c] = e], c) = {c} \cup Chain(d, e)
<1> DEFINE f == [d EXCEPT ![c] = e]
<1>1. f \in Tables /\ f[c] = e  BY DEF Tables
<1>2. Chain(f, e) = Chain(d, e)  BY ChangeElsewhere
<1> HIDE DEF f
<1>3. Chain(f, c) = {c} \cup Chain(f, e)  BY <1>1, ChainFirst
<1> QED  BY <1>2, <1>3 DEF f

(* If e was on the chain of c, chains only become shorter; and what is     *)
(* numbered up to c stays on them.                                         *)
LEMMA ChangeShortens ==
    ASSUME NEW d \in Tables, NEW c \in Blocks, NEW e \in Blocks, NEW b \in Blocks,
           e \in Chain(d, c)
    PROVE  Chain([d EXCEPT ![c] = e], b) \subseteq Chain(d, b)
<1> DEFINE f == [d EXCEPT ![c] = e]
<1>1. \A y \in Blocks : f[y] = IF y = c THEN e ELSE d[y]  BY DEF Tables
<1>2. Chain(d, b) \in SUBSET Blocks /\ b \in Chain(d, b)  BY ChainMembers
<1>3. c \in Chain(d, b) => e \in Chain(d, b)  BY ChainOfMember
<1>4. Up(f, Chain(d, b))  BY <1>1, <1>2, <1>3, ChainMembers DEF Up
<1> QED  BY <1>2, <1>4, ChainLeast

LEMMA ChangeKeepsBelow ==
    ASSUME NEW d \in Tables, NEW po, Rising(d, po),
           NEW c \in Blocks \ {entry}, NEW e \in Blocks, NEW b \in Blocks,
           NEW x \in Chain(d, b), ~(po[c] < po[x])
    PROVE  x \in Chain([d EXCEPT ![c] = e], b)
<1> DEFINE f == [d EXCEPT ![c] = e]
           S == Chain(f, b) \cup {y \in Blocks : po[c] < po[y]}
<1>1. f \in Tables /\ \A y \in Blocks : y # c => f[y] = d[y]  BY DEF Tables
<1> HIDE DEF f
<1>2. Chain(f, b) \in SUBSET Blocks /\ b \in Chain(f, b)  BY <1>1, ChainMembers
<1>3. ASSUME NEW y \in S, d[y] \in Blocks
      PROVE  d[y] \in S
  <2>1. y \in Blocks  BY <1>2
  <2>2. po[c] \in Nat /\ po[y] \in Nat /\ po[d[y]] \in Nat
    BY <1>3, <2>1 DEF Rising
  <2>3. CASE y = c  BY <1>3, <2>3 DEF Rising
  <2>4. CASE y \in Chain(f, b) /\ y # c
    BY <1>1, <1>2, <1>3, <2>1, <2>4, ChainMembers
  <2>5. CASE po[c] < po[y]
    <3>1. CASE y = entry  BY <1>3, <2>5, <3>1 DEF Rising
    <3>2. CASE y # entry
      <4>1. po[y] < po[d[y]]  BY <1>3, <2>1, <3>2 DEF Rising
      <4> QED  BY <1>3, <2>2, <2>5, <4>1
    <3> QED  BY <3>1, <3>2
  <2> QED  BY <1>3, <2>3, <2>4, <2>5
<1>4. Up(d, S) /\ S \in SUBSET Blocks  BY <1>2, <1>3 DEF Up
<1>5. Chain(d, b) \subseteq S  BY <1>2, <1>4, ChainLeast
<1> QED  BY <1>5 DEF f

(* If c had no parent, it is on no other chain.                            *)
LEMMA ChangeFirst ==
    ASSUME NEW d \in Tables, NEW c \in Blocks, NEW e \in Blocks,
           NEW b \in Blocks \ {c}, d[c] \notin Blocks,
           \A y \in Blocks : d[y] \in Blocks => d[d[y]] \in Blocks
    PROVE  c \notin Chain(d, b)
<1> DEFINE S == {b} \cup {y \in Blocks : d[y] \in Blocks}
<1>1. Up(d, S) /\ S \in SUBSET Blocks  BY DEF Up
<1>2. Chain(d, b) \subseteq S  BY <1>1, ChainLeast
<1> QED  BY <1>2

----------------------------------------------------------------------------
(* dfs enters every block but the entry from a predecessor, which it       *)
(* leaves later.                                                           *)

HasParent ==
    /\ \A j \in Open : stack[j].block # entry =>
            \E i \in Open : i < j /\ stack[j].block \in Succs(succ, stack[i].block)
    /\ \A k \in Finished : post_order[k] # entry =>
            \E p \in Blocks :
                /\ post_order[k] \in Succs(succ, p)
                /\ \/ \E i \in Open : stack[i].block = p
                   \/ \E l \in Finished : k < l /\ post_order[l] = p

LEMMA ParentInit ==
    ASSUME Init
    PROVE  HasParent
<1> DEFINE c == [block |-> entry, next |-> 1]
<1>1. c \in Call /\ c.block = entry  BY BlockIds, CallType
<1> HIDE DEF c
<1>2. stack = <<c>> /\ post_order = <<>>  BY DEF Init, c
<1>3. Open = 1..1 /\ stack[1] = c /\ Finished = {}  BY <1>2 DEF Open, Finished
<1> QED  BY <1>1, <1>3 DEF HasParent

LEMMA ResumeParent ==
    ASSUME DfsInv, HasParent, stack # <<>>, stack' = Resumed,
           UNCHANGED <<succ, post_order>>
    PROVE  HasParent'
<1>1. stack \in Seq(Call)  BY DEF DfsInv, DfsShape
<1>2. /\ Open' = Open /\ Finished' = Finished
      /\ \A i \in Open : stack'[i].block = stack[i].block
  BY <1>1, ResumeCall DEF Open, Finished
<1> QED  BY <1>2 DEF HasParent

LEMMA EnterParent ==
    ASSUME succ \in CFG, DfsInv, HasParent, stack # <<>>,
           NEW s \in Succs(succ, Top.block), stack' = Entered(s),
           UNCHANGED <<succ, post_order>>
    PROVE  HasParent'
<1> DEFINE m == Len(stack)
<1>1. stack \in Seq(Call)  BY DEF DfsInv, DfsShape
<1>2. m \in Nat \ {0} /\ Top = stack[m] /\ Top.block \in Blocks
  BY <1>1, TopOfStack
<1>3. s \in Blocks  BY <1>2, SuccsAreBlocks
<1>4. /\ Len(stack') = m + 1 /\ stack'[m + 1].block = s
      /\ \A i \in 1..m : stack'[i].block = stack[i].block
  BY <1>1, <1>3, EnterCall, ResumeCall
<1> HIDE DEF m
<1>5. /\ Open = 1..m /\ Open' = 1..(m + 1) /\ Finished' = Finished
  BY <1>4 DEF Open, Finished, m
<1>6. ASSUME NEW j \in Open', stack'[j].block # entry
      PROVE  \E i \in Open' : i < j /\ stack'[j].block \in Succs(succ, stack'[i].block)
  <2>1. CASE j = m + 1
    <3>1. m \in 1..m /\ m \in Open' /\ m < j  BY <1>2, <1>5, <2>1
    <3>2. stack'[m].block = Top.block  BY <1>2, <1>4, <3>1
    <3>3. stack'[j].block = s  BY <1>4, <2>1
    <3> QED  BY <3>1, <3>2, <3>3
  <2>2. CASE j # m + 1
    <3>1. j \in 1..m /\ j \in Open  BY <1>2, <1>5, <2>2
    <3>2. stack'[j].block = stack[j].block  BY <1>4, <3>1
    <3>3. PICK i \in Open : i < j /\ stack[j].block \in Succs(succ, stack[i].block)
      BY <1>6, <3>1, <3>2 DEF HasParent
    <3>4. i \in 1..m /\ i \in Open'  BY <1>2, <1>5
    <3>5. stack'[i].block = stack[i].block  BY <1>4, <3>4
    <3> QED  BY <3>2, <3>3, <3>4, <3>5
  <2> QED  BY <2>1, <2>2
<1>7. ASSUME NEW p, \E i \in Open : stack[i].block = p
      PROVE  \E i \in Open' : stack'[i].block = p
  BY <1>2, <1>4, <1>5, <1>7
<1>8. ASSUME NEW k \in Finished, post_order[k] # entry
      PROVE  \E p \in Blocks :
                /\ post_order[k] \in Succs(succ, p)
                /\ \/ \E i \in Open' : stack'[i].block = p
                   \/ \E l \in Finished : k < l /\ post_order[l] = p
  BY <1>7, <1>8 DEF HasParent
<1>9. Finished' = Finished /\ post_order' = post_order /\ succ' = succ  BY <1>5
<1> QED  BY <1>6, <1>8, <1>9 DEF HasParent

LEMMA FinishParent ==
    ASSUME DfsInv, HasParent, stack # <<>>,
           post_order' = Append(post_order, Top.block), stack' = Below,
           UNCHANGED succ
    PROVE  HasParent'
<1> DEFINE m == Len(stack)
           f == Len(post_order)
           b == Top.block
<1>1. stack \in Seq(Call) /\ post_order \in Seq(Blocks)  BY DEF DfsInv, DfsShape
<1>2. m \in Nat \ {0} /\ b = stack[m].block /\ b \in Blocks /\ f \in Nat
  BY <1>1, TopOfStack
<1>3. /\ Len(stack') = m - 1
      /\ \A i \in 1..(m - 1) : stack'[i].block = stack[i].block
  BY <1>1, PopCall
<1>4. /\ Len(post_order') = f + 1 /\ post_order'[f + 1] = b
      /\ \A k \in 1..f : post_order'[k] = post_order[k]
  BY <1>1, <1>2, AppendProperties
<1> HIDE DEF m, f, b
<1>5. /\ Open = 1..m /\ Open' = 1..(m - 1)
      /\ Finished = 1..f /\ Finished' = 1..(f + 1)
  BY <1>3, <1>4 DEF Open, Finished, m, f
<1>6. ASSUME NEW j \in Open, stack[j].block # entry
      PROVE  \E i \in Open' : i < j /\ stack[j].block \in Succs(succ, stack'[i].block)
  <2>1. PICK i \in Open : i < j /\ stack[j].block \in Succs(succ, stack[i].block)
    BY <1>6 DEF HasParent
  <2>2. i \in 1..(m - 1) /\ i \in Open'  BY <1>2, <1>5, <2>1
  <2>3. stack'[i].block = stack[i].block  BY <1>3, <2>2
  <2> QED  BY <2>1, <2>2, <2>3
<1>7. ASSUME NEW j \in Open', stack'[j].block # entry
      PROVE  \E i \in Open' : i < j /\ stack'[j].block \in Succs(succ, stack'[i].block)
  <2>1. j \in Open /\ stack'[j].block = stack[j].block  BY <1>2, <1>3, <1>5
  <2> QED  BY <1>6, <1>7, <2>1
<1>8. ASSUME NEW k \in Finished', post_order'[k] # entry
      PROVE  \E p \in Blocks :
                /\ post_order'[k] \in Succs(succ, p)
                /\ \/ \E i \in Open' : stack'[i].block = p
                   \/ \E l \in Finished' : k < l /\ post_order'[l] = p
  <2>1. CASE k = f + 1
    <3>1. post_order'[k] = b /\ m \in Open /\ stack[m].block = b
      BY <1>2, <1>4, <1>5, <2>1
    <3>2. PICK i \in Open' : b \in Succs(succ, stack'[i].block)
      BY <1>6, <1>8, <3>1
    <3>3. stack'[i].block \in Blocks
      <4>1. i \in 1..(m - 1) /\ i \in 1..m  BY <1>2, <1>5
      <4>2. stack[i].block \in Blocks
        BY <1>1, <4>1, TopOfStack DEF m
      <4> QED  BY <1>3, <4>1, <4>2
    <3> QED  BY <3>1, <3>2, <3>3
  <2>2. CASE k # f + 1
    <3>1. k \in 1..f /\ k \in Finished /\ post_order'[k] = post_order[k]
      BY <1>2, <1>4, <1>5, <2>2
    <3>2. PICK p \in Blocks :
                /\ post_order[k] \in Succs(succ, p)
                /\ \/ \E i \in Open : stack[i].block = p
                   \/ \E l \in Finished : k < l /\ post_order[l] = p
      BY <1>8, <3>1 DEF HasParent
    <3>3. CASE \E i \in Open : stack[i].block = p
      <4>1. PICK i \in Open : stack[i].block = p  BY <3>3
      <4>2. CASE i = m
        <5>1. f + 1 \in Finished' /\ k < f + 1 /\ post_order'[f + 1] = p
          BY <1>2, <1>4, <1>5, <3>1, <4>1, <4>2
        <5> QED  BY <3>1, <3>2, <5>1
      <4>3. CASE i # m
        <5>1. i \in Open' /\ stack'[i].block = p
          BY <1>2, <1>3, <1>5, <4>1, <4>3
        <5> QED  BY <3>1, <3>2, <5>1
      <4> QED  BY <4>2, <4>3
    <3>4. CASE \E l \in Finished : k < l /\ post_order[l] = p
      <4>1. PICK l \in Finished : k < l /\ post_order[l] = p  BY <3>4
      <4>2. l \in Finished' /\ post_order'[l] = p  BY <1>2, <1>4, <1>5, <4>1
      <4> QED  BY <3>1, <3>2, <4>1, <4>2
    <3> QED  BY <3>2, <3>3, <3>4
  <2> QED  BY <2>1, <2>2
<1> QED  BY <1>7, <1>8 DEF HasParent

----------------------------------------------------------------------------
(* The invariant of the rounds of compute_idoms.                           *)

Known(b) == idoms[b] \in Blocks
Forward(p, b) == p \in Preds(succ, b) /\ po_idx[b] < po_idx[p]

(* po_idx is the inverse of post_order, and every block but the entry has  *)
(* a predecessor that comes before it in the order of the loop.            *)
OrderInv ==
    /\ Len(post_order) = N
    /\ po_idx \in [Blocks -> 0..(N - 1)]
    /\ \A b \in Blocks : post_order[po_idx[b] + 1] = b
    /\ \A k \in 1..N : po_idx[post_order[k]] = k - 1
    /\ \A b \in Blocks \ {entry} : po_idx[b] < po_idx[entry]
    /\ \A b \in Blocks \ {entry} : \E p \in Blocks : Forward(p, b)

(* The loop has been at b in this round.                                   *)
Done(b) == N - po_idx[b] < at

(* What has an idom makes a tree.                                          *)
TreeInv ==
    /\ Rising(idoms, po_idx)
    /\ \A b \in Blocks : Known(b) => Known(idoms[b])
    /\ \A b, p \in Blocks : Known(b) /\ Forward(p, b) => Known(p)
    /\ \A b \in Blocks : Done(b) => Known(b)

(* What is above a block is above its forward predecessors, but for blocks *)
(* that the loop has been at since it was at the block.                    *)
ForwardChains ==
    \A b, p \in Blocks : Forward(p, b) =>
        \A c \in Chain(idoms, b) \ {b} :
            Done(b) \/ ~Done(c) => c \in Chain(idoms, p)

(* What is on the chains of all predecessors is on that of the block: the  *)
(* next idom of a block will be the one it has or one further up.          *)
MeetsAbove ==
    \A b \in Blocks \ {entry} : Known(b) =>
        \A x \in Blocks :
            (\A p \in Preds(succ, b) : Known(p) => x \in Chain(idoms, p))
            => x \in Chain(idoms, b)

(* As long as a round changes nothing, the blocks that it has been at have *)
(* idoms that agree with their predecessors'.                              *)
RoundInv ==
    ~changed =>
        \A b \in Blocks \ {entry} : Done(b) =>
            \A p \in Preds(succ, b) : Known(p) => idoms[b] \in Chain(idoms, p)

(* The fingers are on the chains of the predecessors that have been seen,  *)
(* and have not climbed past a block that is on all of them.               *)
Seen == {p \in Preds(succ, Current) : p < pred /\ Known(p)}
FingersMeet ==
    at <= Len(post_order) =>
        /\ Current = entry => pred = 0
        /\ \A p \in Seen :
            /\ new_idom # kInvalidBlockId
            /\ (IF walking /\ p = pred - 1 THEN finger ELSE new_idom) \in Chain(idoms, p)
        /\ new_idom # kInvalidBlockId =>
            \A x \in Blocks : (\A p \in Seen : x \in Chain(idoms, p)) =>
                /\ x \in Chain(idoms, new_idom)
                /\ walking => x \in Chain(idoms, finger)

RoundsInv ==
    /\ IdomInv
    /\ OrderInv /\ TreeInv /\ ForwardChains /\ MeetsAbove /\ RoundInv /\ FingersMeet

(* Dfs has been everywhere and the loop begins.                            *)
LEMMA NumberRounds ==
    ASSUME Inv, HasParent, NumberPostorder, AllReachable(succ)
    PROVE  RoundsInv'
<1>1. DfsInv /\ Untouched /\ succ \in CFG /\ stack = <<>>
  BY DEF Inv, NumberPostorder
<1>2. PICK stray \in Strays : po_idx' = Numbered(stray)
  BY DEF NumberPostorder
<1>3. /\ po_idx' \in [Blocks -> Nat]
      /\ \A k \in Finished : po_idx'[post_order[k]] = k - 1
  BY <1>1, <1>2, PostorderNumbers
<1>4. Len(post_order) = N /\ N \in Nat \ {0}  BY <1>1, PostorderLength, SizeAssumption
<1>5. Finished = 1..N  BY <1>4 DEF Finished
<1>6. /\ idoms' = [idoms EXCEPT ![entry] = entry]
      /\ at' = 1 /\ pred' = 0 /\ changed' = FALSE
      /\ UNCHANGED <<succ, post_order, new_idom, walking, finger>>
  BY DEF NumberPostorder, StartRound
<1>7. IdomInv'  BY NumberKeeps
<1>8. /\ idoms' \in Tables /\ idoms'[entry] = entry
      /\ \A b \in Blocks \ {entry} : idoms'[b] \notin Blocks
  BY <1>1, <1>6, BlockIds DEF Untouched, Tables
<1>9. \A b \in Blocks : \E k \in 1..N : post_order[k] = b
  BY <1>1, <1>5, DfsComplete
<1>10. OrderInv'
  <2>1. ASSUME NEW b \in Blocks
        PROVE  po_idx'[b] \in 0..(N - 1) /\ post_order[po_idx'[b] + 1] = b
    <3>1. PICK k \in 1..N : post_order[k] = b  BY <1>9
    <3>2. po_idx'[b] = k - 1  BY <1>3, <1>5, <3>1
    <3> QED  BY <1>4, <3>1, <3>2
  <2>2. ASSUME NEW b \in Blocks \ {entry}
        PROVE  po_idx'[b] < po_idx'[entry]
    <3>1. Dom(entry, b)
      <4>1. Closed(succ, entry, {})  BY DEF Closed
      <4>2. Avoiding(succ, entry) \subseteq {}  BY <4>1, AvoidingLeast
      <4> QED  BY <4>2 DEF Dom
    <3> QED  BY <1>6, <1>7, <3>1, BlockIds DEF IdomInv, DominatorsHigher, Dom
  <2>3. ASSUME NEW b \in Blocks \ {entry}
        PROVE  \E p \in Blocks : b \in Succs(succ, p) /\ po_idx'[b] < po_idx'[p]
    <3>1. PICK k \in 1..N : post_order[k] = b  BY <1>9
    <3>2. Open = {}  BY <1>1 DEF Open
    <3>3. PICK p \in Blocks : /\ b \in Succs(succ, p)
                              /\ \E l \in 1..N : k < l /\ post_order[l] = p
      BY <1>5, <3>1, <3>2 DEF HasParent
    <3>4. PICK l \in 1..N : k < l /\ post_order[l] = p  BY <3>3
    <3>5. po_idx'[b] = k - 1 /\ po_idx'[p] = l - 1  BY <1>3, <1>5, <3>1, <3>4
    <3> QED  BY <3>3, <3>4, <3>5
  <2>4. \A k \in 1..N : po_idx'[post_order[k]] = k - 1  BY <1>3, <1>5
  <2>5. \A b \in Blocks \ {entry} : \E p \in Blocks : Forward(p, b)'
    BY <1>6, <2>3 DEF Forward, Preds
  <2>6. po_idx' \in [Blocks -> 0..(N - 1)]  BY <1>3, <2>1
  <2> QED  BY <1>4, <1>6, <2>1, <2>2, <2>4, <2>5, <2>6 DEF OrderInv
<1>11. \A b \in Blocks : ~Done(b)'
  <2>1. \A b \in Blocks : po_idx'[b] \in 0..(N - 1)  BY <1>10 DEF OrderInv
  <2> QED  BY <1>4, <1>6, <2>1 DEF Done
<1>12. \A b \in Blocks : Chain(idoms', b) = {b}
  BY <1>8, ChainFirst, ChainOfEntry
<1>13. TreeInv'
  <2>1. ASSUME NEW b \in Blocks, NEW p \in Blocks, Known(b)', Forward(p, b)'
        PROVE  FALSE
    <3>1. b = entry  BY <1>8, <2>1 DEF Known
    <3>2. p # entry => po_idx'[p] < po_idx'[entry]  BY <1>10 DEF OrderInv
    <3>3. po_idx'[p] \in Nat /\ po_idx'[entry] \in Nat  BY <1>3, BlockIds
    <3> QED  BY <2>1, <3>1, <3>2, <3>3 DEF Forward
  <2> QED  BY <1>3, <1>8, <1>11, <2>1, BlockIds DEF TreeInv, Rising, Known
<1>14. ForwardChains'  BY <1>12 DEF ForwardChains
<1>15. MeetsAbove'  BY <1>8 DEF MeetsAbove, Known
<1>16. RoundInv'  BY <1>11 DEF RoundInv
<1>17. FingersMeet'
  <2>1. \A p \in Blocks : p >= 0  BY DEF Blocks
  <2>2. Seen' = {}  BY <1>6, <2>1, BlockIds DEF Seen, Preds
  <2> QED  BY <1>1, <1>6, <2>2 DEF FingersMeet, Untouched
<1> QED  BY <1>7, <1>10, <1>13, <1>14, <1>15, <1>16, <1>17 DEF RoundsInv

(* Where the loop is.                                                      *)
LEMMA CurrentPlace ==
    ASSUME OrderInv, IdomShape, at <= Len(post_order)
    PROVE  /\ Current \in Blocks
           /\ po_idx[Current] = N - at
           /\ \A b \in Blocks : Done(b) <=> po_idx[Current] < po_idx[b]
           /\ \A b \in Blocks : po_idx[b] = po_idx[Current] => b = Current
<1>1. at \in 1..N /\ N \in Nat  BY SizeAssumption DEF OrderInv, IdomShape
<1>2. Current = post_order[N + 1 - at] /\ N + 1 - at \in 1..N
  BY <1>1 DEF Current, OrderInv
<1>3. Current \in Blocks  BY CurrentIsBlock DEF IdomShape
<1>4. po_idx[Current] = N - at  BY <1>1, <1>2 DEF OrderInv
<1>5. \A b \in Blocks : po_idx[b] \in 0..(N - 1)  BY DEF OrderInv
<1>6. \A b \in Blocks : Done(b) <=> po_idx[Current] < po_idx[b]
  BY <1>1, <1>4, <1>5 DEF Done
<1>7. \A b \in Blocks : po_idx[b] = po_idx[Current] => b = Current
  BY <1>3 DEF OrderInv
<1> QED  BY <1>3, <1>4, <1>6, <1>7

(* What does not depend on the cursor.                                     *)
TreeRounds == OrderInv /\ TreeInv /\ ForwardChains /\ MeetsAbove

LEMMA SameTree ==
    ASSUME TreeRounds, UNCHANGED <<succ, post_order, po_idx, idoms, at>>
    PROVE  TreeRounds'
<1>1. /\ \A b \in Blocks : (Done(b)' <=> Done(b)) /\ (Known(b)' <=> Known(b))
      /\ \A b, p \in Blocks : Forward(p, b)' <=> Forward(p, b)
  BY DEF Done, Known, Forward
<1>2. OrderInv'  BY <1>1 DEF TreeRounds, OrderInv
<1>3. TreeInv'  BY <1>1 DEF TreeRounds, TreeInv, Known
<1>4. ForwardChains'
  <2> SUFFICES ASSUME NEW b \in Blocks, NEW p \in Blocks, Forward(p, b)',
                      NEW c \in Chain(idoms, b) \ {b}, Done(b)' \/ ~Done(c)'
               PROVE  c \in Chain(idoms, p)
    BY DEF ForwardChains
  <2>1. c \in Blocks  BY DEF Chain
  <2> QED  BY <1>1, <2>1 DEF TreeRounds, ForwardChains
<1>5. MeetsAbove'
  <2> SUFFICES ASSUME NEW b \in Blocks \ {entry}, Known(b)', NEW x \in Blocks,
                      \A p \in Preds(succ, b) : Known(p)' => x \in Chain(idoms, p)
               PROVE  x \in Chain(idoms, b)
    BY DEF MeetsAbove
  <2>1. Preds(succ, b) \subseteq Blocks  BY DEF Preds
  <2> QED  BY <1>1, <2>1 DEF TreeRounds, MeetsAbove
<1> QED  BY <1>2, <1>3, <1>4, <1>5 DEF TreeRounds

LEMMA SameRound ==
    ASSUME RoundInv, UNCHANGED <<succ, post_order, po_idx, idoms, at, changed>>
    PROVE  RoundInv'
BY DEF RoundInv, Done, Known

(* A predecessor is seen.                                                  *)
LEMMA SeePredMeets ==
    ASSUME RoundsInv, SeePred
    PROVE  FingersMeet'
<1>1. PICK p \in Least(Ahead(Current)) :
        LET known == idoms[p] # kInvalidBlockId
            first == new_idom = kInvalidBlockId
        IN  /\ pred' = p + 1
            /\ new_idom' = IF known /\ first THEN p ELSE new_idom
            /\ walking' = (known /\ ~first)
            /\ finger' = IF known /\ ~first THEN p ELSE finger
  BY DEF SeePred
<1>2. /\ UNCHANGED <<succ, post_order, po_idx, idoms, at>>
      /\ at <= Len(post_order) /\ Current # entry /\ ~walking
  BY DEF SeePred, InBlock, orderVars
<1>3. Current' = Current  BY <1>2 DEF Current
<1>4. /\ p \in Preds(succ, Current) /\ p \in Blocks /\ p \in Nat /\ p >= pred
      /\ pred \in Nat
      /\ \A q \in Preds(succ, Current) : q >= pred => p <= q
      /\ \A q \in Preds(succ, Current) : q \in Nat
  BY DEF Least, Ahead, Preds, Blocks, RoundsInv, IdomInv, IdomShape
<1>5. idoms \in Tables /\ kInvalidBlockId \notin Blocks
  BY BlockIds DEF RoundsInv, IdomInv, IdomShape, Tables
<1>6. Known(p) <=> idoms[p] # kInvalidBlockId  BY <1>4, <1>5 DEF Known, Tables
<1>7. Seen' = Seen \cup {q \in {p} : Known(p)}
  <2>1. \A q \in Preds(succ, Current) : q < p + 1 <=> q < pred \/ q = p  BY <1>4
  <2> QED  BY <1>1, <1>2, <1>3, <1>4, <2>1 DEF Seen, Known
<1>8. \A q \in Seen : q # p /\ q < p  BY <1>4 DEF Seen
<1>9. p \in Chain(idoms, p)  BY <1>4, <1>5, ChainMembers
<1>10. /\ \A q \in Seen : new_idom # kInvalidBlockId /\ new_idom \in Chain(idoms, q)
       /\ new_idom # kInvalidBlockId =>
            \A x \in Blocks : (\A q \in Seen : x \in Chain(idoms, q)) =>
                x \in Chain(idoms, new_idom)
  BY <1>2 DEF RoundsInv, FingersMeet
<1>11. CASE Known(p) /\ new_idom = kInvalidBlockId
  <2>1. /\ new_idom' = p /\ ~walking' /\ p # kInvalidBlockId
        /\ Seen' = {p}
    BY <1>1, <1>4, <1>5, <1>6, <1>7, <1>10, <1>11
  <2> QED  BY <1>2, <1>3, <1>9, <2>1 DEF FingersMeet
<1>12. CASE Known(p) /\ new_idom # kInvalidBlockId
  <2>1. /\ new_idom' = new_idom /\ finger' = p /\ pred' - 1 = p
        /\ Seen' = Seen \cup {p}
    BY <1>1, <1>4, <1>6, <1>7, <1>12
  <2>2. walking'  BY <1>1, <1>6, <1>12, Zenon
  <2> QED  BY <1>2, <1>3, <1>8, <1>9, <1>10, <1>12, <2>1, <2>2 DEF FingersMeet
<1>13. CASE ~Known(p)
  <2>1. new_idom' = new_idom /\ ~walking' /\ Seen' = Seen
    BY <1>1, <1>6, <1>7, <1>13
  <2> QED  BY <1>2, <1>3, <1>10, <2>1 DEF FingersMeet
<1> QED  BY <1>11, <1>12, <1>13

(* The lower finger is on no chain of the other.                           *)
LEMMA ClimbMeets ==
    ASSUME NEW d \in Tables, NEW po, Rising(d, po),
           NEW f \in Blocks, NEW g \in Blocks, f # g, d[f] \in Blocks,
           ~(po[g] < po[f]), NEW x \in Chain(d, f), x \in Chain(d, g)
    PROVE  x \in Chain(d, d[f])
<1>1. x # f
  <2>1. f \in Chain(d, g) => po[g] < po[f]  BY ChainRises
  <2> QED  BY <2>1
<1> QED  BY <1>1, ChainFirst

LEMMA IntersectStepMeets ==
    ASSUME RoundsInv, IntersectStep
    PROVE  FingersMeet'
<1>1. /\ UNCHANGED <<succ, post_order, po_idx, idoms, at, pred>>
      /\ walking /\ walking' /\ finger # new_idom
  BY DEF IntersectStep, orderVars, RoundsInv, IdomInv, IdomShape
<1>2. /\ new_idom # kInvalidBlockId /\ at <= Len(post_order)
      /\ Current # entry /\ Above(new_idom, Current) /\ Above(finger, Current)
  BY <1>1 DEF RoundsInv, IdomInv, FingersAbove
<1>3. Current' = Current /\ Seen' = Seen  BY <1>1 DEF Current, Seen, Known
<1>4. idoms \in Tables /\ Rising(idoms, po_idx)
  BY DEF RoundsInv, IdomInv, IdomShape, Tables, TreeInv
<1>5. /\ new_idom \in Blocks /\ finger \in Blocks
      /\ idoms[new_idom] \in Blocks /\ idoms[finger] \in Blocks
  BY <1>2 DEF RoundsInv, IdomInv, IdomShape, Above
<1>6. kInvalidBlockId \notin Blocks  BY BlockIds
<1>7. /\ \A p \in Seen :
            (IF p = pred - 1 THEN finger ELSE new_idom) \in Chain(idoms, p)
      /\ \A x \in Blocks : (\A p \in Seen : x \in Chain(idoms, p)) =>
            x \in Chain(idoms, new_idom) /\ x \in Chain(idoms, finger)
  BY <1>1, <1>2 DEF RoundsInv, FingersMeet
<1>8. \A p \in Seen : p \in Blocks  BY DEF Seen, Preds
<1>9. CASE po_idx[finger] < po_idx[new_idom]
  <2>1. finger' = idoms[finger] /\ new_idom' = new_idom
    BY <1>9 DEF IntersectStep
  <2>2. ~(po_idx[new_idom] < po_idx[finger])
    BY <1>4, <1>5, <1>9 DEF Rising
  <2>3. ASSUME NEW p \in Seen, p = pred - 1
        PROVE  finger' \in Chain(idoms, p)
    BY <1>4, <1>5, <1>7, <1>8, <2>1, <2>3, ChainMembers
  <2>4. ASSUME NEW x \in Blocks, \A p \in Seen : x \in Chain(idoms, p)
        PROVE  x \in Chain(idoms, new_idom') /\ x \in Chain(idoms, finger')
    <3>1. x \in Chain(idoms, new_idom) /\ x \in Chain(idoms, finger)
      BY <1>7, <2>4
    <3>2. x \in Chain(idoms, idoms[finger])
      BY <1>1, <1>4, <1>5, <2>2, <3>1, ClimbMeets
    <3> QED  BY <2>1, <3>1, <3>2
  <2>5. \A p \in Seen :
            (IF p = pred - 1 THEN finger' ELSE new_idom') \in Chain(idoms, p)
    BY <1>7, <2>1, <2>3
  <2> QED  BY <1>1, <1>2, <1>3, <2>1, <2>4, <2>5 DEF FingersMeet
<1>10. CASE ~(po_idx[finger] < po_idx[new_idom])
  <2>1. new_idom' = idoms[new_idom] /\ finger' = finger
    BY <1>10 DEF IntersectStep
  <2>2. ASSUME NEW p \in Seen, p # pred - 1
        PROVE  new_idom' \in Chain(idoms, p)
    BY <1>4, <1>5, <1>7, <1>8, <2>1, <2>2, ChainMembers
  <2>3. ASSUME NEW x \in Blocks, \A p \in Seen : x \in Chain(idoms, p)
        PROVE  x \in Chain(idoms, new_idom') /\ x \in Chain(idoms, finger')
    <3>1. x \in Chain(idoms, new_idom) /\ x \in Chain(idoms, finger)
      BY <1>7, <2>3
    <3>2. x \in Chain(idoms, idoms[new_idom])
      BY <1>1, <1>4, <1>5, <1>10, <3>1, ClimbMeets
    <3> QED  BY <2>1, <3>1, <3>2
  <2>4. \A p \in Seen :
            (IF p = pred - 1 THEN finger' ELSE new_idom') \in Chain(idoms, p)
    BY <1>7, <2>1, <2>2
  <2>5. new_idom' # kInvalidBlockId  BY <1>5, <1>6, <2>1
  <2> QED  BY <1>1, <1>2, <1>3, <2>3, <2>4, <2>5 DEF FingersMeet
<1> QED  BY <1>9, <1>10

(* The walk of intersect is over.                                          *)
LEMMA IntersectDoneMeets ==
    ASSUME RoundsInv, IntersectDone
    PROVE  FingersMeet'
<1>1. /\ UNCHANGED <<succ, post_order, po_idx, idoms, new_idom, at, pred>>
      /\ walking /\ finger = new_idom /\ ~walking'
  BY DEF IntersectDone, orderVars, idomVars
<1>2. Current' = Current /\ Seen' = Seen  BY <1>1 DEF Current, Seen, Known
<1> QED  BY <1>1, <1>2 DEF RoundsInv, FingersMeet

(* The loop passes the entry.                                              *)
LEMMA SkipEntryKeeps ==
    ASSUME succ \in CFG, RoundsInv, SkipEntry
    PROVE  RoundsInv'
<1>1. /\ UNCHANGED <<succ, post_order, po_idx, idoms, new_idom, finger, changed, pred>>
      /\ at <= Len(post_order) /\ Current = entry /\ at' = at + 1
  BY DEF SkipEntry, orderVars, idomVars
<1>2. IdomInv'  BY CursorKeeps DEF RoundsInv
<1>3. OrderInv'  BY <1>1 DEF RoundsInv, OrderInv, Forward
<1>4. entry \in Blocks /\ Known(entry)  BY BlockIds DEF RoundsInv, TreeInv, Rising, Known
<1>5. /\ po_idx[entry] = N - at
      /\ \A b \in Blocks : Done(b) <=> po_idx[entry] < po_idx[b]
  BY <1>1, CurrentPlace DEF RoundsInv, IdomInv
<1>6. \A b \in Blocks : po_idx[b] \in 0..(N - 1) /\ (b # entry => po_idx[b] < po_idx[entry])
  BY DEF RoundsInv, OrderInv
<1>7. /\ \A b \in Blocks : ~Done(b)
      /\ \A b \in Blocks : Done(b)' <=> b = entry
  <2>1. at \in Nat /\ N \in Nat  BY SizeAssumption DEF RoundsInv, IdomInv, IdomShape
  <2>2. \A b \in Blocks : Done(b)' <=> N - po_idx[b] < at + 1  BY <1>1 DEF Done
  <2>3. \A b \in Blocks : ~(po_idx[entry] < po_idx[b])  BY <1>4, <1>6
  <2>4. ASSUME NEW b \in Blocks
        PROVE  Done(b)' <=> b = entry
    <3>1. CASE b = entry  BY <1>5, <2>1, <2>2, <3>1
    <3>2. CASE b # entry  BY <1>4, <1>5, <1>6, <2>1, <2>2, <3>2
    <3> QED  BY <3>1, <3>2
  <2> QED  BY <1>5, <2>3, <2>4
<1>8. /\ \A b \in Blocks : Known(b)' <=> Known(b)
      /\ \A b, p \in Blocks : Forward(p, b)' <=> Forward(p, b)
  BY <1>1 DEF Known, Forward
<1>9. TreeInv'
  <2>1. \A b \in Blocks : Done(b)' => Known(b)'  BY <1>4, <1>7, <1>8
  <2> QED  BY <1>1, <1>8, <2>1 DEF RoundsInv, TreeInv, Known
<1>10. ForwardChains'
  <2> SUFFICES ASSUME NEW b \in Blocks, NEW p \in Blocks, Forward(p, b)',
                      NEW c \in Chain(idoms, b) \ {b}
               PROVE  c \in Chain(idoms, p)
    BY <1>1 DEF ForwardChains
  <2>1. c \in Blocks  BY DEF Chain
  <2> QED  BY <1>7, <1>8, <2>1 DEF RoundsInv, ForwardChains
<1>11. MeetsAbove'
  <2> SUFFICES ASSUME NEW b \in Blocks \ {entry}, Known(b)', NEW x \in Blocks,
                      \A p \in Preds(succ, b) : Known(p)' => x \in Chain(idoms, p)
               PROVE  x \in Chain(idoms, b)
    BY <1>1 DEF MeetsAbove
  <2>1. Preds(succ, b) \subseteq Blocks  BY DEF Preds
  <2> QED  BY <1>8, <2>1 DEF RoundsInv, MeetsAbove
<1>12. RoundInv'  BY <1>7 DEF RoundInv
<1>13. FingersMeet'
  <2>1. pred' = 0 /\ new_idom' = kInvalidBlockId
    BY <1>1 DEF RoundsInv, FingersMeet, IdomInv, FingersAbove
  <2>2. \A p \in Blocks : ~(p < 0)  BY DEF Blocks
  <2>3. Seen' = {}
    <3>1. \A p \in Preds(succ, Current)' : ~(p < 0)  BY <2>2 DEF Preds
    <3> QED  BY <2>1, <3>1 DEF Seen
  <2> QED  BY <2>1, <2>3 DEF FingersMeet
<1> QED  BY <1>2, <1>3, <1>9, <1>10, <1>11, <1>12, <1>13 DEF RoundsInv

(* The next round begins: no block has been seen in it.                    *)
LEMMA NextRoundKeeps ==
    ASSUME succ \in CFG, RoundsInv, NextRound
    PROVE  RoundsInv'
<1>1. /\ UNCHANGED <<succ, post_order, po_idx, idoms, new_idom, finger>>
      /\ at > Len(post_order) /\ at' = 1 /\ pred' = 0
  BY DEF NextRound, StartRound, orderVars
<1>2. IdomInv'  BY CursorKeeps DEF RoundsInv
<1>3. OrderInv'  BY <1>1 DEF RoundsInv, OrderInv, Forward
<1>4. /\ \A b \in Blocks : Done(b) /\ ~Done(b)'
  <2>1. at \in Nat /\ N \in Nat /\ at > N
    BY <1>1, SizeAssumption DEF RoundsInv, IdomInv, IdomShape, OrderInv
  <2>2. \A b \in Blocks : po_idx[b] \in 0..(N - 1)  BY DEF RoundsInv, OrderInv
  <2>3. \A b \in Blocks : N - po_idx[b] < at  BY <2>1, <2>2
  <2>4. \A b \in Blocks : ~(N - po_idx[b] < 1)  BY <2>1, <2>2
  <2> QED  BY <1>1, <2>3, <2>4 DEF Done
<1>5. /\ \A b \in Blocks : Known(b)' <=> Known(b)
      /\ \A b, p \in Blocks : Forward(p, b)' <=> Forward(p, b)
  BY <1>1 DEF Known, Forward
<1>6. TreeInv'
  BY <1>1, <1>4, <1>5 DEF RoundsInv, TreeInv, Known
<1>7. ForwardChains'
  <2> SUFFICES ASSUME NEW b \in Blocks, NEW p \in Blocks, Forward(p, b)',
                      NEW c \in Chain(idoms, b) \ {b}
               PROVE  c \in Chain(idoms, p)
    BY <1>1 DEF ForwardChains
  <2> QED  BY <1>4, <1>5 DEF RoundsInv, ForwardChains
<1>8. MeetsAbove'
  <2> SUFFICES ASSUME NEW b \in Blocks \ {entry}, Known(b)', NEW x \in Blocks,
                      \A p \in Preds(succ, b) : Known(p)' => x \in Chain(idoms, p)
               PROVE  x \in Chain(idoms, b)
    BY <1>1 DEF MeetsAbove
  <2>1. Preds(succ, b) \subseteq Blocks  BY DEF Preds
  <2> QED  BY <1>5, <2>1 DEF RoundsInv, MeetsAbove
<1>9. RoundInv'  BY <1>4 DEF RoundInv
<1>10. FingersMeet'
  <2>1. new_idom' = kInvalidBlockId
    <3>1. at \in Nat /\ Len(post_order) \in Nat
      BY DEF RoundsInv, IdomInv, IdomShape
    <3> QED  BY <1>1, <3>1 DEF RoundsInv, IdomInv, FingersAbove
  <2>2. \A p \in Blocks : ~(p < 0)  BY DEF Blocks
  <2>3. Seen' = {}
    <3>1. \A p \in Preds(succ, Current)' : ~(p < 0)  BY <2>2 DEF Preds
    <3> QED  BY <1>1, <3>1 DEF Seen
  <2> QED  BY <1>1, <2>1, <2>3 DEF FingersMeet
<1> QED  BY <1>2, <1>3, <1>6, <1>7, <1>8, <1>9, <1>10 DEF RoundsInv

(* What compute_idoms knows when all predecessors of a block are seen.     *)
LEMMA AllSeen ==
    ASSUME succ \in CFG, RoundsInv, InBlock, Ahead(Current) = {}
    PROVE  /\ Current \in Blocks \ {entry}
           /\ \A p \in Blocks : Forward(p, Current) => Known(p)
           /\ new_idom \in Blocks /\ Known(new_idom)
           /\ po_idx[Current] < po_idx[new_idom]
           /\ Current \notin Chain(idoms, new_idom)
           /\ \A p \in Preds(succ, Current) : Known(p) => new_idom \in Chain(idoms, p)
           /\ \A x \in Blocks :
                (\A p \in Preds(succ, Current) : Known(p) => x \in Chain(idoms, p))
                => x \in Chain(idoms, new_idom)
           /\ Known(Current) => new_idom \in Chain(idoms, Current)
<1>1. at <= Len(post_order) /\ Current # entry /\ ~walking  BY DEF InBlock
<1>2. /\ Current \in Blocks
      /\ \A b \in Blocks : Done(b) <=> po_idx[Current] < po_idx[b]
  BY <1>1, CurrentPlace DEF RoundsInv, IdomInv
<1>3. idoms \in Tables /\ Rising(idoms, po_idx) /\ pred \in Nat
      /\ new_idom \in Blocks \cup {kInvalidBlockId}
  BY DEF RoundsInv, IdomInv, IdomShape, Tables, TreeInv
<1>4. \A p \in Blocks : Forward(p, Current) => Known(p)
  BY <1>2 DEF Forward, RoundsInv, TreeInv
<1>5. Seen = {p \in Preds(succ, Current) : Known(p)}
  <2>1. \A p \in Preds(succ, Current) : p \in Int /\ ~(p >= pred)
    BY DEF Ahead, Preds, Blocks
  <2>2. \A p \in Preds(succ, Current) : p < pred  BY <1>3, <2>1
  <2> QED  BY <2>2 DEF Seen
<1>6. PICK p0 \in Blocks : Forward(p0, Current)
  BY <1>1, <1>2 DEF RoundsInv, OrderInv
<1>7. Known(p0) /\ p0 \in Seen /\ po_idx[Current] < po_idx[p0]
  BY <1>4, <1>5, <1>6 DEF Forward
<1>8. /\ \A p \in Seen : new_idom # kInvalidBlockId /\ new_idom \in Chain(idoms, p)
      /\ new_idom # kInvalidBlockId =>
            \A x \in Blocks : (\A p \in Seen : x \in Chain(idoms, p)) =>
                x \in Chain(idoms, new_idom)
  BY <1>1 DEF RoundsInv, FingersMeet
<1>9. new_idom \in Blocks  BY <1>3, <1>7, <1>8
<1>10. Known(new_idom)
  <2>1. Above(new_idom, Current)  BY <1>7, <1>8 DEF RoundsInv, IdomInv, FingersAbove
  <2> QED  BY <1>3, <1>9, <2>1 DEF Above, Known, Tables
<1>11. po_idx \in [Blocks -> Nat]  BY <1>3 DEF Rising
<1>12. po_idx[Current] < po_idx[new_idom]
  <2>1. new_idom = p0 \/ po_idx[p0] < po_idx[new_idom]
    BY <1>3, <1>7, <1>8, ChainRises
  <2> QED  BY <1>2, <1>7, <1>9, <1>11, <2>1
<1>13. Current \notin Chain(idoms, new_idom)
  <2>1. SUFFICES ASSUME Current \in Chain(idoms, new_idom)  PROVE FALSE
    OBVIOUS
  <2>2. Current = new_idom \/ po_idx[new_idom] < po_idx[Current]
    BY <1>3, <1>9, <2>1, ChainRises
  <2> QED  BY <1>2, <1>9, <1>11, <1>12, <2>2
<1>14. Known(Current) => new_idom \in Chain(idoms, Current)
  BY <1>1, <1>2, <1>5, <1>8, <1>9 DEF RoundsInv, MeetsAbove
<1> QED  BY <1>1, <1>2, <1>4, <1>5, <1>7, <1>8, <1>9, <1>10, <1>12, <1>13, <1>14

(* The loop goes on to the next block.                                     *)
LEMMA BlockDone ==
    ASSUME RoundsInv, SetIdom
    PROVE  /\ \A b \in Blocks : Done(b)' <=> Done(b) \/ b = Current
           /\ OrderInv' /\ FingersMeet'
           /\ \A b, p \in Blocks : Forward(p, b)' <=> Forward(p, b)
<1>1. /\ UNCHANGED <<succ, post_order, po_idx>>
      /\ at <= Len(post_order) /\ at' = at + 1
      /\ pred' = 0 /\ new_idom' = kInvalidBlockId
  BY DEF SetIdom, InBlock, orderVars
<1>2. /\ po_idx[Current] = N - at
      /\ \A b \in Blocks : Done(b) <=> po_idx[Current] < po_idx[b]
      /\ \A b \in Blocks : po_idx[b] = po_idx[Current] => b = Current
  BY <1>1, CurrentPlace DEF RoundsInv, IdomInv
<1>3. at \in Nat /\ N \in Nat  BY SizeAssumption DEF RoundsInv, IdomInv, IdomShape
<1>4. \A b \in Blocks : po_idx[b] \in 0..(N - 1)  BY DEF RoundsInv, OrderInv
<1>5. \A b \in Blocks : Done(b)' <=> Done(b) \/ b = Current
  <2> SUFFICES ASSUME NEW b \in Blocks
               PROVE  N - po_idx[b] < at + 1 <=> N - po_idx[b] < at \/ b = Current
    BY <1>1 DEF Done
  <2>1. b = Current => po_idx[b] = N - at  BY <1>2
  <2>2. po_idx[b] = N - at => b = Current  BY <1>2
  <2> HIDE DEF Current
  <2> QED  BY <1>3, <1>4, <2>1, <2>2
<1>6. \A b, p \in Blocks : Forward(p, b)' <=> Forward(p, b)  BY <1>1 DEF Forward
<1>7. OrderInv'  BY <1>1, <1>6 DEF RoundsInv, OrderInv
<1>8. FingersMeet'
  <2>1. \A p \in Blocks : ~(p < 0)  BY DEF Blocks
  <2>2. Seen' = {}
    <3>1. \A p \in Preds(succ, Current)' : ~(p < 0)  BY <2>1 DEF Preds
    <3> QED  BY <1>1, <3>1 DEF Seen
  <2> QED  BY <1>1, <2>2 DEF FingersMeet
<1> QED  BY <1>5, <1>6, <1>7, <1>8

(* The block has the idom that was found already.                          *)
LEMMA SetIdomAgrees ==
    ASSUME succ \in CFG, RoundsInv, SetIdom, idoms[Current] = new_idom
    PROVE  RoundsInv' /\ idoms' = idoms
<1>1. /\ UNCHANGED <<succ, po_idx>>
      /\ InBlock /\ Ahead(Current) = {}
  BY DEF SetIdom, orderVars
<1>2. idoms' = idoms /\ (~changed' => ~changed)
  BY DEF SetIdom
<1> DEFINE c == Current
<1>3. /\ c \in Blocks \ {entry} /\ new_idom \in Blocks
      /\ \A p \in Blocks : Forward(p, c) => Known(p)
      /\ \A p \in Preds(succ, c) : Known(p) => new_idom \in Chain(idoms, p)
  BY <1>1, AllSeen
<1>4. /\ \A b \in Blocks : Done(b)' <=> Done(b) \/ b = c
      /\ OrderInv' /\ FingersMeet'
      /\ \A b, p \in Blocks : Forward(p, b)' <=> Forward(p, b)
  BY BlockDone
<1>5. idoms[c] = new_idom  OBVIOUS
<1> HIDE DEF c
<1>6. \A b \in Blocks : Known(b)' <=> Known(b)  BY <1>2 DEF Known
<1>7. IdomInv'  BY SetIdomKeeps DEF RoundsInv
<1>8. TreeInv'
  <2>1. Known(c)  BY <1>3, <1>5 DEF Known
  <2>2. \A b \in Blocks : Done(b)' => Known(b)'
    BY <1>4, <1>6, <2>1 DEF RoundsInv, TreeInv
  <2>3. \A b, p \in Blocks : Known(b)' /\ Forward(p, b)' => Known(p)'
    BY <1>4, <1>6 DEF RoundsInv, TreeInv
  <2>4. \A b \in Blocks : Known(b)' => Known(idoms[b])'
    BY <1>2 DEF RoundsInv, TreeInv, Known
  <2>5. Rising(idoms', po_idx')  BY <1>1, <1>2 DEF RoundsInv, TreeInv
  <2> QED  BY <1>2, <2>2, <2>3, <2>4, <2>5 DEF TreeInv
<1>9. ForwardChains'
  <2> SUFFICES ASSUME NEW b \in Blocks, NEW p \in Blocks, Forward(p, b),
                      NEW x \in Chain(idoms, b) \ {b}, Done(b)' \/ ~Done(x)'
               PROVE  x \in Chain(idoms, p)
    BY <1>2, <1>4 DEF ForwardChains
  <2>1. x \in Blocks /\ idoms \in Tables
    BY DEF Chain, RoundsInv, IdomInv, IdomShape, Tables
  <2>2. CASE b = c
    <3>1. x \in Chain(idoms, new_idom)  BY <1>3, <1>5, <2>1, <2>2, ChainFirst
    <3>2. new_idom \in Chain(idoms, p)  BY <1>3, <2>2 DEF Forward
    <3> QED  BY <2>1, <3>1, <3>2, ChainOfMember
  <2>3. CASE b # c
    <3>1. Done(b) \/ ~Done(x)  BY <1>4, <2>1, <2>3
    <3> QED  BY <3>1 DEF RoundsInv, ForwardChains
  <2> QED  BY <2>2, <2>3
<1>10. MeetsAbove'
  <2> SUFFICES ASSUME NEW b \in Blocks \ {entry}, Known(b)', NEW x \in Blocks,
                      \A p \in Preds(succ, b) : Known(p)' => x \in Chain(idoms, p)
               PROVE  x \in Chain(idoms, b)
    BY <1>1, <1>2 DEF MeetsAbove
  <2>1. Preds(succ, b) \subseteq Blocks  BY DEF Preds
  <2> QED  BY <1>6, <2>1 DEF RoundsInv, MeetsAbove
<1>11. RoundInv'
  <2> SUFFICES ASSUME ~changed', NEW b \in Blocks \ {entry}, Done(b)',
                      NEW p \in Preds(succ, b), Known(p)'
               PROVE  idoms[b] \in Chain(idoms, p)
    BY <1>1, <1>2 DEF RoundInv
  <2>1. p \in Blocks  BY DEF Preds
  <2> QED  BY <1>2, <1>3, <1>4, <1>5, <1>6, <2>1 DEF RoundsInv, RoundInv
<1> QED  BY <1>2, <1>4, <1>7, <1>8, <1>9, <1>10, <1>11 DEF RoundsInv

(* The block gets another idom, further up.                                *)
LEMMA SetIdomRaises ==
    ASSUME succ \in CFG, RoundsInv, SetIdom, idoms[Current] # new_idom
    PROVE  /\ RoundsInv'
           /\ \A b \in Blocks : idoms[b] # kInvalidBlockId /\ idoms'[b] # idoms[b]
                                => po_idx[idoms[b]] < po_idx[idoms'[b]]
<1> DEFINE c == Current
           e == new_idom
           D == [idoms EXCEPT ![c] = e]
<1>1. /\ UNCHANGED <<succ, po_idx>>
      /\ InBlock /\ Ahead(Current) = {} /\ at <= Len(post_order)
  BY DEF SetIdom, InBlock, orderVars
<1>2. /\ c \in Blocks \ {entry} /\ e \in Blocks
      /\ \A p \in Blocks : Forward(p, c) => Known(p)
      /\ \A p \in Preds(succ, c) : Known(p) => e \in Chain(idoms, p)
      /\ \A x \in Blocks :
            (\A p \in Preds(succ, c) : Known(p) => x \in Chain(idoms, p))
            => x \in Chain(idoms, e)
      /\ po_idx[c] < po_idx[e] /\ c \notin Chain(idoms, e)
      /\ Known(c) => e \in Chain(idoms, c)
      /\ Known(e)
  BY <1>1, AllSeen
<1>3. /\ \A b \in Blocks : Done(b)' <=> Done(b) \/ b = c
      /\ OrderInv' /\ FingersMeet'
      /\ \A b, p \in Blocks : Forward(p, b)' <=> Forward(p, b)
  BY BlockDone
<1>4. idoms' = D /\ changed'
  <2>1. new_idom # kInvalidBlockId  BY <1>2, BlockIds
  <2> QED  BY <2>1 DEF SetIdom
<1>5. \A b \in Blocks : Done(b) <=> po_idx[c] < po_idx[b]
  BY <1>1, CurrentPlace DEF RoundsInv, IdomInv
<1>6. idoms[c] # e  OBVIOUS
<1> HIDE DEF c, e
<1>7. IdomInv'  BY SetIdomKeeps DEF RoundsInv
<1>8. /\ idoms \in Tables /\ Rising(idoms, po_idx) /\ po_idx \in [Blocks -> Nat]
      /\ \A b \in Blocks : Known(b) => Known(idoms[b])
  BY DEF RoundsInv, IdomInv, IdomShape, Tables, TreeInv, Rising
<1>9. /\ D \in Tables /\ D[c] = e
      /\ \A b \in Blocks : b # c => D[b] = idoms[b]
  BY <1>2, <1>8 DEF Tables
<1>10. \A b \in Blocks : Known(b)' <=> Known(b) \/ b = c
  BY <1>2, <1>4, <1>9 DEF Known
<1>11. Rising(D, po_idx)  BY <1>2, <1>8, <1>9 DEF Rising
<1>12. Chain(D, c) = {c} \cup Chain(idoms, e)  BY <1>2, <1>8, ChangeOwn
<1>13. ASSUME NEW b \in Blocks, c \notin Chain(idoms, b)
       PROVE  Chain(D, b) = Chain(idoms, b)
  BY <1>2, <1>8, <1>13, ChangeElsewhere
<1>14. ASSUME NEW b \in Blocks, NEW x \in Chain(idoms, b), ~(po_idx[c] < po_idx[x])
       PROVE  x \in Chain(D, b)
  BY <1>2, <1>8, <1>14, ChangeKeepsBelow
<1>15. ASSUME NEW b \in Blocks, ~Known(c), b # c
       PROVE  c \notin Chain(idoms, b)
  <2>1. \A y \in Blocks : idoms[y] \in Blocks => idoms[idoms[y]] \in Blocks
    BY <1>8 DEF Known
  <2> QED  BY <1>2, <1>8, <1>15, <2>1, ChangeFirst DEF Known
<1>16. ASSUME NEW b \in Blocks, b # c \/ Known(c)
       PROVE  Chain(D, b) \subseteq Chain(idoms, b)
  <2>1. CASE Known(c)  BY <1>2, <1>8, <2>1, ChangeShortens
  <2>2. CASE ~Known(c)  BY <1>13, <1>15, <1>16, <2>2
  <2> QED  BY <2>1, <2>2
<1>17. ASSUME NEW p \in Blocks, po_idx[c] < po_idx[p]
       PROVE  c \notin Chain(idoms, p)
  <2>1. c \in Chain(idoms, p) => c = p \/ po_idx[p] < po_idx[c]
    BY <1>2, <1>8, ChainRises
  <2> QED  BY <1>2, <1>8, <1>17, <2>1
<1>18. \A b \in Blocks : \A x \in Chain(idoms, b) : x \in Blocks
  BY DEF Chain
<1>19. \A b \in Blocks : \A x \in Chain(D, b) : x \in Blocks
  BY DEF Chain
<1> HIDE DEF D
<1>20. TreeInv'
  <2>1. \A b \in Blocks : Done(b)' => Known(b)'
    BY <1>3, <1>10 DEF RoundsInv, TreeInv
  <2>2. \A b, p \in Blocks : Known(b)' /\ Forward(p, b)' => Known(p)'
    BY <1>2, <1>3, <1>10 DEF RoundsInv, TreeInv
  <2>3. \A b \in Blocks : Known(b)' => idoms'[idoms'[b]] \in Blocks
    <3> SUFFICES ASSUME NEW b \in Blocks, Known(b)'
                 PROVE  D[D[b]] \in Blocks
      BY <1>4
    <3>1. CASE b = c
      <4>1. e # c  BY <1>2, <1>8, ChainMembers
      <4> QED  BY <1>2, <1>9, <3>1, <4>1 DEF Known
    <3>2. CASE b # c
      <4>1. Known(b) /\ Known(idoms[b])  BY <1>8, <1>10, <3>2
      <4> QED  BY <1>2, <1>9, <3>2, <4>1 DEF Known
    <3> QED  BY <3>1, <3>2
  <2> QED  BY <1>1, <1>4, <1>11, <2>1, <2>2, <2>3 DEF TreeInv, Known
<1>21. ForwardChains'
  <2> SUFFICES ASSUME NEW b \in Blocks, NEW p \in Blocks, Forward(p, b),
                      NEW x \in Chain(D, b) \ {b}, Done(b)' \/ ~Done(x)'
               PROVE  x \in Chain(D, p)
    BY <1>3, <1>4 DEF ForwardChains
  <2>1. x \in Blocks /\ po_idx[b] < po_idx[p]  BY <1>19 DEF Forward
  <2>2. CASE b = c
    <3>1. x \in Chain(idoms, e)  BY <1>12, <2>2
    <3>2. e \in Chain(idoms, p)  BY <1>2, <2>2 DEF Forward
    <3>3. x \in Chain(idoms, p)  BY <1>8, <3>1, <3>2, ChainOfMember
    <3>4. c \notin Chain(idoms, p)  BY <1>17, <2>1, <2>2
    <3> QED  BY <1>13, <3>3, <3>4
  <2>3. CASE b # c
    <3>1. Done(b) \/ ~Done(x)  BY <1>3, <2>1, <2>3
    <3>2. x \in Chain(idoms, p)
      BY <1>16, <2>3, <3>1 DEF RoundsInv, ForwardChains
    <3>3. CASE Done(b)
      <4>1. po_idx[c] < po_idx[p]  BY <1>2, <1>5, <1>8, <2>1, <3>3
      <4> QED  BY <1>13, <1>17, <3>2, <4>1
    <3>4. CASE ~Done(x)
      <4>1. ~(po_idx[c] < po_idx[x])  BY <1>5, <2>1, <3>4
      <4> QED  BY <1>14, <3>2, <4>1
    <3> QED  BY <3>1, <3>3, <3>4
  <2> QED  BY <2>2, <2>3
<1>22. MeetsAbove'
  <2> SUFFICES ASSUME NEW b \in Blocks \ {entry}, Known(b)', NEW x \in Blocks,
                      \A p \in Preds(succ, b) : Known(p)' => x \in Chain(D, p)
               PROVE  x \in Chain(D, b)
    BY <1>1, <1>4 DEF MeetsAbove
  <2>1. Preds(succ, b) \subseteq Blocks  BY DEF Preds
  <2>2. ASSUME NEW p \in Preds(succ, b), Known(p), b # c \/ p # c
        PROVE  x \in Chain(idoms, p)
    BY <1>10, <1>16, <2>1, <2>2
  <2>3. CASE b = c
    <3>1. CASE c \in Preds(succ, b)  BY <1>10, <2>3, <3>1
    <3>2. CASE c \notin Preds(succ, b)
      <4>1. x \in Chain(idoms, e)  BY <1>2, <2>2, <2>3, <3>2
      <4> QED  BY <1>12, <2>3, <4>1
    <3> QED  BY <3>1, <3>2
  <2>4. CASE b # c
    <3>1. Known(b) /\ x \in Chain(idoms, b)
      BY <1>10, <2>2, <2>4 DEF RoundsInv, MeetsAbove
    <3>2. CASE c \notin Chain(idoms, b)  BY <1>13, <3>1, <3>2
    <3>3. CASE c \in Chain(idoms, b) /\ ~(po_idx[c] < po_idx[x])
      BY <1>14, <3>1, <3>3
    <3>4. CASE c \in Chain(idoms, b) /\ po_idx[c] < po_idx[x]
      <4>1. PICK p \in Blocks : Forward(p, b)  BY DEF RoundsInv, OrderInv
      <4>2. p \in Preds(succ, b) /\ Known(p)
        BY <3>1, <4>1 DEF Forward, RoundsInv, TreeInv
      <4>3. ~(po_idx[c] < po_idx[c]) /\ ~(po_idx[x] < po_idx[c])
        BY <1>2, <1>8, <3>4
      <4>4. c \in Chain(idoms, p)
        <5>1. ~Done(c)  BY <1>2, <1>5, <4>3
        <5> QED  BY <2>4, <3>4, <4>1, <5>1 DEF RoundsInv, ForwardChains
      <4>5. c \in Chain(D, p) /\ c \in Chain(D, b)  BY <1>14, <3>4, <4>3, <4>4
      <4>6. x \in Chain(D, p)  BY <1>10, <4>2
      <4>7. x \in Chain(D, c)  BY <1>9, <1>11, <4>3, <4>5, <4>6, ChainAbove
      <4> QED  BY <1>9, <4>5, <4>7, ChainOfMember
    <3> QED  BY <3>2, <3>3, <3>4
  <2> QED  BY <2>3, <2>4
<1>23. RoundInv'  BY <1>4 DEF RoundInv
<1>24. ASSUME NEW b \in Blocks, idoms[b] # kInvalidBlockId, idoms'[b] # idoms[b]
       PROVE  po_idx[idoms[b]] < po_idx[idoms'[b]]
  <2>1. b = c /\ idoms'[b] = e  BY <1>4, <1>9, <1>24
  <2>2. idoms[c] \in Blocks  BY <1>8, <1>24, <2>1 DEF Tables
  <2>3. e \in Chain(idoms, c) /\ e # c
    BY <1>2, <1>8, <2>2, ChainMembers DEF Known
  <2>4. e \in Chain(idoms, idoms[c])  BY <1>2, <1>8, <2>2, <2>3, ChainFirst
  <2> QED  BY <1>6, <1>8, <2>1, <2>2, <2>4, ChainRises
<1> QED  BY <1>3, <1>7, <1>20, <1>21, <1>22, <1>23, <1>24 DEF RoundsInv

(* SetIdom, whichever of the two it does.                                  *)
LEMMA SetIdomKeepsRounds ==
    ASSUME succ \in CFG, RoundsInv, SetIdom
    PROVE  RoundsInv'
BY SetIdomAgrees, SetIdomRaises

(* The other steps within a round.                                         *)
LEMMA FingersKeepRounds ==
    ASSUME succ \in CFG, RoundsInv, SeePred \/ IntersectStep \/ IntersectDone
    PROVE  RoundsInv'
<1>1. UNCHANGED <<succ, post_order, po_idx, idoms, at, changed>>
  BY DEF SeePred, IntersectStep, IntersectDone, orderVars, idomVars
<1>2. IdomInv'
  BY SeePredKeeps, IntersectStepKeeps, CursorKeeps DEF RoundsInv
<1>3. TreeRounds'  BY <1>1, SameTree DEF RoundsInv, TreeRounds
<1>4. RoundInv'  BY <1>1, SameRound DEF RoundsInv
<1>5. FingersMeet'  BY SeePredMeets, IntersectStepMeets, IntersectDoneMeets
<1> QED  BY <1>2, <1>3, <1>4, <1>5 DEF RoundsInv, TreeRounds

----------------------------------------------------------------------------
(* What the rounds leave.                                                  *)

(* idoms is a tree whose root is the entry: the idom of a block is on the  *)
(* chains of all its predecessors, and no dominator has been stepped over. *)
Exact ==
    /\ idoms \in [Blocks -> Blocks]
    /\ Rising(idoms, po_idx)
    /\ \A b \in Blocks \ {entry} : \A p \in Preds(succ, b) : idoms[b] \in Chain(idoms, p)
    /\ \A b \in Blocks : \A a \in Blocks \ {b} : Dom(a, b) => Dom(a, idoms[b])

LEMMA ConvergeExact ==
    ASSUME RoundsInv, Converge
    PROVE  Exact'
<1>1. /\ UNCHANGED <<succ, po_idx, idoms>>
      /\ at > Len(post_order) /\ ~changed
  BY DEF Converge, orderVars, idomVars
<1>2. \A b \in Blocks : Done(b)
  <2>1. at \in Nat /\ N \in Nat /\ at > N
    BY <1>1, SizeAssumption DEF RoundsInv, IdomInv, IdomShape, OrderInv
  <2>2. \A b \in Blocks : po_idx[b] \in 0..(N - 1)  BY DEF RoundsInv, OrderInv
  <2> QED  BY <2>1, <2>2 DEF Done
<1>3. \A b \in Blocks : idoms[b] \in Blocks
  BY <1>2 DEF RoundsInv, TreeInv, Known
<1>4. idoms \in [Blocks -> Blocks]
  BY <1>3 DEF RoundsInv, IdomInv, IdomShape
<1>5. Rising(idoms, po_idx)  BY DEF RoundsInv, TreeInv
<1>6. \A b \in Blocks \ {entry} : \A p \in Preds(succ, b) : idoms[b] \in Chain(idoms, p)
  <2>1. \A b \in Blocks : Preds(succ, b) \subseteq Blocks  BY DEF Preds
  <2> QED  BY <1>1, <1>2, <1>3, <2>1 DEF RoundsInv, RoundInv, Known
<1>7. \A b \in Blocks : \A a \in Blocks \ {b} : Dom(a, b) => Dom(a, idoms[b])
  BY <1>3, BlockIds DEF RoundsInv, IdomInv, IdomsAbove, Above
<1> QED  BY <1>1, <1>4, <1>5, <1>6, <1>7 DEF Exact, Dom

(* Where every block can be reached, every chain ends at the entry.        *)
LEMMA ChainsReachEntry ==
    ASSUME succ \in CFG, AllReachable(succ), Exact, NEW b \in Blocks
    PROVE  entry \in Chain(idoms, b)
<1> DEFINE E == {p \in Blocks : entry \in Chain(idoms, p)}
<1>1. idoms \in Tables /\ idoms[entry] = entry  BY DEF Exact, Tables, Rising
<1>2. entry \in E  BY <1>1, BlockIds, ChainMembers
<1>3. ASSUME NEW p \in E, NEW s \in Succs(succ, p)
      PROVE  s \in E
  <2>1. s \in Blocks /\ p \in Preds(succ, s)  BY <1>3, SuccsAreBlocks DEF Preds
  <2>2. CASE s = entry  BY <1>2, <2>2
  <2>3. CASE s # entry
    <3>1. idoms[s] \in Chain(idoms, p) /\ idoms[s] \in Blocks
      BY <2>1, <2>3 DEF Exact
    <3>2. Chain(idoms, s) = {s} \cup Chain(idoms, idoms[s])
      BY <1>1, <2>1, <3>1, ChainFirst
    <3>3. idoms[s] \in Chain(idoms, entry) \/ entry \in Chain(idoms, idoms[s])
      BY <1>1, <1>3, <3>1, ChainLinear
    <3>4. Chain(idoms, entry) = {entry}  BY <1>1, ChainOfEntry
    <3>5. entry \in Chain(idoms, idoms[s])
      BY <1>1, <3>1, <3>3, <3>4, ChainMembers
    <3> QED  BY <2>1, <3>2, <3>5
  <2> QED  BY <2>2, <2>3
<1>4. Closed(succ, kInvalidBlockId, E)  BY <1>2, <1>3 DEF Closed
<1>5. E \in SUBSET (Blocks \ {kInvalidBlockId})  BY BlockIds
<1> HIDE DEF E
<1>6. Avoiding(succ, kInvalidBlockId) \subseteq E  BY <1>4, <1>5, AvoidingLeast
<1>7. b \in E  BY <1>6 DEF AllReachable, Reachable
<1> QED  BY <1>7 DEF E

(* The chain of a block is the set of its dominators.                      *)
LEMMA ChainIsDom ==
    ASSUME succ \in CFG, AllReachable(succ), Exact, NEW a \in Blocks, NEW b \in Blocks
    PROVE  a \in Chain(idoms, b) <=> Dom(a, b)
<1>1. idoms \in Tables /\ idoms[entry] = entry  BY DEF Exact, Tables, Rising
<1>2. ASSUME a \in Chain(idoms, b)
      PROVE  Dom(a, b)
  <2> DEFINE S == {x \in Blocks : a \notin Chain(idoms, x)}
  <2>1. a \notin S  BY <1>1, ChainMembers
  <2>2. entry # a => entry \in S  BY <1>1, BlockIds, ChainOfEntry
  <2>3. ASSUME NEW p \in S, NEW s \in Succs(succ, p), s # a
        PROVE  s \in S
    <3>1. s \in Blocks /\ p \in Preds(succ, s)  BY <2>3, SuccsAreBlocks DEF Preds
    <3>2. CASE s = entry  BY <2>2, <2>3, <3>2
    <3>3. CASE s # entry
      <4>1. idoms[s] \in Chain(idoms, p) /\ idoms[s] \in Blocks
        BY <3>1, <3>3 DEF Exact
      <4>2. Chain(idoms, s) = {s} \cup Chain(idoms, idoms[s])
        BY <1>1, <3>1, <4>1, ChainFirst
      <4>3. Chain(idoms, idoms[s]) \subseteq Chain(idoms, p)
        BY <1>1, <2>3, <4>1, ChainOfMember
      <4> QED  BY <2>3, <3>1, <4>2, <4>3
    <3> QED  BY <3>2, <3>3
  <2>4. Closed(succ, a, S)  BY <2>2, <2>3 DEF Closed
  <2>5. S \in SUBSET (Blocks \ {a})  BY <2>1
  <2>6. b \notin S  BY <1>2
  <2> HIDE DEF S
  <2> QED  BY <2>4, <2>5, <2>6, AvoidingLeast DEF Dom
<1>3. ASSUME Dom(a, b), a \notin Chain(idoms, b)
      PROVE  FALSE
  <2> DEFINE T == {y \in Chain(idoms, b) : Dom(a, y)}
  <2>1. Chain(idoms, b) \subseteq Blocks /\ b \in Chain(idoms, b)
    BY <1>1, ChainMembers
  <2>2. b \in T  BY <1>3, <2>1
  <2>3. ASSUME NEW y \in T, idoms[y] \in Blocks
        PROVE  idoms[y] \in T
    <3>1. idoms[y] \in Chain(idoms, b)  BY <1>1, <2>3, ChainMembers
    <3>2. a # y /\ y \in Blocks  BY <1>3, <2>1
    <3> QED  BY <2>3, <3>1, <3>2 DEF Exact
  <2>4. Up(idoms, T) /\ T \in SUBSET Blocks  BY <2>1, <2>3 DEF Up
  <2> HIDE DEF T
  <2>5. Chain(idoms, b) \subseteq T  BY <2>2, <2>4, ChainLeast
  <2>6. entry \in Chain(idoms, b)  BY ChainsReachEntry
  <2>7. Dom(a, entry)  BY <2>5, <2>6 DEF T
  <2> QED  BY <1>3, <2>6, <2>7, EntryIsRoot
<1> QED  BY <1>2, <1>3

(* An idom is strict.                                                      *)
LEMMA IdomIsStrict ==
    ASSUME Exact, NEW b \in Blocks \ {entry}
    PROVE  /\ idoms[b] \in Blocks \ {b}
           /\ Chain(idoms, b) = {b} \cup Chain(idoms, idoms[b])
           /\ b \notin Chain(idoms, idoms[b])
<1>1. /\ idoms \in Tables /\ idoms[b] \in Blocks /\ po_idx \in [Blocks -> Nat]
      /\ Rising(idoms, po_idx) /\ po_idx[b] < po_idx[idoms[b]]
  BY DEF Exact, Tables, Rising
<1>2. po_idx[b] \in Nat /\ po_idx[idoms[b]] \in Nat  BY <1>1
<1>3. idoms[b] # b  BY <1>1, <1>2
<1>4. b \in Chain(idoms, idoms[b]) => po_idx[idoms[b]] < po_idx[b]
  BY <1>1, <1>3, ChainRises
<1> QED  BY <1>1, <1>2, <1>3, <1>4, ChainFirst

(* The idoms are the immediate dominators.                                 *)
LEMMA ExactIsTree ==
    ASSUME succ \in CFG, AllReachable(succ), Exact, NEW b \in Blocks \ {entry}
    PROVE  ImmediatelyDominates(DominanceOf(succ), idoms[b], b)
<1>1. \A a, x \in Blocks : x \in DominanceOf(succ)[a] <=> Dom(a, x)
  BY DEF DominanceOf, Dominated, Dom, AllReachable
<1>2. idoms[b] \in Blocks \ {b}  BY IdomIsStrict
<1>3. Dom(idoms[b], b)
  <2>1. idoms \in Tables  BY DEF Exact, Tables
  <2>2. idoms[b] \in Chain(idoms, b)  BY <1>2, <2>1, ChainMembers
  <2> QED  BY <1>2, <2>2, ChainIsDom
<1> QED  BY <1>1, <1>2, <1>3 DEF ImmediatelyDominates, Exact

----------------------------------------------------------------------------
(* The invariant of compute_dfs_numbers.                                   *)

Begun(b) == dfs_in[b] > 0
Left(b) == dfs_out[b] > 0

(* Before the numbers and the frontiers are computed, there are none.      *)
Unbuilt ==
    /\ dfs_in = [b \in Blocks |-> 0] /\ dfs_out = [b \in Blocks |-> 0]
    /\ df = [b \in Blocks |-> {}]

NumberShape ==
    /\ stack \in Seq(Call)
    /\ dfs_in \in [Blocks -> Nat] /\ dfs_out \in [Blocks -> Nat] /\ timer \in Nat
    /\ \A b \in Blocks : dfs_in[b] <= timer /\ dfs_out[b] <= timer
    /\ \A i \in Open : stack[i].next >= 1

(* The stack goes down the tree; its blocks have been entered, not left.   *)
StackIsBranch ==
    /\ \A i \in Open : stack[i].block # entry =>
            i > 1 /\ idoms[stack[i].block] = stack[i - 1].block
    /\ \A i, j \in Open : stack[i].block = stack[j].block => i = j
    /\ \A i, j \in Open : i <= j => stack[i].block \in Chain(idoms, stack[j].block)
    /\ \A b \in Blocks : Begun(b) /\ ~Left(b) <=> \E i \in Open : stack[i].block = b

(* The loop over the children has entered those that it has passed.        *)
ChildrenPassed ==
    \A i \in Open : \A c \in Children(stack[i].block) :
        Begun(c) <=> c \notin ChildrenFrom(stack[i].block, stack[i].next)

(* Intervals are nested along the tree, and apart otherwise.               *)
Intervals ==
    /\ Begun(entry)
    /\ \A b \in Blocks : Left(b) => Begun(b) /\ dfs_in[b] < dfs_out[b]
    /\ \A a, b \in Blocks : Begun(a) /\ dfs_in[a] = dfs_in[b] => a = b
    /\ \A b \in Blocks \ {entry} : Begun(b) =>
            Begun(idoms[b]) /\ dfs_in[idoms[b]] < dfs_in[b]
    /\ \A b \in Blocks \ {entry} : Left(idoms[b]) =>
            Left(b) /\ dfs_out[b] < dfs_out[idoms[b]]
    /\ \A a, b \in Blocks : /\ Begun(a) /\ dfs_in[a] < dfs_in[b]
                            /\ a \notin Chain(idoms, b)
                            => Left(a) /\ dfs_out[a] < dfs_in[b]

NumbersInv == NumberShape /\ StackIsBranch /\ ChildrenPassed /\ Intervals

(* The children that the loop has not passed.                              *)
LEMMA ChildrenCounted ==
    ASSUME NEW b, NEW i
    PROVE  /\ IsFiniteSet({j \in Children(b) : j < i})
           /\ Cardinality({j \in Children(b) : j < i}) \in Nat
<1>1. IsFiniteSet(Blocks)
  <2>1. 0 \in Int /\ N - 1 \in Int  BY SizeAssumption
  <2> QED  BY <2>1, FS_Interval DEF Blocks
<1>2. {j \in Children(b) : j < i} \in SUBSET Blocks  BY DEF Children
<1> QED  BY <1>1, <1>2, FS_Subset, FS_CardinalityType

LEMMA AllChildren ==
    ASSUME NEW b
    PROVE  ChildrenFrom(b, 1) = Children(b)
<1>1. \A i \in Children(b) : Cardinality({j \in Children(b) : j < i}) >= 1 - 1
  BY ChildrenCounted
<1> QED  BY <1>1 DEF ChildrenFrom

(* The loop passes one child at a time.                                    *)
LEMMA PassChild ==
    ASSUME NEW b, NEW n \in Nat, n >= 1, NEW c \in Least(ChildrenFrom(b, n))
    PROVE  /\ c \in Children(b) /\ c \in ChildrenFrom(b, n)
           /\ \A i \in Children(b) :
                i \in ChildrenFrom(b, n + 1) <=> i \in ChildrenFrom(b, n) /\ i # c
<1> DEFINE before(i) == {j \in Children(b) : j < i}
           rank(i) == Cardinality(before(i))
<1>1. \A i : IsFiniteSet(before(i)) /\ rank(i) \in Nat  BY ChildrenCounted
<1>2. \A i \in Children(b), k \in Nat : i \in ChildrenFrom(b, k) <=> rank(i) >= k - 1
  BY DEF ChildrenFrom
<1>3. /\ c \in Children(b) /\ c \in ChildrenFrom(b, n)
      /\ \A i \in ChildrenFrom(b, n) : c <= i
  BY DEF Least, ChildrenFrom
<1>4. \A i \in Children(b) : i \in Int  BY BlockIds DEF Children
<1>5. ASSUME NEW i \in Children(b), NEW k \in Children(b), i < k
      PROVE  rank(i) < rank(k)
  <2>1. before(i) \cup {i} \in SUBSET before(k) /\ i \notin before(i)
    BY <1>4, <1>5
  <2> HIDE DEF before
  <2>2. Cardinality(before(i) \cup {i}) = rank(i) + 1
    BY <1>1, <2>1, FS_AddElement
  <2>3. Cardinality(before(i) \cup {i}) <= rank(k)
    BY <1>1, <2>1, FS_Subset
  <2> QED  BY <1>1, <2>2, <2>3
<1>6. rank(c) < n
  <2> SUFFICES ASSUME ~(rank(c) < n)  PROVE FALSE
    OBVIOUS
  <2> DEFINE f == [j \in before(c) |-> rank(j)]
  <2>1. \A j \in before(c) : j \in Children(b) /\ j < c  OBVIOUS
  <2>2. ASSUME NEW j \in before(c)
        PROVE  rank(j) \in 0..(n - 2)
    <3>1. j \in Children(b) /\ ~(c <= j)  BY <1>3, <1>4, <2>1
    <3>2. ~(rank(j) >= n - 1)  BY <1>2, <1>3, <3>1
    <3>3. rank(j) \in Nat  BY <1>1
    <3> HIDE DEF rank
    <3> QED  BY <3>2, <3>3
  <2>3. f \in [before(c) -> 0..(n - 2)]  BY <2>2
  <2>4. /\ IsFiniteSet(0..(n - 2))
        /\ Cardinality(0..(n - 2)) = IF 0 > n - 2 THEN 0 ELSE n - 2 - 0 + 1
    <3>1. 0 \in Int /\ n - 2 \in Int  OBVIOUS
    <3> QED  BY <3>1, FS_Interval
  <2>5. IsFiniteSet(before(c)) /\ rank(c) \in Nat /\ rank(c) = Cardinality(before(c))
    BY <1>1
  <2> HIDE DEF before, rank
  <2>6. Cardinality(0..(n - 2)) < Cardinality(before(c))
    BY <2>4, <2>5
  <2> HIDE DEF f
  <2>7. PICK x, y \in before(c) : x # y /\ f[x] = f[y]
    BY <2>3, <2>4, <2>5, <2>6, FS_PigeonHole
  <2>8. f[x] = rank(x) /\ f[y] = rank(y)  BY DEF f
  <2>9. x \in Children(b) /\ y \in Children(b) /\ x \in Int /\ y \in Int
    BY <1>4, <2>1
  <2>10. x < y \/ y < x  BY <2>7, <2>9
  <2>11. rank(x) < rank(y) \/ rank(y) < rank(x)  BY <1>5, <2>9, <2>10
  <2>12. rank(x) \in Nat /\ rank(y) \in Nat  BY <1>1
  <2>13. rank(x) = rank(y)  BY <2>7, <2>8
  <2> QED  BY <2>11, <2>12, <2>13
<1>7. ASSUME NEW i \in Children(b)
      PROVE  rank(i) >= n + 1 - 1 <=> rank(i) >= n - 1 /\ i # c
  <2>1. CASE i = c  BY <1>1, <1>6, <2>1
  <2>2. CASE i # c /\ rank(i) >= n - 1
    <3>1. c < i  BY <1>2, <1>3, <1>4, <2>2
    <3>2. rank(c) >= n - 1 /\ rank(c) < rank(i)  BY <1>2, <1>3, <1>5, <3>1
    <3>3. rank(i) \in Nat /\ rank(c) \in Nat  BY <1>1
    <3> HIDE DEF rank
    <3> QED  BY <2>2, <3>2, <3>3
  <2>3. CASE ~(rank(i) >= n - 1)
    <3>1. rank(i) \in Nat  BY <1>1
    <3> HIDE DEF rank
    <3> QED  BY <2>3, <3>1
  <2> QED  BY <2>1, <2>2, <2>3
<1>8. n + 1 \in Nat  OBVIOUS
<1> HIDE DEF rank
<1> QED  BY <1>2, <1>3, <1>7, <1>8

(* The rounds are over, and the entry is on the stack.                     *)
LEMMA ConvergeNumbers ==
    ASSUME Exact, Unbuilt, Converge
    PROVE  NumbersInv'
<1> DEFINE c == [block |-> entry, next |-> 1]
<1>1. c \in Call /\ c.block = entry /\ c.next = 1  BY BlockIds, CallType
<1> HIDE DEF c
<1>2. /\ stack' = <<c>> /\ timer' = 1 /\ dfs_out' = dfs_out /\ idoms' = idoms
      /\ dfs_in' = [dfs_in EXCEPT ![entry] = 1]
  BY DEF Converge, c, idomVars
<1>3. /\ stack' \in Seq(Call) /\ Len(stack') = 1 /\ stack'[1] = c
      /\ Open' = {1}
  BY <1>1, <1>2 DEF Open
<1>4. /\ dfs_in' \in [Blocks -> Nat] /\ dfs_out' \in [Blocks -> Nat]
      /\ \A b \in Blocks : /\ dfs_in'[b] = IF b = entry THEN 1 ELSE 0
                           /\ dfs_out'[b] = 0
  BY <1>2, BlockIds DEF Unbuilt
<1>5. /\ entry \in Blocks /\ idoms \in [Blocks -> Blocks] /\ idoms \in Tables
  BY BlockIds DEF Exact, Tables
<1>6. NumberShape'  BY <1>1, <1>2, <1>3, <1>4 DEF NumberShape
<1>7. StackIsBranch'
  <2>1. entry \in Chain(idoms, entry)  BY <1>5, ChainMembers
  <2>2. \A b \in Blocks : Begun(b)' /\ ~Left(b)' <=> b = entry
    BY <1>4 DEF Begun, Left
  <2> QED  BY <1>1, <1>2, <1>3, <2>1, <2>2 DEF StackIsBranch
<1>8. ChildrenPassed'
  <2> SUFFICES ASSUME NEW x \in Children(entry)
               PROVE  Begun(x)' <=> x \notin ChildrenFrom(entry, 1)
    BY <1>1, <1>2, <1>3 DEF ChildrenPassed, ChildrenFrom, Children
  <2>1. x \in Blocks /\ x # entry  BY DEF Children
  <2> QED  BY <1>4, <2>1, AllChildren DEF Begun
<1>9. Intervals'
  <2>1. /\ \A b \in Blocks : Begun(b)' <=> b = entry
        /\ \A b \in Blocks : ~Left(b)'
    BY <1>4 DEF Begun, Left
  <2>2. \A b \in Blocks \ {entry} : idoms'[b] \in Blocks  BY <1>2, <1>5
  <2>3. ASSUME NEW a \in Blocks, NEW b \in Blocks, Begun(a)', dfs_in'[a] = dfs_in'[b]
        PROVE  a = b
    BY <1>4, <2>1, <2>3
  <2>4. ASSUME NEW a \in Blocks, NEW b \in Blocks, Begun(a)', dfs_in'[a] < dfs_in'[b]
        PROVE  FALSE
    BY <1>4, <2>1, <2>4
  <2>5. \A b \in Blocks \ {entry} : ~Left(idoms[b])' /\ ~Begun(b)'
    BY <2>1, <2>2, <1>2
  <2>6. Begun(entry)'  BY <1>5, <2>1
  <2> QED  BY <2>1, <2>3, <2>4, <2>5, <2>6 DEF Intervals
<1> QED  BY <1>6, <1>7, <1>8, <1>9 DEF NumbersInv

(* A child is entered.                                                     *)
LEMMA DescendNumbers ==
    ASSUME Exact, NumbersInv, Descend
    PROVE  NumbersInv'
<1> DEFINE m == Len(stack)
           b == Top.block
           n == Top.next
<1>1. /\ stack \in Seq(Call) /\ stack # <<>> /\ idoms' = idoms /\ dfs_out' = dfs_out
      /\ idoms \in [Blocks -> Blocks] /\ idoms \in Tables /\ idoms[entry] = entry
  BY DEF Descend, idomVars, NumbersInv, NumberShape, Exact, Tables, Rising
<1>2. /\ m \in Nat \ {0} /\ m \in Open /\ b = stack[m].block /\ n = stack[m].next
      /\ b \in Blocks /\ n \in Nat /\ n >= 1
      /\ \A i \in Open : stack[i].block \in Blocks /\ stack[i].next \in Nat
  BY <1>1, TopOfStack DEF NumbersInv, NumberShape, Open
<1>3. PICK c \in Least(ChildrenFrom(b, n)) :
        /\ stack' = Entered(c)
        /\ timer' = timer + 1
        /\ dfs_in' = [dfs_in EXCEPT ![c] = timer + 1]
  BY DEF Descend
<1> HIDE DEF m, b, n
<1>4. /\ c \in Children(b) /\ c \in ChildrenFrom(b, n)
      /\ \A i \in Children(b) :
            i \in ChildrenFrom(b, n + 1) <=> i \in ChildrenFrom(b, n) /\ i # c
  BY <1>2, PassChild
<1>5. c \in Blocks /\ idoms[c] = b /\ c # b /\ c # entry
  BY <1>1, <1>4 DEF Children
<1>6. /\ stack' \in Seq(Call) /\ Len(stack') = m + 1
      /\ \A i \in 1..m :
            /\ stack'[i].block = stack[i].block
            /\ stack'[i].next = IF i = m THEN stack[i].next + 1 ELSE stack[i].next
      /\ stack'[m + 1].block = c /\ stack'[m + 1].next = 1
  <2>1. /\ Entered(c) \in Seq(Call) /\ Len(Entered(c)) = m + 1
        /\ \A i \in 1..m : Entered(c)[i] = Resumed[i]
        /\ Entered(c)[m + 1].block = c /\ Entered(c)[m + 1].next = 1
    BY <1>1, <1>5, EnterCall DEF m
  <2>2. \A i \in 1..m :
            /\ Resumed[i].block = stack[i].block
            /\ Resumed[i].next = IF i = m THEN stack[i].next + 1 ELSE stack[i].next
    BY <1>1, ResumeCall DEF m
  <2> QED  BY <1>3, <2>1, <2>2
<1>7. Open = 1..m /\ Open' = 1..(m + 1)  BY <1>6 DEF Open, m
<1>8. ~Begun(c)
  BY <1>2, <1>4 DEF NumbersInv, ChildrenPassed
<1>9. /\ dfs_in \in [Blocks -> Nat] /\ dfs_out \in [Blocks -> Nat] /\ timer \in Nat
      /\ \A x \in Blocks : dfs_in[x] <= timer /\ dfs_out[x] <= timer
      /\ \A x \in Blocks : dfs_in'[x] = IF x = c THEN timer + 1 ELSE dfs_in[x]
      /\ dfs_in' \in [Blocks -> Nat]
  <2>1. /\ dfs_in \in [Blocks -> Nat] /\ dfs_out \in [Blocks -> Nat] /\ timer \in Nat
        /\ \A x \in Blocks : dfs_in[x] <= timer /\ dfs_out[x] <= timer
    BY DEF NumbersInv, NumberShape
  <2>2. dfs_in' = [dfs_in EXCEPT ![c] = timer + 1] /\ timer + 1 \in Nat  BY <1>3, <2>1
  <2>3. \A x \in Blocks : dfs_in'[x] = IF x = c THEN timer + 1 ELSE dfs_in[x]
    BY <2>1, <2>2
  <2>4. dfs_in' \in [Blocks -> Nat]  BY ONLY <2>1, <2>2
  <2> QED  BY <2>1, <2>3, <2>4
<1>10. /\ \A x \in Blocks : Begun(x)' <=> Begun(x) \/ x = c
       /\ \A x \in Blocks : Left(x)' <=> Left(x)
  BY <1>1, <1>9 DEF Begun, Left
<1>11. \A i \in 1..m : stack[i].block # c
  BY <1>7, <1>8, <1>5 DEF NumbersInv, StackIsBranch
<1>12. NumberShape'
  <2>1. \A i \in Open' : stack'[i].next >= 1
    <3> SUFFICES ASSUME NEW i \in Open'  PROVE stack'[i].next >= 1
      OBVIOUS
    <3>1. CASE i = m + 1  BY <1>6, <3>1
    <3>2. CASE i # m + 1
      <4>1. i \in 1..m /\ i \in Open  BY <1>2, <1>7, <3>2
      <4>2. stack[i].next \in Nat /\ stack[i].next >= 1
        BY <1>2, <4>1 DEF NumbersInv, NumberShape
      <4> QED  BY <1>6, <4>1, <4>2
    <3> QED  BY <3>1, <3>2
  <2>2. \A x \in Blocks : dfs_in'[x] <= timer' /\ dfs_out'[x] <= timer'
    BY <1>1, <1>3, <1>9
  <2>3. timer' \in Nat  BY <1>3, <1>9
  <2> QED  BY <1>1, <1>6, <1>9, <2>1, <2>2, <2>3 DEF NumberShape
<1>13. StackIsBranch'
  <2>1. ASSUME NEW i \in Open', stack'[i].block # entry
        PROVE  i > 1 /\ idoms[stack'[i].block] = stack'[i - 1].block
    <3>1. CASE i = m + 1
      <4>1. stack'[i].block = c /\ i - 1 = m /\ m \in 1..m  BY <1>2, <1>6, <3>1
      <4>2. stack'[i - 1].block = b  BY <1>2, <1>6, <4>1
      <4> QED  BY <1>2, <1>5, <3>1, <4>1, <4>2
    <3>2. CASE i # m + 1
      <4>1. i \in 1..m /\ stack'[i].block = stack[i].block  BY <1>2, <1>6, <1>7, <3>2
      <4>2. i > 1 /\ idoms[stack[i].block] = stack[i - 1].block
        BY <1>7, <2>1, <4>1 DEF NumbersInv, StackIsBranch
      <4>3. i - 1 \in 1..m  BY <1>2, <4>1, <4>2
      <4>4. stack'[i - 1].block = stack[i - 1].block  BY <1>6, <4>3
      <4> QED  BY <4>1, <4>2, <4>4
    <3> QED  BY <3>1, <3>2
  <2>2. \A i \in 1..(m + 1) : i \in 1..m \/ i = m + 1  BY <1>2
  <2>3. \A i, j \in Open' : stack'[i].block = stack'[j].block => i = j
    BY <1>6, <1>7, <1>11, <2>2 DEF NumbersInv, StackIsBranch
  <2>4. ASSUME NEW i \in Open', NEW j \in Open', i <= j
        PROVE  stack'[i].block \in Chain(idoms, stack'[j].block)
    <3>1. CASE j = m + 1
      <4>1. Chain(idoms, c) = {c} \cup Chain(idoms, b)
        BY <1>1, <1>2, <1>5, ChainFirst
      <4>2. CASE i = m + 1  BY <1>6, <3>1, <4>1, <4>2
      <4>3. CASE i # m + 1
        <5>1. i \in Open /\ i <= m  BY <1>2, <1>7, <4>3
        <5>2. stack[i].block \in Chain(idoms, b)
          BY <1>2, <5>1 DEF NumbersInv, StackIsBranch
        <5> QED  BY <1>6, <1>7, <3>1, <4>1, <5>1, <5>2
      <4> QED  BY <4>2, <4>3
    <3>2. CASE j # m + 1
      <4>1. i \in 1..m /\ j \in 1..m  BY <1>2, <1>7, <2>4, <3>2
      <4>2. stack[i].block \in Chain(idoms, stack[j].block)
        BY <1>7, <2>4, <4>1 DEF NumbersInv, StackIsBranch
      <4> QED  BY <1>6, <4>1, <4>2
    <3> QED  BY <3>1, <3>2
  <2>5. ASSUME NEW x \in Blocks
        PROVE  Begun(x)' /\ ~Left(x)' <=> \E i \in Open' : stack'[i].block = x
    <3>1. CASE x = c
      <4>1. m + 1 \in Open'  BY <1>2, <1>7
      <4>2. ~Left(c)  BY <1>5, <1>8 DEF NumbersInv, Intervals
      <4> QED  BY <1>6, <1>10, <3>1, <4>1, <4>2
    <3>2. CASE x # c
      <4>1. Begun(x) /\ ~Left(x) <=> \E i \in Open : stack[i].block = x
        BY DEF NumbersInv, StackIsBranch
      <4>2. (\E i \in Open : stack[i].block = x) <=> \E i \in Open' : stack'[i].block = x
        <5>1. 1..m \subseteq 1..(m + 1)  BY <1>2
        <5> QED  BY <1>6, <1>7, <2>2, <3>2, <5>1
      <4> QED  BY <1>10, <3>2, <4>1, <4>2
    <3> QED  BY <3>1, <3>2
  <2> QED  BY <1>1, <2>1, <2>3, <2>4, <2>5 DEF StackIsBranch
<1>14. ChildrenPassed'
  <2> SUFFICES ASSUME NEW i \in Open', NEW x \in Children(stack'[i].block)
               PROVE  Begun(x)' <=> x \notin ChildrenFrom(stack'[i].block, stack'[i].next)
    BY <1>1 DEF ChildrenPassed, ChildrenFrom, Children
  <2>1. x \in Blocks /\ idoms[x] = stack'[i].block /\ x # stack'[i].block
    BY DEF Children
  <2>2. CASE i = m + 1
    <3>1. stack'[i].block = c /\ stack'[i].next = 1  BY <1>6, <2>2
    <3>2. x \in ChildrenFrom(c, 1)  BY <3>1, AllChildren
    <3>3. x # entry /\ x # c  BY <1>1, <1>5, <2>1, <3>1
    <3>4. ~Begun(x)  BY <1>8, <2>1, <3>1, <3>3 DEF NumbersInv, Intervals
    <3> QED  BY <1>10, <2>1, <3>1, <3>2, <3>3, <3>4
  <2>3. CASE i = m
    <3>1. stack'[i].block = b /\ stack'[i].next = n + 1  BY <1>2, <1>6, <1>7, <2>3
    <3>2. Begun(x) <=> x \notin ChildrenFrom(b, n)
      BY <1>2, <3>1 DEF NumbersInv, ChildrenPassed
    <3> QED  BY <1>4, <1>10, <2>1, <3>1, <3>2
  <2>4. CASE i # m + 1 /\ i # m
    <3>1. i \in 1..m  BY <1>2, <1>7, <2>4
    <3>2. stack'[i].block = stack[i].block /\ stack'[i].next = stack[i].next
      BY <1>6, <2>4, <3>1
    <3>3. Begun(x) <=> x \notin ChildrenFrom(stack[i].block, stack[i].next)
      BY <1>7, <3>1, <3>2 DEF NumbersInv, ChildrenPassed
    <3>4. x # c
      <4>1. stack[i].block # b
        BY <1>2, <1>7, <2>4, <3>1 DEF NumbersInv, StackIsBranch
      <4> QED  BY <1>5, <2>1, <3>2, <4>1
    <3> QED  BY <1>10, <2>1, <3>2, <3>3, <3>4
  <2> QED  BY <2>2, <2>3, <2>4
<1>15. Intervals'
  <2>1. Begun(entry)'  BY <1>10, BlockIds DEF NumbersInv, Intervals
  <2>2. ASSUME NEW x \in Blocks, Left(x)'
        PROVE  Begun(x)' /\ dfs_in'[x] < dfs_out'[x]
    <3>1. Left(x) /\ Begun(x) /\ dfs_in[x] < dfs_out[x]
      BY <1>10, <2>2 DEF NumbersInv, Intervals
    <3>2. x # c  BY <1>8, <3>1
    <3> QED  BY <1>1, <1>9, <1>10, <3>1, <3>2
  <2>3. ASSUME NEW a \in Blocks, NEW x \in Blocks, Begun(a)', dfs_in'[a] = dfs_in'[x]
        PROVE  a = x
    <3>1. CASE a = c \/ x = c  BY <1>9, <3>1, <2>3
    <3>2. CASE a # c /\ x # c
      BY <1>9, <1>10, <2>3, <3>2 DEF NumbersInv, Intervals
    <3> QED  BY <3>1, <3>2
  <2>4. ASSUME NEW x \in Blocks \ {entry}, Begun(x)'
        PROVE  /\ idoms[x] \in Blocks
               /\ Begun(idoms[x]) /\ dfs_in'[idoms[x]] < dfs_in'[x]
    <3>1. CASE x = c
      <4>1. Begun(b)
        BY <1>2 DEF NumbersInv, StackIsBranch
      <4> QED  BY <1>2, <1>5, <1>9, <3>1, <4>1
    <3>2. CASE x # c
      <4>1. Begun(idoms[x]) /\ dfs_in[idoms[x]] < dfs_in[x] /\ idoms[x] \in Blocks
        BY <1>1, <1>10, <2>4, <3>2 DEF NumbersInv, Intervals
      <4> QED  BY <1>8, <1>9, <3>2, <4>1
    <3> QED  BY <3>1, <3>2
  <2>5. \A x \in Blocks \ {entry} : Left(idoms[x])' =>
            Left(x)' /\ dfs_out'[x] < dfs_out'[idoms'[x]]
    BY <1>1, <1>10 DEF NumbersInv, Intervals
  <2>6. ASSUME NEW a \in Blocks, NEW x \in Blocks, Begun(a)', dfs_in'[a] < dfs_in'[x],
               a \notin Chain(idoms, x)
        PROVE  Left(a)' /\ dfs_out'[a] < dfs_in'[x]
    <3>1. a # c
      <4>1. CASE x = c  BY <1>1, <2>6, <4>1, ChainMembers
      <4>2. CASE x # c  BY <1>9, <2>6, <4>2
      <4> QED  BY <4>1, <4>2
    <3>2. CASE x = c
      <4>1. \A i \in 1..m : stack[i].block # a
        <5>1. \A i \in 1..m : stack[i].block \in Chain(idoms, b)
          BY <1>2, <1>7 DEF NumbersInv, StackIsBranch
        <5>2. Chain(idoms, c) = {c} \cup Chain(idoms, b)
          BY <1>1, <1>2, <1>5, ChainFirst
        <5> QED  BY <2>6, <3>2, <5>1, <5>2
      <4>2. Left(a)
        BY <1>7, <1>10, <2>6, <3>1, <4>1 DEF NumbersInv, StackIsBranch
      <4> QED  BY <1>1, <1>9, <1>10, <3>2, <4>2
    <3>3. CASE x # c
      <4>1. Begun(a) /\ dfs_in[a] < dfs_in[x]  BY <1>9, <1>10, <2>6, <3>1, <3>3
      <4>2. Left(a) /\ dfs_out[a] < dfs_in[x]
        BY <2>6, <4>1 DEF NumbersInv, Intervals
      <4> QED  BY <1>1, <1>9, <1>10, <3>3, <4>2
    <3> QED  BY <3>2, <3>3
  <2>7. \A x \in Blocks \ {entry} : Begun(x)' => Begun(idoms[x])'
    BY <1>1, <1>10, <2>4
  <2> QED  BY <1>1, <2>1, <2>2, <2>3, <2>4, <2>5, <2>6, <2>7 DEF Intervals
<1> QED  BY <1>12, <1>13, <1>14, <1>15 DEF NumbersInv

(* A block is left.                                                        *)
LEMMA AscendNumbers ==
    ASSUME Exact, NumbersInv, Ascend
    PROVE  NumbersInv'
<1> DEFINE m == Len(stack)
           b == Top.block
<1>1. /\ stack \in Seq(Call) /\ stack # <<>> /\ idoms' = idoms /\ dfs_in' = dfs_in
      /\ idoms \in [Blocks -> Blocks] /\ idoms \in Tables /\ idoms[entry] = entry
  BY DEF Ascend, idomVars, NumbersInv, NumberShape, Exact, Tables, Rising
<1>2. /\ m \in Nat \ {0} /\ m \in Open /\ b = stack[m].block /\ b \in Blocks
      /\ \A i \in Open : stack[i].block \in Blocks
  BY <1>1, TopOfStack DEF NumbersInv, NumberShape, Open
<1>3. /\ stack' \in Seq(Call) /\ Len(stack') = m - 1
      /\ \A i \in 1..(m - 1) : stack'[i] = stack[i]
  BY <1>1, PopCall DEF Ascend
<1>4. Open = 1..m /\ Open' = 1..(m - 1)  BY <1>3 DEF Open
<1>5. ChildrenFrom(stack[m].block, stack[m].next) = {}
  BY <1>1, TopOfStack DEF Ascend
<1>6. timer' = timer + 1 /\ dfs_out' = [dfs_out EXCEPT ![b] = timer + 1]
  BY DEF Ascend
<1> HIDE DEF m, b
<1>7. /\ dfs_in \in [Blocks -> Nat] /\ dfs_out \in [Blocks -> Nat] /\ timer \in Nat
      /\ \A x \in Blocks : dfs_in[x] <= timer /\ dfs_out[x] <= timer
      /\ \A x \in Blocks : dfs_out'[x] = IF x = b THEN timer + 1 ELSE dfs_out[x]
      /\ dfs_out' \in [Blocks -> Nat]
  <2>1. /\ dfs_in \in [Blocks -> Nat] /\ dfs_out \in [Blocks -> Nat] /\ timer \in Nat
        /\ \A x \in Blocks : dfs_in[x] <= timer /\ dfs_out[x] <= timer
    BY DEF NumbersInv, NumberShape
  <2>2. timer + 1 \in Nat  BY <2>1
  <2>3. \A x \in Blocks : dfs_out'[x] = IF x = b THEN timer + 1 ELSE dfs_out[x]
    BY <1>6, <2>1, <2>2
  <2>4. dfs_out' \in [Blocks -> Nat]  BY ONLY <1>6, <2>1, <2>2
  <2> QED  BY <2>1, <2>3, <2>4
<1>8. /\ \A x \in Blocks : Begun(x)' <=> Begun(x)
      /\ \A x \in Blocks : Left(x)' <=> Left(x) \/ x = b
  BY <1>1, <1>7 DEF Begun, Left
<1>9. Begun(b) /\ ~Left(b)  BY <1>2 DEF NumbersInv, StackIsBranch
<1>10. \A i \in 1..(m - 1) : i \in Open /\ i \in 1..m /\ i # m  BY <1>2, <1>4
<1>11. \A i \in 1..(m - 1) : stack[i].block # b
  BY <1>2, <1>10 DEF NumbersInv, StackIsBranch
<1>12. ASSUME NEW x \in Blocks \ {entry}, idoms[x] = b, x # b
       PROVE  Left(x) /\ dfs_out[x] <= timer
  <2>1. x \in Children(stack[m].block)  BY <1>2, <1>12 DEF Children
  <2>2. Begun(x)  BY <1>2, <1>5, <2>1 DEF NumbersInv, ChildrenPassed
  <2>3. ASSUME NEW k \in Open, stack[k].block = x
        PROVE  FALSE
    <3>1. k > 1 /\ stack[k - 1].block = b
      BY <1>12, <2>3 DEF NumbersInv, StackIsBranch
    <3>2. k - 1 \in Open  BY <1>2, <1>4, <3>1
    <3>3. k - 1 = m  BY <1>2, <3>1, <3>2 DEF NumbersInv, StackIsBranch
    <3> QED  BY <1>2, <1>4, <3>3
  <2>4. Left(x)  BY <2>2, <2>3 DEF NumbersInv, StackIsBranch
  <2> QED  BY <1>7, <2>4
<1>13. NumberShape'
  <2>1. \A i \in Open' : stack'[i].next >= 1
    BY <1>3, <1>4, <1>10 DEF NumbersInv, NumberShape
  <2>2. \A x \in Blocks : dfs_in'[x] <= timer' /\ dfs_out'[x] <= timer'
    BY <1>1, <1>6, <1>7
  <2>3. timer' \in Nat  BY <1>6, <1>7
  <2> QED  BY <1>1, <1>3, <1>7, <2>1, <2>2, <2>3 DEF NumberShape
<1>14. StackIsBranch'
  <2>1. ASSUME NEW i \in Open', stack'[i].block # entry
        PROVE  i > 1 /\ idoms[stack'[i].block] = stack'[i - 1].block
    <3>1. i \in 1..(m - 1) /\ stack'[i] = stack[i]  BY <1>3, <1>4
    <3>2. i > 1 /\ idoms[stack[i].block] = stack[i - 1].block
      BY <1>10, <2>1, <3>1 DEF NumbersInv, StackIsBranch
    <3>3. i - 1 \in 1..(m - 1)  BY <1>2, <3>1, <3>2
    <3> QED  BY <1>3, <3>1, <3>2, <3>3
  <2>2. /\ \A i, j \in Open' : stack'[i].block = stack'[j].block => i = j
        /\ \A i, j \in Open' : i <= j =>
                stack'[i].block \in Chain(idoms, stack'[j].block)
    BY <1>3, <1>4, <1>10 DEF NumbersInv, StackIsBranch
  <2>3. ASSUME NEW x \in Blocks
        PROVE  Begun(x)' /\ ~Left(x)' <=> \E i \in Open' : stack'[i].block = x
    <3>1. Begun(x) /\ ~Left(x) <=> \E i \in Open : stack[i].block = x
      BY DEF NumbersInv, StackIsBranch
    <3>2. CASE x = b
      BY <1>3, <1>4, <1>8, <1>11, <3>2
    <3>3. CASE x # b
      <4>1. \A i \in Open : stack[i].block = x => i \in 1..(m - 1)
        <5>1. \A i \in Open : i # m => i \in 1..(m - 1)  BY <1>2, <1>4
        <5> QED  BY <1>2, <3>3, <5>1
      <4>2. (\E i \in Open : stack[i].block = x) <=> \E i \in Open' : stack'[i].block = x
        BY <1>3, <1>4, <1>10, <4>1
      <4> QED  BY <1>8, <3>1, <3>3, <4>2
    <3> QED  BY <3>2, <3>3
  <2> QED  BY <1>1, <2>1, <2>2, <2>3 DEF StackIsBranch
<1>15. ChildrenPassed'
  <2> SUFFICES ASSUME NEW i \in Open', NEW x \in Children(stack'[i].block)
               PROVE  Begun(x)' <=> x \notin ChildrenFrom(stack'[i].block, stack'[i].next)
    BY <1>1 DEF ChildrenPassed, ChildrenFrom, Children
  <2>1. x \in Blocks /\ i \in Open /\ stack'[i] = stack[i]
    BY <1>3, <1>4, <1>10 DEF Children
  <2> QED  BY <1>8, <2>1 DEF NumbersInv, ChildrenPassed
<1>16. Intervals'
  <2>1. ASSUME NEW x \in Blocks, Left(x)'
        PROVE  Begun(x)' /\ dfs_in'[x] < dfs_out'[x]
    <3>1. CASE x = b  BY <1>1, <1>7, <1>8, <1>9, <3>1
    <3>2. CASE x # b
      BY <1>1, <1>7, <1>8, <2>1, <3>2 DEF NumbersInv, Intervals
    <3> QED  BY <3>1, <3>2
  <2>2. ASSUME NEW x \in Blocks \ {entry}, Left(idoms[x]) \/ idoms[x] = b
        PROVE  Left(x)' /\ dfs_out'[x] < dfs_out'[idoms[x]]
    <3>1. idoms[x] \in Blocks /\ idoms[x] # x  BY <1>1, IdomIsStrict
    <3>2. CASE x = b
      <4>1. m > 1 /\ idoms[b] = stack[m - 1].block
        BY <1>2, <3>2 DEF NumbersInv, StackIsBranch
      <4>2. m - 1 \in Open  BY <1>2, <1>4, <4>1
      <4>3. ~Left(idoms[b])  BY <3>1, <3>2, <4>1, <4>2 DEF NumbersInv, StackIsBranch
      <4> QED  BY <2>2, <3>1, <3>2, <4>3
    <3>3. CASE x # b /\ idoms[x] = b
      <4>1. Left(x) /\ dfs_out[x] <= timer  BY <1>12, <3>3
      <4> QED  BY <1>7, <1>8, <3>1, <3>3, <4>1
    <3>4. CASE x # b /\ idoms[x] # b
      <4>1. Left(x) /\ dfs_out[x] < dfs_out[idoms[x]]
        BY <2>2, <3>4 DEF NumbersInv, Intervals
      <4> QED  BY <1>7, <1>8, <3>1, <3>4, <4>1
    <3> QED  BY <3>2, <3>3, <3>4
  <2>3. ASSUME NEW a \in Blocks, NEW x \in Blocks, Begun(a), dfs_in[a] < dfs_in[x],
               a \notin Chain(idoms, x)
        PROVE  Left(a)' /\ dfs_out'[a] < dfs_in[x]
    <3>1. Left(a) /\ dfs_out[a] < dfs_in[x]
      BY <2>3 DEF NumbersInv, Intervals
    <3>2. a # b  BY <1>9, <3>1
    <3> QED  BY <1>7, <1>8, <3>1, <3>2
  <2>4. \A x \in Blocks \ {entry} : idoms[x] \in Blocks  BY <1>1
  <2>5. \A x \in Blocks \ {entry} :
            /\ Begun(x)' => Begun(idoms[x])' /\ dfs_in'[idoms'[x]] < dfs_in'[x]
            /\ Left(idoms[x])' => Left(x)' /\ dfs_out'[x] < dfs_out'[idoms'[x]]
    BY <1>1, <1>8, <2>2, <2>4 DEF NumbersInv, Intervals
  <2>6. Begun(entry)'  BY <1>8, BlockIds DEF NumbersInv, Intervals
  <2>7. \A a, x \in Blocks : Begun(a)' /\ dfs_in'[a] = dfs_in'[x] => a = x
    BY <1>1, <1>8 DEF NumbersInv, Intervals
  <2>8. \A a, x \in Blocks : /\ Begun(a)' /\ dfs_in'[a] < dfs_in'[x]
                             /\ a \notin Chain(idoms', x)
                             => Left(a)' /\ dfs_out'[a] < dfs_in'[x]
    BY <1>1, <1>8, <2>3
  <2> QED  BY <2>1, <2>5, <2>6, <2>7, <2>8 DEF Intervals
<1> QED  BY <1>13, <1>14, <1>15, <1>16 DEF NumbersInv

(* When the stack is empty, the intervals decide dominance.                *)
NumbersExact == \A a, b \in Blocks : dominates(a, b) <=> Dom(a, b)

LEMMA EmptyStackIsExact ==
    ASSUME succ \in CFG, AllReachable(succ), Exact, NumbersInv, stack = <<>>
    PROVE  NumbersExact
<1>1. /\ idoms \in [Blocks -> Blocks] /\ idoms \in Tables /\ idoms[entry] = entry
      /\ dfs_in \in [Blocks -> Nat] /\ dfs_out \in [Blocks -> Nat]
  BY DEF Exact, Tables, Rising, NumbersInv, NumberShape
<1>2. \A x \in Blocks : Begun(x) => Left(x)
  <2>1. Open = {}  BY DEF Open
  <2> QED  BY <2>1 DEF NumbersInv, StackIsBranch
<1>3. Left(entry)  BY <1>2, BlockIds DEF NumbersInv, Intervals
<1>4. ASSUME NEW x \in Blocks
      PROVE  Left(x) /\ Begun(x)
  <2> DEFINE T == {y \in Blocks : ~Left(y)}
  <2>1. Up(idoms, T)
    <3> SUFFICES ASSUME NEW y \in T  PROVE idoms[y] \in T
      BY DEF Up
    <3>1. y # entry  BY <1>3
    <3> QED  BY <1>1, <3>1 DEF NumbersInv, Intervals
  <2>2. x \in T => Chain(idoms, x) \subseteq T  BY <2>1, ChainLeast
  <2>3. entry \in Chain(idoms, x)  BY ChainsReachEntry
  <2>4. Left(x)  BY <1>3, <2>2, <2>3
  <2> QED  BY <2>4 DEF NumbersInv, Intervals
<1>5. ASSUME NEW a \in Blocks, NEW b \in Blocks, a \in Chain(idoms, b)
      PROVE  dominates(a, b)
  <2> DEFINE T == {y \in Blocks : dfs_in[y] <= dfs_in[b] /\ dfs_out[b] <= dfs_out[y]}
  <2>1. ASSUME NEW y \in T
        PROVE  idoms[y] \in T
    <3>1. CASE y = entry  BY <1>1, <2>1, <3>1
    <3>2. CASE y # entry
      <4>1. /\ dfs_in[idoms[y]] < dfs_in[y] /\ dfs_out[y] < dfs_out[idoms[y]]
            /\ idoms[y] \in Blocks
        BY <1>1, <1>4, <3>2 DEF NumbersInv, Intervals
      <4>2. /\ dfs_in[idoms[y]] \in Nat /\ dfs_in[y] \in Nat /\ dfs_in[b] \in Nat
            /\ dfs_out[idoms[y]] \in Nat /\ dfs_out[y] \in Nat /\ dfs_out[b] \in Nat
        BY <1>1, <4>1
      <4> QED  BY <2>1, <4>1, <4>2
    <3> QED  BY <3>1, <3>2
  <2>2. Up(idoms, T)  BY <2>1 DEF Up
  <2>3. dfs_in[b] \in Nat /\ dfs_out[b] \in Nat  BY <1>1
  <2>4. b \in T  BY <2>3
  <2>5. Chain(idoms, b) \subseteq T  BY <2>2, <2>4, ChainLeast
  <2> QED  BY <1>5, <2>5 DEF dominates
<1>6. ASSUME NEW a \in Blocks, NEW b \in Blocks, a \notin Chain(idoms, b),
             dominates(a, b)
      PROVE  FALSE
  <2>1. dfs_in[a] <= dfs_in[b] /\ dfs_out[b] <= dfs_out[a]  BY <1>6 DEF dominates
  <2>2. a # b  BY <1>1, <1>6, ChainMembers
  <2>3. /\ dfs_in[a] \in Nat /\ dfs_in[b] \in Nat
        /\ dfs_out[a] \in Nat /\ dfs_out[b] \in Nat
    BY <1>1
  <2>4. dfs_in[a] < dfs_in[b]
    <3>1. dfs_in[a] # dfs_in[b]  BY <1>4, <2>2 DEF NumbersInv, Intervals
    <3> QED  BY <2>1, <2>3, <3>1
  <2>5. dfs_out[a] < dfs_in[b] /\ dfs_in[b] < dfs_out[b]
    BY <1>4, <1>6, <2>4 DEF NumbersInv, Intervals
  <2> QED  BY <2>1, <2>3, <2>5
<1> QED  BY <1>5, <1>6, ChainIsDom DEF NumbersExact

----------------------------------------------------------------------------
(* The invariant of compute_dominance_frontier.                            *)

(* a dominates a predecessor of b, but is not above b.                     *)
EndsAt(a, b) ==
    /\ b # entry /\ a \notin Chain(idoms, idoms[b])
    /\ \E p \in Preds(succ, b) : a \in Chain(idoms, p)

(* The runners of the current block have been at a.                        *)
RunThrough(a) ==
    /\ at < N /\ IsJoin(at) /\ a \notin Chain(idoms, idoms[at])
    /\ \E p \in Preds(succ, at) :
            /\ p < pred /\ a \in Chain(idoms, p)
            /\ ~(walking /\ p = pred - 1 /\ a \in Chain(idoms, finger))

FrontierInv ==
    /\ at \in 0..N /\ pred \in Nat /\ finger \in Blocks
    /\ df \in [Blocks -> SUBSET Blocks]
    /\ \A a \in Blocks, b \in Blocks :
            b \in df[a] <=> \/ b < at /\ EndsAt(a, b)
                            \/ b = at /\ RunThrough(a)
    /\ walking => /\ at < N /\ IsJoin(at)
                  /\ finger # idoms[at] /\ idoms[at] \in Chain(idoms, finger)
                  /\ pred - 1 \in Preds(succ, at) /\ finger \in Chain(idoms, pred - 1)

(* A block with one predecessor ends no dominance.                         *)
LEMMA NoJoinEndsNothing ==
    ASSUME succ \in CFG, AllReachable(succ), Exact,
           NEW b \in Blocks, ~IsJoin(b), NEW a \in Blocks
    PROVE  ~EndsAt(a, b)
<1> SUFFICES ASSUME EndsAt(a, b)  PROVE FALSE
  OBVIOUS
<1>1. b # entry /\ a \notin Chain(idoms, idoms[b])  BY DEF EndsAt
<1>2. PICK p \in Preds(succ, b) : a \in Chain(idoms, p)  BY DEF EndsAt
<1>3. p \in Blocks /\ idoms \in Tables  BY DEF Preds, Exact, Tables
<1>4. ASSUME NEW q \in Preds(succ, b), q # p
      PROVE  FALSE
  <2>1. IsFiniteSet({q}) /\ Cardinality({q}) = 1  BY FS_Singleton
  <2>2. /\ IsFiniteSet({q} \cup {p})
        /\ Cardinality({q} \cup {p}) = IF p \in {q} THEN Cardinality({q})
                                       ELSE Cardinality({q}) + 1
    BY <2>1, FS_AddElement
  <2>3. Cardinality({q} \cup {p}) = 2  BY <1>4, <2>1, <2>2
  <2>4. IsFiniteSet(Preds(succ, b)) /\ Cardinality(Preds(succ, b)) \in Nat
    <3>1. IsFiniteSet(Blocks)
      <4>1. 0 \in Int /\ N - 1 \in Int  BY SizeAssumption
      <4> QED  BY <4>1, FS_Interval DEF Blocks
    <3>2. Preds(succ, b) \in SUBSET Blocks  BY DEF Preds
    <3> QED  BY <3>1, <3>2, FS_Subset, FS_CardinalityType
  <2>5. Cardinality({q} \cup {p}) <= Cardinality(Preds(succ, b))
    <3>1. {q} \cup {p} \in SUBSET Preds(succ, b)  OBVIOUS
    <3> QED  BY <2>4, <3>1, FS_Subset
  <2> QED  BY <2>3, <2>4, <2>5 DEF IsJoin
<1>5. \A x \in Blocks : \A s \in Succs(succ, x) : s \in Blocks /\ (s = b => x = p)
  BY <1>4, SuccsAreBlocks DEF Preds
<1>6. p # b
  <2> SUFFICES ASSUME p = b  PROVE FALSE
    OBVIOUS
  <2> DEFINE S == Blocks \ {b}
  <2>1. Closed(succ, kInvalidBlockId, S)
    BY <1>1, <1>5, BlockIds DEF Closed
  <2>2. S \in SUBSET (Blocks \ {kInvalidBlockId}) /\ b \notin S  BY BlockIds
  <2> HIDE DEF S
  <2>3. b \notin Avoiding(succ, kInvalidBlockId)  BY <2>1, <2>2, AvoidingLeast
  <2> QED  BY <2>3 DEF AllReachable, Reachable
<1>7. Dom(p, b)
  <2> DEFINE S == Blocks \ {p, b}
  <2>1. Closed(succ, p, S)  BY <1>1, <1>5, BlockIds DEF Closed
  <2>2. S \in SUBSET (Blocks \ {p}) /\ b \notin S  OBVIOUS
  <2> HIDE DEF S
  <2> QED  BY <2>1, <2>2, AvoidingLeast DEF Dom
<1>8. p \in Chain(idoms, idoms[b])
  <2>1. p \in Chain(idoms, b)  BY <1>3, <1>7, ChainIsDom
  <2> QED  BY <1>1, <1>6, <2>1, IdomIsStrict
<1>9. idoms[b] \in Blocks  BY DEF Exact
<1> QED  BY <1>1, <1>2, <1>3, <1>8, <1>9, ChainOfMember

(* The loop over the blocks begins.                                        *)
LEMMA StartFrontierKeeps ==
    ASSUME df = [b \in Blocks |-> {}], ~walking, finger \in Blocks, StartFrontier
    PROVE  FrontierInv'
<1>1. at' = 0 /\ pred' = 0 /\ ~walking' /\ finger' = finger /\ df' = df
  BY DEF StartFrontier
<1>2. 0 \in 0..N  BY SizeAssumption
<1>3. \A b \in Blocks : ~(b < 0)  BY DEF Blocks
<1>4. \A a \in Blocks : ~RunThrough(a)'
  <2>1. \A p \in Preds(succ, at)' : ~(p < 0)  BY <1>3 DEF Preds
  <2> QED  BY <1>1, <2>1 DEF RunThrough
<1>5. df' \in [Blocks -> SUBSET Blocks] /\ \A a \in Blocks : df'[a] = {}  BY <1>1
<1> QED  BY <1>1, <1>2, <1>3, <1>4, <1>5 DEF FrontierInv

(* Only blocks that are not the entry are joins.                           *)
LEMMA JoinIsInside ==
    ASSUME succ \in Graphs, IsJoin(entry)
    PROVE  FALSE
<1>1. Preds(succ, entry) = {}  BY EntryAssumption
<1> QED  BY <1>1, FS_EmptySet DEF IsJoin

(* A runner starts.                                                        *)
LEMMA StartRunnerKeeps ==
    ASSUME succ \in Graphs, Exact, FrontierInv, StartRunner
    PROVE  FrontierInv'
<1>1. /\ UNCHANGED <<succ, idoms, at, df>> /\ ~walking /\ at < N /\ IsJoin(at)
  BY DEF StartRunner, idomVars
<1>2. PICK p \in Least(Ahead(at)) :
        pred' = p + 1 /\ finger' = p /\ walking' = (p # idoms[at])
  BY DEF StartRunner
<1>3. at \in Blocks \ {entry}
  <2>1. at # entry  BY <1>1, JoinIsInside
  <2>2. at \in 0..N /\ N \in Nat  BY SizeAssumption DEF FrontierInv
  <2> QED  BY <1>1, <2>1, <2>2 DEF Blocks
<1>4. /\ p \in Preds(succ, at) /\ p \in Blocks /\ p \in Nat /\ p >= pred /\ pred \in Nat
      /\ \A q \in Preds(succ, at) : q >= pred => p <= q
      /\ \A q \in Preds(succ, at) : q \in Nat
  BY DEF Least, Ahead, Preds, Blocks, FrontierInv
<1>5. idoms \in Tables /\ idoms[at] \in Chain(idoms, p)
  BY <1>3, <1>4 DEF Exact, Tables
<1>6. p \in Chain(idoms, p)  BY <1>4, <1>5, ChainMembers
<1>7. \A q \in Preds(succ, at) : q < p + 1 <=> q < pred \/ q = p  BY <1>4
<1>8. walking' <=> p # idoms[at]  BY <1>2, Zenon
<1>9. pred' - 1 = p  BY <1>2, <1>4
<1>10. ASSUME NEW a \in Blocks
       PROVE  RunThrough(a)' <=> RunThrough(a)
  <2> DEFINE new(q) == /\ a \in Chain(idoms, q)
                       /\ ~(p # idoms[at] /\ q = p /\ a \in Chain(idoms, p))
  <2>1. RunThrough(a)' <=> /\ a \notin Chain(idoms, idoms[at])
                           /\ \E q \in Preds(succ, at) : q < p + 1 /\ new(q)
    <3>1. IsJoin(at)' /\ Preds(succ, at)' = Preds(succ, at)  BY <1>1 DEF IsJoin
    <3> QED  BY <1>1, <1>2, <1>8, <1>9, <3>1 DEF RunThrough
  <2>2. RunThrough(a) <=> /\ a \notin Chain(idoms, idoms[at])
                          /\ \E q \in Preds(succ, at) : q < pred /\ a \in Chain(idoms, q)
    BY <1>1 DEF RunThrough
  <2>3. \A q \in Preds(succ, at) : q < pred => q # p /\ q < p + 1  BY <1>4
  <2>4. a \notin Chain(idoms, idoms[at]) => ~new(p)  OBVIOUS
  <2> QED  BY <1>7, <2>1, <2>2, <2>3, <2>4
<1>11. \A a, b \in Blocks : EndsAt(a, b)' <=> EndsAt(a, b)  BY <1>1 DEF EndsAt
<1>12. \A a, b \in Blocks : b \in df[a] <=>
            \/ b < at /\ EndsAt(a, b)'
            \/ b = at /\ RunThrough(a)'
  BY <1>10, <1>11 DEF FrontierInv
<1>13. walking' => /\ finger' # idoms[at] /\ idoms[at] \in Chain(idoms, finger')
                   /\ pred' - 1 \in Preds(succ, at) /\ finger' \in Chain(idoms, pred' - 1)
  BY <1>2, <1>4, <1>5, <1>6, <1>8, <1>9
<1>14. pred' \in Nat /\ finger' \in Blocks  BY <1>2, <1>4
<1>15. IsJoin(at)'  BY <1>1 DEF IsJoin
<1> QED  BY <1>1, <1>12, <1>13, <1>14, <1>15 DEF FrontierInv

(* The runner goes up: it stops at the idom of the block, and always       *)
(* has an idom to go to.                                                   *)
LEMMA RunKeeps ==
    ASSUME succ \in Graphs, Exact, FrontierInv, Run
    PROVE  FrontierInv' /\ phase' = phase
<1> DEFINE up == idoms[finger]
           p == pred - 1
<1>1. /\ UNCHANGED <<succ, idoms, at, pred>> /\ walking
      /\ df' = [df EXCEPT ![finger] = @ \cup {at}]
      /\ walking' = (up # idoms[at])
      /\ finger' = IF up = kInvalidBlockId THEN finger ELSE up
      /\ phase' = IF walking' /\ up = kInvalidBlockId THEN "undefined" ELSE phase
  BY DEF Run, idomVars
<1>2. /\ at < N /\ IsJoin(at) /\ at \in 0..N /\ pred \in Nat
      /\ finger \in Blocks /\ finger # idoms[at] /\ idoms[at] \in Chain(idoms, finger)
      /\ p \in Preds(succ, at) /\ finger \in Chain(idoms, p)
  BY <1>1 DEF FrontierInv
<1>3. at \in Blocks \ {entry}
  <2>1. at # entry  BY <1>2, JoinIsInside
  <2>2. N \in Nat  BY SizeAssumption
  <2> QED  BY <1>2, <2>1, <2>2 DEF Blocks
<1>4. /\ idoms \in Tables /\ idoms[at] \in Blocks /\ up \in Blocks /\ idoms[entry] = entry
      /\ p \in Blocks
  BY <1>2, <1>3 DEF Exact, Tables, Rising, Preds
<1>5. finger # entry
  <2>1. Chain(idoms, entry) = {entry}  BY <1>4, ChainOfEntry
  <2> QED  BY <1>2, <2>1
<1>6. /\ Chain(idoms, finger) = {finger} \cup Chain(idoms, up)
      /\ finger \notin Chain(idoms, up)
  BY <1>2, <1>5, IdomIsStrict
<1>7. idoms[at] \in Chain(idoms, up)  BY <1>2, <1>6
<1>8. finger \notin Chain(idoms, idoms[at])
  <2>1. Chain(idoms, idoms[at]) \subseteq Chain(idoms, up)
    BY <1>4, <1>7, ChainOfMember
  <2> QED  BY <1>6, <2>1
<1>9. up \in Chain(idoms, p)
  BY <1>2, <1>4, ChainMembers
<1>10. finger' = up /\ phase' = phase  BY <1>1, <1>4, BlockIds
<1>11. walking' <=> up # idoms[at]  BY <1>1, Zenon
<1> HIDE DEF up, p
<1>12. ASSUME NEW a \in Blocks
       PROVE  RunThrough(a)' <=> RunThrough(a) \/ a = finger
  <2>1. RunThrough(a)' <=>
            /\ a \notin Chain(idoms, idoms[at])
            /\ \E q \in Preds(succ, at) :
                /\ q < pred /\ a \in Chain(idoms, q)
                /\ ~(up # idoms[at] /\ q = p /\ a \in Chain(idoms, up))
    <3>1. IsJoin(at)' /\ Preds(succ, at)' = Preds(succ, at)  BY <1>1, <1>2 DEF IsJoin
    <3> QED  BY <1>1, <1>2, <1>10, <1>11, <3>1 DEF RunThrough, p
  <2>2. RunThrough(a) <=>
            /\ a \notin Chain(idoms, idoms[at])
            /\ \E q \in Preds(succ, at) :
                /\ q < pred /\ a \in Chain(idoms, q)
                /\ ~(q = p /\ a \in Chain(idoms, finger))
    BY <1>1, <1>2 DEF RunThrough, p
  <2>3. p < pred  BY <1>2 DEF p
  <2>4. CASE a = finger  BY <1>2, <1>6, <1>8, <2>1, <2>3, <2>4
  <2>5. CASE a # finger
    <3>1. a \in Chain(idoms, finger) <=> a \in Chain(idoms, up)  BY <1>6, <2>5
    <3>2. up = idoms[at] /\ a \notin Chain(idoms, idoms[at]) =>
                a \notin Chain(idoms, up)
      OBVIOUS
    <3> QED  BY <2>1, <2>2, <2>5, <3>1, <3>2
  <2> QED  BY <2>4, <2>5
<1>13. \A a, b \in Blocks : EndsAt(a, b)' <=> EndsAt(a, b)  BY <1>1 DEF EndsAt
<1>14. /\ df' \in [Blocks -> SUBSET Blocks]
       /\ \A a, b \in Blocks : b \in df'[a] <=> b \in df[a] \/ (a = finger /\ b = at)
  <2>1. df \in [Blocks -> SUBSET Blocks]  BY DEF FrontierInv
  <2> QED  BY <1>1, <1>2, <1>3, <2>1
<1>15. \A a, b \in Blocks : b \in df'[a] <=>
            \/ b < at /\ EndsAt(a, b)'
            \/ b = at /\ RunThrough(a)'
  BY <1>12, <1>13, <1>14 DEF FrontierInv
<1>16. walking' => /\ finger' # idoms[at] /\ idoms[at] \in Chain(idoms, finger')
                   /\ pred - 1 \in Preds(succ, at) /\ finger' \in Chain(idoms, pred - 1)
  BY <1>2, <1>7, <1>9, <1>10, <1>11 DEF p
<1>17. IsJoin(at)'  BY <1>1, <1>2 DEF IsJoin
<1>18. finger' \in Blocks  BY <1>4, <1>10
<1> QED  BY <1>1, <1>2, <1>10, <1>14, <1>15, <1>16, <1>17, <1>18 DEF FrontierInv

(* The block has been done.                                                *)
LEMMA NextBlockKeeps ==
    ASSUME succ \in Graphs, succ \in CFG, AllReachable(succ), Exact, FrontierInv,
           NextBlock
    PROVE  FrontierInv'
<1>1. /\ UNCHANGED <<succ, idoms, finger, df>> /\ at' = at + 1 /\ pred' = 0
      /\ ~walking /\ ~walking' /\ at < N
      /\ ~IsJoin(at) \/ Ahead(at) = {}
  BY DEF NextBlock, idomVars
<1>2. at \in 0..N /\ N \in Nat /\ pred \in Nat
  BY SizeAssumption DEF FrontierInv
<1>3. at \in Blocks /\ at + 1 \in 0..N  BY <1>1, <1>2 DEF Blocks
<1>4. \A p \in Preds(succ, at) : p \in Int
  BY BlockIds DEF Preds
<1>5. ASSUME NEW a \in Blocks
      PROVE  RunThrough(a) <=> EndsAt(a, at)
  <2>1. CASE ~IsJoin(at)
    <3>1. ~EndsAt(a, at)  BY <1>3, <2>1, NoJoinEndsNothing
    <3> QED  BY <2>1, <3>1 DEF RunThrough
  <2>2. CASE IsJoin(at)
    <3>1. at # entry  BY <2>2, JoinIsInside
    <3>2. \A p \in Preds(succ, at) : p < pred
      BY <1>1, <1>2, <1>4, <2>2 DEF Ahead
    <3> QED  BY <1>1, <2>2, <3>1, <3>2 DEF RunThrough, EndsAt
  <2> QED  BY <2>1, <2>2
<1>6. \A a \in Blocks : ~RunThrough(a)'
  <2>1. \A b \in Blocks : ~(b < 0)  BY DEF Blocks
  <2>2. \A p \in Preds(succ, at)' : ~(p < 0)  BY <2>1 DEF Preds
  <2> QED  BY <1>1, <2>2 DEF RunThrough
<1>7. \A a, b \in Blocks : EndsAt(a, b)' <=> EndsAt(a, b)  BY <1>1 DEF EndsAt
<1>8. \A b \in Blocks : b < at + 1 <=> b < at \/ b = at
  BY <1>3, BlockIds
<1>9. \A a, b \in Blocks : b \in df[a] <=> b < at + 1 /\ EndsAt(a, b)
  BY <1>3, <1>5, <1>8 DEF FrontierInv
<1> QED  BY <1>1, <1>3, <1>6, <1>7, <1>9 DEF FrontierInv

(* When all blocks are done, the frontiers are complete.                   *)
FrontiersExact ==
    /\ df \in [Blocks -> SUBSET Blocks]
    /\ \A a, b \in Blocks : b \in df[a] <=> EndsAt(a, b)

LEMMA ReturnIsExact ==
    ASSUME FrontierInv, Return
    PROVE  FrontiersExact'
<1>1. at = N /\ UNCHANGED <<succ, idoms, df>>  BY DEF Return, idomVars
<1>2. \A b \in Blocks : b < N /\ b # N  BY SizeAssumption DEF Blocks
<1>3. \A a, b \in Blocks : EndsAt(a, b)' <=> EndsAt(a, b)  BY <1>1 DEF EndsAt
<1> QED  BY <1>1, <1>2, <1>3 DEF FrontierInv, FrontiersExact

(* They are the frontiers of the definition.                               *)
LEMMA FrontiersAreDefined ==
    ASSUME succ \in Graphs, succ \in CFG, AllReachable(succ), Exact, FrontiersExact,
           NEW a \in Blocks
    PROVE  df[a] = FrontierOf(succ, DominanceOf(succ), a)
<1>1. \A x \in Blocks : x \in DominanceOf(succ)[a] <=> a \in Chain(idoms, x)
  <2>1. \A x \in Blocks : x \in DominanceOf(succ)[a] <=> Dom(a, x)
    BY DEF DominanceOf, Dominated, Dom, AllReachable
  <2> QED  BY <2>1, ChainIsDom
<1>2. ASSUME NEW b \in Blocks
      PROVE  EndsAt(a, b) <=> /\ \E p \in Preds(succ, b) : a \in Chain(idoms, p)
                              /\ a = b \/ a \notin Chain(idoms, b)
  <2>1. CASE b = entry
    <3>1. Preds(succ, b) = {}  BY <2>1, EntryAssumption
    <3> QED  BY <3>1 DEF EndsAt
  <2>2. CASE b # entry
    <3>1. /\ Chain(idoms, b) = {b} \cup Chain(idoms, idoms[b])
          /\ b \notin Chain(idoms, idoms[b])
      BY <2>2, IdomIsStrict
    <3> QED  BY <2>2, <3>1 DEF EndsAt
  <2> QED  BY <2>1, <2>2
<1>3. \A b \in Blocks : Preds(succ, b) \subseteq Blocks  BY DEF Preds
<1>4. \A b \in Blocks : b \in FrontierOf(succ, DominanceOf(succ), a) <=> EndsAt(a, b)
  BY <1>1, <1>2, <1>3 DEF FrontierOf
<1>5. FrontierOf(succ, DominanceOf(succ), a) \subseteq Blocks  BY DEF FrontierOf
<1>6. df[a] \subseteq Blocks  BY DEF FrontiersExact
<1> QED  BY <1>4, <1>5, <1>6 DEF FrontiersExact

----------------------------------------------------------------------------
(* The invariant of the construction.                                      *)

ExactInv ==
    /\ Inv /\ succ \in Graphs
    /\ phase = "postorder" => HasParent
    /\ phase \in {"postorder", "idoms"} => Unbuilt
    /\ AllReachable(succ) =>
        /\ phase # "undefined"
        /\ phase = "idoms" => RoundsInv
        /\ phase \in {"numbers", "frontier", "done"} => Exact
        /\ phase = "numbers" => /\ NumbersInv
                                /\ df = [b \in Blocks |-> {}] /\ ~walking /\ finger \in Blocks
        /\ phase \in {"frontier", "done"} => NumbersExact
        /\ phase = "frontier" => FrontierInv
        /\ phase = "done" => FrontiersExact

LEMMA ExactInit ==
    ASSUME Init
    PROVE  ExactInv
<1>1. succ \in Graphs /\ phase = "postorder" /\ succ \in CFG
  BY GraphsAssumption DEF Init
<1>2. Inv  BY <1>1, DfsInit DEF Inv
<1>3. HasParent  BY ParentInit
<1>4. Unbuilt  BY DEF Init, Unbuilt
<1> QED  BY <1>1, <1>2, <1>3, <1>4 DEF ExactInv

(* What the later phases leave alone.                                      *)
LEMMA SameExact ==
    ASSUME UNCHANGED <<succ, po_idx, idoms>>
    PROVE  Exact' <=> Exact
BY DEF Exact, Dom

LEMMA SameNumbers ==
    ASSUME UNCHANGED <<succ, dfs_in, dfs_out>>
    PROVE  NumbersExact' <=> NumbersExact
BY DEF NumbersExact, dominates, Dom

LEMMA SameUnbuilt ==
    ASSUME UNCHANGED <<dfs_in, dfs_out, df>>
    PROVE  Unbuilt' <=> Unbuilt
BY DEF Unbuilt

(* The steps of dfs.                                                       *)
LEMMA PostorderExact ==
    ASSUME ExactInv, Explore \/ Finish
    PROVE  ExactInv'
<1>1. /\ phase = "postorder" /\ phase' = "postorder" /\ succ' = succ
      /\ UNCHANGED <<dfs_in, dfs_out, df>> /\ stack # <<>>
  BY DEF Explore, Finish, numberVars
<1>2. Inv'  BY StepKeeps DEF ExactInv, Next, Postorder
<1>3. DfsInv /\ HasParent /\ succ \in CFG  BY <1>1 DEF ExactInv, Inv
<1>4. Unbuilt'  BY <1>1, SameUnbuilt DEF ExactInv
<1>5. HasParent'
  <2>1. CASE Finish
    <3>1. post_order' = Append(post_order, Top.block) /\ stack' = Below
      BY <2>1 DEF Finish
    <3> QED  BY <1>1, <1>3, <3>1, FinishParent
  <2>2. CASE Explore
    <3> DEFINE s == succ[Top.block][Top.next]
    <3>1. /\ Top.next <= Len(succ[Top.block]) /\ post_order' = post_order
          /\ stack' = IF s \in visited THEN Resumed ELSE Entered(s)
      BY <2>2 DEF Explore
    <3>2. s \in Succs(succ, Top.block)
      <4>1. /\ stack \in Seq(Call) /\ Top.block \in Blocks /\ Top.next \in Nat
            /\ Len(stack) \in Open /\ Top.next = stack[Len(stack)].next
        BY <1>1, <1>3, TopOfStack DEF DfsInv, DfsShape, Open
      <4>2. Top.next >= 1  BY <1>3, <4>1 DEF DfsInv, DfsShape
      <4>3. succ[Top.block] \in Seq(Blocks)  BY <1>3, <4>1, SuccsAreBlocks
      <4>4. Top.next \in DOMAIN succ[Top.block]  BY <3>1, <4>1, <4>2, <4>3
      <4> QED  BY <4>4 DEF Succs
    <3> HIDE DEF s
    <3>3. CASE s \in visited
      BY <1>1, <1>3, <3>1, <3>3, ResumeParent
    <3>4. CASE s \notin visited
      BY <1>1, <1>3, <3>1, <3>2, <3>4, EnterParent
    <3> QED  BY <3>3, <3>4
  <2> QED  BY <2>1, <2>2
<1> QED  BY <1>1, <1>2, <1>4, <1>5 DEF ExactInv

(* The steps of compute_idoms.                                             *)
LEMMA IdomsExact ==
    ASSUME ExactInv, Idoms
    PROVE  ExactInv'
<1>1. CASE WriteOutside
  <2>1. /\ phase = "postorder" /\ stack = <<>> /\ Len(post_order) < N
        /\ succ' = succ /\ phase' = "undefined"
    BY <1>1 DEF WriteOutside
  <2>2. ~AllReachable(succ)
    <3>1. DfsInv /\ succ \in CFG  BY <2>1 DEF ExactInv, Inv
    <3>2. AllReachable(succ) => Len(post_order) = N  BY <2>1, <3>1, PostorderLength
    <3> QED  BY <2>1, <3>2, SizeAssumption
  <2>3. Inv'  BY <1>1, StepKeeps DEF ExactInv, Next, Idoms
  <2> QED  BY <2>1, <2>2, <2>3 DEF ExactInv
<1>2. CASE ~WriteOutside
  <2>1. /\ succ' = succ /\ phase' = "idoms" /\ phase \in {"postorder", "idoms"}
        /\ UNCHANGED <<dfs_in, dfs_out, df>>
    BY <1>2 DEF Idoms, NumberPostorder, SkipEntry, SeePred, InBlock, IntersectStep,
                IntersectDone, SetIdom, NextRound, numberVars
  <2>2. Inv'  BY StepKeeps DEF ExactInv, Next
  <2>3. Unbuilt'  BY <2>1, SameUnbuilt DEF ExactInv
  <2>4. ASSUME AllReachable(succ)
        PROVE  RoundsInv'
    <3>1. CASE NumberPostorder
      <4>1. phase = "postorder"  BY <3>1 DEF NumberPostorder
      <4> QED  BY <2>4, <3>1, <4>1, NumberRounds DEF ExactInv
    <3>2. CASE ~NumberPostorder
      <4>1. \/ SkipEntry \/ SeePred \/ IntersectStep \/ IntersectDone \/ SetIdom
            \/ NextRound
        BY <1>2, <3>2 DEF Idoms
      <4>2. phase = "idoms"
        BY <4>1 DEF SkipEntry, SeePred, InBlock, IntersectStep, IntersectDone, SetIdom,
                    NextRound
      <4>3. RoundsInv /\ succ \in CFG  BY <2>4, <4>2 DEF ExactInv, Inv
      <4> QED  BY <4>1, <4>3, SkipEntryKeeps, FingersKeepRounds, SetIdomKeepsRounds,
                  NextRoundKeeps
    <3> QED  BY <3>1, <3>2
  <2> QED  BY <2>1, <2>2, <2>3, <2>4 DEF ExactInv
<1> QED  BY <1>1, <1>2

(* The steps of compute_dfs_numbers.                                       *)
LEMMA NumbersKeepExact ==
    ASSUME ExactInv, Numbers
    PROVE  ExactInv'
<1>1. Inv' /\ succ' = succ /\ phase' = "numbers"
  <2>1. Inv'  BY StepKeeps DEF ExactInv, Next
  <2> QED  BY <2>1 DEF ExactInv, Numbers, Converge, Descend, Ascend
<1>2. UNCHANGED <<po_idx, idoms, walking, finger, df>>
  BY DEF Numbers, Converge, Descend, Ascend, orderVars, idomVars, cursorVars
<1>3. ASSUME AllReachable(succ)
      PROVE  /\ Exact' /\ NumbersInv'
             /\ df = [b \in Blocks |-> {}] /\ ~walking /\ finger \in Blocks
  <2>1. CASE Converge
    <3>1. phase = "idoms" /\ at > Len(post_order)  BY <2>1 DEF Converge
    <3>2. RoundsInv /\ Unbuilt  BY <1>3, <3>1 DEF ExactInv
    <3>3. Exact'  BY <2>1, <3>2, ConvergeExact
    <3>4. Exact  BY <1>1, <1>2, <3>3, SameExact
    <3>5. NumbersInv'  BY <2>1, <3>2, <3>4, ConvergeNumbers
    <3>6. ~walking /\ finger \in Blocks
      <4>1. at \in Nat /\ Len(post_order) \in Nat /\ finger \in Blocks
        BY <3>2 DEF RoundsInv, IdomInv, IdomShape
      <4> QED  BY <3>1, <3>2, <4>1 DEF RoundsInv, IdomInv, FingersAbove
    <3> QED  BY <3>2, <3>3, <3>5, <3>6 DEF Unbuilt
  <2>2. CASE Descend \/ Ascend
    <3>1. phase = "numbers"  BY <2>2 DEF Descend, Ascend
    <3>2. /\ Exact /\ NumbersInv
          /\ df = [b \in Blocks |-> {}] /\ ~walking /\ finger \in Blocks
      BY <1>3, <3>1 DEF ExactInv
    <3>3. NumbersInv'  BY <2>2, <3>2, DescendNumbers, AscendNumbers
    <3>4. Exact'  BY <1>1, <1>2, <3>2, SameExact
    <3> QED  BY <3>2, <3>3, <3>4
  <2> QED  BY <2>1, <2>2 DEF Numbers
<1> QED  BY <1>1, <1>2, <1>3 DEF ExactInv

(* The steps of compute_dominance_frontier.                                *)
LEMMA FrontiersKeepExact ==
    ASSUME ExactInv, Frontiers
    PROVE  ExactInv'
<1>1. Inv' /\ succ' = succ /\ phase \in {"numbers", "frontier"}
      /\ succ \in CFG /\ succ \in Graphs
  <2>1. Inv' /\ succ \in CFG /\ succ \in Graphs
    BY StepKeeps DEF ExactInv, Next, Inv
  <2> QED  BY <2>1 DEF Frontiers, StartFrontier, StartRunner, Run, NextBlock, Return
<1>2. UNCHANGED <<po_idx, idoms, dfs_in, dfs_out>>
  BY DEF Frontiers, StartFrontier, StartRunner, Run, NextBlock, Return, orderVars,
         idomVars, numberVars
<1>3. phase' \in {"frontier", "done", "undefined"}
  BY DEF Frontiers, StartFrontier, StartRunner, Run, NextBlock, Return
<1>4. ASSUME AllReachable(succ)
      PROVE  /\ Exact' /\ NumbersExact' /\ phase' # "undefined"
             /\ phase' = "frontier" => FrontierInv'
             /\ phase' = "done" => FrontiersExact'
  <2>1. Exact  BY <1>1, <1>4 DEF ExactInv
  <2>2. Exact'  BY <1>1, <1>2, <2>1, SameExact
  <2>3. CASE StartFrontier
    <3>1. phase = "numbers" /\ stack = <<>> /\ phase' = "frontier"
      BY <2>3 DEF StartFrontier
    <3>2. /\ NumbersInv /\ df = [b \in Blocks |-> {}] /\ ~walking /\ finger \in Blocks
      BY <1>4, <3>1 DEF ExactInv
    <3>3. NumbersExact  BY <1>1, <1>4, <2>1, <3>1, <3>2, EmptyStackIsExact
    <3>4. FrontierInv'  BY <2>3, <3>2, StartFrontierKeeps
    <3> QED  BY <1>1, <1>2, <2>2, <3>1, <3>3, <3>4, SameNumbers
  <2>4. CASE StartRunner \/ Run \/ NextBlock \/ Return
    <3>1. phase = "frontier"  BY <2>4 DEF StartRunner, Run, NextBlock, Return
    <3>2. NumbersExact /\ FrontierInv  BY <1>4, <3>1 DEF ExactInv
    <3>3. NumbersExact'  BY <1>1, <1>2, <3>2, SameNumbers
    <3>4. CASE StartRunner \/ Run \/ NextBlock
      <4>1. FrontierInv'
        BY <1>1, <1>4, <2>1, <3>2, <3>4, StartRunnerKeeps, RunKeeps, NextBlockKeeps
      <4>2. phase' = "frontier"
        <5>1. CASE Run  BY <1>1, <2>1, <3>1, <3>2, <5>1, RunKeeps
        <5>2. CASE StartRunner \/ NextBlock  BY <3>1, <5>2 DEF StartRunner, NextBlock
        <5> QED  BY <3>4, <5>1, <5>2
      <4> QED  BY <2>2, <3>3, <4>1, <4>2
    <3>5. CASE Return
      <4>1. phase' = "done"  BY <3>5 DEF Return
      <4> QED  BY <2>2, <3>2, <3>3, <3>5, <4>1, ReturnIsExact
    <3> QED  BY <2>4, <3>4, <3>5
  <2> QED  BY <2>3, <2>4 DEF Frontiers
<1> QED  BY <1>1, <1>3, <1>4 DEF ExactInv

(* A step that changes nothing.                                            *)
LEMMA StutterExact ==
    ASSUME ExactInv, UNCHANGED vars
    PROVE  ExactInv'
<1>1. /\ UNCHANGED <<succ, phase, stack, visited, post_order, po_idx, idoms, changed>>
      /\ UNCHANGED <<new_idom, at, pred, walking, finger, dfs_in, dfs_out, timer, df>>
  BY DEF vars, orderVars, idomVars, cursorVars, numberVars
<1>2. Inv'  BY StepKeeps DEF ExactInv
<1>3. Open' = Open /\ Finished' = Finished /\ Current' = Current
  BY <1>1 DEF Open, Finished, Current
<1>4. HasParent' <=> HasParent  BY <1>1, <1>3 DEF HasParent
<1>5. Unbuilt' <=> Unbuilt  BY <1>1, SameUnbuilt
<1>6. ASSUME phase = "idoms", AllReachable(succ)
      PROVE  RoundsInv'
  <2>1. IdomInv'  BY <1>1, <1>2, <1>6 DEF Inv
  <2>2. RoundsInv  BY <1>6 DEF ExactInv
  <2>3. TreeRounds'  BY <1>1, <2>2, SameTree DEF RoundsInv, TreeRounds
  <2>4. RoundInv'  BY <1>1, <2>2, SameRound DEF RoundsInv
  <2>5. FingersMeet'
    <3>1. Seen' = Seen  BY <1>1, <1>3 DEF Seen, Known
    <3> QED  BY <1>1, <1>3, <2>2, <3>1 DEF RoundsInv, FingersMeet
  <2> QED  BY <2>1, <2>3, <2>4, <2>5 DEF RoundsInv, TreeRounds
<1>7. Exact' <=> Exact  BY <1>1, SameExact
<1>8. NumbersExact' <=> NumbersExact  BY <1>1, SameNumbers
<1>9. NumbersInv' <=> NumbersInv
  <2>1. NumberShape' <=> NumberShape  BY <1>1, <1>3 DEF NumberShape
  <2>2. StackIsBranch' <=> StackIsBranch
    BY <1>1, <1>3 DEF StackIsBranch, Begun, Left
  <2>3. ChildrenPassed' <=> ChildrenPassed
    BY <1>1, <1>3 DEF ChildrenPassed, Begun, Children, ChildrenFrom
  <2>4. Intervals' <=> Intervals  BY <1>1 DEF Intervals, Begun, Left
  <2> QED  BY <2>1, <2>2, <2>3, <2>4 DEF NumbersInv
<1>10. FrontierInv' <=> FrontierInv
  <2>1. /\ \A a, b \in Blocks : EndsAt(a, b)' <=> EndsAt(a, b)
        /\ \A a \in Blocks : RunThrough(a)' <=> RunThrough(a)
        /\ IsJoin(at)' <=> IsJoin(at)
    BY <1>1 DEF EndsAt, RunThrough, IsJoin
  <2> QED  BY <1>1, <2>1 DEF FrontierInv
<1>11. FrontiersExact' <=> FrontiersExact
  <2>1. \A a, b \in Blocks : EndsAt(a, b)' <=> EndsAt(a, b)  BY <1>1 DEF EndsAt
  <2> QED  BY <1>1, <2>1 DEF FrontiersExact
<1> QED
  BY <1>1, <1>2, <1>4, <1>5, <1>6, <1>7, <1>8, <1>9, <1>10, <1>11 DEF ExactInv

LEMMA ExactStep ==
    ASSUME ExactInv, [Next]_vars
    PROVE  ExactInv'
BY PostorderExact, IdomsExact, NumbersKeepExact, FrontiersKeepExact, StutterExact
   DEF Next, Postorder, Stopped

LEMMA ExactHolds == Spec => []ExactInv
<1>1. Init => ExactInv  BY ExactInit
<1>2. ExactInv /\ [Next]_vars => ExactInv'  BY ExactStep
<1> QED  BY <1>1, <1>2, PTL DEF Spec

----------------------------------------------------------------------------
(* What the construction returns.                                          *)

(* The rounds of compute_idoms end with the immediate dominators.          *)
THEOREM TreeExact == Spec => []TreeIsExact
<1>1. ExactInv => TreeIsExact
  <2> SUFFICES ASSUME ExactInv, phase = "numbers", AllReachable(succ),
                      NEW b \in Blocks \ {entry}
               PROVE  ImmediatelyDominates(DominanceOf(succ), idoms[b], b)
    BY DEF TreeIsExact
  <2>1. Exact /\ succ \in CFG  BY DEF ExactInv, Inv
  <2> QED  BY <2>1, ExactIsTree
<1> QED  BY <1>1, ExactHolds, PTL

(* dominates decides dominance, by two comparisons of numbers.             *)
THEOREM NumbersAnswer == Spec => []NumbersAreExact
<1>1. ExactInv => NumbersAreExact
  <2> SUFFICES ASSUME ExactInv, phase = "done", AllReachable(succ),
                      NEW a \in Blocks, NEW b \in Blocks
               PROVE  dominates(a, b) <=> b \in DominanceOf(succ)[a]
    BY DEF NumbersAreExact
  <2>1. b \in DominanceOf(succ)[a] <=> Dom(a, b)
    BY DEF DominanceOf, Dominated, Dom, AllReachable
  <2>2. NumbersExact  BY DEF ExactInv
  <2> QED  BY <2>1, <2>2 DEF NumbersExact
<1> QED  BY <1>1, ExactHolds, PTL

(* The runners fill in the frontiers of the definition.                    *)
THEOREM FrontierExact == Spec => []FrontierIsExact
<1>1. ExactInv => FrontierIsExact
  <2> SUFFICES ASSUME ExactInv, phase = "done", AllReachable(succ), NEW a \in Blocks
               PROVE  df[a] = FrontierOf(succ, DominanceOf(succ), a)
    BY DEF FrontierIsExact
  <2>1. Exact /\ FrontiersExact /\ succ \in CFG /\ succ \in Graphs
    BY DEF ExactInv, Inv
  <2> QED  BY <2>1, FrontiersAreDefined
<1> QED  BY <1>1, ExactHolds, PTL

(* Nothing is read or written outside the tables as long as all blocks can *)
(* be reached.                                                             *)
THEOREM NeverUndefined == Spec => [](AllReachable(succ) => phase # "undefined")
<1>1. ExactInv => (AllReachable(succ) => phase # "undefined")  BY DEF ExactInv
<1> QED  BY <1>1, ExactHolds, PTL

(* An idom that has been found is only ever replaced by one further up,    *)
(* which can happen only so often.                                         *)
THEOREM IdomsOnlyRise == Spec => IdomsRise
<1> DEFINE Rise == \A b \in Blocks :
                        /\ idoms[b] # kInvalidBlockId /\ idoms'[b] # idoms[b]
                        /\ AllReachable(succ)
                        => po_idx[idoms[b]] < po_idx[idoms'[b]]
<1>1. ASSUME ExactInv, [Next]_vars
      PROVE  [Rise]_vars
  <2> SUFFICES ASSUME NEW b \in Blocks, idoms[b] # kInvalidBlockId,
                      idoms'[b] # idoms[b], AllReachable(succ)
               PROVE  po_idx[idoms[b]] < po_idx[idoms'[b]]
    OBVIOUS
  <2>1. CASE SetIdom
    <3>1. phase = "idoms"  BY <2>1 DEF SetIdom, InBlock
    <3>2. RoundsInv /\ succ \in CFG  BY <1>1, <3>1 DEF ExactInv, Inv
    <3>3. idoms[Current] # new_idom  BY <2>1 DEF SetIdom
    <3> QED  BY <2>1, <3>2, <3>3, SetIdomRaises
  <2>2. CASE NumberPostorder
    <3>1. phase = "postorder" /\ idoms' = [idoms EXCEPT ![entry] = entry]
      BY <2>2 DEF NumberPostorder
    <3>2. idoms = [x \in Blocks |-> kInvalidBlockId]
      BY <1>1, <3>1 DEF ExactInv, Inv, Untouched
    <3> QED  BY <3>2
  <2>3. CASE ~SetIdom /\ ~NumberPostorder
    <3>1. CASE Postorder
      BY <3>1 DEF Postorder, Explore, Finish, idomVars
    <3>2. CASE Idoms
      BY <2>3, <3>2 DEF Idoms, WriteOutside, SkipEntry, SeePred, IntersectStep,
                        IntersectDone, NextRound, idomVars
    <3>3. CASE Numbers \/ Frontiers
      BY <3>3 DEF Numbers, Frontiers, Converge, Descend, Ascend, StartFrontier,
                  StartRunner, Run, NextBlock, Return, idomVars
    <3>4. CASE Stopped \/ UNCHANGED vars
      BY <3>4 DEF Stopped, vars, idomVars
    <3> QED  BY <1>1, <3>1, <3>2, <3>3, <3>4 DEF Next
  <2> QED  BY <2>1, <2>2, <2>3
<1>2. Spec => [][Rise]_vars  BY <1>1, ExactHolds, PTL DEF Spec
<1> QED  BY <1>2 DEF IdomsRise
============================================================================
