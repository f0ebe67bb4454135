------------------------- MODULE StructCycles_proofs -------------------------
(***************************************************************************)
(* For any structs and any order of the search: what it reports is a cycle, *)
(* and when it reports nothing there is none.  The stack is a path whose    *)
(* frames have followed what is not in rest any more; a struct whose call   *)
(* has returned is in no endless set, for the member of the set that it     *)
(* contains had returned before or was found on the stack.                  *)
(***************************************************************************)
EXTENDS StructCycles, SequenceTheorems, TLAPS

Frame == [struct : Names, rest : SUBSET Names]

Typed ==
    /\ fields \in Layouts
    /\ visited \subseteq Names
    /\ in_stack \subseteq visited
    /\ stack \in Seq(Frame)
    /\ \A c \in cycles : c \in Seq(Names)

(* Each frame's struct contains the next one's.                             *)
Path == \A i \in 1..(Len(stack) - 1) : Contains(stack[i].struct, stack[i + 1].struct)
Rests == \A i \in 1..Len(stack) : stack[i].rest \subseteq collect_struct_deps(stack[i].struct)
OnStack == in_stack = {stack[i].struct : i \in 1..Len(stack)}
Once == \A i, j \in 1..Len(stack) : stack[i].struct = stack[j].struct => i = j

(* What a frame has followed has returned, but for the frame above it.      *)
Behind ==
    cycles = {} =>
        \A i \in 1..Len(stack) : \A t \in collect_struct_deps(stack[i].struct) \ stack[i].rest :
            \/ t \in visited \ in_stack
            \/ i < Len(stack) /\ t = stack[i + 1].struct

(* What has returned is in no endless set.                                  *)
Returned ==
    cycles = {} =>
        \A S \in SUBSET Names : Endless(S) => S \cap (visited \ in_stack) = {}

IInv == Typed /\ Path /\ Rests /\ OnStack /\ Once /\ Behind /\ Returned /\ CyclesAreReal

(* Only names are followed.                                                 *)
LEMMA DepsAreNames ==
    ASSUME fields \in Layouts, NEW s
    PROVE  collect_struct_deps(s) \subseteq Names
<1>. SUFFICES ASSUME s \in DOMAIN fields
              PROVE  collect_struct_deps(s) \subseteq Names
    BY DEF collect_struct_deps
<1>1. PICK D \in SUBSET Names : fields \in [D -> SUBSET Field]
    BY DEF Layouts
<1>2. fields[s] \subseteq Field
    BY <1>1
<1>. QED BY <1>2 DEF collect_struct_deps, Field

LEMMA Initially == Init => IInv
BY DEF Init, IInv, Typed, Path, Rests, OnStack, Once, Behind, Returned, CyclesAreReal

(* fields is never assigned: what contains what stays.                      *)
LEMMA DepsStay ==
    ASSUME fields' = fields
    PROVE  /\ \A s : collect_struct_deps(s)' = collect_struct_deps(s)
           /\ \A s, t : Contains(s, t)' = Contains(s, t)
           /\ \A S : Endless(S)' = Endless(S)
           /\ \A c : IsCycle(c)' = IsCycle(c)
BY DEF collect_struct_deps, Contains, Endless, IsCycle

(* Setting a followed field aside changes the rest of the last frame only.  *)
LEMMA FollowedFrames ==
    ASSUME stack \in Seq(Frame), stack # <<>>, NEW next
    PROVE  /\ Followed(next) \in Seq(Frame)
           /\ Len(Followed(next)) = Len(stack)
           /\ \A i \in 1..Len(stack) : Followed(next)[i].struct = stack[i].struct
           /\ \A i \in 1..(Len(stack) - 1) : Followed(next)[i] = stack[i]
           /\ Followed(next)[Len(stack)].rest = stack[Len(stack)].rest \ {next}
<1>. DEFINE n == Len(stack)
            f == [struct |-> top.struct, rest |-> top.rest \ {next}]
<1>1. n \in 1..n /\ stack[n] \in Frame
    OBVIOUS
<1>2. f \in Frame
    BY <1>1 DEF top, Frame
<1>3. Followed(next) = [stack EXCEPT ![n] = f]
    BY DEF Followed
<1>. QED BY <1>1, <1>2, <1>3 DEF top

LEMMA CheckSafe ==
    ASSUME IInv, NEW s \in Names, Check(s)
    PROVE  IInv'
<1>. USE DEF Check, Call
<1>1. fields \in Layouts /\ collect_struct_deps(s) \subseteq Names
    BY DepsAreNames DEF IInv, Typed
<1>2. fields' = fields
    OBVIOUS
<1>3. stack' = <<[struct |-> s, rest |-> collect_struct_deps(s)]>>
    OBVIOUS
<1>4. in_stack = {}
    BY DEF IInv, OnStack
<1>5. Typed'
    BY <1>1, <1>3 DEF IInv, Typed, Frame
<1>6. (Path /\ Rests /\ OnStack /\ Once /\ Behind)'
    BY <1>2, <1>3, <1>4, DepsStay DEF Path, Rests, OnStack, Once, Behind
<1>7. Returned'
    <2>1. visited' \ in_stack' = visited \ in_stack
        BY <1>4
    <2>. QED BY <1>2, <2>1, DepsStay DEF IInv, Returned
<1>8. CyclesAreReal'
    BY <1>2, DepsStay DEF IInv, CyclesAreReal
<1>. QED BY <1>5, <1>6, <1>7, <1>8 DEF IInv

LEMMA DescendSafe ==
    ASSUME IInv, NEW next \in Names, Descend(next)
    PROVE  IInv'
<1>. DEFINE n == Len(stack)
            base == Followed(next)
            f == [struct |-> next, rest |-> collect_struct_deps(next)]
<1>1. /\ stack # <<>> /\ next \in stack[n].rest /\ next \notin visited
      /\ visited' = visited \cup {next} /\ stack' = Append(base, f)
      /\ in_stack' = in_stack \cup {next} /\ fields' = fields /\ cycles' = cycles
    BY DEF Descend, top
<1>2. /\ base \in Seq(Frame) /\ Len(base) = n
      /\ \A i \in 1..n : base[i].struct = stack[i].struct
      /\ \A i \in 1..(n - 1) : base[i] = stack[i]
      /\ base[n].rest = stack[n].rest \ {next}
    BY <1>1, FollowedFrames DEF IInv, Typed
<1>3. stack \in Seq(Frame) /\ n \in Nat \ {0}
    BY <1>1 DEF IInv, Typed
<1>4. f \in Frame
    BY DepsAreNames DEF IInv, Typed, Frame
<1>. HIDE DEF base, f
<1>5. /\ stack' \in Seq(Frame) /\ Len(stack') = n + 1
      /\ \A i \in 1..n : stack'[i] = base[i]
      /\ stack'[n + 1] = f
    BY <1>1, <1>2, <1>3, <1>4
<1>6. /\ \A i \in 1..n : stack'[i].struct = stack[i].struct
      /\ stack'[n + 1].struct = next
      /\ stack'[n + 1].rest = collect_struct_deps(next)
      /\ \A i \in 1..(n - 1) : stack'[i].rest = stack[i].rest
      /\ stack'[n].rest = stack[n].rest \ {next}
    <2>1. f.struct = next /\ f.rest = collect_struct_deps(next)
        BY DEF f
    <2>2. /\ \A i \in 1..n : stack'[i].struct = stack[i].struct
          /\ \A i \in 1..(n - 1) : i \in 1..n
          /\ n \in 1..n
        BY <1>2, <1>3, <1>5
    <2>3. \A i \in 1..(n - 1) : stack'[i].rest = stack[i].rest
        BY <1>2, <1>5, <2>2
    <2>4. stack'[n].rest = stack[n].rest \ {next}
        BY <1>2, <1>5, <2>2
    <2>. QED BY <1>5, <2>1, <2>2, <2>3, <2>4
<1>7. Typed'
    BY <1>1, <1>5 DEF IInv, Typed
<1>8. Contains(stack[n].struct, next)
    BY <1>1, <1>3 DEF IInv, Rests, Contains
<1>9. Path'
    <2>. SUFFICES ASSUME NEW i \in 1..n
                  PROVE  Contains(stack'[i].struct, stack'[i + 1].struct)
        BY <1>1, <1>5, DepsStay DEF Path
    <2>1. CASE i = n
        BY <2>1, <1>3, <1>6, <1>8
    <2>2. CASE i < n
        <3>1. i \in 1..(n - 1) /\ i + 1 \in 1..n /\ i \in 1..n
            BY <2>2, <1>3
        <3>2. Contains(stack[i].struct, stack[i + 1].struct)
            BY <3>1 DEF IInv, Path
        <3>. QED BY <3>1, <3>2, <1>6
    <2>. QED BY <2>1, <2>2, <1>3
<1>10. Rests'
    <2>. SUFFICES ASSUME NEW i \in 1..(n + 1)
                  PROVE  stack'[i].rest \subseteq collect_struct_deps(stack'[i].struct)
        BY <1>1, <1>5, DepsStay DEF Rests
    <2>1. CASE i = n + 1
        BY <2>1, <1>6
    <2>2. CASE i \in 1..n
        <3>1. stack[i].rest \subseteq collect_struct_deps(stack[i].struct)
            BY <2>2 DEF IInv, Rests
        <3>2. stack'[i].rest \subseteq stack[i].rest
            BY <2>2, <1>3, <1>6
        <3>. QED BY <2>2, <3>1, <3>2, <1>6
    <2>. QED BY <2>1, <2>2, <1>3
<1>11. next \notin in_stack
    BY <1>1 DEF IInv, Typed
<1>12. in_stack = {stack[i].struct : i \in 1..n}
    BY DEF IInv, OnStack
<1>13. OnStack'
    BY <1>1, <1>3, <1>5, <1>6, <1>12 DEF OnStack
<1>14. Once'
    <2>1. \A i \in 1..n : stack[i].struct # next
        BY <1>11, <1>12
    <2>2. \A i, j \in 1..n : stack[i].struct = stack[j].struct => i = j
        BY DEF IInv, Once
    <2>. QED BY <2>1, <2>2, <1>3, <1>5, <1>6 DEF Once
<1>15. Behind'
    <2>. SUFFICES ASSUME cycles = {}, NEW i \in 1..(n + 1),
                         NEW t \in collect_struct_deps(stack'[i].struct) \ stack'[i].rest
                  PROVE  \/ t \in visited' \ in_stack'
                         \/ i < n + 1 /\ t = stack'[i + 1].struct
        BY <1>1, <1>5, DepsStay DEF Behind
    <2>1. CASE i = n + 1
        BY <2>1, <1>6
    <2>2. CASE i \in 1..n /\ t = next
        <3>1. CASE i = n
            BY <3>1, <2>2, <1>3, <1>6
        <3>2. CASE i < n
            <4>1. i \in 1..(n - 1) /\ i + 1 \in 1..n
                BY <3>2, <1>3
            <4>2. t \in collect_struct_deps(stack[i].struct) \ stack[i].rest
                BY <4>1, <2>2, <1>6
            <4>3. t \in visited \ in_stack \/ t = stack[i + 1].struct
                BY <4>1, <4>2, <2>2 DEF IInv, Behind
            <4>. QED BY <4>1, <4>3, <2>2, <1>1, <1>12, <1>11
        <3>. QED BY <3>1, <3>2, <2>2, <1>3
    <2>3. CASE i \in 1..n /\ t # next
        <3>1. t \in collect_struct_deps(stack[i].struct) \ stack[i].rest
            BY <2>3, <1>3, <1>6
        <3>2. \/ t \in visited \ in_stack
              \/ i < n /\ t = stack[i + 1].struct
            BY <3>1, <2>3 DEF IInv, Behind
        <3>3. i < n => i + 1 \in 1..n
            BY <2>3, <1>3
        <3>4. CASE t \in visited \ in_stack
            BY <3>4, <2>3, <1>1
        <3>5. CASE i < n /\ t = stack[i + 1].struct
            <4>1. stack'[i + 1].struct = t
                BY <3>3, <3>5, <1>6
            <4>. QED BY <4>1, <3>5, <1>3
        <3>. QED BY <3>2, <3>4, <3>5
    <2>. QED BY <2>1, <2>2, <2>3, <1>3
<1>16. Returned'
    <2>1. visited' \ in_stack' = visited \ in_stack
        BY <1>1
    <2>. QED BY <1>1, <2>1, DepsStay DEF IInv, Returned
<1>17. CyclesAreReal'
    BY <1>1, DepsStay DEF IInv, CyclesAreReal
<1>. QED BY <1>7, <1>9, <1>10, <1>13, <1>14, <1>15, <1>16, <1>17 DEF IInv

(* A step that only sets a field aside, which is on the stack or behind it. *)
LEMMA FollowSafe ==
    ASSUME IInv, NEW next \in Names, stack # <<>>, next \in top.rest,
           stack' = Followed(next),
           UNCHANGED <<fields, visited, in_stack>>
    PROVE  /\ (Path /\ Rests /\ OnStack /\ Once)'
           /\ stack' \in Seq(Frame)
           /\ cycles' = cycles /\ next \in visited \ in_stack => Behind'
<1>. DEFINE n == Len(stack)
<1>1. /\ stack' \in Seq(Frame) /\ Len(stack') = n
      /\ \A i \in 1..n : stack'[i].struct = stack[i].struct
      /\ \A i \in 1..(n - 1) : stack'[i] = stack[i]
      /\ stack'[n].rest = stack[n].rest \ {next}
    BY FollowedFrames DEF IInv, Typed
<1>2. stack \in Seq(Frame) /\ n \in Nat \ {0}
    BY DEF IInv, Typed
<1>3. Path'
    <2>. SUFFICES ASSUME NEW i \in 1..(n - 1)
                  PROVE  Contains(stack'[i].struct, stack'[i + 1].struct)
        <3>1. fields' = fields /\ Len(stack') - 1 = n - 1
            BY <1>1
        <3>2. \A t, u : Contains(t, u)' = Contains(t, u)
            BY <3>1, DepsStay
        <3>. QED BY <3>1, <3>2 DEF Path
    <2>1. i \in 1..n /\ i + 1 \in 1..n
        BY <1>2
    <2>. QED BY <2>1, <1>1 DEF IInv, Path
<1>4. Rests'
    <2>. SUFFICES ASSUME NEW i \in 1..n
                  PROVE  stack'[i].rest \subseteq collect_struct_deps(stack'[i].struct)
        BY <1>1, DepsStay DEF Rests
    <2>1. stack'[i].rest \subseteq stack[i].rest
        BY <1>1, <1>2
    <2>. QED BY <2>1, <1>1 DEF IInv, Rests
<1>5. OnStack'
    BY <1>1 DEF IInv, OnStack
<1>6. Once'
    BY <1>1 DEF IInv, Once
<1>7. ASSUME cycles' = cycles, next \in visited \ in_stack
      PROVE  Behind'
    <2>. SUFFICES ASSUME cycles = {}, NEW i \in 1..n,
                         NEW t \in collect_struct_deps(stack'[i].struct) \ stack'[i].rest
                  PROVE  \/ t \in visited \ in_stack
                         \/ i < n /\ t = stack'[i + 1].struct
        BY <1>1, <1>7, DepsStay DEF Behind
    <2>1. CASE t = next
        BY <2>1, <1>7
    <2>2. CASE t # next
        <3>1. t \in collect_struct_deps(stack[i].struct) \ stack[i].rest
            BY <2>2, <1>1, <1>2
        <3>2. \/ t \in visited \ in_stack
              \/ i < n /\ t = stack[i + 1].struct
            BY <3>1 DEF IInv, Behind
        <3>3. i < n => i + 1 \in 1..n
            BY <1>2
        <3>. QED BY <3>2, <3>3, <1>1
    <2>. QED BY <2>1, <2>2
<1>. QED BY <1>1, <1>3, <1>4, <1>5, <1>6, <1>7

LEMMA PassSafe ==
    ASSUME IInv, NEW next \in Names, Pass(next)
    PROVE  IInv'
<1>. USE DEF Pass
<1>1. (Path /\ Rests /\ OnStack /\ Once /\ Behind)' /\ stack' \in Seq(Frame)
    BY FollowSafe
<1>2. Typed'
    BY <1>1 DEF IInv, Typed
<1>3. Returned'
    BY DepsStay DEF IInv, Returned
<1>4. CyclesAreReal'
    BY DepsStay DEF IInv, CyclesAreReal
<1>. QED BY <1>1, <1>2, <1>3, <1>4 DEF IInv

(* The part of the stack above a struct that the top contains is a cycle.   *)
LEMMA StackIsCycle ==
    ASSUME IInv, NEW next \in Names, stack # <<>>, next \in top.rest,
           \E i \in DOMAIN stack : stack[i].struct = next
    PROVE  CycleFrom(next) \in Seq(Names) /\ IsCycle(CycleFrom(next))
<1>. DEFINE n == Len(stack)
            start == CHOOSE i \in DOMAIN stack : stack[i].struct = next
            c == CycleFrom(next)
<1>1. stack \in Seq(Frame) /\ n \in Nat \ {0} /\ DOMAIN stack = 1..n
    BY DEF IInv, Typed
<1>2. start \in 1..n /\ stack[start].struct = next
    BY <1>1
<1>3. c = [i \in 1..(n - start + 1) |-> stack[start + i - 1].struct]
    BY DEF CycleFrom
<1>. HIDE DEF c, start
<1>4. \A i \in 1..(n - start + 1) : start + i - 1 \in 1..n
    BY <1>1, <1>2
<1>5. c \in Seq(Names) /\ Len(c) = n - start + 1
    <2>. DEFINE m == n - start + 1
    <2>1. m \in Nat
        BY <1>1, <1>2
    <2>2. \A j \in 1..n : stack[j].struct \in Names
        <3>. SUFFICES ASSUME NEW j \in 1..n PROVE stack[j].struct \in Names
            OBVIOUS
        <3>1. stack[j] \in Frame
            BY <1>1
        <3>. QED BY <3>1 DEF Frame
    <2>3. c \in [1..m -> Names]
        <3>1. \A i \in 1..m : stack[start + i - 1].struct \in Names
            BY <2>2, <1>4
        <3>. HIDE DEF m
        <3>2. c = [i \in 1..m |-> stack[start + i - 1].struct]
            BY <1>3 DEF m
        <3>. QED BY <3>1, <3>2
    <2>. HIDE DEF m
    <2>4. c \in Seq(Names) /\ Len(c) = m
        BY <2>1, <2>3
    <2>. QED BY <2>4 DEF m
<1>6. ASSUME NEW i \in 1..(Len(c) - 1)
      PROVE  Contains(c[i], c[i + 1])
    <2>. DEFINE j == start + i - 1
    <2>1. j \in 1..(n - 1) /\ i \in 1..(n - start + 1) /\ i + 1 \in 1..(n - start + 1)
          /\ start + (i + 1) - 1 = j + 1
        BY <1>1, <1>2, <1>5
    <2>2. c[i] = stack[j].struct /\ c[i + 1] = stack[j + 1].struct
        BY <2>1, <1>3
    <2>. QED BY <2>1, <2>2 DEF IInv, Path
<1>7. Contains(c[Len(c)], c[1])
    <2>1. Len(c) \in 1..(n - start + 1) /\ 1 \in 1..(n - start + 1)
          /\ start + Len(c) - 1 = n /\ start + 1 - 1 = start
        BY <1>1, <1>2, <1>5
    <2>2. c[Len(c)] = stack[n].struct /\ c[1] = next
        BY <2>1, <1>2, <1>3
    <2>3. next \in stack[n].rest
        BY DEF top
    <2>. QED BY <2>2, <2>3, <1>1 DEF IInv, Rests, Contains
<1>8. c # <<>>
    BY <1>1, <1>2, <1>5
<1>. QED BY <1>5, <1>6, <1>7, <1>8 DEF IsCycle, c

LEMMA FindCycleSafe ==
    ASSUME IInv, NEW next \in Names, FindCycle(next)
    PROVE  IInv'
<1>. USE DEF FindCycle
<1>1. (Path /\ Rests /\ OnStack /\ Once)' /\ stack' \in Seq(Frame)
    BY FollowSafe
<1>2. \E i \in DOMAIN stack : stack[i].struct = next
    BY DEF IInv, OnStack, Typed
<1>3. cycles' = cycles \cup {CycleFrom(next)}
    BY <1>2
<1>4. CycleFrom(next) \in Seq(Names) /\ IsCycle(CycleFrom(next))
    BY <1>2, StackIsCycle
<1>5. Typed'
    BY <1>1, <1>3, <1>4 DEF IInv, Typed
<1>6. Behind' /\ Returned'
    BY <1>3 DEF Behind, Returned
<1>7. CyclesAreReal'
    BY <1>3, <1>4, DepsStay DEF IInv, CyclesAreReal
<1>. QED BY <1>1, <1>5, <1>6, <1>7 DEF IInv

LEMMA FrontOfSequence ==
    ASSUME NEW T, NEW s \in Seq(T), s # <<>>
    PROVE  /\ SubSeq(s, 1, Len(s) - 1) \in Seq(T)
           /\ Len(SubSeq(s, 1, Len(s) - 1)) = Len(s) - 1
           /\ \A i \in 1..(Len(s) - 1) : SubSeq(s, 1, Len(s) - 1)[i] = s[i]
<1>. DEFINE n == Len(s) - 1
<1>1. n \in Nat /\ n \in Int /\ 1 \in Int
    OBVIOUS
<1>2. \A i \in 1..n : s[i] \in T
    OBVIOUS
<1>. HIDE DEF n
<1>3. /\ SubSeq(s, 1, n) \in Seq(T)
      /\ Len(SubSeq(s, 1, n)) = IF 1 <= n THEN n - 1 + 1 ELSE 0
      /\ \A i \in 1..(n - 1 + 1) : SubSeq(s, 1, n)[i] = s[1 + i - 1]
    BY ONLY <1>1, <1>2, SubSeqProperties
<1>4. Len(SubSeq(s, 1, n)) = n
    BY ONLY <1>1, <1>3
<1>5. \A i \in 1..n : SubSeq(s, 1, n)[i] = s[i]
    <2>1. \A i \in 1..n : i \in 1..(n - 1 + 1) /\ 1 + i - 1 = i
        BY ONLY <1>1
    <2>. QED BY ONLY <2>1, <1>3
<1>. QED BY <1>3, <1>4, <1>5 DEF n

LEMMA ReturnSafe ==
    ASSUME IInv, Return
    PROVE  IInv'
<1>. DEFINE n == Len(stack)
            s == stack[n].struct
<1>1. /\ stack # <<>> /\ stack[n].rest = {} /\ stack' = SubSeq(stack, 1, n - 1)
      /\ in_stack' = in_stack \ {s} /\ UNCHANGED <<fields, visited, cycles>>
    BY DEF Return, Left, top
<1>2. stack \in Seq(Frame) /\ n \in Nat \ {0}
    BY <1>1 DEF IInv, Typed
<1>3. /\ stack' \in Seq(Frame) /\ Len(stack') = n - 1
      /\ \A i \in 1..(n - 1) : stack'[i] = stack[i]
    BY <1>1, <1>2, FrontOfSequence
<1>4. Typed'
    BY <1>1, <1>3 DEF IInv, Typed
<1>5. Path' /\ Rests'
    <2>1. Path'
        <3>. SUFFICES ASSUME NEW i \in 1..(n - 2)
                      PROVE  Contains(stack'[i].struct, stack'[i + 1].struct)
            BY <1>1, <1>2, <1>3, DepsStay DEF Path
        <3>1. i \in 1..(n - 1) /\ i + 1 \in 1..(n - 1)
            BY <1>2
        <3>. QED BY <3>1, <1>3 DEF IInv, Path
    <2>2. Rests'
        BY <1>1, <1>2, <1>3, DepsStay DEF IInv, Rests
    <2>. QED BY <2>1, <2>2
<1>6. \A i \in 1..(n - 1) : stack[i].struct # s
    BY <1>2 DEF IInv, Once
<1>7. in_stack = {stack[i].struct : i \in 1..n}
    BY DEF IInv, OnStack
<1>8. OnStack'
    <2>1. in_stack' = {stack[i].struct : i \in 1..(n - 1)}
        BY <1>1, <1>2, <1>6, <1>7
    <2>. QED BY <2>1, <1>3 DEF OnStack
<1>9. Once'
    BY <1>2, <1>3 DEF IInv, Once
<1>10. s \in visited
    BY <1>2, <1>7 DEF IInv, Typed
<1>11. visited' \ in_stack' = (visited \ in_stack) \cup {s}
    BY <1>1, <1>10
<1>12. Behind'
    <2>. SUFFICES ASSUME cycles = {}, NEW i \in 1..(n - 1),
                         NEW t \in collect_struct_deps(stack[i].struct) \ stack[i].rest
                  PROVE  \/ t \in visited' \ in_stack'
                         \/ i < n - 1 /\ t = stack'[i + 1].struct
        BY <1>1, <1>3, DepsStay DEF Behind
    <2>1. i \in 1..n /\ (i < n - 1 => i + 1 \in 1..(n - 1)) /\ (i < n - 1 \/ i + 1 = n)
        BY <1>2
    <2>2. \/ t \in visited \ in_stack
          \/ t = stack[i + 1].struct
        BY <2>1 DEF IInv, Behind
    <2>3. CASE t \in visited \ in_stack
        BY <2>3, <1>11
    <2>4. CASE t = stack[i + 1].struct /\ i < n - 1
        BY <2>1, <2>4, <1>3
    <2>5. CASE t = stack[i + 1].struct /\ i + 1 = n
        BY <2>5, <1>11
    <2>. QED BY <2>1, <2>2, <2>3, <2>4, <2>5
<1>13. Returned'
    <2>. SUFFICES ASSUME cycles = {}, NEW S \in SUBSET Names, Endless(S)
                  PROVE  S \cap (visited' \ in_stack') = {}
        BY <1>1, DepsStay DEF Returned
    <2>1. S \cap (visited \ in_stack) = {}
        BY DEF IInv, Returned
    <2>2. s \notin S
        <3>. SUFFICES ASSUME s \in S PROVE FALSE
            OBVIOUS
        <3>1. PICK t \in S : Contains(s, t)
            BY DEF Endless
        <3>2. t \in collect_struct_deps(stack[n].struct) \ stack[n].rest
            BY <3>1, <1>1 DEF Contains
        <3>3. t \in visited \ in_stack
            BY <3>2, <1>2 DEF IInv, Behind
        <3>. QED BY <3>1, <3>3, <2>1
    <2>. QED BY <2>1, <2>2, <1>11
<1>14. CyclesAreReal'
    BY <1>1, DepsStay DEF IInv, CyclesAreReal
<1>. QED BY <1>4, <1>5, <1>8, <1>9, <1>12, <1>13, <1>14 DEF IInv

LEMMA Inductive == IInv /\ [Next]_vars => IInv'
<1>. SUFFICES ASSUME IInv, [Next]_vars PROVE IInv'
    OBVIOUS
<1>1. ASSUME NEW s \in Names, Check(s) \/ Descend(s) \/ FindCycle(s) \/ Pass(s)
      PROVE  IInv'
    BY <1>1, CheckSafe, DescendSafe, FindCycleSafe, PassSafe
<1>2. CASE Return
    BY <1>2, ReturnSafe
<1>3. CASE UNCHANGED vars
    <2>. USE <1>3 DEF vars
    <2>1. Typed'
        BY DEF IInv, Typed, TypeOK, Layouts, Field
    <2>2. Path' /\ Rests'
        BY DepsStay DEF IInv, Path, Rests
    <2>3. OnStack' /\ Once'
        BY DEF IInv, OnStack, Once
    <2>4. Behind'
        BY DepsStay DEF IInv, Behind
    <2>5. Returned' /\ CyclesAreReal'
        BY DepsStay DEF IInv, Returned, CyclesAreReal
    <2>. QED BY <2>1, <2>2, <2>3, <2>4, <2>5 DEF IInv
<1>. QED BY <1>1, <1>2, <1>3 DEF Next

(* At the end the stack is empty, and every struct has returned.            *)
LEMMA NothingLeft == IInv => NoneMissed
<1>. SUFFICES ASSUME IInv, Done, cycles = {}, NEW S \in SUBSET Names, Endless(S)
              PROVE  FALSE
    BY DEF NoneMissed
<1>1. in_stack = {}
    BY DEF IInv, OnStack, Done
<1>2. S \cap visited = {}
    BY <1>1 DEF IInv, Returned
<1>3. PICK s \in S : \E t \in S : Contains(s, t)
    BY DEF Endless
<1>4. s \in DOMAIN fields
    BY <1>3 DEF Contains, collect_struct_deps
<1>. QED BY <1>2, <1>3, <1>4 DEF Done

LEMMA AlwaysIInv == Spec => []IInv
BY Initially, Inductive, PTL DEF Spec

(* What detect_cycle reports is a cycle of structs, whatever the program    *)
(* and the order in which the unordered_map lists its structs.              *)
THEOREM ReportsAreCycles == Spec => []CyclesAreReal
<1>1. IInv => CyclesAreReal
    BY DEF IInv
<1>. QED BY <1>1, AlwaysIInv, PTL

(* A program whose structs check_struct_recursion accepts has no struct     *)
(* that contains itself, of however many structs and in whatever order.     *)
THEOREM AcceptedStructsEnd == Spec => []NoneMissed
BY NothingLeft, AlwaysIInv, PTL
=============================================================================
