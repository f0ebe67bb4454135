---------------------------- MODULE StructCycles ----------------------------
(***************************************************************************)
(* Structs that contain themselves: the last stage of the resolver,        *)
(* check_struct_recursion and the recursive search detect_cycle            *)
(* (src/src/frontend/sema_checker/resolver.cpp).  The calls that have not  *)
(* returned are the stack; the structs are visited in the order of an      *)
(* unordered_map, which is any order.                                      *)
(***************************************************************************)
EXTENDS Naturals, Sequences

CONSTANT Names      \* the names of types

(* A field is a struct, held directly or behind the wrappers that          *)
(* collect_struct_deps looks through, or behind a cref, which it does not. *)
Field == [of : Names, cref : BOOLEAN]

(* The structs that are defined, and the fields of each.                   *)
Layouts == UNION {[D -> SUBSET Field] : D \in SUBSET Names}

VARIABLES
    fields,     \* the fields of every struct that is defined
    visited,
    stack,      \* the calls of detect_cycle: the struct, and its fields still to follow
    in_stack,
    cycles      \* the cycles reported, as sequences of names

vars == <<fields, visited, stack, in_stack, cycles>>

collect_struct_deps(s) ==
    IF s \in DOMAIN fields THEN {f.of : f \in {g \in fields[s] : ~ g.cref}} ELSE {}

Contains(s, t) == t \in collect_struct_deps(s)

Init ==
    /\ fields \in Layouts
    /\ visited = {}
    /\ stack = <<>>
    /\ in_stack = {}
    /\ cycles = {}

Call(s) ==
    /\ visited' = visited \cup {s}
    /\ stack' = Append(stack, [struct |-> s, rest |-> collect_struct_deps(s)])
    /\ in_stack' = in_stack \cup {s}

(* The loop of check_struct_recursion.                                     *)
Check(s) ==
    /\ stack = <<>>
    /\ s \in DOMAIN fields \ visited
    /\ Call(s)
    /\ UNCHANGED <<fields, cycles>>

top == stack[Len(stack)]
(* Mutant: the fields behind the one that is followed are forgotten.       *)
FollowedOnly(next) ==
    [stack EXCEPT ![Len(stack)] = [struct |-> top.struct, rest |-> {}]]
Followed(next) ==
    [stack EXCEPT ![Len(stack)] = [struct |-> top.struct, rest |-> top.rest \ {next}]]

(* A struct that was not visited: the call is made, and this one waits.    *)
Descend(next) ==
    /\ stack # <<>> /\ next \in top.rest
    /\ next \notin visited
    /\ visited' = visited \cup {next}
    /\ stack' = Append(Followed(next), [struct |-> next, rest |-> collect_struct_deps(next)])
    /\ in_stack' = in_stack \cup {next}
    /\ UNCHANGED <<fields, cycles>>

(* A struct whose call has not returned: the cycle is the part of the      *)
(* stack from its call on.  Mutant: it is the whole stack.                 *)
CycleFromBottom(next) == [i \in DOMAIN stack |-> stack[i].struct]
CycleFrom(next) ==
    LET start == CHOOSE i \in DOMAIN stack : stack[i].struct = next
    IN  [i \in 1..(Len(stack) - start + 1) |-> stack[start + i - 1].struct]

FindCycle(next) ==
    /\ stack # <<>> /\ next \in top.rest
    /\ next \in visited /\ next \in in_stack
    /\ stack' = Followed(next)
    /\ cycles' = cycles \cup
          IF \E i \in DOMAIN stack : stack[i].struct = next THEN {CycleFrom(next)} ELSE {}
    /\ UNCHANGED <<fields, visited, in_stack>>

Pass(next) ==
    /\ stack # <<>> /\ next \in top.rest
    /\ next \in visited /\ next \notin in_stack
    /\ stack' = Followed(next)
    /\ UNCHANGED <<fields, visited, in_stack, cycles>>

Left == in_stack \ {top.struct}

Return ==
    /\ stack # <<>> /\ top.rest = {}
    /\ stack' = SubSeq(stack, 1, Len(stack) - 1)
    /\ in_stack' = Left
    /\ UNCHANGED <<fields, visited, cycles>>

Done == stack = <<>> /\ DOMAIN fields \subseteq visited

Next ==
    \/ \E s \in Names : Check(s) \/ Descend(s) \/ FindCycle(s) \/ Pass(s)
    \/ Return

(* The search is one call that runs by itself.                             *)
Spec == Init /\ [][Next]_vars /\ WF_vars(Next)

----------------------------------------------------------------------------
TypeOK ==
    /\ visited \subseteq Names
    /\ in_stack \subseteq visited
    /\ stack \in Seq([struct : Names, rest : SUBSET Names])
    /\ \A c \in cycles : c \in Seq(Names)

(* Every cycle reported is one: each struct of it contains the next, and   *)
(* the last the first.                                                     *)
IsCycle(c) ==
    /\ c # <<>>
    /\ \A i \in 1..(Len(c) - 1) : Contains(c[i], c[i + 1])
    /\ Contains(c[Len(c)], c[1])
CyclesAreReal == \A c \in cycles : IsCycle(c)

(* When the search has ended without a report, no struct contains itself,  *)
(* directly or through others: no set of names is such that each contains  *)
(* one of the set.                                                         *)
Endless(S) == S # {} /\ \A s \in S : \E t \in S : Contains(s, t)
NoneMissed == Done /\ cycles = {} => \A S \in SUBSET Names : ~ Endless(S)
=============================================================================
