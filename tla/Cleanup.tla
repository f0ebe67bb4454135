------------------------------- MODULE Cleanup -------------------------------
(***************************************************************************)
(* Who frees what: the environments and cleanup lists the IR emitter keeps *)
(* while it compiles a function                                            *)
(* (src/src/midend/ir_emitter/{env.h,cleanup.cpp,ir_emitter.cpp}), and the *)
(* heap of the function it emits.  First the body is compiled, statement   *)
(* by statement; then the code is run, every branch either way.            *)
(*                                                                         *)
(* A variable is its alloca.  A struct is a pointer to an object, a list a *)
(* pointer to its data; a str points to a constant.  The programs are      *)
(* those that respect ownership: nothing reads a variable whose value some *)
(* path has moved away.  features is what else a program may do; the       *)
(* README says what each of them does to the emitted code.                 *)
(***************************************************************************)
EXTENDS Naturals, Sequences, FiniteSets, SequencesExt

CONSTANTS
    Kinds,       \* the types of variables: of {"struct", "list", "str"}
    FeatureSets, \* what a program may do besides: one of these sets
    MaxSlots,    \* bound: allocas of variables in the function
    MaxStmts,    \* bound: statements and blocks in the function
    MaxDepth,    \* bound: environments and branches inside each other
    MaxObjects   \* bound: objects the running function allocates

AllFeatures == {"branch let", "branch move", "branch refill", "early return",
                "break", "inner assign", "move after assign", "list copy",
                "list return", "untyped list", "indirect call", "str assign"}

ASSUME BoundsAssumption ==
    /\ Kinds \subseteq {"struct", "list", "str"}
    /\ FeatureSets \subseteq SUBSET AllFeatures
    /\ {MaxSlots, MaxStmts, MaxDepth, MaxObjects} \subseteq Nat

VARIABLES
    features,   \* what the program may do besides
    phase,      \* "compile", "run", "returned"
    kind,       \* the type of each variable, in the order of their allocas
    borrow_kind,\* VarInfo.borrow_kind of each: "Own" or "None"
    cleanups,   \* Env.cleanups of the open environments, the current one last
    loops,      \* Env.loop_info of the same
    control,    \* the open blocks, branches and loops
    code,       \* what has been emitted
    label,      \* the position in the code of each block of the function
    terminated, \* the insert block has a terminator
    visible,    \* the variables in scope, each with its environment
    moved,      \* those whose value is moved away on some path to here
    stmts,      \* how many statements there are
    pc, mem, live, made, result   \* the run

compileVars == <<kind, borrow_kind, cleanups, loops, control, code, label,
                 terminated, visible, moved, stmts>>
runVars     == <<pc, mem, live, made, result>>
vars == <<features, phase, compileVars, runVars>>

Slot == 1..Len(kind)
NoLoop == [cond |-> 0, exit |-> 0]
Unset == 0          \* an alloca that was not executed or holds undef
Constant == MaxObjects + 1
Object == 1..MaxObjects

----------------------------------------------------------------------------
(* The cleanup lists.  EnvGuard restores the environment around a block.   *)

LeaveEnv(envs) == Front(envs)

CleanupInfo(s) == [slot |-> s, cancelled |-> FALSE]

EntriesOf(c) == UNION {{<<k, i>> : i \in DOMAIN c[k]} : k \in DOMAIN c}
Entry(c, p) == c[p[1]][p[2]]

Before(p, q) == p[1] > q[1] \/ (p[1] = q[1] /\ p[2] < q[2])

(* The first entry of S on the way from the current environment outwards.  *)
FirstOf(S) == {p \in S : \A q \in S : q = p \/ Before(p, q)}

Mark(c, S) ==
    [k \in DOMAIN c |-> [i \in DOMAIN c[k] |->
        [slot |-> c[k][i].slot,
         cancelled |-> c[k][i].cancelled \/ <<k, i>> \in S]]]

(* Mutant of cancel_cleanup: what was moved away keeps its cleanup.        *)
CancelNothing(c, s) == c

(* It stops at the first entry for s, cancelled already or not.            *)
cancel_cleanup(c, s) ==
    Mark(c, FirstOf({p \in EntriesOf(c) : Entry(c, p).slot = s}))

Active(c, s) == {p \in EntriesOf(c) : Entry(c, p).slot = s /\ ~Entry(c, p).cancelled}

add_cleanup(c, s) == [c EXCEPT ![Len(c)] = Append(c[Len(c)], CleanupInfo(s))]

----------------------------------------------------------------------------
(* The code.                                                               *)

New(s)       == [op |-> "new", slot |-> s]
Copy(s, t)   == [op |-> "copy", slot |-> s, from |-> t]
Undef(s)     == [op |-> "undef", slot |-> s]
Free(s)      == [op |-> "free", slot |-> s]
Load(s)      == [op |-> "load", slot |-> s]
Grow(s)      == [op |-> "grow", slot |-> s]
Consume(s)   == [op |-> "consume", slot |-> s]
Br(L)        == [op |-> "br", to |-> L]
Ret          == [op |-> "ret"]
RetSlot(s)   == [op |-> "ret value", slot |-> s]

Uncancelled(c) == {p \in EntriesOf(c) : ~Entry(c, p).cancelled}

(* The frees of the entries P: the current environment first, each of them *)
(* from its last entry to its first.                                       *)
LaterThan(p, P) == {q \in P : q[1] > p[1] \/ (q[1] = p[1] /\ q[2] > p[2])}
Ranked(P, i) == CHOOSE p \in P : Cardinality(LaterThan(p, P)) = i - 1
FreesOf(c, P) == [i \in 1..Cardinality(P) |-> Free(Entry(c, Ranked(P, i)).slot)]

(* Mutant of Frees: a block's end cleans up the whole function.            *)
FreesAll(c, k) == FreesOf(c, Uncancelled(c))

(* Mutant of Frees: a return cleans up its own block only.                 *)
FreesCurrent(c, k) == FreesOf(c, {p \in Uncancelled(c) : p[1] = Len(c)})

(* The frees of the environments from number k on.                         *)
Frees(c, k) == FreesOf(c, {p \in Uncancelled(c) : p[1] >= k})

CancelFrom(c, k) == Mark(c, {p \in EntriesOf(c) : p[1] >= k})

emit_var_free(c, s) == IF Active(c, s) = {} THEN <<>> ELSE <<Free(s)>>

(* lookup_loop: the environment whose loop_info a break uses, or none.     *)
LoopEnvs == {k \in DOMAIN loops : loops[k] # NoLoop}
Innermost(S) == {k \in S : \A j \in S : j <= k}
lookup_loop == IF LoopEnvs = {} THEN NoLoop
               ELSE loops[CHOOSE k \in Innermost(LoopEnvs) : TRUE]

Env == Len(cleanups)

Emit(instructions) == code' = code \o instructions

----------------------------------------------------------------------------
(* Programs.                                                               *)

Gate(feature, condition) == condition => feature \in features

Branches == {i \in DOMAIN control : control[i].kind # "block"}
InBranch == Branches # {}
DirectlyInBranch == InBranch /\ control[Len(control)].kind # "block"

Readable == DOMAIN visible \ moved

(* Has more than one entry, the ones of its former values among them.      *)
Reassigned(s) ==
    Cardinality({p \in EntriesOf(cleanups) : Entry(cleanups, p).slot = s}) > 1

MayMove(s) ==
    /\ s \in Readable
    /\ Gate("branch move", \E i \in Branches : s \in DOMAIN control[i].visible)
    /\ Gate("move after assign", Reassigned(s))

Statement ==
    /\ phase = "compile"
    /\ ~terminated            \* compile_block stops at a terminator
    /\ stmts < MaxStmts
    /\ stmts' = stmts + 1
    /\ UNCHANGED <<phase, runVars>>

Straight == UNCHANGED <<loops, control, label, terminated>>

(* A declaration with a struct, list or str type owns its value, and so    *)
(* does one without a type whose value is a pointer, which a struct is.    *)
BorrowKind(k, typed) == IF k = "struct" \/ typed THEN "Own" ELSE "None"

(* A list gets its cleanup only from a type that is written out, a pointer *)
(* gets one without; a str never does.                                     *)
Registered(k, typed) == k = "struct" \/ (k = "list" /\ typed)

Declares(k, typed) ==
    /\ Len(kind) < MaxSlots
    /\ Gate("branch let", DirectlyInBranch /\ k # "str")
    /\ Gate("untyped list", k = "list" /\ ~typed)
    /\ kind' = Append(kind, k)
    /\ borrow_kind' = Append(borrow_kind, BorrowKind(k, typed))
    /\ visible' = [s \in DOMAIN visible \cup {Len(kind) + 1} |->
                      IF s \in DOMAIN visible THEN visible[s] ELSE Env]

(* let x = <a new value>, or let x: T = <a new value>.                     *)
LetFresh(k, typed) ==
    /\ Statement
    /\ Declares(k, typed)
    /\ Emit(<<New(Len(kind) + 1)>>)
    /\ cleanups' = IF Registered(k, typed)
                   THEN add_cleanup(cleanups, Len(kind) + 1) ELSE cleanups
    /\ Straight
    /\ UNCHANGED moved

(* What keeps its cleanup although its value has been moved away.          *)
KeepsCleanup(y, invalidated) == ~invalidated /\ Active(cleanups, y) # {}

(* let x = y.  The source is invalidated if x owns its value.              *)
LetFrom(y, typed) ==
    LET x == Len(kind) + 1
        owns == BorrowKind(kind[y], typed) = "Own"
        with == IF Registered(kind[y], typed) THEN add_cleanup(cleanups, x) ELSE cleanups
    IN
    /\ Statement
    /\ MayMove(y)
    /\ Declares(kind[y], typed)
    /\ Gate("list copy", KeepsCleanup(y, owns))
    /\ moved' = moved \cup {y}
    /\ IF owns
       THEN /\ Emit(<<Copy(x, y), Undef(y)>>)
            /\ cleanups' = cancel_cleanup(with, y)
       ELSE /\ Emit(<<Copy(x, y)>>)
            /\ cleanups' = with
    /\ Straight

(* Reads y: a member, an element, a call that borrows it.                  *)
Use(y) ==
    /\ Statement
    /\ y \in Readable
    /\ Emit(<<Load(y)>>)
    /\ Straight
    /\ UNCHANGED <<kind, borrow_kind, cleanups, visible, moved>>

(* y.push(v) allocates new data when the old is full.                      *)
Push(y) ==
    /\ Statement
    /\ y \in Readable /\ kind[y] = "list"
    /\ Emit(<<Grow(y)>>)
    /\ Straight
    /\ UNCHANGED <<kind, borrow_kind, cleanups, visible, moved>>

(* f(y), y passed by value: the callee frees it, and y is invalidated.     *)
CallDirect(y) ==
    /\ Statement
    /\ MayMove(y)
    /\ moved' = moved \cup {y}
    /\ Emit(<<Consume(y), Undef(y)>>)
    /\ cleanups' = cancel_cleanup(cleanups, y)
    /\ Straight
    /\ UNCHANGED <<kind, borrow_kind, visible>>

(* The same through a variable: y is not invalidated.  A lambda has no     *)
(* cleanup for its parameters, a named function does.                      *)
CallIndirect(y, lambda) ==
    /\ Statement
    /\ y \in Readable
    /\ Gate("indirect call", ~lambda)
    /\ moved' = moved \cup {y}
    /\ Emit(<<IF lambda THEN Load(y) ELSE Consume(y)>>)
    /\ Straight
    /\ UNCHANGED <<kind, borrow_kind, cleanups, visible>>

(* Mutant of Replace: the cleanup of the old value stays.                  *)
ReplaceKeepsOld(t) == add_cleanup(cleanups, t)

(* What an assignment to t does to the lists: the value t has is freed,    *)
(* and the new one is registered with the current environment.             *)
Replace(t) ==
    add_cleanup(Mark(cleanups, FirstOf(Active(cleanups, t))), t)

Assignable(t) ==
    /\ t \in DOMAIN visible
    /\ Gate("inner assign", visible[t] # Env)
    /\ Gate("branch refill", \E i \in Branches :
                t \in control[i].moved \cup UNION control[i].ends)
    /\ Gate("str assign", kind[t] = "str")

AssignFresh(t) ==
    /\ Statement
    /\ Assignable(t)
    /\ Emit(emit_var_free(cleanups, t) \o <<New(t)>>)
    /\ cleanups' = Replace(t)
    /\ moved' = moved \ {t}
    /\ Straight
    /\ UNCHANGED <<kind, borrow_kind, visible>>

(* t = y; the value is loaded before t's old one is freed, and y is        *)
(* invalidated if t owns its value.                                        *)
AssignFrom(t, y) ==
    /\ Statement
    /\ t # y
    /\ Assignable(t)
    /\ MayMove(y)
    /\ kind[t] = kind[y]
    /\ Gate("list copy", KeepsCleanup(y, borrow_kind[t] = "Own"))
    /\ moved' = (moved \ {t}) \cup {y}
    /\ IF borrow_kind[t] = "Own"
       THEN /\ Emit(emit_var_free(cleanups, t) \o <<Copy(t, y), Undef(y)>>)
            /\ cleanups' = cancel_cleanup(Replace(t), y)
       ELSE /\ Emit(emit_var_free(cleanups, t) \o <<Copy(t, y)>>)
            /\ cleanups' = Replace(t)
    /\ Straight
    /\ UNCHANGED <<kind, borrow_kind, visible>>

(* return, or return of a new value: every environment is cleaned up.      *)
(* The lists stay cancelled for the statements behind the branch.          *)
ReturnFresh ==
    /\ Statement
    /\ Gate("early return", InBranch /\ Frees(cleanups, 1) # <<>>)
    /\ Emit(Frees(cleanups, 1) \o <<Ret>>)
    /\ cleanups' = CancelFrom(cleanups, 1)
    /\ terminated' = TRUE
    /\ UNCHANGED <<kind, borrow_kind, loops, control, label, visible, moved>>

(* return y: the cleanup of a variable that owns its value is cancelled.   *)
ReturnVar(y) ==
    LET owns == borrow_kind[y] = "Own"
        kept == IF owns THEN cancel_cleanup(cleanups, y) ELSE cleanups
    IN
    /\ Statement
    /\ MayMove(y)
    /\ Gate("early return", InBranch /\ Frees(cleanups, 1) # <<>>)
    /\ Gate("list return", KeepsCleanup(y, owns))
    /\ Emit(Frees(kept, 1) \o <<RetSlot(y)>>)
    /\ cleanups' = CancelFrom(kept, 1)
    /\ terminated' = TRUE
    /\ UNCHANGED <<kind, borrow_kind, loops, control, label, visible, moved>>

----------------------------------------------------------------------------
(* Blocks, branches and loops.                                             *)

Opens ==
    /\ phase = "compile"
    /\ ~terminated
    /\ stmts < MaxStmts /\ Len(control) < MaxDepth
    /\ stmts' = stmts + 1
    /\ UNCHANGED <<phase, runVars, kind, borrow_kind, visible, moved, terminated>>

Closes ==
    /\ phase = "compile"
    /\ control # <<>>
    /\ UNCHANGED <<phase, runVars, kind, borrow_kind, stmts>>

Construct(k, other, end) ==
    [kind |-> k, other |-> other, end |-> end, saved |-> lookup_loop, env |-> Env,
     visible |-> visible, moved |-> moved, ends |-> {}]

Top == control[Len(control)]
InScope(c, M) == M \cap DOMAIN c.visible
PathEnd(c) == IF terminated THEN {} ELSE {InScope(c, moved)}

(* At the back edge the variables the loop started with have values again. *)
BackEdge(c, P) == UNION P \subseteq c.moved

Join(c, P) ==
    /\ moved' = IF P = {} THEN c.moved ELSE UNION P
    /\ visible' = c.visible
    /\ control' = Front(control)
    /\ terminated' = FALSE

JumpUnlessTerminated(l) == IF terminated THEN <<>> ELSE <<Br({l})>>

OpenBlock ==
    /\ Opens
    /\ cleanups' = Append(cleanups, <<>>)
    /\ loops' = Append(loops, NoLoop)
    /\ control' = Append(control, Construct("block", 0, 0))
    /\ UNCHANGED <<code, label>>

CloseBlock ==
    /\ Closes
    /\ Top.kind = "block"
    /\ IF terminated THEN UNCHANGED code ELSE Emit(Frees(cleanups, Env))
    /\ cleanups' = LeaveEnv(cleanups)
    /\ loops' = Front(loops)
    /\ visible' = Top.visible
    /\ moved' = InScope(Top, moved)
    /\ control' = Front(control)
    /\ UNCHANGED <<label, terminated>>

(* The bodies of if and while have no environment of their own.            *)
OpenIf ==
    LET l == Len(label) IN
    /\ Opens
    /\ Emit(<<Br({l + 1, l + 2})>>)
    /\ label' = label \o <<Len(code) + 2, 0, 0>>
    /\ control' = Append(control, Construct("then", l + 2, l + 3))
    /\ UNCHANGED <<cleanups, loops>>

(* else; an elif is an else with an if in it.                              *)
Else ==
    /\ Closes
    /\ Top.kind = "then"
    /\ Emit(JumpUnlessTerminated(Top.end))
    /\ label' = [label EXCEPT ![Top.other] = Len(code') + 1]
    /\ control' = [control EXCEPT ![Len(control)].kind = "else",
                                  ![Len(control)].ends = PathEnd(Top)]
    /\ moved' = Top.moved
    /\ visible' = Top.visible
    /\ terminated' = FALSE
    /\ UNCHANGED <<cleanups, loops>>

EndIf ==
    LET around == IF Top.kind = "then" THEN {Top.moved} ELSE {} IN
    /\ Closes
    /\ Top.kind \in {"then", "else"}
    /\ Emit(JumpUnlessTerminated(Top.end))
    /\ label' = [label EXCEPT ![Top.end] = Len(code') + 1,
                              ![Top.other] = IF @ = 0 THEN Len(code') + 1 ELSE @]
    /\ Join(Top, Top.ends \cup PathEnd(Top) \cup around)
    /\ UNCHANGED <<cleanups, loops>>

(* loop_info is set on the environment around the loop.                    *)
OpenLoop ==
    LET l == Len(label) IN
    /\ Opens
    /\ Emit(<<Br({l + 2, l + 3})>>)
    /\ label' = label \o <<Len(code) + 1, Len(code) + 2, 0>>
    /\ control' = Append(control, Construct("loop", l + 1, l + 3))
    /\ loops' = [loops EXCEPT ![Env] = [cond |-> l + 1, exit |-> l + 3]]
    /\ UNCHANGED cleanups

(* What is in its place afterwards may be the loop_info of a loop further  *)
(* out that another environment holds.                                     *)
CloseLoop ==
    /\ Closes
    /\ Top.kind = "loop"
    /\ BackEdge(Top, PathEnd(Top))
    /\ Emit(JumpUnlessTerminated(Top.other))
    /\ label' = [label EXCEPT ![Top.end] = Len(code') + 1]
    /\ loops' = [loops EXCEPT ![Env] = Top.saved]
    /\ Join(Top, Top.ends \cup {Top.moved})
    /\ UNCHANGED cleanups

Loops == {i \in DOMAIN control : control[i].kind = "loop"}

(* emit_until_loop frees up to the environment around the loop, that one   *)
(* included.                                                               *)
LeavesIteration(to) ==
    LET k == CHOOSE e \in Innermost(LoopEnvs) : TRUE IN
    /\ Statement
    /\ LoopEnvs # {}
    /\ Gate("break", \E i \in Innermost(Loops) : Frees(cleanups, control[i].env) # <<>>)
    /\ Emit(Frees(cleanups, k) \o <<Br({to})>>)
    /\ cleanups' = CancelFrom(cleanups, k)
    /\ terminated' = TRUE
    /\ UNCHANGED <<kind, borrow_kind, loops, label, visible, moved>>

Break ==
    /\ LeavesIteration(lookup_loop.exit)
    /\ \E i \in Innermost(Loops) :
            control' = [control EXCEPT ![i].ends = @ \cup {InScope(control[i], moved)}]

Continue ==
    /\ LeavesIteration(lookup_loop.cond)
    /\ \E i \in Innermost(Loops) : BackEdge(control[i], {InScope(control[i], moved)})
    /\ UNCHANGED control

(* compile_named_function: the body is compiled.                           *)
EndFunction ==
    /\ phase = "compile"
    /\ control = <<>>
    /\ IF terminated THEN UNCHANGED code ELSE Emit(Frees(cleanups, 1) \o <<Ret>>)
    /\ cleanups' = IF terminated THEN cleanups ELSE CancelFrom(cleanups, 1)
    /\ phase' = "run"
    /\ mem' = [s \in Slot |-> Unset]
    /\ UNCHANGED <<kind, borrow_kind, loops, control, label, terminated, visible,
                   moved, stmts, pc, live, made, result>>

----------------------------------------------------------------------------
(* The run.                                                                *)

Running(ops) == phase = "run" /\ code[pc].op \in ops
This == code[pc].slot

Continues == pc' = pc + 1 /\ UNCHANGED <<phase, compileVars, result>>

Allocates ==
    /\ made < MaxObjects
    /\ made' = made + 1
    /\ mem' = [mem EXCEPT ![This] = made + 1]

RunNew ==
    /\ Running({"new"})
    /\ IF kind[This] = "str"
       THEN mem' = [mem EXCEPT ![This] = Constant] /\ UNCHANGED <<live, made>>
       ELSE Allocates /\ live' = live \cup {made + 1}
    /\ Continues

RunMove ==
    /\ Running({"copy", "undef"})
    /\ mem' = [mem EXCEPT ![This] = IF code[pc].op = "copy" THEN mem[code[pc].from]
                                    ELSE Unset]
    /\ Continues
    /\ UNCHANGED <<live, made>>

(* The data is reallocated, or had room.                                   *)
RunGrow ==
    /\ Running({"grow"})
    /\ \/ Allocates /\ live' = (live \ {mem[This]}) \cup {made + 1}
       \/ UNCHANGED <<mem, live, made>>
    /\ Continues

(* A callee frees what it was passed, but for a str.                       *)
RunFree ==
    /\ Running({"free", "consume", "load"})
    /\ live' = IF code[pc].op = "load" THEN live ELSE live \ {mem[This]}
    /\ Continues
    /\ UNCHANGED <<mem, made>>

RunBranch ==
    /\ Running({"br"})
    /\ \E l \in code[pc].to : pc' = label[l]
    /\ UNCHANGED <<phase, compileVars, mem, live, made, result>>

RunReturn ==
    /\ Running({"ret", "ret value"})
    /\ result' = IF code[pc].op = "ret" THEN Unset ELSE mem[This]
    /\ phase' = "returned"
    /\ UNCHANGED <<compileVars, pc, mem, live, made>>

----------------------------------------------------------------------------
(* A parameter is registered as a typed let is.                            *)
Init ==
    /\ features \in FeatureSets
    /\ phase = "compile"
    /\ kind \in {<<>>} \cup {<<k>> : k \in Kinds}
    /\ borrow_kind = [s \in Slot |-> "Own"]
    /\ cleanups = <<IF kind = <<>> \/ kind = <<"str">> THEN <<>> ELSE <<CleanupInfo(1)>>>>
    /\ loops = <<NoLoop>>
    /\ control = <<>>
    /\ code = [s \in Slot |-> New(s)]
    /\ label = <<>>
    /\ terminated = FALSE
    /\ visible = [s \in Slot |-> 1]
    /\ moved = {}
    /\ stmts = 0
    /\ pc = 1 /\ mem = <<>> /\ live = {} /\ made = 0 /\ result = Unset

Compile ==
    \/ \E k \in Kinds, typed \in BOOLEAN : LetFresh(k, typed)
    \/ \E y \in DOMAIN visible, typed \in BOOLEAN : LetFrom(y, typed) \/ CallIndirect(y, typed)
    \/ \E y \in DOMAIN visible : Use(y) \/ Push(y) \/ CallDirect(y) \/ AssignFresh(y) \/ ReturnVar(y)
    \/ \E t, y \in DOMAIN visible : AssignFrom(t, y)
    \/ ReturnFresh
    \/ OpenBlock \/ CloseBlock
    \/ OpenIf \/ Else \/ EndIf
    \/ OpenLoop \/ CloseLoop \/ Break \/ Continue
    \/ EndFunction

Run == RunNew \/ RunMove \/ RunGrow \/ RunFree \/ RunBranch \/ RunReturn

Next == (Compile \/ Run) /\ UNCHANGED features

Spec == Init /\ [][Next]_vars

----------------------------------------------------------------------------
(* Properties.                                                             *)

(* What the emitted code frees is an object that is there: nothing is      *)
(* freed twice, before its variable is set, or that malloc did not return. *)
FreesLive == Running({"free"}) => mem[This] \in live

(* What the program reads, passes on or returns is still there: no cleanup *)
(* was emitted in front of a use of the value.                             *)
UsesLive ==
    /\ Running({"load", "grow", "consume", "ret value"}) => mem[This] \in live \cup {Constant}
    /\ Running({"copy"}) => mem[code[pc].from] \in live \cup {Constant}

(* When the function returns every object is freed but the one returned,   *)
(* unless the program does what the emitter has no cleanup for.            *)
NothingLeaks == phase = "returned" /\ features = {} => live = {result} \cap Object

(* No variable has two cleanups that will be emitted, whatever the program *)
(* does: an assignment cancels the old before it registers the new.        *)
OneCleanup == \A s \in Slot : \A p, q \in Active(cleanups, s) : p = q
=============================================================================
