--------------------------- MODULE BorrowChecker ---------------------------
(***************************************************************************)
(* The borrow checker of the compiler's front end                          *)
(* (src/src/frontend/sema_checker/borrow_checker.cpp).                     *)
(*                                                                         *)
(* The checker walks the body of one function after another, statement by  *)
(* statement, and keeps for every variable NAME a small state: free,       *)
(* borrowed mutably, borrowed by a number of readers, or moved.  The       *)
(* program it walks is the environment of this module: a behaviour is the  *)
(* walk over one program, and each action is the visit of one statement,   *)
(* of one argument of a call, or of one edge of a block.                   *)
(*                                                                         *)
(* Expressions are flattened: the visit of f(a, g(b)) is the visit of a,   *)
(* of b, of the call of g and of the call of f, in the order in which the  *)
(* checker recurses.  Type names, spans and the text of diagnostics are    *)
(* left out.                                                               *)
(***************************************************************************)
EXTENDS Integers, Sequences, FiniteSets

CONSTANTS
    Var,        \* the variable names of the program
    None,       \* no variable: the borrower has no entry in borrow_map
    MaxArgs,    \* bound: borrowing or moving arguments of one call
    MaxDepth,   \* bound: nesting of blocks, the function body included
    MaxStmts,   \* bound: statements visited in one function
    Features    \* the constructs the program may use

AllFeatures == {"block", "loop", "then", "elif", "else", "lambda",
                "capture", "shadow", "uninit",
                "scalar call"}

ASSUME VarAssumption == IsFiniteSet(Var) /\ None \notin Var
ASSUME BoundAssumption == /\ MaxArgs \in Nat
                          /\ MaxDepth \in Nat
                          /\ MaxStmts \in Nat
ASSUME FeatureAssumption == Features \subseteq AllFeatures

(* The temporary borrower of a call's i-th argument is a fresh string      *)
(* made of the call's number and the argument's; only the position counts  *)
(* while the call is open.                                                 *)
Slot == 1..MaxArgs

ASSUME SlotAssumption == Var \cap Slot = {}

VARIABLES
    states,      \* VarInfo of every name; a name without an entry is Default
    borrow_map,  \* borrower -> the variable it borrows from, or None
    frames,      \* the open blocks, innermost last
    call,        \* arguments of the open call visited so far, 0: no call
    rejected,    \* diag.has_errors(): some visit has reported an error
    stmts        \* statements visited in this function (bounded)

vars == <<states, borrow_map, frames, call, rejected, stmts>>

----------------------------------------------------------------------------
(* The state of a name.                                                    *)

VarState == {"Free", "MutBorrowed", "ImmutBorrowed", "Moved"}

VarInfo == [state : VarState, is_struct : BOOLEAN, is_cref : BOOLEAN,
            immut_count : Nat]

Entry(is_struct, is_cref) ==
    [state |-> "Free", is_struct |-> is_struct, is_cref |-> is_cref,
     immut_count |-> 0]

Default == Entry(FALSE, FALSE)

NoStates == [v \in Var |-> Default]
NoBorrows == [b \in Var \cup Slot |-> None]

Marked(info, state, count) ==
    [info EXCEPT !.state = state, !.immut_count = count]

mark_moved(st, v) == [st EXCEPT ![v] = Marked(st[v], "Moved", 0)]

mark_mut_borrowed(st, v) == [st EXCEPT ![v] = Marked(st[v], "MutBorrowed", 0)]

mark_immut_borrowed(st, v) ==
    [st EXCEPT ![v] = Marked(st[v], "ImmutBorrowed", st[v].immut_count + 1)]

(* The variables a walk has moved. *)
Moved(st) == {v \in Var : st[v].state = "Moved"}

(* Marking a set of names as moved when walks are joined: the count of     *)
(* readers stays as it was.                                                *)
JoinMoved(st, M) ==
    [v \in Var |-> IF v \in M THEN Marked(st[v], "Moved", st[v].immut_count)
                              ELSE st[v]]

Borrowers(bm, v) == {b \in DOMAIN bm : bm[b] = v}

(* Mutants: a release that frees the source with its first reader, and one *)
(* that frees it although it has been moved.                               *)
ReleasedByFirst(info, k) ==
    IF k = 0 \/ info.state \in {"Free", "Moved"} THEN info
                                               ELSE Marked(info, "Free", 0)

ReleasedMoved(info, k) ==
    IF k = 0 THEN info
    ELSE IF info.state = "ImmutBorrowed" /\ info.immut_count > k
    THEN Marked(info, "ImmutBorrowed", info.immut_count - k)
    ELSE Marked(info, "Free", 0)

(* What release_borrow leaves of the state of a source that loses k of its *)
(* borrowers.  A moved source stays moved.                                 *)
Released(info, k) ==
    IF \/ k = 0
       \/ info.state \in {"Free", "Moved"}
       \/ info.state = "ImmutBorrowed" /\ info.immut_count = 0
    THEN info
    ELSE IF info.state = "ImmutBorrowed" /\ info.immut_count > k
    THEN Marked(info, "ImmutBorrowed", info.immut_count - k)
    ELSE Marked(info, "Free", 0)

(* release_borrow of every borrower in B; their order makes no difference. *)
release_borrow(st, bm, B) ==
    [v \in Var |-> Released(st[v], Cardinality(Borrowers(bm, v) \cap B))]

Unbind(bm, B) == [b \in DOMAIN bm |-> IF b \in B THEN None ELSE bm[b]]

----------------------------------------------------------------------------
(* Blocks.  A frame is one activation of analyze_block: its scope_vars     *)
(* entry and what the construct around it saved before it was entered.     *)
(* The names of parameters are kept with the body's variables: they share  *)
(* its scope and are never borrowers.                                      *)

FrameKind == {"function", "block", "loop", "then", "elif", "else", "lambda"}

Frame(kind, names, st, bm, moved) ==
    [kind |-> kind, names |-> names, states |-> st, borrow_map |-> bm,
     merged |-> moved]

Top == frames[Len(frames)]
Below == SubSeq(frames, 1, Len(frames) - 1)

(* Every name some open block declares, and the names a statement may use: *)
(* a lambda sees those around it only when it captures them.               *)
Declared == UNION {frames[i].names : i \in DOMAIN frames}

Usable ==
    UNION {frames[i].names : i \in
             {j \in DOMAIN frames : \/ "capture" \in Features
                                    \/ \A k \in DOMAIN frames :
                                         k > j => frames[k].kind # "lambda"}}

(* The names a new scope may declare: a program may hide an outer name.  A *)
(* name is declared once per scope (SemaChecker).                          *)
Fresh == IF "shadow" \in Features THEN Var ELSE Var \ Declared
Declarable == Fresh \ Top.names

WithName(x) == [frames EXCEPT ![Len(frames)] =
                   Frame(Top.kind, Top.names \cup {x}, Top.states,
                         Top.borrow_map, Top.merged)]

(* Between two statements, with one more to visit. *)
AtStatement == frames # <<>> /\ call = 0 /\ stmts < MaxStmts

Report(error) == rejected' = (rejected \/ error)

(* check_expr of a variable that is read, and of one that is assigned to. *)
Unreadable(v) == states[v].state \in {"Moved", "MutBorrowed"}
Unwritable(v) == states[v].state # "Free" \/ states[v].is_cref

----------------------------------------------------------------------------
(* Functions. *)

Init ==
    /\ states = NoStates
    /\ borrow_map = NoBorrows
    /\ frames = <<>>
    /\ call = 0
    /\ rejected = FALSE
    /\ stmts = 0

(* check_function: the parameters in P, those with a struct type in S and  *)
(* those with a cref type in C; ref, own and scalar parameters are in      *)
(* neither.                                                                *)
check_function(P, S, C) ==
    /\ frames = <<>>
    /\ states' = [v \in Var |-> Entry(v \in S, v \in C)]
    /\ borrow_map' = NoBorrows
    /\ frames' = <<Frame("function", P, NoStates, NoBorrows, {})>>
    /\ stmts' = 0
    /\ UNCHANGED <<call, rejected>>

(* The end of analyze_block: the borrowers declared in the block let go. *)
ExitStates == release_borrow(states, borrow_map, Top.names)
ExitBorrows == Unbind(borrow_map, Top.names)

EndFunction ==
    /\ Len(frames) = 1 /\ call = 0
    /\ states' = ExitStates
    /\ borrow_map' = ExitBorrows
    /\ frames' = <<>>
    /\ UNCHANGED <<call, rejected, stmts>>

----------------------------------------------------------------------------
(* Declarations.                                                           *)

Declares(x) ==
    /\ AtStatement
    /\ x \in Declarable
    /\ frames' = WithName(x)
    /\ stmts' = stmts + 1
    /\ UNCHANGED call

(* let x: T;  -- the state the name has is left alone. *)
LetUninit(x) ==
    /\ "uninit" \in Features
    /\ Declares(x)
    /\ UNCHANGED <<states, borrow_map, rejected>>

(* let x = e;  let x: T = e;  where e is not a variable. Without a type, a *)
(* list and every call count as a struct.                                  *)
LetFresh(x, is_struct, is_cref) ==
    /\ Declares(x)
    /\ states' = [states EXCEPT ![x] = Entry(is_struct, is_cref)]
    /\ UNCHANGED <<borrow_map, rejected>>

(* let x = y; *)
LetVar(x, y) ==
    /\ Declares(x)
    /\ y \in Usable
    /\ Report(Unreadable(y))
    /\ LET st == [states EXCEPT ![x] = Entry(states[y].is_struct,
                                             states[y].is_cref)]
       IN states' = IF states[y].is_struct THEN mark_moved(st, y) ELSE st
    /\ UNCHANGED borrow_map

(* let x: T = y;  with T a struct, or a scalar. *)
LetTyped(x, y, is_struct) ==
    /\ Declares(x)
    /\ y \in Usable
    /\ Report(Unreadable(y))
    /\ LET st == [states EXCEPT ![x] = Entry(is_struct, FALSE)]
       IN states' = IF is_struct THEN mark_moved(st, y) ELSE st
    /\ UNCHANGED borrow_map

(* let x: ref<T> = y; *)
LetRef(x, y) ==
    /\ Declares(x)
    /\ y \in Usable
    /\ LET st == [states EXCEPT ![x] = Default]
           free == st[y].state = "Free"
       IN /\ Report(Unreadable(y) \/ ~free)
          /\ states' = IF free THEN mark_mut_borrowed(st, y) ELSE st
          /\ borrow_map' = IF free THEN [borrow_map EXCEPT ![x] = y]
                                   ELSE borrow_map

(* let x: cref<T> = y; *)
LetCRef(x, y) ==
    /\ Declares(x)
    /\ y \in Usable
    /\ LET st == [states EXCEPT ![x] = Entry(FALSE, TRUE)]
           shared == st[y].state \in {"Free", "ImmutBorrowed"}
       IN /\ Report(Unreadable(y) \/ ~shared)
          /\ states' = IF shared THEN mark_immut_borrowed(st, y) ELSE st
          /\ borrow_map' = IF shared THEN [borrow_map EXCEPT ![x] = y]
                                     ELSE borrow_map

(* let x: own<T> = y; *)
LetOwn(x, y) ==
    /\ Declares(x)
    /\ y \in Usable
    /\ LET st == [states EXCEPT ![x] = Default]
           free == st[y].state = "Free"
       IN /\ Report(Unreadable(y) \/ ~free)
          /\ states' = IF free THEN mark_moved(st, y) ELSE st
    /\ UNCHANGED borrow_map

----------------------------------------------------------------------------
(* Expressions and assignments.                                            *)

Visits(y) ==
    /\ AtStatement
    /\ y \in Usable
    /\ stmts' = stmts + 1
    /\ UNCHANGED <<borrow_map, frames, call>>

(* A variable read anywhere in an expression. *)
Use(y) ==
    /\ Visits(y)
    /\ Report(Unreadable(y))
    /\ UNCHANGED states

(* y = e;  where e is not a variable. *)
AssignFresh(y) ==
    /\ Visits(y)
    /\ Report(Unwritable(y))
    /\ UNCHANGED states

(* t = y; *)
AssignVar(t, y) ==
    /\ Visits(y)
    /\ t \in Usable
    /\ Report(Unreadable(y) \/ Unwritable(t))
    /\ states' = IF states[y].state = "Free" /\ states[y].is_struct
                 THEN mark_moved(states, y)
                 ELSE states

(* y.f = e;  y[i] = e;  the object is checked as a read. *)
WriteThrough(y) ==
    /\ Visits(y)
    /\ Report(Unreadable(y) \/ states[y].is_cref)
    /\ UNCHANGED states

(* y.push(e) and the other mutating builtins: y is borrowed and released   *)
(* at once, but only when its name is known to hold a struct.              *)
CallMutating(y) ==
    /\ Visits(y)
    /\ Report(Unreadable(y) \/ (states[y].is_struct /\ states[y].state # "Free"))
    /\ UNCHANGED states

----------------------------------------------------------------------------
(* Calls: one step per argument that is a variable and whose parameter is  *)
(* not copied (self is the first), then the release of the borrowers the   *)
(* call made.  Reading a Moved or MutBorrowed argument is an error here as *)
(* it is in check_expr.                                                    *)

NextArg(y) ==
    /\ frames # <<>>
    /\ IF call = 0 THEN stmts < MaxStmts /\ stmts' = stmts + 1
                   ELSE UNCHANGED stmts
    /\ call < MaxArgs
    /\ y \in Usable
    /\ call' = call + 1
    /\ UNCHANGED frames

PassMove(y) ==
    /\ NextArg(y)
    /\ LET free == states[y].state = "Free"
       IN /\ Report(~free)
          /\ states' = IF free THEN mark_moved(states, y) ELSE states
    /\ UNCHANGED borrow_map

PassRef(y) ==
    /\ NextArg(y)
    /\ LET free == states[y].state = "Free"
       IN /\ Report(~free)
          /\ states' = IF free THEN mark_mut_borrowed(states, y) ELSE states
          /\ borrow_map' = IF free THEN [borrow_map EXCEPT ![call + 1] = y]
                                   ELSE borrow_map

PassCRef(y) ==
    /\ NextArg(y)
    /\ LET shared == states[y].state \in {"Free", "ImmutBorrowed"}
       IN /\ Report(~shared)
          /\ states' = IF shared THEN mark_immut_borrowed(states, y) ELSE states
          /\ borrow_map' = IF shared THEN [borrow_map EXCEPT ![call + 1] = y]
                                     ELSE borrow_map

EndCall ==
    /\ call > 0
    /\ states' = release_borrow(states, borrow_map, Slot)
    /\ borrow_map' = Unbind(borrow_map, Slot)
    /\ call' = 0
    /\ UNCHANGED <<frames, rejected, stmts>>

----------------------------------------------------------------------------
(* Compound statements.                                                    *)

Enters(frame) ==
    /\ AtStatement
    /\ Len(frames) < MaxDepth
    /\ frame.kind \in Features
    /\ frames' = Append(frames, frame)
    /\ stmts' = stmts + 1
    /\ UNCHANGED <<call, rejected>>

OpenBlock ==
    /\ Enters(Frame("block", {}, NoStates, NoBorrows, {}))
    /\ UNCHANGED <<states, borrow_map>>

(* The maps are saved in front of a loop body and of the first branch of   *)
(* an if.                                                                  *)
OpenLoop ==
    /\ Enters(Frame("loop", {}, states, borrow_map, {}))
    /\ UNCHANGED <<states, borrow_map>>

OpenIf ==
    /\ Enters(Frame("then", {}, states, borrow_map, {}))
    /\ UNCHANGED <<states, borrow_map>>

(* The body of a lambda with the parameters P is walked with empty maps. *)
OpenLambda(P) ==
    /\ Enters(Frame("lambda", P, states, borrow_map, {}))
    /\ P \subseteq Fresh
    /\ states' = NoStates
    /\ borrow_map' = NoBorrows

Exits(kinds) ==
    /\ frames # <<>> /\ call = 0
    /\ Top.kind \in kinds

(* Mutant: the block is left without releasing its borrowers. *)
CloseBlockEarly ==
    /\ Exits({"block"})
    /\ frames' = Below
    /\ UNCHANGED <<states, borrow_map, call, rejected, stmts>>

CloseBlock ==
    /\ Exits({"block"})
    /\ states' = ExitStates
    /\ borrow_map' = ExitBorrows
    /\ frames' = Below
    /\ UNCHANGED <<call, rejected, stmts>>

(* What was moved in the body is moved after the loop; the rest is as it   *)
(* was in front of it.                                                     *)
CloseLoop ==
    /\ Exits({"loop"})
    /\ states' = JoinMoved(Top.states, Moved(ExitStates))
    /\ borrow_map' = Top.borrow_map
    /\ frames' = Below
    /\ UNCHANGED <<call, rejected, stmts>>

CloseLambda ==
    /\ Exits({"lambda"})
    /\ states' = Top.states
    /\ borrow_map' = Top.borrow_map
    /\ frames' = Below
    /\ UNCHANGED <<call, rejected, stmts>>

(* Mutant: the maps are restored before the moves of the branch are        *)
(* collected.                                                              *)
MergedTooLate ==
    IF Top.kind = "then" THEN Moved(ExitStates)
                         ELSE Top.merged \cap Moved(Top.states)

(* The names moved in every branch of the if walked so far. *)
MergedMoves ==
    IF Top.kind = "then" THEN Moved(ExitStates)
                         ELSE Top.merged \cap Moved(ExitStates)

(* Mutant: the next branch starts from the states the last one left. *)
NextBranchUnrestored(kind) ==
    /\ Exits({"then", "elif"})
    /\ kind \in Features
    /\ states' = ExitStates
    /\ borrow_map' = Top.borrow_map
    /\ frames' = [frames EXCEPT ![Len(frames)] =
                     Frame(kind, {}, Top.states, Top.borrow_map, MergedMoves)]
    /\ UNCHANGED <<call, rejected, stmts>>

(* From one branch to the next, elif or else, which starts again from the  *)
(* maps saved in front of the if.                                          *)
NextBranch(kind) ==
    /\ Exits({"then", "elif"})
    /\ kind \in Features
    /\ states' = Top.states
    /\ borrow_map' = Top.borrow_map
    /\ frames' = [frames EXCEPT ![Len(frames)] =
                     Frame(kind, {}, Top.states, Top.borrow_map, MergedMoves)]
    /\ UNCHANGED <<call, rejected, stmts>>

(* The join.  An if with an elif and no else counts the missing else as a  *)
(* branch that moves nothing; a lone then does not.                        *)
EndIf ==
    /\ Exits({"then", "elif", "else"})
    /\ LET merged == IF Top.kind = "elif" THEN MergedMoves \cap Moved(Top.states)
                                          ELSE MergedMoves
       IN states' = JoinMoved(Top.states, merged)
    /\ borrow_map' = Top.borrow_map
    /\ frames' = Below
    /\ UNCHANGED <<call, rejected, stmts>>

----------------------------------------------------------------------------
Statement ==
    \/ \E x \in Var : LetUninit(x)
    \/ \E x \in Var : LetFresh(x, FALSE, FALSE)
    \/ \E x \in Var : LetFresh(x, TRUE, FALSE)
    \/ \E x \in Var : LetFresh(x, FALSE, TRUE)
    \/ \E x, y \in Var : LetVar(x, y)
    \/ \E x, y \in Var, is_struct \in BOOLEAN : LetTyped(x, y, is_struct)
    \/ \E x, y \in Var : LetRef(x, y)
    \/ \E x, y \in Var : LetCRef(x, y)
    \/ \E x, y \in Var : LetOwn(x, y)
    \/ \E y \in Var : Use(y)
    \/ \E y \in Var : AssignFresh(y)
    \/ \E t, y \in Var : AssignVar(t, y)
    \/ \E y \in Var : WriteThrough(y)
    \/ \E y \in Var : CallMutating(y)

Argument ==
    \/ \E y \in Var : PassMove(y)
    \/ \E y \in Var : PassRef(y)
    \/ \E y \in Var : PassCRef(y)
    \/ EndCall

Compound ==
    \/ OpenBlock
    \/ OpenLoop
    \/ OpenIf
    \/ \E P \in SUBSET Var : OpenLambda(P)
    \/ CloseBlock
    \/ CloseLoop
    \/ CloseLambda
    \/ \E kind \in {"elif", "else"} : NextBranch(kind)
    \/ EndIf

Next ==
    \/ \E P \in SUBSET Var : \E S, C \in SUBSET P :
          S \cap C = {} /\ check_function(P, S, C)
    \/ EndFunction
    \/ Statement
    \/ Argument
    \/ Compound

Spec == Init /\ [][Next]_vars

----------------------------------------------------------------------------
(* Properties. *)

FrameSet == [kind : FrameKind, names : SUBSET Var, states : [Var -> VarInfo],
             borrow_map : [Var \cup Slot -> Var \cup {None}],
             merged : SUBSET Var]

(* The checker's maps and its stack of blocks have the shape the code      *)
(* declares for them (VarInfo, borrow_map and scope_vars).                 *)
TypeOK ==
    /\ states \in [Var -> VarInfo]
    /\ borrow_map \in [Var \cup Slot -> Var \cup {None}]
    /\ frames \in Seq(FrameSet)
    /\ call \in 0..MaxArgs
    /\ rejected \in BOOLEAN
    /\ stmts \in Nat

(* The two maps tell the same story about a variable: nobody borrows it    *)
(* while it is free, exactly one borrower holds it while it is borrowed    *)
(* mutably, and immut_count is the number of its readers.                  *)
Agree(st, bm) ==
    \A v \in Var :
        /\ st[v].state = "Free" =>
              Borrowers(bm, v) = {} /\ st[v].immut_count = 0
        /\ st[v].state = "MutBorrowed" =>
              /\ st[v].immut_count = 0
              /\ \E b \in Var \cup Slot : Borrowers(bm, v) = {b}
        /\ st[v].state = "ImmutBorrowed" =>
              /\ st[v].immut_count = Cardinality(Borrowers(bm, v))
              /\ st[v].immut_count > 0

(* states and borrow_map agree, now and in every copy the checker has      *)
(* saved to return to after a loop, a branch or a lambda: a borrow is      *)
(* never released twice, and none is left behind by a restored copy.       *)
MapsAgree ==
    /\ Agree(states, borrow_map)
    /\ \A i \in DOMAIN frames : Agree(frames[i].states, frames[i].borrow_map)

(* Every borrower in bm is one of the first c arguments of the open call,  *)
(* or a variable of one of the first n blocks in fs, no further out than   *)
(* the variable it borrows.                                                *)
Nests(bm, fs, n, c) ==
    \A b \in Var \cup Slot : bm[b] # None =>
        \/ b \in 1..c
        \/ \E i, j \in 1..n :
              j <= i /\ b \in fs[i].names /\ bm[b] \in fs[j].names

(* A borrow never outlives its block, nor the call it was made for: who    *)
(* borrows is a variable of an open block, no further out than what it     *)
(* borrows, or an argument of the open call.  Once a function has been     *)
(* walked nothing is borrowed (scope_vars and call_borrowers name every    *)
(* borrower release_borrow has to find).                                   *)
BorrowsNest == Nests(borrow_map, frames, Len(frames), call)

(* What a block or a loop body moves stays moved when it is left, and      *)
(* nothing visited inside gives a moved variable back: not the release of  *)
(* the borrows it still has, not the maps restored after a loop.  Only a   *)
(* new declaration of the name does.                                       *)
MovesSurvive ==
    [][/\ frames # <<>> /\ Len(frames') <= Len(frames)
       /\ Top.kind \in {"function", "block", "loop"}
       => Moved(states) \subseteq Moved(states') \cup (Declared' \ Declared)]_vars
=============================================================================
