----------------------------- MODULE Ownership -----------------------------
(***************************************************************************)
(* What the program the borrow checker walks really does with its values,  *)
(* kept in history variables beside the checker of module BorrowChecker:   *)
(* which variables have given their value away on some path and on every   *)
(* path to the statement being visited, and which loans are live there.    *)
(* The properties compare the checker's verdict with that history.         *)
(*                                                                         *)
(* The rules the history follows are the ones the checker's error messages *)
(* and the repository's tests state: a value is moved by a let or an       *)
(* assignment from a variable of a struct, list or str type, by an own     *)
(* binding and by an argument passed by value or as own; a scalar is       *)
(* copied; a loan lasts until its holder's block, or the call, ends.       *)
(***************************************************************************)
EXTENDS BorrowChecker

VARIABLES
    owner,    \* the names whose variable holds a struct, a list or a str
    gone,     \* the names whose value is moved on some path to here
    lost,     \* the names whose value is moved on every path to here, not
              \* counting assignments from a variable that is borrowed
    paths,    \* what gone and lost were in front of each open block, and
              \* what they were at the end of the branches already walked
    loans,    \* the live loans
    faults    \* what the function has done wrong up to here

history == <<owner, gone, lost, paths, loans, faults>>

(* What the checker's rules overlook: of a borrowed variable, the write of *)
(* a field or an element (422-441), and the move by a let or an assignment *)
(* from it (205-206, 267-268, 411-413); and the use of a variable whose    *)
(* move is not kept, because it was such an assignment or because only     *)
(* some of the paths that join here have moved it (346-354).               *)
Overlooked == {"part written while borrowed", "moved while borrowed",
               "used after a forgotten move"}

Loan(holder, source, mut) ==
    [holder |-> holder, source |-> source, mut |-> mut]

Loans(y) == {l \in loans : l.source = y}
MutLoans(y) == {l \in Loans(y) : l.mut}

FaultIf(condition, fault) == IF condition THEN {fault} ELSE {}

ReadFaults(y) ==
    FaultIf(y \in lost, "used after a move")
        \cup FaultIf(y \in gone \ lost, "used after a forgotten move")
        \cup FaultIf(MutLoans(y) # {}, "read while mutably borrowed")

BorrowFaults(y, fault) == FaultIf(Loans(y) # {}, fault)
WriteFaults(y) == BorrowFaults(y, "write while borrowed")
TakeFaults(y) == BorrowFaults(y, "taken while borrowed")

HInit ==
    /\ Init
    /\ owner = {} /\ gone = {} /\ lost = {} /\ paths = <<>>
    /\ loans = {} /\ faults = {}

----------------------------------------------------------------------------
(* One step of the history per visit.                                      *)

(* The values that a let or an assignment from y moves.                    *)
MovedFrom(y) == {y} \cap owner
MoveFaults(y) == UNION {BorrowFaults(v, "moved while borrowed") : v \in MovedFrom(y)}

(* x is a new variable and the values of M go elsewhere. *)
NewOwner(x, owns, M) ==
    /\ owner' = IF owns THEN owner \cup {x} ELSE owner \ {x}
    /\ gone' = (gone \ {x}) \cup M
    /\ lost' = (lost \ {x}) \cup M
    /\ UNCHANGED paths

Borrows(holder, y, mut) ==
    /\ loans' = loans \cup {Loan(holder, y, mut)}
    /\ faults' = faults \cup ReadFaults(y)
                        \cup FaultIf(mut /\ Loans(y) # {}, "borrowed twice")

HFunction(P, S, C) ==
    /\ check_function(P, S, C)
    /\ owner' = S /\ gone' = {} /\ lost' = {} /\ paths' = <<>>
    /\ loans' = {} /\ faults' = {}

(* A scalar, with a name no earlier block has used: see the README.        *)
HLetUninit(x) ==
    /\ LetUninit(x)
    /\ states[x] = Default
    /\ NewOwner(x, FALSE, {})
    /\ UNCHANGED <<loans, faults>>

(* The checker takes the result of every call for a struct; the program    *)
(* may call a function that returns a scalar.                              *)
Owning(is_struct) ==
    IF "scalar call" \in Features THEN {is_struct, FALSE} ELSE {is_struct}

HLetFresh(x, is_struct, is_cref) ==
    /\ LetFresh(x, is_struct, is_cref)
    /\ \E owns \in Owning(is_struct) : NewOwner(x, owns, {})
    /\ UNCHANGED <<loans, faults>>

(* A let that names the type of x names the type y has. *)
HLetFrom(x, y) ==
    /\ \/ LetVar(x, y)
       \/ LetTyped(x, y, y \in owner)
    /\ NewOwner(x, y \in owner, MovedFrom(y))
    /\ faults' = faults \cup ReadFaults(y) \cup MoveFaults(y)
    /\ UNCHANGED loans

HLetRef(x, y) ==
    /\ LetRef(x, y)
    /\ NewOwner(x, FALSE, {})
    /\ Borrows(x, y, TRUE)

HLetCRef(x, y) ==
    /\ LetCRef(x, y)
    /\ NewOwner(x, FALSE, {})
    /\ Borrows(x, y, FALSE)

HLetOwn(x, y) ==
    /\ LetOwn(x, y)
    /\ NewOwner(x, FALSE, {y})
    /\ faults' = faults \cup ReadFaults(y) \cup TakeFaults(y)
    /\ UNCHANGED loans

HUse(y) ==
    /\ Use(y)
    /\ faults' = faults \cup ReadFaults(y)
    /\ UNCHANGED <<owner, gone, lost, paths, loans>>

HAssignFresh(y) ==
    /\ AssignFresh(y)
    /\ faults' = faults \cup WriteFaults(y)
    /\ UNCHANGED <<owner, gone, lost, paths, loans>>

(* The checker notices no move of a borrowed variable: `lost` leaves it    *)
(* out, the value is gone all the same.                                    *)
HAssignVar(t, y) ==
    /\ AssignVar(t, y)
    /\ t \in owner <=> y \in owner
    /\ gone' = gone \cup MovedFrom(y)
    /\ lost' = IF Loans(y) = {} THEN lost \cup MovedFrom(y) ELSE lost
    /\ faults' = faults \cup ReadFaults(y) \cup MoveFaults(y) \cup WriteFaults(t)
    /\ UNCHANGED <<owner, paths, loans>>

(* A part of y is written: a field or an element.                          *)
HWriteThrough(y) ==
    /\ WriteThrough(y)
    /\ faults' = faults \cup ReadFaults(y)
                        \cup BorrowFaults(y, "part written while borrowed")
    /\ UNCHANGED <<owner, gone, lost, paths, loans>>

HCallMutating(y) ==
    /\ CallMutating(y)
    /\ y \in owner
    /\ faults' = faults \cup ReadFaults(y) \cup WriteFaults(y)
    /\ UNCHANGED <<owner, gone, lost, paths, loans>>

HPassMove(y) ==
    /\ PassMove(y)
    /\ gone' = gone \cup {y}
    /\ lost' = lost \cup {y}
    /\ faults' = faults \cup ReadFaults(y) \cup TakeFaults(y)
    /\ UNCHANGED <<owner, paths, loans>>

HPassRef(y) ==
    /\ PassRef(y)
    /\ Borrows(call + 1, y, TRUE)
    /\ UNCHANGED <<owner, gone, lost, paths>>

HPassCRef(y) ==
    /\ PassCRef(y)
    /\ Borrows(call + 1, y, FALSE)
    /\ UNCHANGED <<owner, gone, lost, paths>>

(* The loans held by H come to an end. *)
Settle(H) == loans' = {l \in loans : l.holder \notin H}

HEndCall ==
    /\ EndCall
    /\ Settle(Slot)
    /\ UNCHANGED <<owner, gone, lost, paths, faults>>

----------------------------------------------------------------------------
(* Blocks: the paths through the program join behind them.                 *)

Path == paths[Len(paths)]
Outer == SubSeq(paths, 1, Len(paths) - 1)

Enter == paths' = Append(paths, [gone |-> gone, lost |-> lost,
                                 everGone |-> {}, everLost |-> Var])

HOpen ==
    /\ OpenBlock \/ OpenLoop \/ OpenIf
    /\ Enter
    /\ UNCHANGED <<owner, gone, lost, loans, faults>>

(* The parameters of a lambda are scalars here: the checker keeps no entry *)
(* for them, whatever their type (see the README).                         *)
HOpenLambda(P) ==
    /\ OpenLambda(P)
    /\ Enter
    /\ owner' = owner \ P /\ gone' = gone \ P /\ lost' = lost \ P
    /\ UNCHANGED <<loans, faults>>

HCloseStraight ==
    /\ CloseBlock \/ CloseLambda
    /\ Settle(Top.names)
    /\ paths' = Outer
    /\ UNCHANGED <<owner, gone, lost, faults>>

(* The body may not run at all. *)
HCloseLoop ==
    /\ CloseLoop
    /\ Settle(Top.names)
    /\ gone' = gone \cup Path.gone
    /\ lost' = lost \cap Path.lost
    /\ paths' = Outer
    /\ UNCHANGED <<owner, faults>>

HNextBranch(kind) ==
    /\ NextBranch(kind)
    /\ Settle(Top.names)
    /\ gone' = Path.gone
    /\ lost' = Path.lost
    /\ paths' = [paths EXCEPT ![Len(paths)].everGone = @ \cup gone,
                              ![Len(paths)].everLost = @ \cap lost]
    /\ UNCHANGED <<owner, faults>>

(* Without an else there is a path around every branch. *)
HEndIf ==
    /\ EndIf
    /\ Settle(Top.names)
    /\ LET around == Top.kind # "else"
       IN /\ gone' = gone \cup Path.everGone
                          \cup (IF around THEN Path.gone ELSE {})
          /\ lost' = lost \cap Path.everLost
                          \cap (IF around THEN Path.lost ELSE Var)
    /\ paths' = Outer
    /\ UNCHANGED <<owner, faults>>

HEndFunction ==
    /\ EndFunction
    /\ Settle(Top.names)
    /\ UNCHANGED <<owner, gone, lost, paths, faults>>

----------------------------------------------------------------------------
HNext ==
    \/ \E P \in SUBSET Var : \E S, C \in SUBSET P :
          S \cap C = {} /\ HFunction(P, S, C)
    \/ \E x \in Var : HLetUninit(x)
    \/ \E x \in Var : HLetFresh(x, FALSE, FALSE)
    \/ \E x \in Var : HLetFresh(x, TRUE, FALSE)
    \/ \E x, y \in Var : HLetFrom(x, y)
    \/ \E x, y \in Var : HLetRef(x, y)
    \/ \E x, y \in Var : HLetCRef(x, y)
    \/ \E x, y \in Var : HLetOwn(x, y)
    \/ \E y \in Var : HUse(y)
    \/ \E y \in Var : HAssignFresh(y)
    \/ \E t, y \in Var : HAssignVar(t, y)
    \/ \E y \in Var : HWriteThrough(y)
    \/ \E y \in Var : HCallMutating(y)
    \/ \E y \in Var : HPassMove(y)
    \/ \E y \in Var : HPassRef(y)
    \/ \E y \in Var : HPassCRef(y)
    \/ HEndCall
    \/ HOpen
    \/ \E P \in SUBSET Var : HOpenLambda(P)
    \/ HCloseStraight
    \/ HCloseLoop
    \/ \E kind \in {"elif", "else"} : HNextBranch(kind)
    \/ HEndIf
    \/ HEndFunction

HSpec == HInit /\ [][HNext]_<<vars, history>>

----------------------------------------------------------------------------
(* Properties. *)

(* No lambda is being walked: inside one the checker has put its maps away. *)
InFunction == \A i \in DOMAIN frames : frames[i].kind # "lambda"

(* What a program that the checker accepts does wrong is one of the three  *)
(* things that its rules overlook. It never reads what is borrowed         *)
(* mutably, never assigns to what is borrowed, calls a mutating method on  *)
(* it, binds it as own or passes it by value, never holds a mutable loan   *)
(* of a variable beside another loan of it, and never uses what every path *)
(* has moved otherwise than by assigning from it while it was borrowed:    *)
(* through nested blocks, branches, loop bodies and calls (the errors "was *)
(* moved", "cannot read", "cannot write", "cannot mutably borrow" and      *)
(* "cannot be moved here" of borrow_checker.cpp).                          *)
NoConflict == ~rejected => faults \subseteq Overlooked

(* No valid program is rejected for a move: the checker takes a variable   *)
(* for moved only if some path to this statement does move its value,      *)
(* however branches, loops and blocks are nested.                          *)
MovedOnSomePath == InFunction => Moved(states) \cap Declared \subseteq gone

(* What every path to this statement has moved, the checker knows to be    *)
(* moved: it is forgotten by no join of branches and no restored map; but  *)
(* for assignments from borrowed variables, which are no moves to it.      *)
CertainMovesKnown == InFunction /\ ~rejected => lost \cap Declared \subseteq Moved(states)

(* A program that the checker accepts uses no variable whose value has     *)
(* been moved on some path to the use (error "was moved and cannot be used *)
(* here", borrow_checker.cpp:373).                                         *)
NoUseAfterMove ==
    ~rejected => faults \cap {"used after a move", "used after a forgotten move"} = {}
=============================================================================
