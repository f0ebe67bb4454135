------------------------ MODULE BorrowChecker_proofs ------------------------
(***************************************************************************)
(* Proofs about the borrow checker, for every set of names, every bound    *)
(* and every set of features.                                              *)
(***************************************************************************)
EXTENDS BorrowChecker, FiniteSetTheorems, SequenceTheorems, TLAPS

BorrowMap == [Var \cup Slot -> Var \cup {None}]

----------------------------------------------------------------------------
(* The operators on the two maps return maps. *)

(* A marked VarInfo is a VarInfo, whichever state it is marked with. *)
LEMMA MarkedType ==
    ASSUME NEW info \in VarInfo, NEW state \in VarState, NEW n \in Nat
    PROVE  /\ Marked(info, state, n) \in VarInfo
           /\ Marked(info, state, n).state = state
           /\ Marked(info, state, n).immut_count = n
BY DEF Marked, VarInfo

(* mark_* sets the state and the count it is given and keeps the rest. *)
LEMMA MarkedAs ==
    ASSUME NEW info \in VarInfo, NEW n \in Nat
    PROVE  /\ Marked(info, "Free", n).state = "Free"
           /\ Marked(info, "Free", n).immut_count = n
           /\ Marked(info, "ImmutBorrowed", n).state = "ImmutBorrowed"
           /\ Marked(info, "ImmutBorrowed", n).immut_count = n
           /\ Marked(info, "Moved", n).state = "Moved"
<1>1. {"Free", "ImmutBorrowed", "Moved"} \subseteq VarState  BY DEF VarState
<1> QED  BY <1>1, MarkedType

(* release_borrow on one source returns a VarInfo. *)
LEMMA ReleasedType ==
    ASSUME NEW info \in VarInfo, NEW k \in Nat
    PROVE  Released(info, k) \in VarInfo
<1>1. /\ info.immut_count \in Nat
      /\ info.immut_count > k => info.immut_count - k \in Nat
  BY DEF VarInfo
<1>2. 0 \in Nat /\ "Free" \in VarState /\ "ImmutBorrowed" \in VarState
  BY DEF VarState
<1> QED  BY <1>1, <1>2, MarkedType DEF Released

(* The borrowers of a variable are finitely many: they are names and       *)
(* argument positions.                                                     *)
LEMMA BorrowersFinite ==
    ASSUME NEW bm \in BorrowMap, NEW v
    PROVE  /\ IsFiniteSet(Borrowers(bm, v))
           /\ Borrowers(bm, v) \subseteq Var \cup Slot
<1>1. IsFiniteSet(Slot)  BY FS_Interval, BoundAssumption DEF Slot
<1>2. IsFiniteSet(Var \cup Slot)  BY <1>1, FS_Union, VarAssumption
<1>3. Borrowers(bm, v) \subseteq Var \cup Slot  BY DEF Borrowers, BorrowMap
<1> QED  BY <1>2, <1>3, FS_Subset

(* The end of a block or of a call leaves maps of the right shape. *)
LEMMA ReleaseType ==
    ASSUME NEW st \in [Var -> VarInfo], NEW bm \in BorrowMap, NEW R
    PROVE  /\ release_borrow(st, bm, R) \in [Var -> VarInfo]
           /\ Unbind(bm, R) \in BorrowMap
<1>1. ASSUME NEW v \in Var
      PROVE  Released(st[v], Cardinality(Borrowers(bm, v) \cap R)) \in VarInfo
  <2>1. IsFiniteSet(Borrowers(bm, v) \cap R)
    BY BorrowersFinite, FS_Intersection
  <2>2. Cardinality(Borrowers(bm, v) \cap R) \in Nat
    BY <2>1, FS_CardinalityType
  <2> QED  BY <2>2, ReleasedType
<1>2. release_borrow(st, bm, R) \in [Var -> VarInfo]
  BY <1>1 DEF release_borrow
<1>3. Unbind(bm, R) \in BorrowMap
  BY DEF Unbind, BorrowMap
<1> QED  BY <1>2, <1>3

(* So do the marks, a new entry and a join. *)
LEMMA MarkType ==
    ASSUME NEW st \in [Var -> VarInfo], NEW v \in Var
    PROVE  /\ mark_moved(st, v) \in [Var -> VarInfo]
           /\ mark_mut_borrowed(st, v) \in [Var -> VarInfo]
           /\ mark_immut_borrowed(st, v) \in [Var -> VarInfo]
           /\ \A s, c \in BOOLEAN :
                 [st EXCEPT ![v] = Entry(s, c)] \in [Var -> VarInfo]
           /\ \A M : JoinMoved(st, M) \in [Var -> VarInfo]
<1>1. st[v] \in VarInfo /\ st[v].immut_count + 1 \in Nat
  BY DEF VarInfo
<1>2. {"Moved", "MutBorrowed", "ImmutBorrowed"} \subseteq VarState
  BY DEF VarState
<1>3. mark_moved(st, v) \in [Var -> VarInfo]
  BY <1>1, <1>2, MarkedType DEF mark_moved
<1>4. mark_mut_borrowed(st, v) \in [Var -> VarInfo]
  BY <1>1, <1>2, MarkedType DEF mark_mut_borrowed
<1>5. mark_immut_borrowed(st, v) \in [Var -> VarInfo]
  BY <1>1, <1>2, MarkedType DEF mark_immut_borrowed
<1>6. ASSUME NEW s \in BOOLEAN, NEW c \in BOOLEAN
      PROVE  [st EXCEPT ![v] = Entry(s, c)] \in [Var -> VarInfo]
  BY DEF Entry, VarInfo, VarState
<1>7. ASSUME NEW M
      PROVE  JoinMoved(st, M) \in [Var -> VarInfo]
  <2>1. \A w \in Var : /\ st[w] \in VarInfo /\ st[w].immut_count \in Nat
                        /\ Marked(st[w], "Moved", st[w].immut_count) \in VarInfo
    BY <1>2, MarkedType DEF VarInfo
  <2> QED  BY <2>1 DEF JoinMoved
<1> QED  BY <1>3, <1>4, <1>5, <1>6, <1>7

(* The maps check_function starts from have the shape of the maps. *)
LEMMA EmptyType ==
    /\ NoStates \in [Var -> VarInfo]
    /\ NoBorrows \in BorrowMap
BY DEF NoStates, NoBorrows, Default, Entry, BorrowMap, VarInfo, VarState

----------------------------------------------------------------------------
(* The stack of blocks. *)

(* A stack with a block has an innermost one, which is a frame. *)
LEMMA TopOfStack ==
    ASSUME frames \in Seq(FrameSet), frames # <<>>
    PROVE  /\ Len(frames) \in Nat \ {0}
           /\ Top \in FrameSet
           /\ Top = frames[Len(frames)]
           /\ DOMAIN frames = 1..Len(frames)
BY DEF Top

(* Entering, leaving and renaming touch the innermost block only. *)
LEMMA PushFrame ==
    ASSUME frames \in Seq(FrameSet), NEW f \in FrameSet
    PROVE  /\ Append(frames, f) \in Seq(FrameSet)
           /\ Len(Append(frames, f)) = Len(frames) + 1
           /\ \A i \in 1..Len(frames) : Append(frames, f)[i] = frames[i]
           /\ Append(frames, f)[Len(frames) + 1] = f
BY AppendProperties

(* Leaving a block drops the innermost one and keeps the others. *)
LEMMA PopFrame ==
    ASSUME frames \in Seq(FrameSet), frames # <<>>
    PROVE  /\ Below \in Seq(FrameSet)
           /\ Len(Below) = Len(frames) - 1
           /\ \A i \in 1..(Len(frames) - 1) : Below[i] = frames[i]
<1>1. Len(frames) \in Nat \ {0} /\ \A i \in 1..Len(frames) : frames[i] \in FrameSet
  BY TopOfStack, ElementOfSeq
<1>2. \A i \in 1..(Len(frames) - 1) : frames[i] \in FrameSet  BY <1>1
<1> DEFINE n == Len(frames) - 1
<1>3. n \in Int /\ 1 \in Int /\ n >= 0  BY <1>1
<1>4. /\ SubSeq(frames, 1, n) \in Seq(FrameSet)
      /\ Len(SubSeq(frames, 1, n)) = IF 1 <= n THEN n - 1 + 1 ELSE 0
      /\ \A i \in 1..(n - 1 + 1) : SubSeq(frames, 1, n)[i] = frames[1 + i - 1]
  BY ONLY <1>2, <1>3, SubSeqProperties
<1>5. n - 1 + 1 = n /\ \A i \in 1..n : 1 + i - 1 = i  BY <1>3
<1>6. \A k \in Int : k >= 0 => (IF 1 <= k THEN k - 1 + 1 ELSE 0) = k
  OBVIOUS
<1>7. Len(SubSeq(frames, 1, n)) = n  BY ONLY <1>3, <1>4, <1>6
<1> QED  BY <1>4, <1>5, <1>7 DEF Below

(* Replacing the innermost block keeps the others and the depth. *)
LEMMA ChangeTop ==
    ASSUME frames \in Seq(FrameSet), frames # <<>>, NEW f \in FrameSet
    PROVE  /\ [frames EXCEPT ![Len(frames)] = f] \in Seq(FrameSet)
           /\ Len([frames EXCEPT ![Len(frames)] = f]) = Len(frames)
           /\ \A i \in 1..Len(frames) : [frames EXCEPT ![Len(frames)] = f][i]
                    = IF i = Len(frames) THEN f ELSE frames[i]
BY TopOfStack, ExceptSeq

(* analyze_block and the loops build frames of the right shape. *)
LEMMA FrameType ==
    ASSUME NEW kind \in FrameKind, NEW names \in SUBSET Var,
           NEW st \in [Var -> VarInfo], NEW bm \in BorrowMap,
           NEW moved \in SUBSET Var
    PROVE  Frame(kind, names, st, bm, moved) \in FrameSet
BY DEF Frame, FrameSet, BorrowMap

(* Declaring a name in a frame gives a frame. *)
LEMMA NameFrame ==
    ASSUME frames \in Seq(FrameSet), frames # <<>>, NEW x \in Var
    PROVE  /\ WithName(x) \in Seq(FrameSet)
           /\ Len(WithName(x)) = Len(frames)
           /\ \A i \in 1..Len(frames) : WithName(x)[i]
                = IF i = Len(frames)
                  THEN Frame(Top.kind, Top.names \cup {x}, Top.states,
                             Top.borrow_map, Top.merged)
                  ELSE frames[i]
<1> DEFINE f == Frame(Top.kind, Top.names \cup {x}, Top.states,
                      Top.borrow_map, Top.merged)
<1>1. Top \in FrameSet  BY TopOfStack
<1>2. /\ Top.kind \in FrameKind
      /\ Top.names \cup {x} \in SUBSET Var
      /\ Top.states \in [Var -> VarInfo]
      /\ Top.borrow_map \in BorrowMap
      /\ Top.merged \in SUBSET Var
  BY <1>1 DEF FrameSet, BorrowMap
<1>3. f \in FrameSet
  BY ONLY <1>2, FrameType
<1> QED  BY <1>3, ChangeTop DEF WithName

----------------------------------------------------------------------------
(* Type correctness. *)

(* The declaration of a name keeps the stack of blocks well typed. *)
LEMMA DeclaresType ==
    ASSUME TypeOK, NEW x \in Var, Declares(x)
    PROVE  frames' \in Seq(FrameSet) /\ call' \in 0..MaxArgs /\ stmts' \in Nat
<1>1. frames # <<>>  BY DEF Declares, AtStatement
<1>2. frames' \in Seq(FrameSet)  BY <1>1, NameFrame DEF Declares, TypeOK
<1> QED  BY <1>2 DEF Declares, TypeOK

(* Reporting an error keeps the flag of errors a Boolean. *)
LEMMA ReportType ==
    ASSUME TypeOK, NEW e, Report(e)
    PROVE  rejected' \in BOOLEAN
BY DEF TypeOK, Report

(* Binding a borrower to its source keeps the map of borrows. *)
LEMMA BindType ==
    ASSUME NEW bm \in BorrowMap, NEW b \in Var \cup Slot, NEW y \in Var
    PROVE  [bm EXCEPT ![b] = y] \in BorrowMap
BY DEF BorrowMap

(* Every statement of analyze_stmt keeps TypeOK. *)
LEMMA StatementType ==
    ASSUME TypeOK, Statement
    PROVE  TypeOK'
<1> USE DEF BorrowMap
<1>0. states \in [Var -> VarInfo] /\ borrow_map \in BorrowMap
  BY DEF TypeOK
<1>1. ASSUME NEW x \in Var, LetUninit(x)
      PROVE  TypeOK'
  BY <1>1, DeclaresType DEF LetUninit, TypeOK
<1>2. ASSUME NEW x \in Var, NEW s \in BOOLEAN, NEW c \in BOOLEAN,
             LetFresh(x, s, c)
      PROVE  TypeOK'
  <2>1. states' \in [Var -> VarInfo]  BY <1>0, <1>2, MarkType DEF LetFresh
  <2> QED  BY <1>2, <2>1, DeclaresType DEF LetFresh, TypeOK
<1>3. ASSUME NEW x \in Var, NEW y \in Var, LetVar(x, y)
      PROVE  TypeOK'
  <2>1. states[y].is_struct \in BOOLEAN /\ states[y].is_cref \in BOOLEAN
    BY <1>0 DEF VarInfo
  <2>2. states' \in [Var -> VarInfo]
    BY <1>0, <1>3, <2>1, MarkType DEF LetVar
  <2> QED  BY <1>3, <2>2, DeclaresType, ReportType DEF LetVar, TypeOK
<1>4. ASSUME NEW x \in Var, NEW y \in Var, NEW s \in BOOLEAN, LetTyped(x, y, s)
      PROVE  TypeOK'
  <2>1. states' \in [Var -> VarInfo]  BY <1>0, <1>4, MarkType DEF LetTyped
  <2> QED  BY <1>4, <2>1, DeclaresType, ReportType DEF LetTyped, TypeOK
<1>5. ASSUME NEW x \in Var, NEW y \in Var, LetRef(x, y)
      PROVE  TypeOK'
  <2>1. states' \in [Var -> VarInfo]
    BY <1>0, <1>5, MarkType DEF LetRef, Default
  <2>2. borrow_map' \in BorrowMap  BY <1>0, <1>5, BindType DEF LetRef
  <2>3. rejected' \in BOOLEAN  BY <1>5, ReportType DEF LetRef
  <2> QED  BY <1>5, <2>1, <2>2, <2>3, DeclaresType DEF LetRef, TypeOK
<1>6. ASSUME NEW x \in Var, NEW y \in Var, LetCRef(x, y)
      PROVE  TypeOK'
  <2>1. states' \in [Var -> VarInfo]  BY <1>0, <1>6, MarkType DEF LetCRef
  <2>2. borrow_map' \in BorrowMap  BY <1>0, <1>6, BindType DEF LetCRef
  <2>3. rejected' \in BOOLEAN  BY <1>6, ReportType DEF LetCRef
  <2> QED  BY <1>6, <2>1, <2>2, <2>3, DeclaresType DEF LetCRef, TypeOK
<1>7. ASSUME NEW x \in Var, NEW y \in Var, LetOwn(x, y)
      PROVE  TypeOK'
  <2>1. states' \in [Var -> VarInfo]
    BY <1>0, <1>7, MarkType DEF LetOwn, Default
  <2>2. rejected' \in BOOLEAN  BY <1>7, ReportType DEF LetOwn
  <2> QED  BY <1>7, <2>1, <2>2, DeclaresType DEF LetOwn, TypeOK
<1>8. ASSUME NEW y \in Var, Visits(y), UNCHANGED states, NEW e, Report(e)
      PROVE  TypeOK'
  BY <1>8, ReportType DEF Visits, TypeOK
<1>9. ASSUME NEW t \in Var, NEW y \in Var, AssignVar(t, y)
      PROVE  TypeOK'
  <2>1. states' \in [Var -> VarInfo]  BY <1>0, <1>9, MarkType DEF AssignVar
  <2> QED  BY <1>9, <2>1, ReportType DEF AssignVar, Visits, TypeOK
<1>10. ASSUME NEW y \in Var,
              Use(y) \/ AssignFresh(y) \/ WriteThrough(y) \/ CallMutating(y)
       PROVE  TypeOK'
  BY <1>8, <1>10 DEF Use, AssignFresh, WriteThrough, CallMutating
<1> QED
  BY <1>1, <1>2, <1>3, <1>4, <1>5, <1>6, <1>7, <1>9, <1>10 DEF Statement

(* Every effect of resolve_call_args on an argument keeps TypeOK. *)
LEMMA ArgumentType ==
    ASSUME TypeOK, Argument
    PROVE  TypeOK'
<1>0. /\ states \in [Var -> VarInfo] /\ borrow_map \in BorrowMap
      /\ MaxArgs \in Nat /\ call \in 0..MaxArgs /\ stmts \in Nat
  BY BoundAssumption DEF TypeOK, BorrowMap
<1>1. ASSUME NEW y \in Var, NextArg(y)
      PROVE  /\ frames' \in Seq(FrameSet) /\ call' \in 0..MaxArgs
             /\ stmts' \in Nat /\ call + 1 \in Var \cup Slot
  BY <1>0, <1>1 DEF NextArg, TypeOK, Slot
<1>2. ASSUME NEW y \in Var, PassMove(y)
      PROVE  TypeOK'
  <2>1. states' \in [Var -> VarInfo]  BY <1>0, <1>2, MarkType DEF PassMove
  <2>2. rejected' \in BOOLEAN  BY <1>2, ReportType DEF PassMove
  <2> QED  BY <1>1, <1>2, <2>1, <2>2 DEF PassMove, TypeOK
<1>3. ASSUME NEW y \in Var, PassRef(y)
      PROVE  TypeOK'
  <2>1. states' \in [Var -> VarInfo]  BY <1>0, <1>3, MarkType DEF PassRef
  <2>2. borrow_map' \in BorrowMap  BY <1>0, <1>1, <1>3, BindType DEF PassRef
  <2>3. rejected' \in BOOLEAN  BY <1>3, ReportType DEF PassRef
  <2> QED  BY <1>1, <1>3, <2>1, <2>2, <2>3 DEF PassRef, TypeOK, BorrowMap
<1>4. ASSUME NEW y \in Var, PassCRef(y)
      PROVE  TypeOK'
  <2>1. states' \in [Var -> VarInfo]  BY <1>0, <1>4, MarkType DEF PassCRef
  <2>2. borrow_map' \in BorrowMap  BY <1>0, <1>1, <1>4, BindType DEF PassCRef
  <2>3. rejected' \in BOOLEAN  BY <1>4, ReportType DEF PassCRef
  <2> QED  BY <1>1, <1>4, <2>1, <2>2, <2>3 DEF PassCRef, TypeOK, BorrowMap
<1>5. CASE EndCall
  <2>1. states' \in [Var -> VarInfo] /\ borrow_map' \in BorrowMap
    BY <1>0, <1>5, ReleaseType DEF EndCall
  <2>2. call' \in 0..MaxArgs  BY <1>0, <1>5 DEF EndCall
  <2> QED  BY <1>5, <2>1, <2>2 DEF EndCall, TypeOK, BorrowMap
<1> QED  BY <1>2, <1>3, <1>4, <1>5 DEF Argument

(* Entering, leaving and joining blocks keeps TypeOK. *)
LEMMA CompoundType ==
    ASSUME TypeOK, Compound
    PROVE  TypeOK'
<1>0. /\ states \in [Var -> VarInfo] /\ borrow_map \in BorrowMap
      /\ frames \in Seq(FrameSet)
  BY DEF TypeOK, BorrowMap
<1>1. /\ NoStates \in [Var -> VarInfo] /\ NoBorrows \in BorrowMap
      /\ {"block", "loop", "then", "elif", "else", "lambda"} \subseteq FrameKind
      /\ {} \in SUBSET Var
  BY EmptyType DEF FrameKind
<1>2. ASSUME NEW f \in FrameSet, Enters(f), states' \in [Var -> VarInfo],
             borrow_map' \in BorrowMap
      PROVE  TypeOK'
  BY <1>0, <1>2, PushFrame DEF Enters, TypeOK, BorrowMap
<1>3. CASE OpenBlock
  BY <1>0, <1>1, <1>2, <1>3, FrameType DEF OpenBlock
<1>4. CASE OpenLoop
  BY <1>0, <1>1, <1>2, <1>4, FrameType DEF OpenLoop
<1>5. CASE OpenIf
  BY <1>0, <1>1, <1>2, <1>5, FrameType DEF OpenIf
<1>6. ASSUME NEW P \in SUBSET Var, OpenLambda(P)
      PROVE  TypeOK'
  BY <1>0, <1>1, <1>2, <1>6, FrameType DEF OpenLambda
<1>7. ASSUME frames # <<>>
      PROVE  /\ ExitStates \in [Var -> VarInfo] /\ ExitBorrows \in BorrowMap
             /\ Top.states \in [Var -> VarInfo] /\ Top.borrow_map \in BorrowMap
             /\ Below \in Seq(FrameSet)
             /\ \A M : JoinMoved(Top.states, M) \in [Var -> VarInfo]
             /\ MergedMoves \in SUBSET Var
  <2>1. Top \in FrameSet /\ Below \in Seq(FrameSet)
    BY <1>0, <1>7, TopOfStack, PopFrame
  <2>2. Top.states \in [Var -> VarInfo] /\ Top.borrow_map \in BorrowMap
    BY <2>1 DEF FrameSet, BorrowMap
  <2>3. \A M : JoinMoved(Top.states, M) \in [Var -> VarInfo]
    <3>1. \A w \in Var : /\ Top.states[w] \in VarInfo
                          /\ Top.states[w].immut_count \in Nat
      BY <2>2 DEF VarInfo
    <3>2. \A w \in Var :
            Marked(Top.states[w], "Moved", Top.states[w].immut_count) \in VarInfo
      BY <3>1, MarkedType DEF VarState
    <3> QED  BY <3>1, <3>2 DEF JoinMoved
  <2>4. ExitStates \in [Var -> VarInfo] /\ ExitBorrows \in BorrowMap
    BY <1>0, ReleaseType DEF ExitStates, ExitBorrows
  <2>5. MergedMoves \in SUBSET Var  BY DEF MergedMoves, Moved
  <2> QED  BY <2>1, <2>2, <2>3, <2>4, <2>5
<1>8. CASE CloseBlock
  BY <1>7, <1>8 DEF CloseBlock, Exits, TypeOK, BorrowMap
<1>9. CASE CloseLoop
  BY <1>7, <1>9 DEF CloseLoop, Exits, TypeOK, BorrowMap
<1>10. CASE CloseLambda
  BY <1>7, <1>10 DEF CloseLambda, Exits, TypeOK, BorrowMap
<1>11. ASSUME NEW kind \in {"elif", "else"}, NextBranch(kind)
       PROVE  TypeOK'
  <2>1. frames # <<>>  BY <1>11 DEF NextBranch, Exits
  <2>2. Frame(kind, {}, Top.states, Top.borrow_map, MergedMoves) \in FrameSet
    BY <1>1, <1>7, <2>1, FrameType
  <2>3. frames' \in Seq(FrameSet)
    BY <1>0, <1>11, <2>1, <2>2, ChangeTop DEF NextBranch
  <2> QED  BY <1>7, <1>11, <2>1, <2>3 DEF NextBranch, TypeOK, BorrowMap
<1>12. CASE EndIf
  BY <1>7, <1>12 DEF EndIf, Exits, TypeOK, BorrowMap
<1> QED  BY <1>3, <1>4, <1>5, <1>6, <1>8, <1>9, <1>10, <1>11, <1>12 DEF Compound

(* Starting and ending a function keeps TypeOK. *)
LEMMA FunctionType ==
    ASSUME TypeOK, NEW P \in SUBSET Var, NEW S, NEW C,
           check_function(P, S, C) \/ EndFunction
    PROVE  TypeOK'
<1>0. /\ states \in [Var -> VarInfo] /\ borrow_map \in BorrowMap
  BY DEF TypeOK, BorrowMap
<1>1. CASE check_function(P, S, C)
  <2>1. states' \in [Var -> VarInfo]
    BY <1>1 DEF check_function, Entry, VarInfo, VarState
  <2>2. Frame("function", P, NoStates, NoBorrows, {}) \in FrameSet
    BY FrameType, EmptyType DEF FrameKind
  <2>3. frames' \in Seq(FrameSet)  BY <1>1, <2>2 DEF check_function
  <2> QED  BY <1>1, <2>1, <2>3, EmptyType DEF check_function, TypeOK, BorrowMap
<1>2. CASE EndFunction
  <2>1. states' \in [Var -> VarInfo] /\ borrow_map' \in BorrowMap
    BY <1>0, <1>2, ReleaseType DEF EndFunction, ExitStates, ExitBorrows
  <2> QED  BY <1>2, <2>1 DEF EndFunction, TypeOK, BorrowMap
<1> QED  BY <1>1, <1>2

(* Every step of the checker keeps its maps and its stack of blocks of the *)
(* shape TypeOK says.                                                      *)
LEMMA StepType ==
    TypeOK /\ [Next]_vars => TypeOK'
<1> SUFFICES ASSUME TypeOK, [Next]_vars  PROVE TypeOK'
  OBVIOUS
<1>1. ASSUME NEW P \in SUBSET Var, NEW S \in SUBSET P, NEW C \in SUBSET P,
             check_function(P, S, C)
      PROVE  TypeOK'
  BY <1>1, FunctionType
<1>2. CASE EndFunction
  <2>1. {} \in SUBSET Var  OBVIOUS
  <2> QED  BY <1>2, <2>1, FunctionType
<1>3. CASE UNCHANGED vars  BY <1>3 DEF vars, TypeOK
<1> QED  BY <1>1, <1>2, <1>3, StatementType, ArgumentType, CompoundType DEF Next

(* The walk starts with maps of the right shape. *)
LEMMA InitType == Init => TypeOK
<1> SUFFICES ASSUME Init PROVE TypeOK  OBVIOUS
<1>1. <<>> \in Seq(FrameSet)  BY EmptySeq
<1>2. 0 \in 0..MaxArgs  BY BoundAssumption
<1> QED  BY <1>1, <1>2, EmptyType DEF Init, TypeOK, BorrowMap

(* The maps and the stack of blocks of the borrow checker have the declared *)
(* shape in every walk over every program.                                 *)
THEOREM TypeCorrect == Spec => []TypeOK
BY InitType, StepType, PTL DEF Spec

----------------------------------------------------------------------------
(* The two maps agree.  Each operator of the checker preserves Agree:      *)
(* Borrowed(st, bm, v) is what Agree says of one variable.                 *)

Borrowed(st, bm, v) ==
    /\ st[v].state = "Free" =>
          Borrowers(bm, v) = {} /\ st[v].immut_count = 0
    /\ st[v].state = "MutBorrowed" =>
          /\ st[v].immut_count = 0
          /\ \E b \in Var \cup Slot : Borrowers(bm, v) = {b}
    /\ st[v].state = "ImmutBorrowed" =>
          /\ st[v].immut_count = Cardinality(Borrowers(bm, v))
          /\ st[v].immut_count > 0

(* Agreement of the maps, one variable at a time. *)
LEMMA AgreeDef ==
    ASSUME NEW st, NEW bm
    PROVE  Agree(st, bm) <=> \A v \in Var : Borrowed(st, bm, v)
BY DEF Agree, Borrowed

(* The empty maps agree. *)
LEMMA AgreeEmpty == Agree(NoStates, NoBorrows)
<1>1. \A v \in Var : Borrowers(NoBorrows, v) = {}
  BY VarAssumption DEF Borrowers, NoBorrows
<1> QED  BY <1>1 DEF Agree, NoStates, Default, Entry

(* Releasing the borrowers in R from the source v. *)
LEMMA ReleaseOne ==
    ASSUME NEW st \in [Var -> VarInfo], NEW bm \in BorrowMap, NEW R,
           NEW v \in Var, Borrowed(st, bm, v)
    PROVE  Borrowed(release_borrow(st, bm, R), Unbind(bm, R), v)
<1> DEFINE B == Borrowers(bm, v)
           k == Cardinality(B \cap R)
           new == Released(st[v], k)
<1>1. IsFiniteSet(B)  BY BorrowersFinite
<1>2. Borrowers(Unbind(bm, R), v) = B \ R
  BY VarAssumption DEF Borrowers, Unbind, BorrowMap
<1>3. release_borrow(st, bm, R)[v] = new  BY DEF release_borrow
<1>4. /\ IsFiniteSet(B \cap R) /\ IsFiniteSet(B \ R)
      /\ Cardinality(B) \in Nat /\ k \in Nat
      /\ Cardinality(B \ R) \in Nat
      /\ Cardinality(B \ R) = Cardinality(B) - k
  BY <1>1, FS_Intersection, FS_Difference, FS_CardinalityType
<1>5. /\ k = 0 <=> B \cap R = {}
      /\ Cardinality(B \ R) = 0 <=> B \ R = {}
  BY <1>4, FS_EmptySet
<1>6. st[v] \in VarInfo /\ st[v].immut_count \in Nat /\ st[v].state \in VarState
  BY DEF VarInfo
<1> HIDE DEF B, k, new
<1>7. CASE k = 0 \/ st[v].state = "Moved"
  <2>1. new = st[v]  BY <1>7 DEF new, Released
  <2>2. CASE k = 0
    <3>1. B \ R = B  BY <1>5, <2>2
    <3> QED  BY <1>2, <1>3, <2>1, <3>1 DEF Borrowed, B
  <2>3. CASE st[v].state = "Moved"
    BY <1>3, <2>1, <2>3 DEF Borrowed
  <2> QED  BY <1>7, <2>2, <2>3
<1>8. CASE k # 0 /\ st[v].state = "Free"
  <2>1. B = {}  BY <1>8 DEF Borrowed, B
  <2> QED  BY <1>5, <1>8, <2>1
<1>9. CASE k # 0 /\ st[v].state = "MutBorrowed"
  <2>1. B \ R = {}
    <3>1. PICK b \in Var \cup Slot : B = {b}  BY <1>9 DEF Borrowed, B
    <3>2. b \in R  BY <1>5, <1>9, <3>1
    <3> QED  BY <3>1, <3>2
  <2>2. new = Marked(st[v], "Free", 0)  BY <1>9 DEF new, Released
  <2>3. new.state = "Free" /\ new.immut_count = 0
    BY <1>6, <2>2, MarkedAs
  <2> QED  BY <1>2, <1>3, <2>1, <2>3 DEF Borrowed
<1>10. CASE k # 0 /\ st[v].state = "ImmutBorrowed"
  <2>1. st[v].immut_count = Cardinality(B) /\ st[v].immut_count > 0
    BY <1>10 DEF Borrowed, B
  <2>2. CASE st[v].immut_count > k
    <3>1. new = Marked(st[v], "ImmutBorrowed", st[v].immut_count - k)
      BY <1>4, <1>6, <1>10, <2>1, <2>2 DEF new, Released
    <3>2. st[v].immut_count - k \in Nat /\ st[v].immut_count - k > 0
      BY <1>4, <1>6, <2>2
    <3>3. new.state = "ImmutBorrowed" /\ new.immut_count = Cardinality(B \ R)
          /\ new.immut_count > 0
      BY <1>4, <1>6, <2>1, <3>1, <3>2, MarkedAs
    <3> QED  BY <1>2, <1>3, <3>3 DEF Borrowed
  <2>3. CASE ~(st[v].immut_count > k)
    <3>1. Cardinality(B \ R) = 0  BY <1>4, <1>6, <2>1, <2>3
    <3>2. B \ R = {}  BY <1>5, <3>1
    <3>3. new = Marked(st[v], "Free", 0)
      BY <1>6, <1>10, <2>1, <2>3 DEF new, Released
    <3>4. new.state = "Free" /\ new.immut_count = 0
      BY <1>6, <3>3, MarkedAs
    <3> QED  BY <1>2, <1>3, <3>2, <3>4 DEF Borrowed
  <2> QED  BY <2>2, <2>3
<1> QED  BY <1>6, <1>7, <1>8, <1>9, <1>10 DEF VarState

(* release_borrow on a whole set of borrowers keeps the maps in agreement. *)
LEMMA ReleaseAgrees ==
    ASSUME NEW st \in [Var -> VarInfo], NEW bm \in BorrowMap, NEW R,
           Agree(st, bm)
    PROVE  Agree(release_borrow(st, bm, R), Unbind(bm, R))
BY ReleaseOne, AgreeDef

(* Moving a variable, whoever borrows it. *)
LEMMA MovedAgrees ==
    ASSUME NEW st \in [Var -> VarInfo], NEW bm, NEW v \in Var, Agree(st, bm)
    PROVE  Agree(mark_moved(st, v), bm)
<1>1. st[v] \in VarInfo /\ "Moved" \in VarState  BY DEF VarState
<1>2. /\ mark_moved(st, v)[v].state = "Moved"
      /\ \A w \in Var \ {v} : mark_moved(st, v)[w] = st[w]
  BY <1>1, MarkedType DEF mark_moved
<1>3. ASSUME NEW w \in Var
      PROVE  Borrowed(mark_moved(st, v), bm, w)
  <2>1. CASE w = v  BY <1>2, <2>1 DEF Borrowed
  <2>2. CASE w # v  BY <1>2, <2>2, AgreeDef DEF Borrowed
  <2> QED  BY <2>1, <2>2
<1> QED  BY <1>3, AgreeDef

(* The join of branches and loops only marks moves and keeps agreement. *)
LEMMA JoinAgrees ==
    ASSUME NEW st \in [Var -> VarInfo], NEW bm, NEW M, Agree(st, bm)
    PROVE  Agree(JoinMoved(st, M), bm)
<1>1. ASSUME NEW v \in Var
      PROVE  Borrowed(JoinMoved(st, M), bm, v)
  <2>1. st[v] \in VarInfo /\ st[v].immut_count \in Nat  BY DEF VarInfo
  <2>2. CASE v \in M
    <3>1. JoinMoved(st, M)[v] = Marked(st[v], "Moved", st[v].immut_count)
      BY <2>2 DEF JoinMoved
    <3>2. JoinMoved(st, M)[v].state = "Moved"
      BY <2>1, <3>1, MarkedAs
    <3> QED  BY <3>2 DEF Borrowed
  <2>3. CASE v \notin M
    <3>1. JoinMoved(st, M)[v] = st[v]  BY <2>3 DEF JoinMoved
    <3> QED  BY <3>1, AgreeDef DEF Borrowed
  <2> QED  BY <2>2, <2>3
<1> QED  BY <1>1, AgreeDef

(* A new entry for a name nobody borrows. *)
LEMMA EntryAgrees ==
    ASSUME NEW st \in [Var -> VarInfo], NEW bm, NEW x \in Var,
           NEW s, NEW c, Agree(st, bm), Borrowers(bm, x) = {}
    PROVE  Agree([st EXCEPT ![x] = Entry(s, c)], bm)
<1>1. Entry(s, c).state = "Free" /\ Entry(s, c).immut_count = 0
  BY DEF Entry
<1>2. ASSUME NEW w \in Var
      PROVE  Borrowed([st EXCEPT ![x] = Entry(s, c)], bm, w)
  <2>1. CASE w = x  BY <1>1, <2>1 DEF Borrowed
  <2>2. CASE w # x  BY <2>2, AgreeDef DEF Borrowed
  <2> QED  BY <2>1, <2>2
<1> QED  BY <1>2, AgreeDef

(* A new borrower b of v. *)
LEMMA BindBorrowers ==
    ASSUME NEW bm \in BorrowMap, NEW b \in Var \cup Slot, NEW v \in Var,
           bm[b] = None
    PROVE  /\ Borrowers([bm EXCEPT ![b] = v], v) = Borrowers(bm, v) \cup {b}
           /\ b \notin Borrowers(bm, v)
           /\ \A w \in Var \ {v} :
                 Borrowers([bm EXCEPT ![b] = v], w) = Borrowers(bm, w)
BY VarAssumption DEF Borrowers, BorrowMap

(* A let of a ref keeps the maps in agreement. *)
LEMMA MutBorrowAgrees ==
    ASSUME NEW st \in [Var -> VarInfo], NEW bm \in BorrowMap, NEW v \in Var,
           NEW b \in Var \cup Slot, bm[b] = None, st[v].state = "Free",
           Agree(st, bm)
    PROVE  Agree(mark_mut_borrowed(st, v), [bm EXCEPT ![b] = v])
<1>1. st[v] \in VarInfo /\ "MutBorrowed" \in VarState  BY DEF VarState
<1>2. /\ mark_mut_borrowed(st, v)[v].state = "MutBorrowed"
      /\ mark_mut_borrowed(st, v)[v].immut_count = 0
      /\ \A w \in Var \ {v} : mark_mut_borrowed(st, v)[w] = st[w]
  BY <1>1, MarkedType DEF mark_mut_borrowed
<1>3. Borrowers([bm EXCEPT ![b] = v], v) = {b}
  BY BindBorrowers DEF Agree
<1>4. ASSUME NEW w \in Var
      PROVE  Borrowed(mark_mut_borrowed(st, v), [bm EXCEPT ![b] = v], w)
  <2>1. CASE w = v  BY <1>2, <1>3, <2>1 DEF Borrowed
  <2>2. CASE w # v
    <3>1. Borrowed(st, bm, w)  BY AgreeDef
    <3>2. Borrowers([bm EXCEPT ![b] = v], w) = Borrowers(bm, w)
      BY <2>2, BindBorrowers
    <3> QED  BY <1>2, <2>2, <3>1, <3>2 DEF Borrowed
  <2> QED  BY <2>1, <2>2
<1> QED  BY <1>4, AgreeDef

(* A let of a cref keeps the maps in agreement. *)
LEMMA ImmutBorrowAgrees ==
    ASSUME NEW st \in [Var -> VarInfo], NEW bm \in BorrowMap, NEW v \in Var,
           NEW b \in Var \cup Slot, bm[b] = None,
           st[v].state \in {"Free", "ImmutBorrowed"}, Agree(st, bm)
    PROVE  Agree(mark_immut_borrowed(st, v), [bm EXCEPT ![b] = v])
<1> DEFINE n == st[v].immut_count
           B == Borrowers(bm, v)
<1>1. st[v] \in VarInfo /\ "ImmutBorrowed" \in VarState /\ n \in Nat
  BY DEF VarState, VarInfo
<1>2. /\ mark_immut_borrowed(st, v)[v].state = "ImmutBorrowed"
      /\ mark_immut_borrowed(st, v)[v].immut_count = n + 1
      /\ \A w \in Var \ {v} : mark_immut_borrowed(st, v)[w] = st[w]
  BY <1>1, MarkedType DEF mark_immut_borrowed
<1>3. n = Cardinality(B)
  BY FS_EmptySet DEF Agree
<1>4. Cardinality(B \cup {b}) = Cardinality(B) + 1
  BY BorrowersFinite, BindBorrowers, FS_AddElement
<1>5. ASSUME NEW w \in Var
      PROVE  Borrowed(mark_immut_borrowed(st, v), [bm EXCEPT ![b] = v], w)
  <2>1. CASE w = v
    <3>1. Borrowers([bm EXCEPT ![b] = v], v) = B \cup {b}  BY BindBorrowers
    <3>2. n + 1 = Cardinality(Borrowers([bm EXCEPT ![b] = v], v))
      BY <1>3, <1>4, <3>1
    <3>3. n + 1 > 0  BY <1>1
    <3> QED  BY <1>2, <2>1, <3>2, <3>3 DEF Borrowed
  <2>2. CASE w # v
    <3>1. Borrowed(st, bm, w)  BY AgreeDef
    <3>2. Borrowers([bm EXCEPT ![b] = v], w) = Borrowers(bm, w)
      BY <2>2, BindBorrowers
    <3> QED  BY <1>2, <2>2, <3>1, <3>2 DEF Borrowed
  <2> QED  BY <2>1, <2>2
<1> QED  BY <1>5, AgreeDef

----------------------------------------------------------------------------
(* The inductive invariant.  Beside the two invariants it says of every    *)
(* saved copy of borrow_map that its borrows nest in the blocks outside    *)
(* the one it was saved for: that copy comes back when the block is left.  *)
(* It is inductive for programs that hide no names.                        *)

NoShadow == "shadow" \notin Features

SavedNest(fs) ==
    \A i \in 1..Len(fs) : Nests(fs[i].borrow_map, fs, i - 1, 0)

SavedAgree(fs) ==
    \A i \in 1..Len(fs) : Agree(fs[i].states, fs[i].borrow_map)

IInv ==
    /\ TypeOK
    /\ BorrowsNest
    /\ SavedNest(frames)
    /\ Agree(states, borrow_map)
    /\ SavedAgree(frames)

(* Nests only looks at the names of the first n blocks, and only asks for  *)
(* them to be there.                                                       *)
LEMMA NestsMonotone ==
    ASSUME NEW bm, NEW fs, NEW gs, NEW n \in Nat, NEW m \in Nat,
           NEW c \in Nat, NEW d \in Nat, n <= m, c <= d,
           \A i \in 1..n : fs[i].names \subseteq gs[i].names,
           Nests(bm, fs, n, c)
    PROVE  Nests(bm, gs, m, d)
<1> SUFFICES ASSUME NEW b \in Var \cup Slot, bm[b] # None, b \notin 1..d
             PROVE  \E i, j \in 1..m :
                       j <= i /\ b \in gs[i].names /\ bm[b] \in gs[j].names
  BY DEF Nests
<1>1. b \notin 1..c  OBVIOUS
<1>2. PICK i \in 1..n, j \in 1..n :
              j <= i /\ b \in fs[i].names /\ bm[b] \in fs[j].names
  BY <1>1 DEF Nests
<1>3. i \in 1..m /\ j \in 1..m  OBVIOUS
<1> QED  BY <1>2, <1>3

(* Nobody borrows: everything nests. *)
LEMMA NestsEmpty ==
    ASSUME NEW fs, NEW n, NEW c
    PROVE  Nests(NoBorrows, fs, n, c)
BY DEF Nests, NoBorrows

(* A borrower that is in its place may borrow. *)
LEMMA BindNests ==
    ASSUME NEW bm \in BorrowMap, NEW fs, NEW n \in Nat, NEW c \in Nat,
           NEW x \in Var \cup Slot, NEW y \in Var, Nests(bm, fs, n, c),
           \/ x \in 1..c
           \/ \E i, j \in 1..n :
                 j <= i /\ x \in fs[i].names /\ y \in fs[j].names
    PROVE  Nests([bm EXCEPT ![x] = y], fs, n, c)
<1> DEFINE new == [bm EXCEPT ![x] = y]
<1>1. new[x] = y /\ \A b \in (Var \cup Slot) \ {x} : new[b] = bm[b]
  BY DEF BorrowMap
<1> HIDE DEF new
<1>2. ASSUME NEW b \in Var \cup Slot, new[b] # None
      PROVE  \/ b \in 1..c
             \/ \E i, j \in 1..n :
                   j <= i /\ b \in fs[i].names /\ new[b] \in fs[j].names
  <2>1. CASE b = x  BY <1>1, <2>1
  <2>2. CASE b # x  BY <1>1, <1>2, <2>2 DEF Nests
  <2> QED  BY <2>1, <2>2
<1> QED  BY <1>2 DEF Nests, new

(* When the borrowers in R let go, among them the arguments of the call    *)
(* and the variables of the blocks after the m-th, the others nest in the  *)
(* first m blocks.                                                         *)
LEMMA UnbindNests ==
    ASSUME NEW bm \in BorrowMap, NEW fs, NEW n \in Nat, NEW m \in Nat,
           NEW c \in Nat, NEW R, m <= n, 1..c \subseteq R,
           \A i \in (m + 1)..n : fs[i].names \subseteq R,
           Nests(bm, fs, n, c)
    PROVE  Nests(Unbind(bm, R), fs, m, 0)
<1> SUFFICES ASSUME NEW b \in Var \cup Slot, Unbind(bm, R)[b] # None
             PROVE  \E i, j \in 1..m :
                       /\ j <= i /\ b \in fs[i].names
                       /\ Unbind(bm, R)[b] \in fs[j].names
  BY DEF Nests
<1>1. b \notin R /\ Unbind(bm, R)[b] = bm[b]  BY DEF Unbind, BorrowMap
<1>2. PICK i \in 1..n, j \in 1..n :
              j <= i /\ b \in fs[i].names /\ bm[b] \in fs[j].names
  BY <1>1 DEF Nests
<1>3. i \in 1..m /\ j \in 1..m
  <2>1. i \notin (m + 1)..n  BY <1>1, <1>2
  <2> QED  BY <1>2, <2>1
<1> QED  BY <1>1, <1>2, <1>3

(* Between two statements no argument borrows, and a name that no block    *)
(* declares neither borrows nor is borrowed.                               *)
LEMMA Undeclared ==
    ASSUME IInv, call = 0, NEW x \in Var, x \notin Declared
    PROVE  borrow_map[x] = None /\ Borrowers(borrow_map, x) = {}
<1>1. 1..call = {}  OBVIOUS
<1>2. \A i \in 1..Len(frames) : x \notin frames[i].names
  <2>1. DOMAIN frames = 1..Len(frames)  BY LenProperties DEF IInv, TypeOK
  <2> QED  BY <2>1 DEF Declared
<1>3. borrow_map[x] = None
  BY <1>1, <1>2 DEF IInv, BorrowsNest, Nests
<1>4. ASSUME NEW b \in Borrowers(borrow_map, x)
      PROVE  FALSE
  <2>1. b \in Var \cup Slot /\ borrow_map[b] = x /\ x # None
    BY VarAssumption DEF Borrowers, IInv, TypeOK
  <2> QED  BY <1>1, <1>2, <2>1 DEF IInv, BorrowsNest, Nests
<1> QED  BY <1>3, <1>4

----------------------------------------------------------------------------
(* The saved copies, when the stack of blocks changes.                     *)

Saved(fs) == SavedNest(fs) /\ SavedAgree(fs)

(* Declaring a name in the innermost block. *)
LEMMA NameKeeps ==
    ASSUME frames \in Seq(FrameSet), frames # <<>>, Saved(frames), NEW x \in Var
    PROVE  /\ Saved(WithName(x))
           /\ \A i \in 1..Len(frames) :
                 frames[i].names \subseteq WithName(x)[i].names
           /\ x \in WithName(x)[Len(frames)].names
<1> DEFINE W == WithName(x)
<1>1. Len(frames) \in Nat \ {0}  BY TopOfStack
<1>2. /\ Len(W) = Len(frames)
      /\ \A i \in 1..Len(frames) : W[i]
           = IF i = Len(frames)
             THEN Frame(Top.kind, Top.names \cup {x}, Top.states,
                        Top.borrow_map, Top.merged)
             ELSE frames[i]
  BY NameFrame
<1> HIDE DEF W
<1>3. \A i \in 1..Len(frames) :
         /\ W[i].borrow_map = frames[i].borrow_map
         /\ W[i].states = frames[i].states
         /\ frames[i].names \subseteq W[i].names
  BY <1>2, TopOfStack DEF Frame
<1>4. x \in W[Len(frames)].names  BY <1>1, <1>2 DEF Frame
<1>5. ASSUME NEW i \in 1..Len(frames)
      PROVE  Nests(W[i].borrow_map, W, i - 1, 0)
  <2>1. Nests(frames[i].borrow_map, frames, i - 1, 0)
    BY DEF Saved, SavedNest
  <2>2. i - 1 \in Nat /\ \A k \in 1..(i - 1) : k \in 1..Len(frames)
    BY <1>1
  <2>3. \A k \in 1..(i - 1) : frames[k].names \subseteq W[k].names
    BY <1>3, <2>2
  <2>4. Nests(frames[i].borrow_map, W, i - 1, 0)
    BY <2>1, <2>2, <2>3, NestsMonotone
  <2> QED  BY <1>3, <2>4
<1>6. SavedNest(W)  BY <1>2, <1>5 DEF SavedNest
<1>7. SavedAgree(W)  BY <1>2, <1>3 DEF Saved, SavedAgree
<1> QED  BY <1>3, <1>4, <1>6, <1>7 DEF Saved, W

(* Entering a block that saves maps which nest and agree. *)
LEMMA PushKeeps ==
    ASSUME frames \in Seq(FrameSet), Saved(frames), NEW f \in FrameSet,
           Nests(f.borrow_map, frames, Len(frames), 0),
           Agree(f.states, f.borrow_map)
    PROVE  Saved(Append(frames, f))
<1> DEFINE W == Append(frames, f)
           n == Len(frames)
<1>1. n \in Nat  BY LenProperties
<1>2. /\ Len(W) = n + 1 /\ W[n + 1] = f
      /\ \A i \in 1..n : W[i] = frames[i]
  BY PushFrame
<1> HIDE DEF W, n
<1>3. ASSUME NEW i \in 1..(n + 1)
      PROVE  Nests(W[i].borrow_map, W, i - 1, 0) /\ Agree(W[i].states, W[i].borrow_map)
  <2>1. i - 1 \in Nat /\ \A k \in 1..(i - 1) : k \in 1..n  BY <1>1
  <2>2. \A k \in 1..(i - 1) : frames[k].names \subseteq W[k].names
    BY <1>2, <2>1
  <2>3. CASE i = n + 1
    <3>1. i - 1 = n /\ W[i] = f  BY <1>1, <1>2, <2>3
    <3>2. Nests(f.borrow_map, frames, i - 1, 0)  BY <3>1 DEF n
    <3>3. Nests(f.borrow_map, W, i - 1, 0)
      BY <2>1, <2>2, <3>2, NestsMonotone
    <3> QED  BY <3>1, <3>3
  <2>4. CASE i # n + 1
    <3>1. i \in 1..n  BY <1>1, <2>4
    <3>2. Nests(frames[i].borrow_map, frames, i - 1, 0)
          /\ Agree(frames[i].states, frames[i].borrow_map)
      BY <3>1 DEF Saved, SavedNest, SavedAgree, n
    <3>3. Nests(frames[i].borrow_map, W, i - 1, 0)
      BY <2>1, <2>2, <3>2, NestsMonotone
    <3> QED  BY <1>2, <3>1, <3>2, <3>3
  <2> QED  BY <2>3, <2>4
<1> QED  BY <1>2, <1>3 DEF Saved, SavedNest, SavedAgree, W

(* Leaving a block: the maps it saved come back, over the blocks outside.  *)
LEMMA PopKeeps ==
    ASSUME frames \in Seq(FrameSet), frames # <<>>, Saved(frames)
    PROVE  /\ Saved(Below)
           /\ Len(frames) - 1 \in Nat /\ Len(Below) = Len(frames) - 1
           /\ \A i \in 1..(Len(frames) - 1) :
                 frames[i].names \subseteq Below[i].names
           /\ Nests(Top.borrow_map, Below, Len(Below), 0)
           /\ Nests(Top.borrow_map, frames, Len(frames) - 1, 0)
           /\ Agree(Top.states, Top.borrow_map)
<1> DEFINE m == Len(frames) - 1
<1>1. m \in Nat /\ Len(frames) \in 1..Len(frames)  BY TopOfStack
<1>2. Len(Below) = m /\ \A i \in 1..m : Below[i] = frames[i]  BY PopFrame
<1>3. ASSUME NEW i \in 1..Len(frames)
      PROVE  /\ Nests(frames[i].borrow_map, frames, i - 1, 0)
             /\ Nests(frames[i].borrow_map, Below, i - 1, 0)
             /\ Agree(frames[i].states, frames[i].borrow_map)
  <2>1. /\ Nests(frames[i].borrow_map, frames, i - 1, 0)
        /\ Agree(frames[i].states, frames[i].borrow_map)
    BY DEF Saved, SavedNest, SavedAgree
  <2>2. i - 1 \in Nat /\ \A k \in 1..(i - 1) : k \in 1..m  BY <1>1
  <2>3. \A k \in 1..(i - 1) : frames[k].names \subseteq Below[k].names
    BY <1>2, <2>2
  <2>4. Nests(frames[i].borrow_map, Below, i - 1, 0)
    BY <2>1, <2>2, <2>3, NestsMonotone
  <2> QED  BY <2>1, <2>4
<1>4. \A i \in 1..m : i \in 1..Len(frames)  BY <1>1
<1>5. Saved(Below)
  BY <1>2, <1>3, <1>4 DEF Saved, SavedNest, SavedAgree
<1>6. /\ Nests(Top.borrow_map, Below, m, 0)
      /\ Nests(Top.borrow_map, frames, m, 0)
      /\ Agree(Top.states, Top.borrow_map)
  BY <1>1, <1>3, TopOfStack
<1> QED  BY <1>1, <1>2, <1>5, <1>6

(* The next branch of an if, over the same saved maps.                     *)
LEMMA BranchKeeps ==
    ASSUME frames \in Seq(FrameSet), frames # <<>>, Saved(frames),
           NEW f \in FrameSet, f.states = Top.states,
           f.borrow_map = Top.borrow_map
    PROVE  /\ Saved([frames EXCEPT ![Len(frames)] = f])
           /\ Nests(Top.borrow_map, [frames EXCEPT ![Len(frames)] = f],
                    Len(frames), 0)
<1> DEFINE W == [frames EXCEPT ![Len(frames)] = f]
<1>1. Len(frames) \in Nat \ {0}  BY TopOfStack
<1>2. /\ Len(W) = Len(frames)
      /\ \A i \in 1..Len(frames) :
            W[i] = IF i = Len(frames) THEN f ELSE frames[i]
  BY ChangeTop
<1> HIDE DEF W
<1>3. \A i \in 1..Len(frames) :
         W[i].borrow_map = frames[i].borrow_map /\ W[i].states = frames[i].states
  BY <1>2, TopOfStack
<1>4. ASSUME NEW i \in 1..Len(frames)
      PROVE  Nests(frames[i].borrow_map, W, i - 1, 0)
  <2>1. Nests(frames[i].borrow_map, frames, i - 1, 0)
    BY DEF Saved, SavedNest
  <2>2. i - 1 \in Nat
        /\ \A k \in 1..(i - 1) : k \in 1..Len(frames) /\ k # Len(frames)
    BY <1>1
  <2>3. \A k \in 1..(i - 1) : frames[k].names \subseteq W[k].names
    BY <1>2, <2>2
  <2> QED  BY <2>1, <2>2, <2>3, NestsMonotone
<1>5. Saved(W)
  BY <1>2, <1>3, <1>4 DEF Saved, SavedNest, SavedAgree
<1>6. Nests(Top.borrow_map, W, Len(frames), 0)
  <2>1. Len(frames) \in 1..Len(frames) /\ Len(frames) - 1 \in Nat
        /\ Len(frames) - 1 <= Len(frames)
    BY <1>1
  <2>2. Nests(Top.borrow_map, W, Len(frames) - 1, 0)
    BY <1>4, <2>1, TopOfStack
  <2>3. \A k \in 1..(Len(frames) - 1) : W[k].names \subseteq W[k].names
    OBVIOUS
  <2> QED  BY <1>1, <2>1, <2>2, <2>3, NestsMonotone
<1> QED  BY <1>5, <1>6 DEF W

----------------------------------------------------------------------------
(* The steps. *)

(* A declaration, before what it does to the maps.                         *)
LEMMA DeclareStep ==
    ASSUME IInv, NoShadow, NEW x \in Var, Declares(x)
    PROVE  /\ call = 0 /\ call' = 0
           /\ Len(frames') = Len(frames)
           /\ Saved(frames')
           /\ Nests(borrow_map, frames', Len(frames), 0)
           /\ borrow_map[x] = None /\ Borrowers(borrow_map, x) = {}
           /\ \A y \in Usable : \E i, j \in 1..Len(frames) :
                 j <= i /\ x \in frames'[i].names /\ y \in frames'[j].names
<1>1. /\ frames # <<>> /\ call = 0 /\ call' = 0 /\ frames' = WithName(x)
      /\ x \in Declarable
  BY DEF Declares, AtStatement
<1>2. frames \in Seq(FrameSet) /\ Saved(frames)
  BY DEF IInv, TypeOK, Saved
<1>3. /\ Len(frames') = Len(frames) /\ Len(frames) \in Nat \ {0}
      /\ DOMAIN frames = 1..Len(frames)
  BY <1>1, <1>2, NameFrame, TopOfStack
<1>4. /\ Saved(frames')
      /\ \A i \in 1..Len(frames) : frames[i].names \subseteq frames'[i].names
      /\ x \in frames'[Len(frames)].names
  BY <1>1, <1>2, NameKeeps
<1>5. Nests(borrow_map, frames', Len(frames), 0)
  <2>1. Nests(borrow_map, frames, Len(frames), 0)
    BY <1>1 DEF IInv, BorrowsNest
  <2> QED  BY <1>3, <1>4, <2>1, NestsMonotone
<1>6. x \notin Declared  BY <1>1 DEF Declarable, Fresh, NoShadow
<1>7. borrow_map[x] = None /\ Borrowers(borrow_map, x) = {}
  BY <1>1, <1>6, Undeclared
<1>8. ASSUME NEW y \in Usable
      PROVE  \E i, j \in 1..Len(frames) :
                j <= i /\ x \in frames'[i].names /\ y \in frames'[j].names
  <2>1. PICK j \in 1..Len(frames) : y \in frames[j].names
    BY <1>3 DEF Usable
  <2>2. Len(frames) \in 1..Len(frames) /\ j <= Len(frames)  BY <1>3
  <2> QED  BY <1>4, <2>1, <2>2
<1> QED  BY <1>1, <1>3, <1>4, <1>5, <1>7, <1>8

(* Visiting statements.                                                    *)
LEMMA StatementKeeps ==
    ASSUME IInv, NoShadow, Statement
    PROVE  IInv'
<1> USE DEF BorrowMap
<1>0. /\ states \in [Var -> VarInfo] /\ borrow_map \in BorrowMap
      /\ frames \in Seq(FrameSet) /\ Len(frames) \in Nat
      /\ Agree(states, borrow_map) /\ Saved(frames)
  BY LenProperties DEF IInv, TypeOK, Saved
<1>1. TypeOK'  BY StatementType DEF IInv
<1>2. ASSUME NEW x \in Var, Declares(x), Agree(states', borrow_map'),
             Nests(borrow_map', frames', Len(frames), 0)
      PROVE  IInv'
  BY <1>1, <1>2, DeclareStep DEF IInv, BorrowsNest, Saved
<1>3. ASSUME NEW x \in Var, Declares(x), NEW s, NEW c
      PROVE  Agree([states EXCEPT ![x] = Entry(s, c)], borrow_map)
  BY <1>0, <1>3, DeclareStep, EntryAgrees
<1>4. ASSUME NEW x \in Var, NEW s, NEW c, LetFresh(x, s, c)
      PROVE  IInv'
  BY <1>2, <1>3, <1>4, DeclareStep DEF LetFresh
<1>5. ASSUME NEW x \in Var, LetUninit(x)
      PROVE  IInv'
  BY <1>0, <1>2, <1>5, DeclareStep DEF LetUninit
<1>6. ASSUME NEW x \in Var, NEW y \in Var, Declares(x), NEW s \in BOOLEAN,
             NEW c \in BOOLEAN
      PROVE  LET st == [states EXCEPT ![x] = Entry(s, c)]
             IN /\ st \in [Var -> VarInfo]
                /\ Agree(st, borrow_map)
                /\ Agree(mark_moved(st, y), borrow_map)
                /\ st[y].state = "Free" => Agree(mark_mut_borrowed(st, y),
                                          [borrow_map EXCEPT ![x] = y])
                /\ st[y].state \in {"Free", "ImmutBorrowed"} =>
                      Agree(mark_immut_borrowed(st, y),
                            [borrow_map EXCEPT ![x] = y])
  <2> DEFINE st == [states EXCEPT ![x] = Entry(s, c)]
  <2>1. st \in [Var -> VarInfo]  BY <1>0, MarkType
  <2>2. Agree(st, borrow_map)  BY <1>3, <1>6
  <2>3. borrow_map[x] = None  BY <1>6, DeclareStep
  <2> HIDE DEF st
  <2>4. Agree(mark_moved(st, y), borrow_map)  BY <2>1, <2>2, MovedAgrees
  <2>5. st[y].state = "Free" => Agree(mark_mut_borrowed(st, y),
                                      [borrow_map EXCEPT ![x] = y])
    BY <1>0, <2>1, <2>2, <2>3, MutBorrowAgrees
  <2>6. st[y].state \in {"Free", "ImmutBorrowed"} =>
           Agree(mark_immut_borrowed(st, y), [borrow_map EXCEPT ![x] = y])
    BY <1>0, <2>1, <2>2, <2>3, ImmutBorrowAgrees
  <2> QED  BY <2>1, <2>2, <2>4, <2>5, <2>6 DEF st
<1>7. ASSUME NEW x \in Var, NEW y \in Usable, Declares(x), y \in Var
      PROVE  Nests([borrow_map EXCEPT ![x] = y], frames', Len(frames), 0)
  BY <1>0, <1>7, DeclareStep, BindNests
<1>8. ASSUME NEW x \in Var, NEW y \in Var, LetVar(x, y)
      PROVE  IInv'
  <2>1. states[y].is_struct \in BOOLEAN /\ states[y].is_cref \in BOOLEAN
    BY <1>0 DEF VarInfo
  <2>2. Agree(states', borrow_map')  BY <1>6, <1>8, <2>1 DEF LetVar
  <2> QED  BY <1>2, <1>8, <2>2, DeclareStep DEF LetVar
<1>9. ASSUME NEW x \in Var, NEW y \in Var, NEW s \in BOOLEAN, LetTyped(x, y, s)
      PROVE  IInv'
  <2>1. Agree(states', borrow_map')  BY <1>6, <1>9 DEF LetTyped
  <2> QED  BY <1>2, <1>9, <2>1, DeclareStep DEF LetTyped
<1>10. ASSUME NEW x \in Var, NEW y \in Var, LetRef(x, y)
       PROVE  IInv'
  <2>1. Declares(x) /\ y \in Usable  BY <1>10 DEF LetRef
  <2>2. Agree(states', borrow_map')
    BY <1>6, <1>10, <2>1 DEF LetRef, Default
  <2>3. Nests(borrow_map', frames', Len(frames), 0)
    BY <1>7, <1>10, <2>1, DeclareStep DEF LetRef
  <2> QED  BY <1>2, <2>1, <2>2, <2>3
<1>11. ASSUME NEW x \in Var, NEW y \in Var, LetCRef(x, y)
       PROVE  IInv'
  <2>1. Declares(x) /\ y \in Usable  BY <1>11 DEF LetCRef
  <2>2. Agree(states', borrow_map')  BY <1>6, <1>11, <2>1 DEF LetCRef
  <2>3. Nests(borrow_map', frames', Len(frames), 0)
    BY <1>7, <1>11, <2>1, DeclareStep DEF LetCRef
  <2> QED  BY <1>2, <2>1, <2>2, <2>3
<1>12. ASSUME NEW x \in Var, NEW y \in Var, LetOwn(x, y)
       PROVE  IInv'
  <2>1. Agree(states', borrow_map')
    BY <1>6, <1>12 DEF LetOwn, Default
  <2> QED  BY <1>2, <1>12, <2>1, DeclareStep DEF LetOwn
<1>13. ASSUME NEW y \in Var, Visits(y), Agree(states', borrow_map)
       PROVE  IInv'
  BY <1>0, <1>1, <1>13 DEF Visits, IInv, BorrowsNest, Saved
<1>14. ASSUME NEW t \in Var, NEW y \in Var, AssignVar(t, y)
       PROVE  IInv'
  <2>1. Agree(states', borrow_map)
    BY <1>0, <1>14, MovedAgrees DEF AssignVar
  <2> QED  BY <1>13, <1>14, <2>1 DEF AssignVar
<1>15. ASSUME NEW y \in Var,
              Use(y) \/ AssignFresh(y) \/ WriteThrough(y) \/ CallMutating(y)
       PROVE  IInv'
  <2>1. Visits(y) /\ states' = states
    BY <1>15 DEF Use, AssignFresh, WriteThrough, CallMutating
  <2> QED  BY <1>0, <1>13, <2>1
<1> QED
  BY <1>4, <1>5, <1>8, <1>9, <1>10, <1>11, <1>12, <1>14, <1>15 DEF Statement

(* Visiting the arguments of a call, and ending it.                        *)
LEMMA ArgumentKeeps ==
    ASSUME IInv, Argument
    PROVE  IInv'
<1> USE DEF BorrowMap
<1>0. /\ states \in [Var -> VarInfo] /\ borrow_map \in BorrowMap
      /\ frames \in Seq(FrameSet) /\ Len(frames) \in Nat
      /\ MaxArgs \in Nat /\ call \in 0..MaxArgs /\ call + 1 \in Nat
      /\ Agree(states, borrow_map) /\ Saved(frames)
      /\ Nests(borrow_map, frames, Len(frames), call)
  BY LenProperties, BoundAssumption DEF IInv, TypeOK, Saved, BorrowsNest
<1>1. TypeOK'  BY ArgumentType DEF IInv
<1>2. \A i \in 1..Len(frames) : frames[i].names \subseteq frames[i].names
  OBVIOUS
<1>3. ASSUME NEW y \in Var, NextArg(y)
      PROVE  /\ call' = call + 1 /\ frames' = frames
             /\ call + 1 \in Slot /\ call + 1 \in 1..(call + 1)
             /\ borrow_map[call + 1] = None
             /\ Nests(borrow_map, frames, Len(frames), call + 1)
             /\ Nests([borrow_map EXCEPT ![call + 1] = y],
                      frames, Len(frames), call + 1)
  <2>1. call' = call + 1 /\ frames' = frames /\ call < MaxArgs
    BY <1>3 DEF NextArg
  <2>2. call + 1 \in Slot /\ call + 1 \in 1..(call + 1) /\ call + 1 \notin 1..call
    BY <1>0, <2>1 DEF Slot
  <2>3. \A i \in 1..Len(frames) : frames[i].names \subseteq Var
    <3>1. \A i \in 1..Len(frames) : frames[i] \in FrameSet
      BY ONLY <1>0, ElementOfSeq
    <3> QED  BY <3>1 DEF FrameSet
  <2>4. borrow_map[call + 1] = None
    <3>1. call + 1 \notin Var  BY <2>2, SlotAssumption
    <3> QED  BY <1>0, <2>2, <2>3, <3>1 DEF Nests
  <2>5. Nests(borrow_map, frames, Len(frames), call + 1)
    BY <1>0, <1>2, NestsMonotone
  <2>6. Nests([borrow_map EXCEPT ![call + 1] = y],
              frames, Len(frames), call + 1)
    BY <1>0, <2>2, <2>5, BindNests
  <2> QED  BY <2>1, <2>2, <2>4, <2>5, <2>6
<1>4. ASSUME NEW y \in Var, NextArg(y), Agree(states', borrow_map'),
             Nests(borrow_map', frames, Len(frames), call + 1)
      PROVE  IInv'
  BY <1>0, <1>1, <1>3, <1>4 DEF IInv, BorrowsNest, Saved
<1>5. ASSUME NEW y \in Var, PassMove(y)
      PROVE  IInv'
  <2>1. Agree(states', borrow_map')  BY <1>0, <1>5, MovedAgrees DEF PassMove
  <2> QED  BY <1>3, <1>4, <1>5, <2>1 DEF PassMove
<1>6. ASSUME NEW y \in Var, PassRef(y)
      PROVE  IInv'
  <2>1. NextArg(y)  BY <1>6 DEF PassRef
  <2>2. Agree(states', borrow_map')
    BY <1>0, <1>3, <1>6, <2>1, MutBorrowAgrees DEF PassRef
  <2>3. Nests(borrow_map', frames, Len(frames), call + 1)
    BY <1>3, <1>6, <2>1 DEF PassRef
  <2> QED  BY <1>4, <2>1, <2>2, <2>3
<1>7. ASSUME NEW y \in Var, PassCRef(y)
      PROVE  IInv'
  <2>1. NextArg(y)  BY <1>7 DEF PassCRef
  <2>2. Agree(states', borrow_map')
    BY <1>0, <1>3, <1>7, <2>1, ImmutBorrowAgrees DEF PassCRef
  <2>3. Nests(borrow_map', frames, Len(frames), call + 1)
    BY <1>3, <1>7, <2>1 DEF PassCRef
  <2> QED  BY <1>4, <2>1, <2>2, <2>3
<1>8. CASE EndCall
  <2>1. Agree(states', borrow_map')  BY <1>0, <1>8, ReleaseAgrees DEF EndCall
  <2>2. 1..call \subseteq Slot /\ call \in Nat  BY <1>0 DEF Slot
  <2>3. \A i \in (Len(frames) + 1)..Len(frames) : frames[i].names \subseteq Slot
    BY <1>0
  <2>4. Nests(Unbind(borrow_map, Slot), frames, Len(frames), 0)
    <3>1. Len(frames) <= Len(frames)  BY <1>0
    <3> QED  BY ONLY <1>0, <2>2, <2>3, <3>1, UnbindNests DEF BorrowMap
  <2>5. BorrowsNest'  BY <1>8, <2>4 DEF EndCall, BorrowsNest
  <2> QED  BY <1>0, <1>1, <1>8, <2>1, <2>5 DEF EndCall, IInv, Saved
<1> QED  BY <1>5, <1>6, <1>7, <1>8 DEF Argument

(* The end of a block: what is left borrowed nests in the blocks outside.  *)
LEMMA ExitKeeps ==
    ASSUME IInv, frames # <<>>, call = 0
    PROVE  /\ Agree(ExitStates, ExitBorrows)
           /\ Nests(ExitBorrows, frames, Len(frames) - 1, 0)
<1>0. /\ states \in [Var -> VarInfo] /\ borrow_map \in BorrowMap
      /\ frames \in Seq(FrameSet) /\ Len(frames) \in Nat \ {0}
      /\ Agree(states, borrow_map)
      /\ Nests(borrow_map, frames, Len(frames), 0)
  BY TopOfStack DEF IInv, TypeOK, BorrowMap, BorrowsNest
<1>1. Agree(ExitStates, ExitBorrows)
  BY <1>0, ReleaseAgrees DEF ExitStates, ExitBorrows
<1>2. \A i \in (Len(frames) - 1 + 1)..Len(frames) :
         frames[i].names \subseteq Top.names
  <2>1. \A i \in (Len(frames) - 1 + 1)..Len(frames) : i = Len(frames)
    BY <1>0
  <2> QED  BY <2>1 DEF Top
<1>3. 1..0 \subseteq Top.names /\ Len(frames) - 1 \in Nat
      /\ Len(frames) - 1 <= Len(frames)
  BY <1>0
<1>4. Nests(ExitBorrows, frames, Len(frames) - 1, 0)
  BY <1>0, <1>2, <1>3, UnbindNests DEF ExitBorrows
<1> QED  BY <1>1, <1>4

(* Entering and leaving blocks, loops, branches and lambdas.               *)
LEMMA CompoundKeeps ==
    ASSUME IInv, Compound
    PROVE  IInv'
<1> USE DEF BorrowMap
<1>0. /\ states \in [Var -> VarInfo] /\ borrow_map \in BorrowMap
      /\ frames \in Seq(FrameSet) /\ Len(frames) \in Nat
      /\ Agree(states, borrow_map) /\ Saved(frames)
      /\ Nests(borrow_map, frames, Len(frames), call)
  BY LenProperties DEF IInv, TypeOK, Saved, BorrowsNest
<1>1. TypeOK'  BY CompoundType DEF IInv
<1>2. /\ NoStates \in [Var -> VarInfo] /\ NoBorrows \in BorrowMap
      /\ {"block", "loop", "then", "elif", "else", "lambda"} \subseteq FrameKind
      /\ {} \in SUBSET Var
  BY EmptyType DEF FrameKind
<1>3. ASSUME NEW kind \in FrameKind, NEW P \in SUBSET Var,
             NEW st \in [Var -> VarInfo], NEW bm \in BorrowMap,
             Enters(Frame(kind, P, st, bm, {})),
             Nests(bm, frames, Len(frames), 0), Agree(st, bm),
             Nests(borrow_map', frames, Len(frames), 0),
             Agree(states', borrow_map')
      PROVE  IInv'
  <2> DEFINE f == Frame(kind, P, st, bm, {})
  <2>1. f \in FrameSet /\ f.borrow_map = bm /\ f.states = st
    BY <1>2, <1>3, FrameType DEF Frame
  <2>2. frames' = Append(frames, f) /\ call' = call /\ call = 0
    BY <1>3 DEF Enters, AtStatement
  <2> HIDE DEF f
  <2>3. Saved(frames')  BY <1>0, <1>3, <2>1, <2>2, PushKeeps
  <2>4. BorrowsNest'
    <3>1. /\ Len(frames') = Len(frames) + 1
          /\ \A i \in 1..Len(frames) : frames'[i] = frames[i]
      BY <1>0, <2>1, <2>2, PushFrame
    <3>2. /\ \A i \in 1..Len(frames) :
                 frames[i].names \subseteq frames'[i].names
          /\ Len(frames) + 1 \in Nat /\ Len(frames) <= Len(frames) + 1
      BY <1>0, <3>1
    <3>3. Nests(borrow_map', frames', Len(frames) + 1, 0)
      BY <1>0, <1>3, <3>2, NestsMonotone
    <3> QED  BY <2>2, <3>1, <3>3 DEF BorrowsNest
  <2> QED  BY <1>1, <1>3, <2>3, <2>4 DEF IInv, Saved
<1>4. ASSUME NEW f, Enters(f)
      PROVE  Nests(borrow_map, frames, Len(frames), 0)
  BY <1>0, <1>4 DEF Enters, AtStatement
<1>5. Nests(NoBorrows, frames, Len(frames), 0) /\ Agree(NoStates, NoBorrows)
  BY NestsEmpty, AgreeEmpty
<1>6. CASE OpenBlock
  BY <1>0, <1>2, <1>3, <1>4, <1>5, <1>6 DEF OpenBlock
<1>7. CASE OpenLoop
  BY <1>0, <1>2, <1>3, <1>4, <1>7 DEF OpenLoop
<1>8. CASE OpenIf
  BY <1>0, <1>2, <1>3, <1>4, <1>8 DEF OpenIf
<1>9. ASSUME NEW P \in SUBSET Var, OpenLambda(P)
      PROVE  IInv'
  BY <1>0, <1>2, <1>3, <1>4, <1>5, <1>9 DEF OpenLambda
<1>10. ASSUME frames # <<>>, call' = 0, frames' = Below,
              Agree(states', borrow_map'),
              Nests(borrow_map', frames, Len(frames) - 1, 0)
       PROVE  IInv'
  <2>1. /\ Saved(Below) /\ Len(frames) - 1 \in Nat
        /\ Len(Below) = Len(frames) - 1
        /\ \A i \in 1..(Len(frames) - 1) :
              frames[i].names \subseteq Below[i].names
    BY <1>0, <1>10, PopKeeps
  <2>2. Nests(borrow_map', Below, Len(frames) - 1, 0)
    BY <1>10, <2>1, NestsMonotone
  <2> QED  BY <1>1, <1>10, <2>1, <2>2 DEF IInv, BorrowsNest, Saved
<1>11. ASSUME NEW kinds, Exits(kinds)
       PROVE  /\ frames # <<>> /\ call = 0
              /\ Agree(ExitStates, ExitBorrows)
              /\ Nests(ExitBorrows, frames, Len(frames) - 1, 0)
              /\ Nests(Top.borrow_map, frames, Len(frames) - 1, 0)
              /\ Top.states \in [Var -> VarInfo]
              /\ Agree(Top.states, Top.borrow_map)
              /\ \A M : Agree(JoinMoved(Top.states, M), Top.borrow_map)
  <2>1. frames # <<>> /\ call = 0  BY <1>11 DEF Exits
  <2>2. /\ Nests(Top.borrow_map, frames, Len(frames) - 1, 0)
        /\ Agree(Top.states, Top.borrow_map)
    BY <1>0, <2>1, PopKeeps
  <2>3. Top.states \in [Var -> VarInfo]
    BY <1>0, <2>1, TopOfStack DEF FrameSet
  <2> QED  BY <2>1, <2>2, <2>3, ExitKeeps, JoinAgrees
<1>12. CASE CloseBlock  BY <1>10, <1>11, <1>12 DEF CloseBlock
<1>13. CASE CloseLoop  BY <1>10, <1>11, <1>13 DEF CloseLoop
<1>14. CASE CloseLambda  BY <1>10, <1>11, <1>14 DEF CloseLambda
<1>15. CASE EndIf  BY <1>10, <1>11, <1>15 DEF EndIf
<1>16. ASSUME NEW kind \in {"elif", "else"}, NextBranch(kind)
       PROVE  IInv'
  <2> DEFINE f == Frame(kind, {}, Top.states, Top.borrow_map, MergedMoves)
  <2>1. frames # <<>> /\ call = 0 /\ Top \in FrameSet
    BY <1>0, <1>11, <1>16, TopOfStack DEF NextBranch
  <2>2. /\ kind \in FrameKind /\ MergedMoves \in SUBSET Var
        /\ Top.states \in [Var -> VarInfo] /\ Top.borrow_map \in BorrowMap
    BY <1>2, <1>11, <1>16, <2>1 DEF MergedMoves, Moved, FrameSet
  <2>3. f \in FrameSet  BY <1>2, <2>2, FrameType
  <2>4. f.states = Top.states /\ f.borrow_map = Top.borrow_map
    BY DEF Frame
  <2>5. /\ states' = Top.states /\ borrow_map' = Top.borrow_map
        /\ frames' = [frames EXCEPT ![Len(frames)] = f] /\ call' = 0
    BY <1>16, <2>1 DEF NextBranch
  <2> HIDE DEF f
  <2>6. Saved(frames') /\ Nests(Top.borrow_map, frames', Len(frames), 0)
    BY <1>0, <2>1, <2>3, <2>4, <2>5, BranchKeeps
  <2>7. Len(frames') = Len(frames)  BY <1>0, <2>1, <2>3, <2>5, ChangeTop
  <2>8. Agree(states', borrow_map')  BY <1>11, <1>16, <2>5 DEF NextBranch
  <2> QED  BY <1>1, <2>5, <2>6, <2>7, <2>8 DEF IInv, BorrowsNest, Saved
<1> QED
  BY <1>6, <1>7, <1>8, <1>9, <1>12, <1>13, <1>14, <1>15, <1>16 DEF Compound

(* Starting on a function, and ending it with nothing borrowed.            *)
LEMMA FunctionKeeps ==
    ASSUME IInv, NEW P \in SUBSET Var, NEW S, NEW C,
           check_function(P, S, C) \/ EndFunction
    PROVE  IInv'
<1>1. TypeOK'  BY FunctionType DEF IInv
<1>2. CASE check_function(P, S, C)
  <2>1. /\ borrow_map' = NoBorrows
        /\ frames' = <<Frame("function", P, NoStates, NoBorrows, {})>>
        /\ \A v \in Var : states'[v] = Entry(v \in S, v \in C)
    BY <1>2 DEF check_function
  <2>2. \A v \in Var : states'[v].state = "Free" /\ states'[v].immut_count = 0
    <3>1. \A s, c : Entry(s, c).state = "Free" /\ Entry(s, c).immut_count = 0
      BY DEF Entry
    <3> QED  BY ONLY <2>1, <3>1
  <2>3. \A v \in Var : Borrowers(NoBorrows, v) = {}
    BY VarAssumption DEF Borrowers, NoBorrows
  <2>4. Agree(states', borrow_map')  BY <2>1, <2>2, <2>3 DEF Agree
  <2>5. /\ Len(frames') = 1
        /\ frames'[1].borrow_map = NoBorrows /\ frames'[1].states = NoStates
    BY <2>1 DEF Frame
  <2>6. \A i \in 1..Len(frames') : i = 1  BY <2>5
  <2>7. Saved(frames')
    BY <2>5, <2>6, NestsEmpty, AgreeEmpty DEF Saved, SavedNest, SavedAgree
  <2>8. BorrowsNest'  BY <2>1, NestsEmpty DEF BorrowsNest
  <2> QED  BY <1>1, <2>4, <2>7, <2>8 DEF IInv, Saved
<1>3. CASE EndFunction
  <2>1. /\ frames # <<>> /\ call = 0 /\ Len(frames) - 1 = 0
        /\ frames' = <<>> /\ states' = ExitStates
        /\ borrow_map' = ExitBorrows /\ call' = call
    BY <1>3 DEF EndFunction
  <2>2. Agree(ExitStates, ExitBorrows) /\ Nests(ExitBorrows, frames, 0, 0)
    BY <2>1, ExitKeeps
  <2>3. Len(frames') = 0 /\ \A i \in 1..0 : FALSE  BY <2>1
  <2>4. Nests(ExitBorrows, frames', 0, 0)
    BY <2>2, <2>3, NestsMonotone
  <2>5. BorrowsNest'  BY <2>1, <2>3, <2>4 DEF BorrowsNest
  <2>6. Saved(frames')  BY <2>3 DEF Saved, SavedNest, SavedAgree
  <2> QED  BY <1>1, <2>1, <2>2, <2>5, <2>6 DEF IInv, Saved
<1> QED  BY <1>2, <1>3

(* No step breaks the inductive invariant.                                 *)
LEMMA StepKeeps ==
    ASSUME NoShadow
    PROVE  IInv /\ [Next]_vars => IInv'
<1> SUFFICES ASSUME IInv, [Next]_vars  PROVE IInv'
  OBVIOUS
<1>1. ASSUME NEW P \in SUBSET Var, NEW S \in SUBSET P, NEW C \in SUBSET P,
             check_function(P, S, C)
      PROVE  IInv'
  BY <1>1, FunctionKeeps
<1>2. CASE EndFunction
  <2>1. {} \in SUBSET Var  OBVIOUS
  <2> QED  BY <1>2, <2>1, FunctionKeeps
<1>3. CASE UNCHANGED vars
  BY <1>3 DEF vars, IInv, TypeOK, BorrowsNest
<1> QED
  BY <1>1, <1>2, <1>3, StatementKeeps, ArgumentKeeps, CompoundKeeps DEF Next

(* The empty maps and the empty stack satisfy the invariant. *)
LEMMA InitKeeps == Init => IInv
<1> SUFFICES ASSUME Init PROVE IInv  OBVIOUS
<1>1. /\ states = NoStates /\ borrow_map = NoBorrows /\ frames = <<>>
  BY DEF Init
<1>2. \A i \in 1..Len(frames) : FALSE  BY <1>1
<1>3. BorrowsNest  BY <1>1, NestsEmpty DEF BorrowsNest
<1> QED
  BY <1>1, <1>2, <1>3, InitType, AgreeEmpty DEF IInv, SavedNest, SavedAgree

(* The inductive invariant says what MapsAgree and BorrowsNest do.         *)
LEMMA InvariantImplies == IInv => MapsAgree /\ BorrowsNest
<1> SUFFICES ASSUME IInv PROVE MapsAgree /\ BorrowsNest  OBVIOUS
<1>1. DOMAIN frames = 1..Len(frames)  BY LenProperties DEF IInv, TypeOK
<1> QED  BY <1>1 DEF IInv, SavedAgree, MapsAgree

(* In every program that hides no name, however deep its blocks and long   *)
(* its calls, states and borrow_map agree: no borrow is released twice and *)
(* none is left behind by the maps a loop, a branch or a lambda restores.  *)
THEOREM MapsAlwaysAgree ==
    ASSUME NoShadow
    PROVE  Spec => []MapsAgree
<1>1. IInv /\ [Next]_vars => IInv'  BY StepKeeps
<1> QED  BY <1>1, InitKeeps, InvariantImplies, PTL DEF Spec

(* And no borrow outlives the block or the call it was made for.           *)
THEOREM BorrowsAlwaysNest ==
    ASSUME NoShadow
    PROVE  Spec => []BorrowsNest
<1>1. IInv /\ [Next]_vars => IInv'  BY StepKeeps
<1> QED  BY <1>1, InitKeeps, InvariantImplies, PTL DEF Spec

----------------------------------------------------------------------------
(* What the marks do to the state of a name, and to the set of the moved.  *)

(* A mark changes one name, and only its state and its count.              *)
LEMMA MarkEffect ==
    ASSUME NEW st \in [Var -> VarInfo], NEW v \in Var
    PROVE  /\ \A w \in Var \ {v} : /\ mark_moved(st, v)[w] = st[w]
                                   /\ mark_mut_borrowed(st, v)[w] = st[w]
                                   /\ mark_immut_borrowed(st, v)[w] = st[w]
           /\ mark_moved(st, v)[v].state = "Moved"
           /\ mark_mut_borrowed(st, v)[v].state = "MutBorrowed"
           /\ mark_immut_borrowed(st, v)[v].state = "ImmutBorrowed"
           /\ mark_moved(st, v)[v].is_struct = st[v].is_struct
           /\ mark_mut_borrowed(st, v)[v].is_struct = st[v].is_struct
           /\ mark_immut_borrowed(st, v)[v].is_struct = st[v].is_struct
<1>1. st[v] \in VarInfo /\ st[v].immut_count + 1 \in Nat  BY DEF VarInfo
<1>2. {"Moved", "MutBorrowed", "ImmutBorrowed"} \subseteq VarState  BY DEF VarState
<1>3. ASSUME NEW info \in VarInfo, NEW state \in VarState, NEW n \in Nat
      PROVE  /\ Marked(info, state, n).state = state
             /\ Marked(info, state, n).is_struct = info.is_struct
  BY DEF Marked, VarInfo
<1>4. \A w \in Var \ {v} : /\ mark_moved(st, v)[w] = st[w]
                           /\ mark_mut_borrowed(st, v)[w] = st[w]
                           /\ mark_immut_borrowed(st, v)[w] = st[w]
  BY DEF mark_moved, mark_mut_borrowed, mark_immut_borrowed
<1>5. /\ mark_moved(st, v)[v] = Marked(st[v], "Moved", 0)
      /\ mark_mut_borrowed(st, v)[v] = Marked(st[v], "MutBorrowed", 0)
      /\ mark_immut_borrowed(st, v)[v]
            = Marked(st[v], "ImmutBorrowed", st[v].immut_count + 1)
  BY DEF mark_moved, mark_mut_borrowed, mark_immut_borrowed
<1> QED  BY <1>1, <1>2, <1>3, <1>4, <1>5

(* So does a new entry, which is free.                                     *)
LEMMA EntryEffect ==
    ASSUME NEW st \in [Var -> VarInfo], NEW x \in Var, NEW s, NEW c
    PROVE  /\ \A w \in Var \ {x} : [st EXCEPT ![x] = Entry(s, c)][w] = st[w]
           /\ [st EXCEPT ![x] = Entry(s, c)][x].state = "Free"
           /\ [st EXCEPT ![x] = Entry(s, c)][x].is_struct = s
<1>1. Entry(s, c).state = "Free" /\ Entry(s, c).is_struct = s  BY DEF Entry
<1> QED  BY <1>1

(* release_borrow frees what was borrowed, or leaves it with fewer readers; *)
(* what has been moved stays moved.                                        *)
LEMMA ReleaseEffect ==
    ASSUME NEW st \in [Var -> VarInfo], NEW bm \in BorrowMap, NEW R, NEW v \in Var
    PROVE  LET new == release_borrow(st, bm, R)[v]
           IN  /\ new.is_struct = st[v].is_struct
               /\ new.state = "Moved" <=> st[v].state = "Moved"
               /\ new.state = "ImmutBorrowed" => st[v].state = "ImmutBorrowed"
<1> DEFINE k == Cardinality(Borrowers(bm, v) \cap R)
           new == Released(st[v], k)
<1>1. IsFiniteSet(Borrowers(bm, v) \cap R)  BY BorrowersFinite, FS_Intersection
<1>2. k \in Nat  BY <1>1, FS_CardinalityType
<1>3. release_borrow(st, bm, R)[v] = new  BY DEF release_borrow
<1>4. st[v] \in VarInfo /\ st[v].immut_count \in Nat  BY DEF VarInfo
<1>5. {"Free", "ImmutBorrowed"} \subseteq VarState  BY DEF VarState
<1>6. ASSUME NEW state \in VarState, NEW n \in Nat
      PROVE  /\ Marked(st[v], state, n).state = state
             /\ Marked(st[v], state, n).is_struct = st[v].is_struct
  BY <1>4 DEF Marked, VarInfo
<1> HIDE DEF k
<1>7. CASE new = st[v]  BY <1>3, <1>7
<1>8. CASE new # st[v]
  <2>1. st[v].state # "Moved"  BY <1>8 DEF Released
  <2>2. CASE st[v].state = "ImmutBorrowed" /\ st[v].immut_count > k
    <3>1. st[v].immut_count - k \in Nat  BY <1>2, <1>4, <2>2
    <3>2. new = Marked(st[v], "ImmutBorrowed", st[v].immut_count - k)
      BY <1>8, <2>2 DEF Released
    <3> QED  BY <1>3, <1>5, <1>6, <2>1, <2>2, <3>1, <3>2
  <2>3. CASE ~(st[v].state = "ImmutBorrowed" /\ st[v].immut_count > k)
    <3>1. new = Marked(st[v], "Free", 0)  BY <1>8, <2>3 DEF Released
    <3> QED  BY <1>3, <1>5, <1>6, <2>1, <3>1
  <2> QED  BY <2>2, <2>3
<1> QED  BY <1>7, <1>8

(* A join marks the names of M.                                            *)
LEMMA JoinEffect ==
    ASSUME NEW st \in [Var -> VarInfo], NEW M, NEW v \in Var
    PROVE  /\ JoinMoved(st, M)[v].is_struct = st[v].is_struct
           /\ v \in M => JoinMoved(st, M)[v].state = "Moved"
           /\ v \notin M => JoinMoved(st, M)[v] = st[v]
<1>1. st[v] \in VarInfo /\ st[v].immut_count \in Nat  BY DEF VarInfo
<1>2. "Moved" \in VarState  BY DEF VarState
<1>3. /\ Marked(st[v], "Moved", st[v].immut_count).state = "Moved"
      /\ Marked(st[v], "Moved", st[v].immut_count).is_struct = st[v].is_struct
  BY <1>1, <1>2 DEF Marked, VarInfo
<1>4. JoinMoved(st, M)[v] = IF v \in M THEN Marked(st[v], "Moved", st[v].immut_count)
                                       ELSE st[v]
  BY DEF JoinMoved
<1> QED  BY <1>3, <1>4

(* The names moved, behind each of these.                                  *)
LEMMA MovedEffect ==
    ASSUME NEW st \in [Var -> VarInfo]
    PROVE  /\ \A v \in Var : Moved(mark_moved(st, v)) = Moved(st) \cup {v}
           /\ \A v \in Var : st[v].state # "Moved" =>
                 /\ Moved(mark_mut_borrowed(st, v)) = Moved(st)
                 /\ Moved(mark_immut_borrowed(st, v)) = Moved(st)
           /\ \A x \in Var, s, c \in BOOLEAN :
                 Moved([st EXCEPT ![x] = Entry(s, c)]) = Moved(st) \ {x}
           /\ \A bm \in BorrowMap : \A R :
                 Moved(release_borrow(st, bm, R)) = Moved(st)
           /\ \A M : Moved(JoinMoved(st, M)) = Moved(st) \cup (M \cap Var)
<1>1. ASSUME NEW v \in Var
      PROVE  /\ Moved(mark_moved(st, v)) = Moved(st) \cup {v}
             /\ st[v].state # "Moved" =>
                 /\ Moved(mark_mut_borrowed(st, v)) = Moved(st)
                 /\ Moved(mark_immut_borrowed(st, v)) = Moved(st)
  BY MarkEffect DEF Moved
<1>2. ASSUME NEW x \in Var, NEW s, NEW c
      PROVE  Moved([st EXCEPT ![x] = Entry(s, c)]) = Moved(st) \ {x}
  BY EntryEffect DEF Moved
<1>3. ASSUME NEW bm \in BorrowMap, NEW R
      PROVE  Moved(release_borrow(st, bm, R)) = Moved(st)
  BY ReleaseEffect DEF Moved
<1>4. ASSUME NEW M
      PROVE  Moved(JoinMoved(st, M)) = Moved(st) \cup (M \cap Var)
  BY JoinEffect DEF Moved
<1> QED  BY <1>1, <1>2, <1>3, <1>4

----------------------------------------------------------------------------
(* What a block moves stays moved.                                         *)

(* A declaration of x may free x alone.                                    *)
LEMMA DeclareSurvives ==
    ASSUME TypeOK, NoShadow, NEW x \in Var, Declares(x),
           Moved(states) \ {x} \subseteq Moved(states')
    PROVE  Moved(states) \subseteq Moved(states') \cup (Declared' \ Declared)
<1>1. x \notin Declared  BY DEF Declares, Declarable, Fresh, NoShadow
<1>2. frames \in Seq(FrameSet) /\ frames # <<>>  BY DEF TypeOK, Declares, AtStatement
<1>3. frames' = WithName(x) /\ Len(frames) \in Nat \ {0}
  BY <1>2, TopOfStack DEF Declares
<1>4. /\ Len(frames') = Len(frames)
      /\ \A i \in 1..Len(frames) : frames'[i]
           = IF i = Len(frames) THEN Frame(Top.kind, Top.names \cup {x}, Top.states,
                                           Top.borrow_map, Top.merged)
                                ELSE frames[i]
  BY <1>2, <1>3, NameFrame
<1>5. x \in frames'[Len(frames)].names  BY <1>3, <1>4 DEF Frame
<1>6. frames' \in Seq(FrameSet)  BY <1>2, <1>3, NameFrame
<1>7. Len(frames) \in DOMAIN frames'  BY <1>3, <1>4, <1>6, LenProperties
<1>8. x \in Declared'  BY <1>5, <1>7 DEF Declared
<1> QED  BY <1>1, <1>8

(* What a statement moves stays moved until its name is declared again.    *)
LEMMA StatementSurvives ==
    ASSUME TypeOK, NoShadow, Statement
    PROVE  Moved(states) \subseteq Moved(states') \cup (Declared' \ Declared)
<1>0. states \in [Var -> VarInfo] /\ \A y \in Var : states[y] \in VarInfo
  BY DEF TypeOK
<1>1. ASSUME NEW x \in Var, NEW s \in BOOLEAN, NEW c \in BOOLEAN
      PROVE  /\ [states EXCEPT ![x] = Entry(s, c)] \in [Var -> VarInfo]
             /\ Moved([states EXCEPT ![x] = Entry(s, c)]) = Moved(states) \ {x}
  <2>1. [states EXCEPT ![x] = Entry(s, c)] \in [Var -> VarInfo]
    BY <1>0, MarkType
  <2>2. Moved([states EXCEPT ![x] = Entry(s, c)]) = Moved(states) \ {x}
    BY <1>0, EntryEffect DEF Moved
  <2> QED  BY <2>1, <2>2
<1>2. ASSUME NEW st \in [Var -> VarInfo], NEW y \in Var
      PROVE  /\ Moved(st) \subseteq Moved(mark_moved(st, y))
             /\ st[y].state # "Moved" =>
                   /\ Moved(st) \subseteq Moved(mark_mut_borrowed(st, y))
                   /\ Moved(st) \subseteq Moved(mark_immut_borrowed(st, y))
  BY MovedEffect
<1>3. ASSUME NEW x \in Var, LetUninit(x)
      PROVE  Moved(states) \ {x} \subseteq Moved(states') /\ Declares(x)
  BY <1>3 DEF LetUninit
<1>4. ASSUME NEW x \in Var, NEW s \in BOOLEAN, NEW c \in BOOLEAN, LetFresh(x, s, c)
      PROVE  Moved(states) \ {x} \subseteq Moved(states') /\ Declares(x)
  BY <1>1, <1>4 DEF LetFresh
<1>5. ASSUME NEW x \in Var, NEW y \in Var, LetVar(x, y)
      PROVE  Moved(states) \ {x} \subseteq Moved(states') /\ Declares(x)
  <2>1. states[y].is_struct \in BOOLEAN /\ states[y].is_cref \in BOOLEAN
    BY <1>0 DEF VarInfo
  <2> QED  BY <1>1, <1>2, <1>5, <2>1 DEF LetVar
<1>6. ASSUME NEW x \in Var, NEW y \in Var, NEW s \in BOOLEAN, LetTyped(x, y, s)
      PROVE  Moved(states) \ {x} \subseteq Moved(states') /\ Declares(x)
  <2> DEFINE st == [states EXCEPT ![x] = Entry(s, FALSE)]
  <2>1. st \in [Var -> VarInfo] /\ Moved(st) = Moved(states) \ {x}  BY <1>1
  <2>2. Moved(st) \subseteq Moved(mark_moved(st, y))  BY <1>2, <2>1
  <2>3. states' = IF s THEN mark_moved(st, y) ELSE st  BY <1>6 DEF LetTyped
  <2> HIDE DEF st
  <2> QED  BY <1>6, <2>1, <2>2, <2>3 DEF LetTyped
<1>7. ASSUME NEW x \in Var, NEW y \in Var, LetRef(x, y) \/ LetCRef(x, y) \/ LetOwn(x, y)
      PROVE  Moved(states) \ {x} \subseteq Moved(states') /\ Declares(x)
  BY <1>1, <1>2, <1>7 DEF LetRef, LetCRef, LetOwn, Default
<1>8. ASSUME NEW t \in Var, NEW y \in Var, AssignVar(t, y)
      PROVE  Moved(states) \subseteq Moved(states')
  BY <1>0, <1>2, <1>8 DEF AssignVar
<1>9. ASSUME NEW y \in Var,
             Use(y) \/ AssignFresh(y) \/ WriteThrough(y) \/ CallMutating(y)
      PROVE  Moved(states) \subseteq Moved(states')
  BY <1>9 DEF Use, AssignFresh, WriteThrough, CallMutating
<1>10. ASSUME NEW x \in Var, Declares(x), Moved(states) \ {x} \subseteq Moved(states')
       PROVE  Moved(states) \subseteq Moved(states') \cup (Declared' \ Declared)
  BY <1>10, DeclareSurvives
<1>11. CASE \/ \E x \in Var : LetUninit(x) \/ LetFresh(x, FALSE, FALSE)
            \/ \E x \in Var : LetFresh(x, TRUE, FALSE) \/ LetFresh(x, FALSE, TRUE)
  BY <1>3, <1>4, <1>10, <1>11
<1>12. CASE \/ \E x, y \in Var : LetVar(x, y)
            \/ \E x, y \in Var, is_struct \in BOOLEAN : LetTyped(x, y, is_struct)
  BY <1>5, <1>6, <1>10, <1>12
<1>13. CASE \E x, y \in Var : LetRef(x, y) \/ LetCRef(x, y) \/ LetOwn(x, y)
  BY <1>7, <1>10, <1>13
<1>14. CASE \/ \E t, y \in Var : AssignVar(t, y)
            \/ \E y \in Var : Use(y) \/ AssignFresh(y) \/ WriteThrough(y)
                              \/ CallMutating(y)
  BY <1>8, <1>9, <1>14
<1> QED  BY <1>11, <1>12, <1>13, <1>14 DEF Statement

(* And so does every step that is not the beginning of a block or a branch, *)
(* nor the end of an if.                                                   *)
LEMMA StepSurvives ==
    ASSUME TypeOK, NoShadow, Next,
           frames # <<>>, Len(frames') <= Len(frames),
           Top.kind \in {"function", "block", "loop"}
    PROVE  Moved(states) \subseteq Moved(states') \cup (Declared' \ Declared)
<1>0. /\ states \in [Var -> VarInfo] /\ borrow_map \in BorrowMap
      /\ frames \in Seq(FrameSet) /\ Len(frames) \in Nat
  BY LenProperties DEF TypeOK, BorrowMap
<1>1. Moved(ExitStates) = Moved(states)
  BY <1>0, MovedEffect DEF ExitStates
<1>2. CASE EndFunction \/ CloseBlock  BY <1>1, <1>2 DEF EndFunction, CloseBlock
<1>3. CASE CloseLoop
  <2>1. Top \in FrameSet  BY <1>0, TopOfStack
  <2>2. Top.states \in [Var -> VarInfo]  BY <2>1 DEF FrameSet
  <2>3. Moved(states) \subseteq Var  BY DEF Moved
  <2> QED  BY <1>1, <1>3, <2>2, <2>3, MovedEffect DEF CloseLoop
<1>4. CASE Argument
  <2>1. ASSUME NEW y \in Var, PassMove(y) \/ PassRef(y) \/ PassCRef(y)
        PROVE  Moved(states) \subseteq Moved(states')
    BY <1>0, <2>1, MovedEffect DEF PassMove, PassRef, PassCRef
  <2>2. CASE EndCall  BY <1>0, <2>2, MovedEffect DEF EndCall
  <2> QED  BY <1>4, <2>1, <2>2 DEF Argument
<1>5. ASSUME NEW kind, NextBranch(kind) \/ EndIf \/ CloseLambda
      PROVE  FALSE
  BY <1>5 DEF NextBranch, EndIf, CloseLambda, Exits
<1>6. ASSUME NEW f, Enters(f)
      PROVE  FALSE
  <2>1. frames' = Append(frames, f)  BY <1>6 DEF Enters
  <2>2. Len(frames') = Len(frames) + 1  BY <1>0, <2>1
  <2> QED  BY <1>0, <2>2
<1>7. ASSUME NEW P, OpenBlock \/ OpenLoop \/ OpenIf \/ OpenLambda(P)
      PROVE  FALSE
  BY <1>6, <1>7 DEF OpenBlock, OpenLoop, OpenIf, OpenLambda
<1>8. ASSUME NEW P, NEW S, NEW C, check_function(P, S, C)
      PROVE  FALSE
  BY <1>8 DEF check_function
<1> QED
  BY <1>2, <1>3, <1>4, <1>5, <1>7, <1>8, StatementSurvives DEF Next, Compound

(* What a block or a loop body moves stays moved, for every program that   *)
(* hides no name: neither the release of borrows nor the maps restored     *)
(* behind a loop give a moved value back.                                  *)
THEOREM MovesAlwaysSurvive ==
    ASSUME NoShadow
    PROVE  Spec => MovesSurvive
<1>1. TypeOK /\ [Next]_vars =>
         [/\ frames # <<>> /\ Len(frames') <= Len(frames)
          /\ Top.kind \in {"function", "block", "loop"}
          => Moved(states) \subseteq Moved(states') \cup (Declared' \ Declared)]_vars
  BY StepSurvives
<1>2. Spec => [][/\ frames # <<>> /\ Len(frames') <= Len(frames)
                 /\ Top.kind \in {"function", "block", "loop"}
                 => Moved(states) \subseteq Moved(states') \cup (Declared' \ Declared)]_vars
  BY <1>1, InitType, StepType, PTL DEF Spec
<1> QED  BY <1>2 DEF MovesSurvive
=============================================================================
