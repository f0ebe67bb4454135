--------------------------- MODULE Ownership_proofs ---------------------------
(***************************************************************************)
(* Proofs about the borrow checker and the history of what it walks: that  *)
(* its two maps tell who owns, borrows and has moved what on the paths     *)
(* through the function, for every set of names and every bound, and for   *)
(* the features that are Plain.                                            *)
(***************************************************************************)
EXTENDS Ownership, BorrowChecker_proofs

----------------------------------------------------------------------------
(* The invariant of the walk with its history, for programs that hide no   *)
(* names, whose lambdas capture nothing, and whose functions return what   *)
(* the checker takes the result of a call for.                             *)

Plain == Features \cap {"shadow", "capture", "scalar call"} = {}

(* The names of the first m blocks, and those of them that are usable      *)
(* there: the ones outside a lambda are not.                               *)
NamesUpTo(fs, m) == UNION {fs[i].names : i \in 1..m}
Inside(fs, m) ==
    UNION {fs[i].names : i \in
             {j \in 1..m : \A k \in 1..m : k > j => fs[k].kind # "lambda"}}

PathSet == [gone : SUBSET Var, lost : SUBSET Var,
            everGone : SUBSET Var, everLost : SUBSET Var]
LoanSet == [holder : Var \cup Slot, source : Var, mut : BOOLEAN]

HistoryTypes ==
    /\ owner \in SUBSET Var /\ gone \in SUBSET Var /\ lost \in SUBSET Var
    /\ paths \in Seq(PathSet)
    /\ loans \in SUBSET LoanSet

(* There is a record of paths for every block but the function's body, and *)
(* a name belongs to one block.                                            *)
Shape ==
    /\ frames = <<>> => paths = <<>> /\ loans = {}
    /\ frames # <<>> => Len(paths) = Len(frames) - 1 /\ frames[1].kind = "function"
    /\ \A i, j \in 1..Len(frames) : i # j => frames[i].names \cap frames[j].names = {}

(* A loan ends with the call it is made for, or with the block of its      *)
(* holder, and that is no further out than the source's.                   *)
LoansNest ==
    \A l \in loans :
        \/ l.holder \in 1..call /\ l.source \in Declared
        \/ \E i, j \in 1..Len(frames) :
              j <= i /\ l.holder \in frames[i].names /\ l.source \in frames[j].names

(* The names of U that the checker takes for structs are those that own.   *)
OwnersTold(st, own, U) == \A v \in U : st[v].is_struct <=> v \in own

(* borrow_map has the loans of the names of U and nothing else of them,    *)
(* and none of them is read only while somebody may write it.              *)
LoansTold(st, bm, L, U) ==
    /\ \A l \in L : l.source \in U =>
          /\ bm[l.holder] = l.source
          /\ l.mut => st[l.source].state # "ImmutBorrowed"
    /\ \A b \in Var \cup Slot : bm[b] \in U =>
          \E l \in L : l.holder = b /\ l.source = bm[b]

(* The checker's maps tell the history of the names usable here ...        *)
NowTold ==
    /\ OwnersTold(states, owner, Inside(frames, Len(frames)))
    /\ Moved(states) \cap Inside(frames, Len(frames)) \subseteq gone
    /\ ~rejected =>
          /\ lost \cap Inside(frames, Len(frames)) \subseteq Moved(states)
          /\ LoansTold(states, borrow_map, loans, Inside(frames, Len(frames)))

(* ... and so does every copy that will come back, of the blocks outside.  *)
HeldUpTo(m) == {l \in loans : l.holder \in NamesUpTo(frames, m)}

SavedTold(i) ==
    /\ OwnersTold(frames[i].states, owner, Inside(frames, i - 1))
    /\ Moved(frames[i].states) \cap Inside(frames, i - 1) \subseteq paths[i - 1].gone
    /\ ~rejected =>
          /\ paths[i - 1].lost \cap Inside(frames, i - 1) \subseteq Moved(frames[i].states)
          /\ LoansTold(frames[i].states, frames[i].borrow_map, HeldUpTo(i - 1),
                       Inside(frames, i - 1))

Kept == {i \in 2..Len(frames) : frames[i].kind # "block"}
CopiesTold == \A i \in Kept : SavedTold(i)

(* What every branch so far has moved is among the moves merged so far.    *)
MergedTold ==
    \A i \in 2..Len(frames) : frames[i].kind \in {"elif", "else"} /\ ~rejected =>
        paths[i - 1].everLost \cap Inside(frames, i - 1) \subseteq frames[i].merged

(* What was gone in front of a block stays gone in it.                     *)
GoneGrows ==
    \A i \in 1..Len(paths) :
        /\ paths[i].gone \cap NamesUpTo(frames, i) \subseteq gone
        /\ \A j \in i..Len(paths) :
              paths[i].gone \cap NamesUpTo(frames, i) \subseteq paths[j].gone

(* A lambda moves nothing of what is outside.                              *)
LambdaKeeps ==
    \A i \in 1..Len(paths) : frames[i + 1].kind = "lambda" =>
        /\ lost \cap NamesUpTo(frames, i) \subseteq paths[i].lost
        /\ \A j \in i..Len(paths) :
              paths[j].lost \cap NamesUpTo(frames, i) \subseteq paths[i].lost

Outside == CopiesTold /\ MergedTold /\ GoneGrows /\ LambdaKeeps

HInv == HistoryTypes /\ Shape /\ LoansNest /\ NowTold /\ Outside /\ NoConflict

----------------------------------------------------------------------------
(* Names of blocks.                                                        *)

(* What is usable is declared, and one block more has its names more.      *)
LEMMA NamesOfBlocks ==
    ASSUME NEW fs, NEW m \in Nat
    PROVE  /\ Inside(fs, m) \subseteq NamesUpTo(fs, m)
           /\ NamesUpTo(fs, m + 1) = NamesUpTo(fs, m) \cup fs[m + 1].names
           /\ Inside(fs, m + 1) = IF fs[m + 1].kind = "lambda" THEN fs[m + 1].names
                                  ELSE Inside(fs, m) \cup fs[m + 1].names
           /\ \A k \in 0..m : NamesUpTo(fs, k) \subseteq NamesUpTo(fs, m)
<1>1. /\ 1..(m + 1) = (1..m) \cup {m + 1}
      /\ \A j \in 1..m : m + 1 > j /\ ~(j > m + 1) /\ \A k \in 0..m : 1..k \subseteq 1..m
  OBVIOUS
<1>2. Inside(fs, m) \subseteq NamesUpTo(fs, m)  BY DEF Inside, NamesUpTo
<1>3. NamesUpTo(fs, m + 1) = NamesUpTo(fs, m) \cup fs[m + 1].names
  BY <1>1 DEF NamesUpTo
<1> DEFINE Free(n) == {j \in 1..n : \A k \in 1..n : k > j => fs[k].kind # "lambda"}
<1>4. ~(m + 1 > m + 1)  OBVIOUS
<1>5. fs[m + 1].kind = "lambda" => Inside(fs, m + 1) = fs[m + 1].names
  <2>1. HAVE fs[m + 1].kind = "lambda"
  <2>2. Free(m + 1) = {m + 1}  BY <1>1, <1>4, <2>1
  <2> QED  BY <2>2 DEF Inside
<1>6. fs[m + 1].kind # "lambda"
        => Inside(fs, m + 1) = Inside(fs, m) \cup fs[m + 1].names
  <2>1. HAVE fs[m + 1].kind # "lambda"
  <2>2. Free(m + 1) = Free(m) \cup {m + 1}  BY <1>1, <1>4, <2>1
  <2> QED  BY <2>2 DEF Inside
<1>7. \A k \in 0..m : NamesUpTo(fs, k) \subseteq NamesUpTo(fs, m)
  <2>1. \A k \in 0..m : 1..k \subseteq 1..m  OBVIOUS
  <2> QED  BY <2>1 DEF NamesUpTo
<1> QED  BY <1>2, <1>3, <1>5, <1>6, <1>7

(* Both are about the first m blocks only.                                 *)
LEMMA NamesSame ==
    ASSUME NEW fs, NEW gs, NEW m \in Nat,
           \A i \in 1..m : gs[i].names = fs[i].names /\ gs[i].kind = fs[i].kind
    PROVE  NamesUpTo(gs, m) = NamesUpTo(fs, m) /\ Inside(gs, m) = Inside(fs, m)
<1>1. NamesUpTo(gs, m) = NamesUpTo(fs, m)  BY DEF NamesUpTo
<1>2. {j \in 1..m : \A k \in 1..m : k > j => fs[k].kind # "lambda"}
        = {j \in 1..m : \A k \in 1..m : k > j => gs[k].kind # "lambda"}
  OBVIOUS
<1>3. Inside(gs, m) = Inside(fs, m)  BY <1>2 DEF Inside
<1> QED  BY <1>1, <1>3

(* Nothing outside a lambda is usable in it.                               *)
LEMMA LambdaApart ==
    ASSUME NEW fs, NEW m \in Nat, NEW i \in 1..m, fs[i + 1].kind = "lambda", i + 1 <= m,
           \A j, k \in 1..m : j # k => fs[j].names \cap fs[k].names = {}
    PROVE  Inside(fs, m) \cap NamesUpTo(fs, i) = {}
<1> SUFFICES ASSUME NEW v \in Inside(fs, m), v \in NamesUpTo(fs, i)  PROVE FALSE
  OBVIOUS
<1>1. PICK j \in 1..m : /\ v \in fs[j].names
                        /\ \A k \in 1..m : k > j => fs[k].kind # "lambda"
  BY DEF Inside
<1>2. PICK k \in 1..i : v \in fs[k].names  BY DEF NamesUpTo
<1>3. i + 1 \in 1..m /\ k \in 1..m  OBVIOUS
<1>4. ~(i + 1 > j)  BY <1>1, <1>3
<1>5. j # k  BY <1>4
<1> QED  BY <1>1, <1>2, <1>3, <1>5

(* The names a statement may use, in these terms.                          *)
LEMMA UsableInside ==
    ASSUME frames \in Seq(FrameSet)
    PROVE  /\ Declared = NamesUpTo(frames, Len(frames)) /\ Declared \subseteq Var
           /\ Len(frames) \in Nat
           /\ Plain => Usable = Inside(frames, Len(frames))
<1>1. DOMAIN frames = 1..Len(frames) /\ Len(frames) \in Nat  BY LenProperties
<1>2. \A i \in 1..Len(frames) : frames[i] \in FrameSet  BY ElementOfSeq
<1>3. Declared = NamesUpTo(frames, Len(frames))  BY <1>1 DEF Declared, NamesUpTo
<1>4. Declared \subseteq Var  BY <1>1, <1>2 DEF Declared, FrameSet
<1>5. Plain => Usable = Inside(frames, Len(frames))
  BY <1>1 DEF Plain, Usable, Inside
<1> QED  BY <1>1, <1>3, <1>4, <1>5

----------------------------------------------------------------------------
(* What each operator does to the loans told.                              *)

(* Fewer names, and no name read that was not.                             *)
LEMMA LoansStay ==
    ASSUME NEW st, NEW st2, NEW bm, NEW L, NEW U, NEW U2, U2 \subseteq U,
           \A v \in U2 : st2[v].state = "ImmutBorrowed" => st[v].state = "ImmutBorrowed",
           LoansTold(st, bm, L, U)
    PROVE  LoansTold(st2, bm, L, U2)
BY DEF LoansTold

(* The borrowers in R let go, and their loans end.                         *)
LEMMA LoansRelease ==
    ASSUME NEW st \in [Var -> VarInfo], NEW bm \in BorrowMap, NEW L \in SUBSET LoanSet,
           NEW R, NEW U \in SUBSET Var, NEW U2, U2 \subseteq U,
           LoansTold(st, bm, L, U)
    PROVE  LoansTold(release_borrow(st, bm, R), Unbind(bm, R),
                     {l \in L : l.holder \notin R}, U2)
<1> DEFINE st2 == release_borrow(st, bm, R)
           bm2 == Unbind(bm, R)
           L2 == {l \in L : l.holder \notin R}
<1>1. \A v \in U2 : st2[v].state = "ImmutBorrowed" => st[v].state = "ImmutBorrowed"
  BY ReleaseEffect
<1>2. \A b \in Var \cup Slot : bm2[b] = IF b \in R THEN None ELSE bm[b]
  BY DEF Unbind, BorrowMap
<1>3. None \notin U2  BY VarAssumption
<1> HIDE DEF st2, bm2
<1>4. ASSUME NEW l \in L2, l.source \in U2
      PROVE  bm2[l.holder] = l.source /\ (l.mut => st2[l.source].state # "ImmutBorrowed")
  <2>1. l.holder \in Var \cup Slot /\ l.holder \notin R  BY DEF LoanSet
  <2>2. bm[l.holder] = l.source /\ (l.mut => st[l.source].state # "ImmutBorrowed")
    BY <1>4 DEF LoansTold
  <2> QED  BY <1>1, <1>2, <1>4, <2>1, <2>2
<1>5. ASSUME NEW b \in Var \cup Slot, bm2[b] \in U2
      PROVE  \E l \in L2 : l.holder = b /\ l.source = bm2[b]
  <2>1. b \notin R /\ bm2[b] = bm[b]  BY <1>2, <1>3, <1>5
  <2>2. PICK l \in L : l.holder = b /\ l.source = bm[b]  BY <1>5, <2>1 DEF LoansTold
  <2> QED  BY <2>1, <2>2
<1>6. LoansTold(st2, bm2, L2, U2)  BY <1>4, <1>5 DEF LoansTold
<1> QED  BY <1>6 DEF st2, bm2

(* A new borrower of a name that may be borrowed so.                       *)
LEMMA LoansBorrow ==
    ASSUME NEW st \in [Var -> VarInfo], NEW bm \in BorrowMap, NEW L \in SUBSET LoanSet,
           NEW U \in SUBSET Var, NEW y \in U, NEW b \in Var \cup Slot, NEW mut \in BOOLEAN,
           LoansTold(st, bm, L, U), Agree(st, bm),
           bm[b] = None, \A l \in L : l.holder # b,
           st[y].state = "Free" \/ (~mut /\ st[y].state = "ImmutBorrowed")
    PROVE  LoansTold(IF mut THEN mark_mut_borrowed(st, y) ELSE mark_immut_borrowed(st, y),
                     [bm EXCEPT ![b] = y], L \cup {Loan(b, y, mut)}, U)
<1> DEFINE st2 == IF mut THEN mark_mut_borrowed(st, y) ELSE mark_immut_borrowed(st, y)
           bm2 == [bm EXCEPT ![b] = y]
           new == Loan(b, y, mut)
<1>1. /\ \A w \in Var \ {y} : st2[w] = st[w]
      /\ mut => st2[y].state # "ImmutBorrowed"
  BY MarkEffect
<1>2. bm2[b] = y /\ \A c \in (Var \cup Slot) \ {b} : bm2[c] = bm[c]
  BY DEF BorrowMap
<1>3. new.holder = b /\ new.source = y /\ new.mut = mut  BY DEF Loan
<1>4. ASSUME NEW l \in L, l.source = y
      PROVE  ~l.mut
  <2>1. l.holder \in Var \cup Slot /\ bm[l.holder] = y /\ DOMAIN bm = Var \cup Slot
    BY <1>4 DEF LoansTold, LoanSet, BorrowMap
  <2>2. Borrowers(bm, y) # {}  BY <2>1 DEF Borrowers
  <2>3. st[y].state # "Free"  BY <2>2 DEF Agree
  <2> QED  BY <1>4, <2>3 DEF LoansTold
<1> HIDE DEF st2, bm2, new
<1>5. ASSUME NEW l \in L \cup {new}, l.source \in U
      PROVE  bm2[l.holder] = l.source /\ (l.mut => st2[l.source].state # "ImmutBorrowed")
  <2>1. CASE l = new  BY <1>1, <1>2, <1>3, <2>1
  <2>2. CASE l \in L
    <3>1. /\ l.holder \in (Var \cup Slot) \ {b} /\ bm[l.holder] = l.source
          /\ l.mut => st[l.source].state # "ImmutBorrowed"
      BY <1>5, <2>2 DEF LoansTold, LoanSet
    <3>2. l.mut => l.source # y  BY <1>4, <2>2
    <3> QED  BY <1>1, <1>2, <1>5, <3>1, <3>2
  <2> QED  BY <2>1, <2>2
<1>6. ASSUME NEW c \in Var \cup Slot, bm2[c] \in U
      PROVE  \E l \in L \cup {new} : l.holder = c /\ l.source = bm2[c]
  <2>1. CASE c = b  BY <1>2, <1>3, <2>1
  <2>2. CASE c # b
    <3>1. bm2[c] = bm[c]  BY <1>2, <2>2
    <3>2. PICK l \in L : l.holder = c /\ l.source = bm[c]  BY <1>6, <3>1 DEF LoansTold
    <3> QED  BY <3>1, <3>2
  <2> QED  BY <2>1, <2>2
<1>7. LoansTold(st2, bm2, L \cup {new}, U)  BY <1>5, <1>6 DEF LoansTold
<1> QED  BY <1>7 DEF st2, bm2, new

(* A new name, which nobody borrows.                                       *)
LEMMA LoansName ==
    ASSUME NEW st, NEW st2, NEW bm, NEW L, NEW U, NEW x,
           \A l \in L : l.source # x, \A b \in Var \cup Slot : bm[b] # x,
           \A v \in U : st2[v] = st[v],
           LoansTold(st, bm, L, U)
    PROVE  LoansTold(st2, bm, L, U \cup {x})
BY DEF LoansTold

----------------------------------------------------------------------------
(* What is told of the copies, when the innermost block goes on.           *)
LEMMA OutsideKeeps ==
    ASSUME HistoryTypes, Shape, Outside, frames \in Seq(FrameSet),
           Len(frames') = Len(frames),
           \A i \in 1..Len(frames) :
               /\ frames'[i].kind = frames[i].kind
               /\ frames'[i].states = frames[i].states
               /\ frames'[i].borrow_map = frames[i].borrow_map
               /\ frames'[i].merged = frames[i].merged
               /\ i # Len(frames) => frames'[i].names = frames[i].names,
           paths' = paths, rejected => rejected',
           \A v \in Declared : v \in owner' <=> v \in owner,
           gone \cap Declared \subseteq gone',
           lost' \subseteq lost \cup Inside(frames, Len(frames)),
           \A l : l.holder \in Declared => (l \in loans' <=> l \in loans)
    PROVE  Outside'
<1> DEFINE n == Len(frames)
<1>1. n \in Nat /\ Declared = NamesUpTo(frames, n)  BY UsableInside
<1>2. ASSUME NEW m \in Nat, m < n
      PROVE  /\ NamesUpTo(frames, m)' = NamesUpTo(frames, m)
             /\ Inside(frames, m)' = Inside(frames, m)
             /\ NamesUpTo(frames, m) \subseteq Declared
             /\ Inside(frames, m) \subseteq Declared
             /\ HeldUpTo(m)' = HeldUpTo(m)
  <2>1. \A i \in 1..m : i \in 1..n /\ i # n  BY <1>1, <1>2
  <2>2. \A i \in 1..m : frames'[i].names = frames[i].names /\ frames'[i].kind = frames[i].kind
    BY <2>1
  <2>3. /\ NamesUpTo(frames', m) = NamesUpTo(frames, m)
        /\ Inside(frames', m) = Inside(frames, m)
    BY <2>2, NamesSame
  <2>4. m \in 0..n  BY <1>1, <1>2
  <2>5. NamesUpTo(frames, m) \subseteq Declared  BY <1>1, <2>4, NamesOfBlocks
  <2>6. Inside(frames, m) \subseteq NamesUpTo(frames, m)  BY NamesOfBlocks
  <2>7. HeldUpTo(m)' = HeldUpTo(m)  BY <2>3, <2>5 DEF HeldUpTo
  <2> QED  BY <2>3, <2>5, <2>6, <2>7
<1>3. Kept' = Kept
  <2>1. \A i \in 2..n : i \in 1..n  BY <1>1
  <2> QED  BY <2>1 DEF Kept
<1>4. ASSUME NEW i \in Kept
      PROVE  SavedTold(i)'
  <2>1. i \in 1..n /\ i - 1 \in Nat /\ i - 1 < n  BY <1>1 DEF Kept
  <2>2. SavedTold(i)  BY DEF Outside, CopiesTold
  <2>3. /\ frames'[i].states = frames[i].states
        /\ frames'[i].borrow_map = frames[i].borrow_map
    BY <2>1
  <2>4. /\ Inside(frames, i - 1)' = Inside(frames, i - 1)
        /\ Inside(frames, i - 1) \subseteq Declared
        /\ HeldUpTo(i - 1)' = HeldUpTo(i - 1)
    BY <1>2, <2>1
  <2>5. OwnersTold(frames[i].states, owner, Inside(frames, i - 1))'
    BY <2>2, <2>3, <2>4 DEF SavedTold, OwnersTold
  <2> QED  BY <2>2, <2>3, <2>4, <2>5 DEF SavedTold
<1>5. MergedTold'
  <2> SUFFICES ASSUME NEW i \in 2..n, frames[i].kind \in {"elif", "else"}, ~rejected'
               PROVE  paths[i - 1].everLost \cap Inside(frames, i - 1)' \subseteq frames[i].merged
    <3>1. \A i \in 2..n : i \in 1..n  BY <1>1
    <3> QED  BY <3>1 DEF MergedTold
  <2>1. i - 1 \in Nat /\ i - 1 < n  BY <1>1
  <2> QED  BY <1>2, <2>1 DEF Outside, MergedTold
<1>6. \A i \in 1..Len(paths) : i \in Nat /\ i < n /\ i + 1 \in 1..n
  <2>1. CASE frames = <<>>  BY <2>1 DEF Shape
  <2>2. CASE frames # <<>>  BY <1>1, <2>2 DEF Shape
  <2> QED  BY <2>1, <2>2
<1>7. GoneGrows'
  BY <1>2, <1>6 DEF Outside, GoneGrows
<1>8. LambdaKeeps'
  <2> SUFFICES ASSUME NEW i \in 1..Len(paths), frames[i + 1].kind = "lambda"
               PROVE  lost' \cap NamesUpTo(frames, i) \subseteq paths[i].lost
    BY <1>2, <1>6 DEF Outside, LambdaKeeps
  <2>1. i \in 1..n /\ i + 1 <= n  BY <1>1, <1>6
  <2>2. Inside(frames, n) \cap NamesUpTo(frames, i) = {}
    BY <1>1, <2>1, LambdaApart DEF Shape
  <2> QED  BY <2>2 DEF Outside, LambdaKeeps
<1> QED  BY <1>3, <1>4, <1>5, <1>7, <1>8 DEF Outside, CopiesTold

----------------------------------------------------------------------------
(* The history takes the steps of the checker.                             *)
LEMMA HistoryWalks == HNext => Next
<1> USE DEF Next
<1>1. ASSUME NEW P \in SUBSET Var, NEW S \in SUBSET P, NEW C \in SUBSET P,
             S \cap C = {}, HFunction(P, S, C)
      PROVE  Next
  BY <1>1 DEF HFunction
<1>2. ASSUME NEW x \in Var,
             HLetUninit(x) \/ HLetFresh(x, FALSE, FALSE) \/ HLetFresh(x, TRUE, FALSE)
      PROVE  Next
  BY <1>2 DEF HLetUninit, HLetFresh, Statement
<1>3. ASSUME NEW x \in Var, NEW y \in Var,
             \/ HLetFrom(x, y) \/ HLetRef(x, y) \/ HLetCRef(x, y) \/ HLetOwn(x, y)
             \/ HAssignVar(x, y)
      PROVE  Next
  <2>1. (y \in owner) \in BOOLEAN  OBVIOUS
  <2> QED  BY <1>3, <2>1 DEF HLetFrom, HLetRef, HLetCRef, HLetOwn, HAssignVar, Statement
<1>4. ASSUME NEW y \in Var,
             HUse(y) \/ HAssignFresh(y) \/ HWriteThrough(y) \/ HCallMutating(y)
      PROVE  Next
  BY <1>4 DEF HUse, HAssignFresh, HWriteThrough, HCallMutating, Statement
<1>5. ASSUME NEW y \in Var, HPassMove(y) \/ HPassRef(y) \/ HPassCRef(y)
      PROVE  Next
  BY <1>5 DEF HPassMove, HPassRef, HPassCRef, Argument
<1>6. ASSUME HEndCall PROVE Next  BY <1>6 DEF HEndCall, Argument
<1>7. ASSUME HOpen \/ HCloseStraight \/ HCloseLoop \/ HEndIf
      PROVE  Next
  BY <1>7 DEF HOpen, HCloseStraight, HCloseLoop, HEndIf, Compound
<1>8. ASSUME NEW P \in SUBSET Var, HOpenLambda(P)
      PROVE  Next
  BY <1>8 DEF HOpenLambda, Compound
<1>9. ASSUME NEW kind \in {"elif", "else"}, HNextBranch(kind)
      PROVE  Next
  BY <1>9 DEF HNextBranch, Compound
<1>10. ASSUME HEndFunction PROVE Next  BY <1>10 DEF HEndFunction
<1> QED
  BY <1>1, <1>2, <1>3, <1>4, <1>5, <1>6, <1>7, <1>8, <1>9, <1>10 DEF HNext

(* What the steps below use of the invariants.                             *)
LEMMA HereTold ==
    ASSUME IInv, HInv, Plain
    PROVE  /\ NoShadow
           /\ states \in [Var -> VarInfo] /\ borrow_map \in BorrowMap
           /\ frames \in Seq(FrameSet) /\ Len(frames) \in Nat
           /\ Agree(states, borrow_map)
           /\ Declared = NamesUpTo(frames, Len(frames))
           /\ Usable = Inside(frames, Len(frames))
           /\ Usable \subseteq Declared /\ Declared \subseteq Var
           /\ Usable \in SUBSET Var
           /\ loans \in SUBSET LoanSet
           /\ OwnersTold(states, owner, Usable)
           /\ Moved(states) \cap Usable \subseteq gone
           /\ ~rejected => /\ lost \cap Usable \subseteq Moved(states)
                           /\ LoansTold(states, borrow_map, loans, Usable)
<1>1. /\ states \in [Var -> VarInfo] /\ borrow_map \in BorrowMap
      /\ frames \in Seq(FrameSet) /\ Agree(states, borrow_map)
  BY DEF IInv, TypeOK, BorrowMap
<1>2. /\ Len(frames) \in Nat /\ Declared \subseteq Var
      /\ Declared = NamesUpTo(frames, Len(frames))
      /\ Usable = Inside(frames, Len(frames))
  BY <1>1, UsableInside
<1>3. Usable \subseteq Declared  BY <1>2, NamesOfBlocks
<1>4. NoShadow  BY DEF Plain, NoShadow
<1> QED  BY <1>1, <1>2, <1>3, <1>4 DEF HInv, HistoryTypes, NowTold

(* The checker sees the loans that stand in the way of a read or a write.  *)
LEMMA ConflictsSeen ==
    ASSUME IInv, HInv, Plain, ~rejected, NEW y \in Usable
    PROVE  /\ Loans(y) # {} => states[y].state # "Free"
           /\ Loans(y) = {} => states[y].state # "ImmutBorrowed"
           /\ MutLoans(y) # {} => states[y].state \in {"MutBorrowed", "Moved"}
<1>0. /\ states \in [Var -> VarInfo] /\ borrow_map \in BorrowMap
      /\ Agree(states, borrow_map) /\ y \in Var /\ loans \in SUBSET LoanSet
      /\ LoansTold(states, borrow_map, loans, Usable)
  BY HereTold
<1>1. DOMAIN borrow_map = Var \cup Slot  BY <1>0 DEF BorrowMap
<1>2. ASSUME NEW l \in Loans(y)
      PROVE  /\ states[y].state # "Free"
             /\ l.mut => states[y].state # "ImmutBorrowed"
  <2>1. l \in loans /\ l.source = y /\ l.holder \in Var \cup Slot
    BY <1>0 DEF Loans, LoanSet
  <2>2. borrow_map[l.holder] = y /\ (l.mut => states[y].state # "ImmutBorrowed")
    BY <1>0, <2>1 DEF LoansTold
  <2>3. l.holder \in Borrowers(borrow_map, y)  BY <1>1, <2>1, <2>2 DEF Borrowers
  <2>4. states[y].state # "Free"  BY <1>0, <2>3 DEF Agree
  <2> QED  BY <2>2, <2>4
<1>3. ASSUME Loans(y) = {}, states[y].state = "ImmutBorrowed"
      PROVE  FALSE
  <2>1. /\ states[y].immut_count = Cardinality(Borrowers(borrow_map, y))
        /\ states[y].immut_count > 0
    BY <1>0, <1>3 DEF Agree
  <2>2. Borrowers(borrow_map, y) # {}
    <3>1. SUFFICES ASSUME Borrowers(borrow_map, y) = {} PROVE FALSE  OBVIOUS
    <3>2. Cardinality(Borrowers(borrow_map, y)) = 0  BY <3>1, FS_EmptySet
    <3> QED  BY <2>1, <3>2
  <2>3. PICK b \in Borrowers(borrow_map, y) : TRUE  BY <2>2
  <2>4. b \in Var \cup Slot /\ borrow_map[b] = y  BY <1>1 DEF Borrowers
  <2>5. PICK l \in loans : l.holder = b /\ l.source = y  BY <1>0, <2>4 DEF LoansTold
  <2> QED  BY <1>3, <2>5 DEF Loans
<1>4. states[y].state \in VarState  BY <1>0 DEF VarInfo
<1>5. MutLoans(y) # {} => states[y].state \in {"MutBorrowed", "Moved"}
  <2>1. HAVE MutLoans(y) # {}
  <2>2. PICK l \in Loans(y) : l.mut  BY <2>1 DEF MutLoans
  <2> QED  BY <1>2, <1>4, <2>2 DEF VarState
<1> QED  BY <1>2, <1>3, <1>5

(* So what a visit does wrong it reports, but for what it overlooks.       *)
LEMMA FaultsSeen ==
    ASSUME IInv, HInv, Plain, NEW y \in Usable
    PROVE  /\ ~rejected /\ ~Unreadable(y) => ReadFaults(y) \subseteq Overlooked
           /\ ~rejected /\ states[y].state = "Free" =>
                 /\ ReadFaults(y) \cup WriteFaults(y) \cup TakeFaults(y) \subseteq Overlooked
                 /\ Loans(y) = {}
<1>1. CASE rejected  BY <1>1
<1>2. CASE ~rejected
  <2>1. ~Unreadable(y) => MutLoans(y) = {}
    BY <1>2, ConflictsSeen DEF Unreadable
  <2>2. states[y].state = "Free" => ~Unreadable(y) /\ Loans(y) = {}
    BY <1>2, ConflictsSeen DEF Unreadable
  <2>3. ~Unreadable(y) => y \notin lost
    <3>1. lost \cap Usable \subseteq Moved(states)  BY <1>2, HereTold
    <3> QED  BY <3>1 DEF Moved, Unreadable
  <2>4. ~Unreadable(y) => ReadFaults(y) \subseteq Overlooked
    BY <2>1, <2>3 DEF ReadFaults, FaultIf, Overlooked
  <2>5. states[y].state = "Free" => WriteFaults(y) = {} /\ TakeFaults(y) = {}
    BY <2>2 DEF WriteFaults, TakeFaults, BorrowFaults, FaultIf
  <2> QED  BY <2>2, <2>4, <2>5
<1> QED  BY <1>1, <1>2

(* These are overlooked whatever is borrowed.                              *)
LEMMA FaultsOverlooked ==
    ASSUME NEW y
    PROVE  MoveFaults(y) \cup BorrowFaults(y, "part written while borrowed") \subseteq Overlooked
<1>1. BorrowFaults(y, "part written while borrowed") \subseteq Overlooked
  BY DEF BorrowFaults, FaultIf, Overlooked
<1>2. \A v : BorrowFaults(v, "moved while borrowed") \subseteq Overlooked
  BY DEF BorrowFaults, FaultIf, Overlooked
<1> QED  BY <1>1, <1>2 DEF MoveFaults

(* A visit that leaves the blocks, the borrows and the loans alone, and    *)
(* moves the names of M, those of N with the checker's knowledge.          *)
LEMMA QuietVisit ==
    ASSUME IInv, HInv, Plain, NEW M \in SUBSET Usable,
           frames' = frames, paths' = paths, owner' = owner, loans' = loans,
           borrow_map' = borrow_map, 1..call \subseteq 1..(call'),
           NEW N \in SUBSET M, gone' = gone \cup M, lost' = lost \cup N,
           \A v \in Var : /\ states'[v].is_struct = states[v].is_struct
                          /\ states'[v].state \in {states[v].state, "Moved"},
           Moved(states') \subseteq Moved(states) \cup M,
           rejected => rejected',
           ~rejected' => N \subseteq Moved(states'),
           NoConflict'
    PROVE  HInv'
<1>0. /\ frames \in Seq(FrameSet) /\ Usable = Inside(frames, Len(frames))
      /\ Usable \subseteq Declared /\ Declared \subseteq Var
      /\ OwnersTold(states, owner, Usable)
      /\ Moved(states) \cap Usable \subseteq gone
      /\ ~rejected => /\ lost \cap Usable \subseteq Moved(states)
                      /\ LoansTold(states, borrow_map, loans, Usable)
  BY HereTold
<1>1. HistoryTypes'
  <2>1. gone \cup M \in SUBSET Var /\ lost \cup N \in SUBSET Var
    BY <1>0 DEF HInv, HistoryTypes
  <2> QED  BY <2>1 DEF HInv, HistoryTypes
<1>2. Shape' /\ LoansNest'
  BY DEF HInv, Shape, LoansNest, Declared
<1>3. Outside'
  BY <1>0, OutsideKeeps DEF HInv
<1>4. OwnersTold(states, owner, Usable)'
  <2>1. Usable' = Usable  BY DEF Usable
  <2> QED  BY <1>0, <2>1 DEF OwnersTold
<1>5. Moved(states) \subseteq Moved(states')
  BY DEF Moved
<1>6. ~rejected' => LoansTold(states', borrow_map, loans, Usable)
  <2>1. HAVE ~rejected'
  <2>2. \A v \in Usable : states'[v].state = "ImmutBorrowed"
                            => states[v].state = "ImmutBorrowed"
    BY <1>0
  <2> QED  BY <1>0, <2>1, <2>2, LoansStay
<1>7. NowTold'
  <2>1. OwnersTold(states', owner, Usable)  BY <1>4 DEF Usable
  <2> QED  BY <1>0, <1>5, <1>6, <2>1 DEF NowTold
<1> QED  BY <1>1, <1>2, <1>3, <1>7 DEF HInv

(* What is reported keeps NoConflict.                                      *)
LEMMA ReportedFaults ==
    ASSUME NoConflict, NEW F, NEW e, Report(e), faults' = faults \cup F,
           ~rejected /\ ~e => F \subseteq Overlooked
    PROVE  NoConflict' /\ (rejected => rejected') /\ (e => rejected')
BY DEF NoConflict, Report

(* Reads, writes and assignments.                                          *)
LEMMA VisitKeeps ==
    ASSUME IInv, HInv, Plain, NEW y \in Var,
           \/ HUse(y) \/ HAssignFresh(y) \/ HWriteThrough(y) \/ HCallMutating(y)
           \/ \E t \in Var : HAssignVar(t, y)
    PROVE  HInv'
<1>0. /\ states \in [Var -> VarInfo] /\ NoConflict /\ Usable \subseteq Var
      /\ OwnersTold(states, owner, Usable)
      /\ \A v \in Var : states[v].state \in VarState
  <2>1. \A v \in Var : states[v] \in VarInfo  BY HereTold
  <2> QED  BY <2>1, HereTold DEF HInv, VarInfo
<1>1. ASSUME Visits(y), UNCHANGED <<states, owner, gone, lost, paths, loans>>,
             rejected => rejected', NoConflict'
      PROVE  HInv'
  <2>1. /\ frames' = frames /\ borrow_map' = borrow_map /\ 1..call \subseteq 1..(call')
        /\ {} \in SUBSET Usable /\ {} \in SUBSET {}
    BY <1>1 DEF Visits
  <2>2. gone' = gone \cup {} /\ lost' = lost \cup {}  BY <1>1
  <2>3. Moved(states') \subseteq Moved(states) \cup {}  BY <1>1
  <2>4. ~rejected' => {} \subseteq Moved(states')  OBVIOUS
  <2> QED  BY <1>1, <2>1, <2>2, <2>3, <2>4, QuietVisit
<1>2. ASSUME Visits(y)
      PROVE  /\ ~rejected /\ ~Unreadable(y) => ReadFaults(y) \subseteq Overlooked
             /\ ~rejected /\ states[y].state = "Free" =>
                   ReadFaults(y) \cup WriteFaults(y) \subseteq Overlooked
  BY <1>2, FaultsSeen DEF Visits
<1>3. CASE HUse(y)
  <2>1. Visits(y) /\ Report(Unreadable(y)) /\ faults' = faults \cup ReadFaults(y)
    BY <1>3 DEF HUse, Use
  <2>2. NoConflict' /\ (rejected => rejected')
    BY <1>0, <1>2, <2>1, ReportedFaults
  <2> QED  BY <1>1, <1>3, <2>1, <2>2 DEF HUse, Use
<1>4. CASE HAssignFresh(y)
  <2>1. /\ Visits(y) /\ Report(Unwritable(y))
        /\ faults' = faults \cup WriteFaults(y)
    BY <1>4 DEF HAssignFresh, AssignFresh
  <2>2. ~rejected /\ ~Unwritable(y) => WriteFaults(y) \subseteq Overlooked
    BY <1>2, <2>1 DEF Unwritable
  <2>3. NoConflict' /\ (rejected => rejected')
    BY <1>0, <2>1, <2>2, ReportedFaults
  <2> QED  BY <1>1, <1>4, <2>1, <2>3 DEF HAssignFresh, AssignFresh
<1>5. CASE HWriteThrough(y)
  <2>1. /\ Visits(y) /\ Report(Unreadable(y) \/ states[y].is_cref)
        /\ faults' = faults \cup (ReadFaults(y)
                        \cup BorrowFaults(y, "part written while borrowed"))
    BY <1>5 DEF HWriteThrough, WriteThrough
  <2>2. ~rejected /\ ~(Unreadable(y) \/ states[y].is_cref)
          => ReadFaults(y) \cup BorrowFaults(y, "part written while borrowed") \subseteq Overlooked
    BY <1>2, <2>1, FaultsOverlooked
  <2>3. NoConflict' /\ (rejected => rejected')
    BY <1>0, <2>1, <2>2, ReportedFaults
  <2> QED  BY <1>1, <1>5, <2>1, <2>3 DEF HWriteThrough, WriteThrough
<1>6. CASE HCallMutating(y)
  <2>1. /\ Visits(y) /\ y \in owner
        /\ Report(Unreadable(y) \/ (states[y].is_struct /\ states[y].state # "Free"))
        /\ faults' = faults \cup (ReadFaults(y) \cup WriteFaults(y))
    BY <1>6 DEF HCallMutating, CallMutating
  <2>2. states[y].is_struct  BY <1>0, <2>1 DEF OwnersTold, Visits
  <2>3. ~rejected /\ ~(Unreadable(y) \/ (states[y].is_struct /\ states[y].state # "Free"))
          => ReadFaults(y) \cup WriteFaults(y) \subseteq Overlooked
    BY <1>2, <2>1, <2>2
  <2>4. NoConflict' /\ (rejected => rejected')
    BY <1>0, <2>1, <2>3, ReportedFaults
  <2> QED  BY <1>1, <1>6, <2>1, <2>4 DEF HCallMutating, CallMutating
<1>7. ASSUME NEW t \in Var, HAssignVar(t, y)
      PROVE  HInv'
  <2> DEFINE M == {y} \cap owner
             N == IF Loans(y) = {} THEN M ELSE {}
             e == Unreadable(y) \/ Unwritable(t)
  <2>1. /\ Visits(y) /\ t \in Usable /\ y \in Usable /\ Report(e)
        /\ faults' = faults \cup (ReadFaults(y) \cup MoveFaults(y) \cup WriteFaults(t))
        /\ states' = IF states[y].state = "Free" /\ states[y].is_struct
                     THEN mark_moved(states, y) ELSE states
        /\ gone' = gone \cup M /\ lost' = lost \cup N
        /\ UNCHANGED <<owner, paths, loans>>
    BY <1>7 DEF HAssignVar, AssignVar, Visits, MovedFrom
  <2>2. states[y].is_struct <=> y \in owner  BY <1>0, <2>1 DEF OwnersTold
  <2>3. ~rejected /\ ~e
           => ReadFaults(y) \cup MoveFaults(y) \cup WriteFaults(t) \subseteq Overlooked
    <3>1. ~rejected /\ ~Unreadable(y) => ReadFaults(y) \subseteq Overlooked
      BY <2>1, FaultsSeen
    <3>2. ~rejected /\ ~Unwritable(t) => WriteFaults(t) \subseteq Overlooked
      BY <2>1, FaultsSeen DEF Unwritable
    <3> QED  BY <3>1, <3>2, FaultsOverlooked
  <2>4. NoConflict' /\ (rejected => rejected') /\ (e => rejected')
    BY <1>0, <2>1, <2>3, ReportedFaults
  <2>5. ~rejected' => N \subseteq Moved(states')
    <3>1. SUFFICES ASSUME ~rejected', y \in owner, Loans(y) = {}  PROVE y \in Moved(states')
      OBVIOUS
    <3>2. ~rejected /\ ~Unreadable(y)  BY <2>4, <3>1
    <3>3. states[y].state # "ImmutBorrowed"  BY <2>1, <3>1, <3>2, ConflictsSeen
    <3>4. states[y].state = "Free"  BY <1>0, <3>2, <3>3 DEF Unreadable, VarState
    <3>5. states' = mark_moved(states, y)  BY <2>1, <2>2, <3>1, <3>4
    <3> QED  BY <1>0, <3>5, MovedEffect
  <2>6. \A v \in Var : /\ states'[v].is_struct = states[v].is_struct
                       /\ states'[v].state \in {states[v].state, "Moved"}
    BY <1>0, <2>1, MarkEffect
  <2>7. Moved(states') \subseteq Moved(states) \cup M
    <3>1. CASE states' = states  BY <3>1
    <3>2. CASE states' = mark_moved(states, y) /\ states[y].is_struct
      BY <1>0, <2>2, <3>2, MovedEffect
    <3> QED  BY <2>1, <3>1, <3>2
  <2>8. /\ frames' = frames /\ borrow_map' = borrow_map /\ 1..call \subseteq 1..(call')
        /\ M \in SUBSET Usable /\ N \in SUBSET M
    BY <2>1 DEF Visits
  <2> HIDE DEF M, N, e
  <2> QED  BY <2>1, <2>4, <2>5, <2>6, <2>7, <2>8, QuietVisit
<1> QED  BY <1>3, <1>4, <1>5, <1>6, <1>7

----------------------------------------------------------------------------
(* Calls.                                                                  *)

(* No argument is borrowed for that has not been visited.                  *)
LEMMA NextSlot ==
    ASSUME IInv, HInv, Plain, call < MaxArgs
    PROVE  /\ call \in Nat /\ call + 1 \in Slot /\ 1..call \subseteq Slot
           /\ call + 1 \notin Var /\ call + 1 \notin 1..call
           /\ borrow_map[call + 1] = None
           /\ \A l \in loans : l.holder # call + 1
<1>1. /\ call \in Nat /\ MaxArgs \in Nat /\ frames \in Seq(FrameSet)
      /\ Nests(borrow_map, frames, Len(frames), call)
  BY BoundAssumption DEF IInv, TypeOK, BorrowsNest
<1>2. call + 1 \in Slot /\ call + 1 \notin 1..call /\ 1..call \subseteq Slot
  BY <1>1 DEF Slot
<1>3. call + 1 \notin Var  BY <1>2, SlotAssumption
<1>4. \A i \in 1..Len(frames) : frames[i].names \subseteq Var
  <2>1. \A i \in 1..Len(frames) : frames[i] \in FrameSet  BY ONLY <1>1, ElementOfSeq
  <2> QED  BY <2>1 DEF FrameSet
<1>5. borrow_map[call + 1] = None  BY <1>1, <1>2, <1>3, <1>4 DEF Nests
<1>6. \A l \in loans : l.holder # call + 1
  BY <1>2, <1>3, <1>4 DEF HInv, LoansNest
<1> QED  BY <1>1, <1>2, <1>3, <1>5, <1>6

(* Passing a value: it is moved, or that is reported.                      *)
LEMMA PassMoveKeeps ==
    ASSUME IInv, HInv, Plain, NEW y \in Var, HPassMove(y)
    PROVE  HInv'
<1>0. /\ states \in [Var -> VarInfo] /\ NoConflict
      /\ call \in Nat
  BY HereTold DEF HInv, IInv, TypeOK
<1>1. /\ NextArg(y) /\ y \in Usable /\ Report(~(states[y].state = "Free"))
      /\ states' = IF states[y].state = "Free" THEN mark_moved(states, y) ELSE states
      /\ borrow_map' = borrow_map /\ frames' = frames /\ call' = call + 1
      /\ faults' = faults \cup (ReadFaults(y) \cup TakeFaults(y))
      /\ gone' = gone \cup {y} /\ lost' = lost \cup {y}
      /\ UNCHANGED <<owner, paths, loans>>
  BY DEF HPassMove, PassMove, NextArg
<1>2. ~rejected /\ states[y].state = "Free" =>
         ReadFaults(y) \cup TakeFaults(y) \subseteq Overlooked
  BY <1>1, FaultsSeen
<1>3. NoConflict' /\ (rejected => rejected') /\ (~(states[y].state = "Free") => rejected')
  BY <1>0, <1>1, <1>2, ReportedFaults
<1>4. \A v \in Var : /\ states'[v].is_struct = states[v].is_struct
                     /\ states'[v].state \in {states[v].state, "Moved"}
  BY <1>0, <1>1, MarkEffect
<1>5. /\ Moved(states') \subseteq Moved(states) \cup {y}
      /\ ~rejected' => {y} \subseteq Moved(states')
  BY <1>0, <1>1, <1>3, MovedEffect
<1>6. 1..call \subseteq 1..(call') /\ {y} \in SUBSET Usable /\ {y} \in SUBSET {y}  BY <1>0, <1>1
<1> QED  BY <1>1, <1>3, <1>4, <1>5, <1>6, QuietVisit

(* Lending a name to a call.                                               *)
LEMMA PassBorrowKeeps ==
    ASSUME IInv, HInv, Plain, NEW y \in Var, HPassRef(y) \/ HPassCRef(y)
    PROVE  HInv'
<1> DEFINE mut == HPassRef(y)
           ok == states[y].state = "Free" \/ (~mut /\ states[y].state = "ImmutBorrowed")
           marked == IF mut THEN mark_mut_borrowed(states, y)
                            ELSE mark_immut_borrowed(states, y)
<1>0. /\ states \in [Var -> VarInfo] /\ borrow_map \in BorrowMap /\ NoConflict
      /\ frames \in Seq(FrameSet) /\ Usable = Inside(frames, Len(frames))
      /\ Usable \subseteq Declared /\ Declared \subseteq Var /\ Usable \in SUBSET Var
      /\ OwnersTold(states, owner, Usable) /\ Agree(states, borrow_map)
      /\ Moved(states) \cap Usable \subseteq gone /\ loans \in SUBSET LoanSet
      /\ ~rejected => /\ lost \cap Usable \subseteq Moved(states)
                      /\ LoansTold(states, borrow_map, loans, Usable)
  BY HereTold DEF HInv
<1>1. /\ y \in Usable /\ call < MaxArgs /\ call' = call + 1 /\ frames' = frames
      /\ Report(~ok)
      /\ states' = IF ok THEN marked ELSE states
      /\ borrow_map' = IF ok THEN [borrow_map EXCEPT ![call + 1] = y] ELSE borrow_map
      /\ loans' = loans \cup {Loan(call + 1, y, mut)}
      /\ UNCHANGED <<owner, gone, lost, paths>>
  <2>1. CASE mut
    <3>1. /\ NextArg(y) /\ Report(~(states[y].state = "Free"))
          /\ states' = IF states[y].state = "Free" THEN marked ELSE states
          /\ borrow_map' = IF states[y].state = "Free"
                           THEN [borrow_map EXCEPT ![call + 1] = y] ELSE borrow_map
          /\ loans' = loans \cup {Loan(call + 1, y, TRUE)}
          /\ UNCHANGED <<owner, gone, lost, paths>>
      BY <2>1 DEF HPassRef, PassRef, Borrows
    <3>2. mut = TRUE  BY <2>1 DEF HPassRef, PassRef, NextArg, Borrows
    <3>3. ok <=> states[y].state = "Free"  BY <2>1
    <3> HIDE DEF mut, ok, marked
    <3> QED  BY <3>1, <3>2, <3>3 DEF NextArg
  <2>2. CASE ~mut
    <3>1. /\ NextArg(y) /\ Report(~(states[y].state \in {"Free", "ImmutBorrowed"}))
          /\ states' = IF states[y].state \in {"Free", "ImmutBorrowed"}
                       THEN marked ELSE states
          /\ borrow_map' = IF states[y].state \in {"Free", "ImmutBorrowed"}
                           THEN [borrow_map EXCEPT ![call + 1] = y] ELSE borrow_map
          /\ loans' = loans \cup {Loan(call + 1, y, FALSE)}
          /\ UNCHANGED <<owner, gone, lost, paths>>
      BY <2>2 DEF HPassCRef, PassCRef, Borrows
    <3>2. mut = FALSE  BY <2>2 DEF HPassRef
    <3>3. ok <=> states[y].state \in {"Free", "ImmutBorrowed"}  BY <2>2
    <3> HIDE DEF mut, ok, marked
    <3> QED  BY <3>1, <3>2, <3>3 DEF NextArg
  <2> QED  BY <2>1, <2>2
<1>2. NoConflict' /\ (rejected => rejected') /\ (~ok => rejected')
  <2>1. faults' = faults \cup (ReadFaults(y) \cup FaultIf(mut /\ Loans(y) # {}, "borrowed twice"))
    BY DEF HPassRef, HPassCRef, Borrows
  <2>2. ~rejected /\ ok => ReadFaults(y) \cup FaultIf(mut /\ Loans(y) # {}, "borrowed twice")
                             \subseteq Overlooked
    <3>1. ok => ~Unreadable(y)  BY DEF Unreadable
    <3>2. ok /\ mut => states[y].state = "Free"  OBVIOUS
    <3> HIDE DEF ok, mut
    <3> QED  BY <1>1, <3>1, <3>2, FaultsSeen DEF FaultIf
  <2> HIDE DEF ok, mut
  <2> QED  BY <1>0, <1>1, <2>1, <2>2, ReportedFaults
<1>3. /\ call \in Nat /\ call + 1 \in Slot /\ call + 1 \notin Var
      /\ borrow_map[call + 1] = None /\ \A l \in loans : l.holder # call + 1
  BY <1>1, NextSlot
<1>4. /\ \A v \in Var : states'[v].is_struct = states[v].is_struct
      /\ Moved(states') = Moved(states)
  BY <1>0, <1>1, MarkEffect, MovedEffect
<1>5. ~rejected' => LoansTold(states', borrow_map', loans', Usable)
  <2>1. HAVE ~rejected'
  <2>2. ok /\ ~rejected  BY <1>2, <2>1
  <2>3. mut \in BOOLEAN  BY DEF HPassRef, PassRef, NextArg
  <2>4. LoansTold(states, borrow_map, loans, Usable)  BY <1>0, <2>2
  <2>5. call + 1 \in Var \cup Slot  BY <1>3
  <2>6. ok => states[y].state = "Free" \/ (~mut /\ states[y].state = "ImmutBorrowed")
    OBVIOUS
  <2> HIDE DEF mut, ok
  <2>7. LoansTold(marked, [borrow_map EXCEPT ![call + 1] = y],
                  loans \cup {Loan(call + 1, y, mut)}, Usable)
    BY <1>0, <1>1, <1>3, <2>2, <2>3, <2>4, <2>5, <2>6, LoansBorrow
  <2> HIDE DEF marked
  <2> QED  BY <1>1, <2>2, <2>7
<1>6. Loan(call + 1, y, mut) \in LoanSet
      /\ Loan(call + 1, y, mut).holder = call + 1 /\ Loan(call + 1, y, mut).source = y
  BY <1>3 DEF Loan, LoanSet, HPassRef, PassRef, NextArg
<1> HIDE DEF mut, ok, marked
<1>7. HistoryTypes'  BY <1>0, <1>1, <1>6 DEF HInv, HistoryTypes
<1>8. Shape'  BY <1>1, <1>3 DEF HInv, Shape, HPassRef, HPassCRef, PassRef, PassCRef, NextArg
<1>9. LoansNest'
  <2>1. Declared' = Declared  BY <1>1 DEF Declared
  <2>2. 1..call \subseteq 1..(call') /\ call + 1 \in 1..(call')  BY <1>1, <1>3
  <2>3. \A l \in loans :
           \/ l.holder \in 1..call /\ l.source \in Declared
           \/ \E i, j \in 1..Len(frames) :
                 j <= i /\ l.holder \in frames[i].names /\ l.source \in frames[j].names
    BY DEF HInv, LoansNest
  <2>4. Loan(call + 1, y, mut).holder \in 1..(call')
        /\ Loan(call + 1, y, mut).source \in Declared
    BY <1>0, <1>1, <1>6, <2>2
  <2> QED  BY <1>1, <2>1, <2>2, <2>3, <2>4 DEF LoansNest
<1>10. Outside'
  <2>1. \A l : l.holder \in Declared => (l \in loans' <=> l \in loans)
    BY <1>0, <1>1, <1>3, <1>6
  <2> QED  BY <1>0, <1>1, <1>2, <2>1, OutsideKeeps DEF HInv
<1>11. NowTold'
  <2>1. OwnersTold(states', owner, Usable)  BY <1>0, <1>4 DEF OwnersTold
  <2>2. ~rejected' => ~rejected  BY <1>2
  <2> QED  BY <1>0, <1>1, <1>4, <1>5, <2>1, <2>2 DEF NowTold
<1> QED  BY <1>2, <1>7, <1>8, <1>9, <1>10, <1>11 DEF HInv

(* The end of a call: its loans end with its borrows.                      *)
LEMMA EndCallKeeps ==
    ASSUME IInv, HInv, Plain, HEndCall
    PROVE  HInv'
<1>0. /\ states \in [Var -> VarInfo] /\ borrow_map \in BorrowMap /\ NoConflict
      /\ frames \in Seq(FrameSet) /\ Usable = Inside(frames, Len(frames))
      /\ Usable \subseteq Declared /\ Declared \subseteq Var /\ Usable \in SUBSET Var
      /\ OwnersTold(states, owner, Usable) /\ loans \in SUBSET LoanSet
      /\ Moved(states) \cap Usable \subseteq gone
      /\ ~rejected => /\ lost \cap Usable \subseteq Moved(states)
                      /\ LoansTold(states, borrow_map, loans, Usable)
  BY HereTold DEF HInv
<1>1. /\ states' = release_borrow(states, borrow_map, Slot)
      /\ borrow_map' = Unbind(borrow_map, Slot) /\ frames' = frames
      /\ call' = 0 /\ rejected' = rejected
      /\ loans' = {l \in loans : l.holder \notin Slot}
      /\ UNCHANGED <<owner, gone, lost, paths, faults>>
  BY DEF HEndCall, EndCall, Settle
<1>2. /\ \A v \in Var : states'[v].is_struct = states[v].is_struct
      /\ Moved(states') = Moved(states)
  BY <1>0, <1>1, ReleaseEffect, MovedEffect
<1>3. ~rejected => LoansTold(states', borrow_map', loans', Usable)
  BY <1>0, <1>1, LoansRelease
<1>4. Slot \cap Declared = {}  BY <1>0, SlotAssumption
<1>5. 1..call \subseteq Slot  BY BoundAssumption DEF IInv, TypeOK, Slot
<1>6. HistoryTypes' /\ Shape' /\ NoConflict'
  BY <1>0, <1>1 DEF HInv, HistoryTypes, Shape, NoConflict
<1>7. LoansNest'
  BY <1>1, <1>5 DEF HInv, LoansNest
<1>8. Outside'
  <2>1. \A l : l.holder \in Declared => (l \in loans' <=> l \in loans)
    BY <1>1, <1>4
  <2> QED  BY <1>0, <1>1, <2>1, OutsideKeeps DEF HInv
<1>9. NowTold'
  <2>1. OwnersTold(states', owner, Usable)  BY <1>0, <1>2 DEF OwnersTold
  <2> QED  BY <1>0, <1>1, <1>2, <1>3, <2>1 DEF NowTold
<1> QED  BY <1>6, <1>7, <1>8, <1>9 DEF HInv

----------------------------------------------------------------------------
(* Declarations.                                                           *)

(* A new name: nobody has borrowed it, and it is usable from here on.      *)
LEMMA Newcomer ==
    ASSUME IInv, HInv, Plain, NEW x \in Var, Declares(x)
    PROVE  /\ x \notin Declared /\ x \notin Usable /\ call = 0 /\ call' = 0
           /\ Len(frames') = Len(frames) /\ Len(frames) \in Nat \ {0}
           /\ \A i \in 1..Len(frames) :
                 /\ frames'[i].kind = frames[i].kind
                 /\ frames'[i].states = frames[i].states
                 /\ frames'[i].borrow_map = frames[i].borrow_map
                 /\ frames'[i].merged = frames[i].merged
                 /\ i # Len(frames) => frames'[i].names = frames[i].names
           /\ frames'[Len(frames)].names = frames[Len(frames)].names \cup {x}
           /\ Inside(frames', Len(frames)) = Usable \cup {x}
           /\ \A l \in loans : l.holder # x /\ l.source # x
           /\ borrow_map[x] = None /\ \A b \in Var \cup Slot : borrow_map[b] # x
<1> DEFINE n == Len(frames)
<1>0. /\ frames \in Seq(FrameSet) /\ NoShadow /\ Usable \subseteq Declared
      /\ Usable = Inside(frames, n) /\ borrow_map \in BorrowMap
  BY HereTold
<1>1. frames # <<>> /\ call = 0 /\ call' = 0 /\ frames' = WithName(x) /\ x \in Declarable
  BY DEF Declares, AtStatement
<1>2. x \notin Declared  BY <1>0, <1>1 DEF Declarable, Fresh, NoShadow
<1>3. n \in Nat \ {0} /\ DOMAIN frames = 1..n /\ Top = frames[n]
  BY <1>0, <1>1, TopOfStack
<1>4. /\ Len(frames') = n
      /\ \A i \in 1..n : frames'[i]
           = IF i = n THEN Frame(Top.kind, Top.names \cup {x}, Top.states,
                                 Top.borrow_map, Top.merged)
                      ELSE frames[i]
  BY <1>0, <1>1, NameFrame
<1>5. /\ \A i \in 1..n :
           /\ frames'[i].kind = frames[i].kind
           /\ frames'[i].states = frames[i].states
           /\ frames'[i].borrow_map = frames[i].borrow_map
           /\ frames'[i].merged = frames[i].merged
           /\ i # n => frames'[i].names = frames[i].names
      /\ frames'[n].names = frames[n].names \cup {x}
  <2>1. \A k, names, st, bm, moved :
           LET f == Frame(k, names, st, bm, moved)
           IN  /\ f.kind = k /\ f.names = names /\ f.states = st
               /\ f.borrow_map = bm /\ f.merged = moved
    BY DEF Frame
  <2>2. n \in 1..n  BY <1>3
  <2> HIDE DEF n
  <2> QED  BY <1>3, <1>4, <2>1, <2>2
<1>6. Inside(frames', n) = Inside(frames, n) \cup {x}
  <2>1. n - 1 \in Nat /\ n - 1 + 1 = n /\ n \in 1..n
        /\ \A i \in 1..(n - 1) : i \in 1..n /\ i # n
    <3>1. n \in Nat \ {0}  BY <1>3
    <3> HIDE DEF n
    <3> QED  BY ONLY <3>1
  <2>2. \A i \in 1..(n - 1) :
           frames'[i].names = frames[i].names /\ frames'[i].kind = frames[i].kind
    BY <1>5, <2>1
  <2> HIDE DEF n
  <2>3. Inside(frames', n - 1) = Inside(frames, n - 1)  BY <2>1, <2>2, NamesSame
  <2>4. \A fs : Inside(fs, n) = IF fs[n].kind = "lambda" THEN fs[n].names
                                ELSE Inside(fs, n - 1) \cup fs[n].names
    BY <2>1, NamesOfBlocks
  <2>5. /\ Inside(frames', n) = IF frames'[n].kind = "lambda" THEN frames'[n].names
                                ELSE Inside(frames', n - 1) \cup frames'[n].names
        /\ Inside(frames, n) = IF frames[n].kind = "lambda" THEN frames[n].names
                               ELSE Inside(frames, n - 1) \cup frames[n].names
    BY <2>4
  <2> QED  BY <1>5, <2>1, <2>3, <2>5
<1>7. \A i \in 1..n : x \notin frames[i].names
  BY <1>2, <1>3 DEF Declared
<1>8. \A l \in loans : l.holder # x /\ l.source # x
  <2>1. 1..call = {}  BY <1>1
  <2> QED  BY <1>7, <2>1 DEF HInv, LoansNest
<1>9. borrow_map[x] = None /\ \A b \in Var \cup Slot : borrow_map[b] # x
  <2>1. borrow_map[x] = None /\ Borrowers(borrow_map, x) = {}
    BY <1>1, <1>2, Undeclared
  <2> QED  BY <1>0, <2>1 DEF Borrowers, BorrowMap
<1> QED  BY <1>0, <1>1, <1>2, <1>3, <1>4, <1>5, <1>6, <1>8, <1>9

(* A declaration that moves the names of M, and may borrow.                *)
LEMMA DeclareTold ==
    ASSUME IInv, HInv, Plain, NEW x \in Var, Declares(x), NEW M \in SUBSET Usable,
           paths' = paths, owner' \in SUBSET Var,
           \A v \in Declared : v \in owner' <=> v \in owner,
           gone' = (gone \ {x}) \cup M, lost' = (lost \ {x}) \cup M,
           states'[x].is_struct <=> x \in owner', states'[x].state # "Moved",
           \A v \in Usable : states'[v].is_struct = states[v].is_struct,
           Moved(states') \cap Usable \subseteq Moved(states) \cup M,
           ~rejected' => (Moved(states) \cap Usable) \cup M \subseteq Moved(states'),
           loans \subseteq loans', loans' \in SUBSET LoanSet,
           \A l \in loans' \ loans : l.holder = x /\ l.source \in Usable,
           ~rejected' => LoansTold(states', borrow_map', loans', Usable \cup {x}),
           rejected => rejected', NoConflict'
    PROVE  HInv'
<1> DEFINE n == Len(frames)
<1>0. /\ frames \in Seq(FrameSet) /\ n \in Nat /\ Usable = Inside(frames, n)
      /\ Usable \subseteq Declared /\ Declared \subseteq Var
      /\ OwnersTold(states, owner, Usable)
      /\ Moved(states) \cap Usable \subseteq gone
      /\ ~rejected => lost \cap Usable \subseteq Moved(states)
      /\ Declared = NamesUpTo(frames, n)
  BY HereTold
<1>1. /\ x \notin Declared /\ x \notin Usable /\ call = 0 /\ call' = 0
      /\ Len(frames') = n /\ n # 0
      /\ \A i \in 1..n :
           /\ frames'[i].kind = frames[i].kind
           /\ frames'[i].states = frames[i].states
           /\ frames'[i].borrow_map = frames[i].borrow_map
           /\ frames'[i].merged = frames[i].merged
           /\ i # n => frames'[i].names = frames[i].names
      /\ frames'[n].names = frames[n].names \cup {x}
      /\ Inside(frames', n) = Usable \cup {x}
  BY Newcomer
<1>2. frames # <<>>  BY DEF Declares, AtStatement
<1>3. HistoryTypes'
  <2>1. (gone \ {x}) \cup M \in SUBSET Var /\ (lost \ {x}) \cup M \in SUBSET Var
    BY <1>0 DEF HInv, HistoryTypes
  <2> QED  BY <2>1 DEF HInv, HistoryTypes
<1>4. \A i \in 1..n : x \notin frames[i].names
  BY <1>0, <1>1 DEF NamesUpTo
<1>5. Shape'
  <2>1. frames' # <<>>
    <3>1. Len(<<>>) = 0  OBVIOUS
    <3> QED  BY <1>1, <3>1
  <2>2. Len(paths) = n - 1 /\ frames[1].kind = "function"
        /\ \A i, j \in 1..n : i # j => frames[i].names \cap frames[j].names = {}
    BY <1>2 DEF HInv, Shape
  <2>3. 1 \in 1..n  BY <1>0, <1>1
  <2>4. ASSUME NEW i \in 1..n, NEW j \in 1..n, i # j
        PROVE  frames'[i].names \cap frames'[j].names = {}
    BY <1>1, <1>4, <2>2, <2>4
  <2> QED  BY <1>1, <2>1, <2>2, <2>3, <2>4 DEF Shape
<1>6. \A i \in 1..n : frames[i].names \subseteq frames'[i].names
  BY <1>1
<1>7. LoansNest'
  <2> SUFFICES ASSUME NEW l \in loans'
               PROVE  \E i, j \in 1..n : /\ j <= i /\ l.holder \in frames'[i].names
                                         /\ l.source \in frames'[j].names
    BY <1>1 DEF LoansNest
  <2>1. CASE l \in loans
    <3>1. 1..call = {}  BY <1>1
    <3>2. PICK i \in 1..n, j \in 1..n :
                 j <= i /\ l.holder \in frames[i].names /\ l.source \in frames[j].names
      BY <2>1, <3>1 DEF HInv, LoansNest
    <3> QED  BY <1>6, <3>2
  <2>2. CASE l \notin loans
    <3>1. l.holder = x /\ l.source \in Declared  BY <1>0, <2>2
    <3>2. PICK j \in 1..n : l.source \in frames[j].names  BY <1>0, <3>1 DEF NamesUpTo
    <3>3. n \in 1..n /\ j <= n  BY <1>0, <1>1
    <3> QED  BY <1>1, <1>6, <3>1, <3>2, <3>3
  <2> QED  BY <2>1, <2>2
<1>8. Outside'
  <2>1. gone \cap Declared \subseteq gone'  BY <1>1
  <2>2. lost' \subseteq lost \cup Inside(frames, n)  BY <1>0
  <2>3. \A l : l.holder \in Declared => (l \in loans' <=> l \in loans)  BY <1>1
  <2> QED  BY <1>0, <1>1, <2>1, <2>2, <2>3, OutsideKeeps DEF HInv
<1>9. NowTold'
  <2>1. OwnersTold(states', owner', Usable \cup {x})
    BY <1>0 DEF OwnersTold
  <2>2. Moved(states') \cap (Usable \cup {x}) \subseteq gone'
    <3>1. x \notin Moved(states')  BY DEF Moved
    <3> QED  BY <1>0, <1>1, <3>1
  <2>3. ~rejected' => lost' \cap (Usable \cup {x}) \subseteq Moved(states')
    BY <1>0, <1>1
  <2> QED  BY <1>1, <2>1, <2>2, <2>3 DEF NowTold
<1> QED  BY <1>3, <1>5, <1>7, <1>8, <1>9 DEF HInv

(* A new entry of the maps has no loans, and changes no other name's.      *)
NewEntry == {e \in VarInfo : e.state = "Free" /\ e.immut_count = 0}
WithEntry(x, e) == [states EXCEPT ![x] = e]

(* Writing a new entry for x changes what the maps tell of x only: nobody  *)
(* borrows it and it is not moved.                                         *)
LEMMA EntryTold ==
    ASSUME IInv, HInv, Plain, NEW x \in Var, Declares(x), NEW e \in NewEntry,
           NEW st, st = WithEntry(x, e)
    PROVE  /\ st \in [Var -> VarInfo] /\ st[x] = e
           /\ Moved(st) = Moved(states) \ {x}
           /\ Agree(st, borrow_map)
           /\ ~rejected => LoansTold(st, borrow_map, loans, Usable \cup {x})
<1>0. /\ states \in [Var -> VarInfo] /\ borrow_map \in BorrowMap
      /\ Agree(states, borrow_map) /\ Usable \subseteq Var
      /\ ~rejected => LoansTold(states, borrow_map, loans, Usable)
  BY HereTold
<1>1. /\ x \notin Usable /\ \A l \in loans : l.source # x
      /\ \A b \in Var \cup Slot : borrow_map[b] # x
  BY Newcomer
<1>2. st \in [Var -> VarInfo]  BY <1>0 DEF NewEntry, WithEntry
<1>3. st[x] = e /\ \A v \in Var : v # x => st[v] = states[v]
  BY <1>0 DEF WithEntry
<1>4. \A v \in Usable : st[v] = states[v]  BY <1>0, <1>1, <1>3
<1>5. e.state = "Free" /\ e.immut_count = 0  BY DEF NewEntry
<1>6. Moved(st) = Moved(states) \ {x}  BY <1>3, <1>5 DEF Moved
<1>7. Borrowers(borrow_map, x) = {}  BY <1>0, <1>1 DEF Borrowers, BorrowMap
<1>8. Agree(st, borrow_map)
  <2>1. ASSUME NEW v \in Var  PROVE Borrowed(st, borrow_map, v)
    <3>1. Borrowed(states, borrow_map, v)  BY <1>0, AgreeDef
    <3>2. CASE v = x  BY <1>3, <1>5, <1>7, <3>2 DEF Borrowed
    <3>3. CASE v # x  BY <1>3, <3>1, <3>3 DEF Borrowed
    <3> QED  BY <3>2, <3>3
  <2> QED  BY <2>1, AgreeDef
<1>9. ~rejected => LoansTold(st, borrow_map, loans, Usable \cup {x})
  BY <1>0, <1>1, <1>4, LoansName
<1> QED  BY <1>2, <1>3, <1>6, <1>8, <1>9

(* declare makes such entries, of structs and of scalars.                  *)
LEMMA EntryIsNew ==
    \A s, c \in BOOLEAN : /\ Entry(s, c) \in NewEntry
                          /\ Entry(s, c).is_struct <=> s
BY DEF Entry, NewEntry, VarInfo, VarState

(* let x: T;  and  let x = e;                                              *)
LEMMA LetFreshKeeps ==
    ASSUME IInv, HInv, Plain, NEW x \in Var,
           HLetUninit(x) \/ HLetFresh(x, FALSE, FALSE) \/ HLetFresh(x, TRUE, FALSE)
    PROVE  HInv'
<1>0. Declares(x)  BY DEF HLetUninit, LetUninit, HLetFresh, LetFresh
<1>1. /\ \A b \in BOOLEAN : Owning(b) = {b}
      /\ Entry(TRUE, FALSE) \in NewEntry /\ Entry(FALSE, FALSE) \in NewEntry
      /\ Entry(TRUE, FALSE).is_struct = TRUE /\ Entry(FALSE, FALSE).is_struct = FALSE
  BY EntryIsNew DEF Owning, Plain, Entry
<1>2. PICK e \in NewEntry :
         /\ states' = WithEntry(x, e)
         /\ e.is_struct => NewOwner(x, TRUE, {})
         /\ ~e.is_struct => NewOwner(x, FALSE, {})
  <2>1. CASE HLetFresh(x, TRUE, FALSE)
    BY <1>1, <2>1 DEF HLetFresh, LetFresh, WithEntry
  <2>2. CASE HLetFresh(x, FALSE, FALSE)
    BY <1>1, <2>2 DEF HLetFresh, LetFresh, WithEntry
  <2>3. CASE HLetUninit(x)
    <3>1. states' = states /\ states[x] = Entry(FALSE, FALSE) /\ NewOwner(x, FALSE, {})
      BY <2>3 DEF HLetUninit, LetUninit, Default
    <3>2. states \in [Var -> VarInfo]  BY HereTold
    <3>3. states' = [states EXCEPT ![x] = Entry(FALSE, FALSE)]  BY <3>1, <3>2
    <3> QED  BY <1>1, <3>1, <3>3 DEF WithEntry
  <2> QED  BY <2>1, <2>2, <2>3
<1>3. UNCHANGED <<borrow_map, rejected, loans, faults, paths>>
  BY DEF HLetFresh, LetFresh, HLetUninit, LetUninit, NewOwner
<1>4. /\ states' \in [Var -> VarInfo] /\ states'[x] = e
      /\ \A v \in Var : v # x => states'[v] = states[v]
      /\ Moved(states') = Moved(states) \ {x}
      /\ ~rejected => LoansTold(states', borrow_map, loans, Usable \cup {x})
  <2>1. \A v \in Var : v # x => states'[v] = states[v]
    BY <1>2, HereTold DEF WithEntry
  <2>2. /\ states' \in [Var -> VarInfo] /\ states'[x] = e
        /\ Moved(states') = Moved(states) \ {x}
        /\ ~rejected => LoansTold(states', borrow_map, loans, Usable \cup {x})
    BY <1>0, <1>2, EntryTold
  <2> QED  BY <2>1, <2>2
<1>5. e.state # "Moved"  BY DEF NewEntry
<1>6. x \notin Usable /\ x \notin Declared /\ Usable \subseteq Declared
      /\ Usable \subseteq Var
  BY <1>0, Newcomer, HereTold
<1>7. /\ owner' = owner \cup {x} \/ owner' = owner \ {x}
      /\ e.is_struct <=> x \in owner'
      /\ gone' = (gone \ {x}) \cup {} /\ lost' = (lost \ {x}) \cup {}
  BY <1>2 DEF NewOwner
<1>8. /\ owner' \in SUBSET Var
      /\ \A v \in Declared : v \in owner' <=> v \in owner
  BY <1>6, <1>7 DEF HInv, HistoryTypes
<1>9. loans \in SUBSET LoanSet /\ NoConflict'
  BY <1>3 DEF HInv, HistoryTypes, NoConflict
<1>10. /\ (Moved(states') \cap Usable \subseteq Moved(states) \cup {})
       /\ (Moved(states) \cap Usable) \cup {} \subseteq Moved(states')
       /\ {} \in SUBSET Usable
  BY <1>4, <1>6
<1>11. /\ states'[x].state # "Moved" /\ (states'[x].is_struct <=> x \in owner')
       /\ \A v \in Usable : states'[v].is_struct = states[v].is_struct
  BY <1>4, <1>5, <1>6, <1>7
<1>12. ~rejected' => LoansTold(states', borrow_map', loans', Usable \cup {x})
  BY <1>3, <1>4
<1>13. /\ loans \subseteq loans' /\ loans' \in SUBSET LoanSet
       /\ \A l \in loans' \ loans : l.holder = x /\ l.source \in Usable
       /\ paths' = paths /\ (rejected => rejected')
  BY <1>3, <1>9
<1> QED
  BY <1>0, <1>7, <1>8, <1>9, <1>10, <1>11, <1>12, <1>13, DeclareTold

(* let x = y;  and  let x: T = y;  with T the type of y.                   *)
LEMMA LetFromKeeps ==
    ASSUME IInv, HInv, Plain, NEW x \in Var, NEW y \in Var, HLetFrom(x, y)
    PROVE  HInv'
<1> DEFINE M == {y} \cap owner
<1>0. Declares(x) /\ y \in Usable /\ Report(Unreadable(y))
      /\ UNCHANGED <<borrow_map, loans, paths>>
      /\ faults' = faults \cup (ReadFaults(y) \cup MoveFaults(y))
      /\ NewOwner(x, y \in owner, M)
  BY DEF HLetFrom, LetVar, LetTyped, NewOwner, MovedFrom
<1>1. /\ states \in [Var -> VarInfo] /\ states[y] \in VarInfo
      /\ states[y].is_struct \in BOOLEAN /\ states[y].is_cref \in BOOLEAN
      /\ states[y].is_struct <=> y \in owner
  <2>1. states[y] \in VarInfo  BY HereTold
  <2>2. OwnersTold(states, owner, Usable)  BY HereTold
  <2>3. states[y].is_struct <=> y \in owner  BY <1>0, <2>2 DEF OwnersTold
  <2> QED  BY <2>1, <2>3, HereTold DEF VarInfo
<1>2. PICK e \in NewEntry :
         /\ e.is_struct <=> y \in owner
         /\ y \in owner => states' = mark_moved(WithEntry(x, e), y)
         /\ y \notin owner => states' = WithEntry(x, e)
  <2>1. CASE LetVar(x, y)
    <3>1. PICK e : e = Entry(states[y].is_struct, states[y].is_cref)  OBVIOUS
    <3>2. /\ states[y].is_struct => states' = mark_moved(WithEntry(x, e), y)
          /\ ~states[y].is_struct => states' = WithEntry(x, e)
      BY <2>1, <3>1 DEF LetVar, WithEntry
    <3>3. e \in NewEntry  BY <1>1, <3>1 DEF Entry, NewEntry, VarInfo, VarState
    <3>4. e.is_struct = states[y].is_struct  BY <3>1 DEF Entry
    <3> QED  BY <1>1, <3>2, <3>3, <3>4
  <2>2. CASE LetTyped(x, y, y \in owner)
    <3>1. CASE y \in owner
      <4>1. LetTyped(x, y, TRUE)
        <5>1. (y \in owner) = TRUE  BY <3>1
        <5> QED  BY <2>2, <5>1
      <4>2. states' = mark_moved([states EXCEPT ![x] = Entry(TRUE, FALSE)], y)
        BY <4>1 DEF LetTyped
      <4>3. Entry(TRUE, FALSE) \in NewEntry /\ Entry(TRUE, FALSE).is_struct
        BY EntryIsNew
      <4> QED  BY <3>1, <4>2, <4>3 DEF WithEntry
    <3>2. CASE y \notin owner
      <4>1. LetTyped(x, y, FALSE)
        <5>1. (y \in owner) = FALSE  BY <3>2
        <5> QED  BY <2>2, <5>1
      <4>2. states' = [states EXCEPT ![x] = Entry(FALSE, FALSE)]
        BY <4>1 DEF LetTyped
      <4>3. Entry(FALSE, FALSE) \in NewEntry /\ ~Entry(FALSE, FALSE).is_struct
        BY EntryIsNew
      <4> QED  BY <3>2, <4>2, <4>3 DEF WithEntry
    <3> QED  BY <3>1, <3>2
  <2> QED  BY <2>1, <2>2 DEF HLetFrom
<1>3. PICK st : st = WithEntry(x, e)  OBVIOUS
<1>4. /\ y \in owner => states' = mark_moved(st, y)
      /\ y \notin owner => states' = st
  BY <1>2, <1>3
<1>5. /\ st \in [Var -> VarInfo] /\ st[x] = e
      /\ \A v \in Var : v # x => st[v] = states[v]
      /\ Moved(st) = Moved(states) \ {x}
      /\ ~rejected => LoansTold(st, borrow_map, loans, Usable \cup {x})
  <2>1. \A v \in Var : v # x => st[v] = states[v]
    BY <1>1, <1>3 DEF WithEntry
  <2>2. /\ st \in [Var -> VarInfo] /\ st[x] = e
        /\ Moved(st) = Moved(states) \ {x}
        /\ ~rejected => LoansTold(st, borrow_map, loans, Usable \cup {x})
    BY <1>0, <1>3, EntryTold
  <2> QED  BY <2>1, <2>2
<1>6. x \notin Usable /\ x \notin Declared /\ Usable \subseteq Declared
      /\ Usable \subseteq Var /\ x # y
  BY <1>0, Newcomer, HereTold
<1>7. /\ y \in owner => owner' = owner \cup {x}
      /\ y \notin owner => owner' = owner \ {x}
      /\ gone' = (gone \ {x}) \cup M /\ lost' = (lost \ {x}) \cup M
  BY <1>0 DEF NewOwner
<1>8. (y \in owner => M = {y}) /\ (y \notin owner => M = {}) /\ M \in SUBSET Usable
  BY <1>0
<1> HIDE DEF M
<1>9. /\ owner' \in SUBSET Var /\ (e.is_struct <=> x \in owner')
      /\ \A v \in Declared : v \in owner' <=> v \in owner
  BY <1>2, <1>6, <1>7 DEF HInv, HistoryTypes
<1>10. loans \in SUBSET LoanSet /\ (rejected => rejected') /\ NoConflict'
  <2>1. ~rejected /\ ~Unreadable(y) => ReadFaults(y) \cup MoveFaults(y) \subseteq Overlooked
    BY <1>0, FaultsSeen, FaultsOverlooked
  <2>2. NoConflict  BY DEF HInv
  <2> QED  BY <1>0, <2>1, <2>2, ReportedFaults DEF HInv, HistoryTypes
<1>11. /\ Moved(states') = Moved(st) \cup M
       /\ \A v \in Var : states'[v].is_struct = st[v].is_struct
       /\ \A v \in Var : states'[v].state = "ImmutBorrowed" => st[v].state = "ImmutBorrowed"
       /\ states'[x] = st[x]
  <2>1. CASE y \in owner
    <3>1. states' = mark_moved(st, y)  BY <1>4, <2>1
    <3> QED  BY <1>5, <1>6, <1>8, <2>1, <3>1, MarkEffect, MovedEffect
  <2>2. CASE y \notin owner  BY <1>4, <1>8, <2>2
  <2> QED  BY <2>1, <2>2
<1>12. /\ (Moved(states') \cap Usable \subseteq Moved(states) \cup M)
       /\ (Moved(states) \cap Usable) \cup M \subseteq Moved(states')
  BY <1>5, <1>6, <1>11
<1>13. /\ states'[x].state # "Moved" /\ (states'[x].is_struct <=> x \in owner')
       /\ \A v \in Usable : states'[v].is_struct = states[v].is_struct
  <2>1. e.state = "Free"  BY DEF NewEntry
  <2> QED  BY <1>5, <1>6, <1>9, <1>11, <2>1
<1>14. ~rejected' => LoansTold(states', borrow_map', loans', Usable \cup {x})
  <2>1. \A v \in Usable \cup {x} :
           states'[v].state = "ImmutBorrowed" => st[v].state = "ImmutBorrowed"
    BY <1>6, <1>11
  <2>2. ~rejected => LoansTold(states', borrow_map, loans, Usable \cup {x})
    BY <1>5, <2>1, LoansStay
  <2> QED  BY <1>0, <1>10, <2>2
<1>15. /\ loans \subseteq loans' /\ loans' \in SUBSET LoanSet
       /\ \A l \in loans' \ loans : l.holder = x /\ l.source \in Usable
       /\ paths' = paths
  BY <1>0, <1>10
<1> QED
  BY <1>0, <1>7, <1>8, <1>9, <1>10, <1>12, <1>13, <1>14, <1>15, DeclareTold

(* let x: ref<T> = y;  and  let x: cref<T> = y;                            *)
LEMMA LetBorrowKeeps ==
    ASSUME IInv, HInv, Plain, NEW x \in Var, NEW y \in Var, NEW mut \in BOOLEAN,
           mut => HLetRef(x, y), ~mut => HLetCRef(x, y)
    PROVE  HInv'
<1> DEFINE ok == states[y].state = "Free" \/ (~mut /\ states[y].state = "ImmutBorrowed")
           U == Usable \cup {x}
<1>0. Declares(x) /\ y \in Usable
  BY DEF HLetRef, LetRef, HLetCRef, LetCRef
<1>1. /\ states \in [Var -> VarInfo] /\ borrow_map \in BorrowMap /\ NoConflict
      /\ Usable \subseteq Var /\ loans \in SUBSET LoanSet
      /\ Usable \subseteq Declared /\ Declared \subseteq Var
  BY HereTold DEF HInv
<1>2. /\ x \notin Usable /\ x \notin Declared /\ x # y
      /\ \A l \in loans : l.holder # x /\ borrow_map[x] = None
  BY <1>0, Newcomer
<1>3. PICK e \in NewEntry : e = Entry(FALSE, ~mut) /\ ~e.is_struct
  <2>1. (~mut) \in BOOLEAN  OBVIOUS
  <2> QED  BY <2>1, EntryIsNew
<1>4. PICK st : st = WithEntry(x, e)  OBVIOUS
<1>5. /\ st \in [Var -> VarInfo] /\ st[x] = e
      /\ \A v \in Var : v # x => st[v] = states[v]
      /\ Moved(st) = Moved(states) \ {x}
      /\ Agree(st, borrow_map)
      /\ ~rejected => LoansTold(st, borrow_map, loans, U)
  <2>1. \A v \in Var : v # x => st[v] = states[v]
    BY <1>1, <1>4 DEF WithEntry
  <2>2. /\ st \in [Var -> VarInfo] /\ st[x] = e
        /\ Moved(st) = Moved(states) \ {x} /\ Agree(st, borrow_map)
        /\ ~rejected => LoansTold(st, borrow_map, loans, U)
    BY <1>0, <1>4, EntryTold
  <2> QED  BY <2>1, <2>2
<1>6. st[y] = states[y]  BY <1>2, <1>5
<1> DEFINE marked == IF mut THEN mark_mut_borrowed(st, y) ELSE mark_immut_borrowed(st, y)
<1>7. /\ Report(Unreadable(y) \/ ~ok)
      /\ states' = IF ok THEN marked ELSE st
      /\ borrow_map' = IF ok THEN [borrow_map EXCEPT ![x] = y] ELSE borrow_map
      /\ NewOwner(x, FALSE, {})
      /\ loans' = loans \cup {Loan(x, y, mut)}
      /\ faults' = faults \cup (ReadFaults(y) \cup FaultIf(mut /\ Loans(y) # {}, "borrowed twice"))
  <2>1. CASE mut
    <3>1. st = [states EXCEPT ![x] = Default] /\ (ok <=> st[y].state = "Free")
      BY <1>3, <1>4, <1>6, <2>1 DEF WithEntry, Default
    <3>2. /\ Report(Unreadable(y) \/ ~(st[y].state = "Free"))
          /\ states' = IF st[y].state = "Free" THEN mark_mut_borrowed(st, y) ELSE st
          /\ borrow_map' = IF st[y].state = "Free"
                           THEN [borrow_map EXCEPT ![x] = y] ELSE borrow_map
      BY <2>1, <3>1 DEF HLetRef, LetRef
    <3>3. NewOwner(x, FALSE, {}) /\ Borrows(x, y, TRUE)  BY <2>1 DEF HLetRef
    <3>4. mut = TRUE  BY <2>1
    <3> HIDE DEF ok
    <3> QED  BY <3>1, <3>2, <3>3, <3>4 DEF Borrows
  <2>2. CASE ~mut
    <3>1. st = [states EXCEPT ![x] = Entry(FALSE, TRUE)]
          /\ (ok <=> st[y].state \in {"Free", "ImmutBorrowed"})
      <4>1. (~mut) = TRUE  BY <2>2
      <4> QED  BY <1>3, <1>4, <1>6, <2>2, <4>1 DEF WithEntry
    <3>2. /\ Report(Unreadable(y) \/ ~(st[y].state \in {"Free", "ImmutBorrowed"}))
          /\ states' = IF st[y].state \in {"Free", "ImmutBorrowed"}
                       THEN mark_immut_borrowed(st, y) ELSE st
          /\ borrow_map' = IF st[y].state \in {"Free", "ImmutBorrowed"}
                           THEN [borrow_map EXCEPT ![x] = y] ELSE borrow_map
      BY <2>2, <3>1 DEF HLetCRef, LetCRef
    <3>3. NewOwner(x, FALSE, {}) /\ Borrows(x, y, FALSE)  BY <2>2 DEF HLetCRef
    <3>4. mut = FALSE  BY <2>2
    <3> HIDE DEF ok
    <3> QED  BY <3>1, <3>2, <3>3, <3>4 DEF Borrows
  <2> QED  BY <2>1, <2>2
<1>8. NoConflict' /\ (rejected => rejected') /\ (~ok => rejected')
  <2>1. ~rejected /\ ~(Unreadable(y) \/ ~ok)
          => ReadFaults(y) \cup FaultIf(mut /\ Loans(y) # {}, "borrowed twice")
               \subseteq Overlooked
    <3>1. ok /\ mut => states[y].state = "Free"  OBVIOUS
    <3> HIDE DEF ok
    <3> QED  BY <1>0, <3>1, FaultsSeen DEF FaultIf
  <2> HIDE DEF ok
  <2> QED  BY <1>1, <1>7, <2>1, ReportedFaults
<1>9. ~rejected' => LoansTold(states', borrow_map', loans', U)
  <2>1. HAVE ~rejected'
  <2>2. ok /\ ~rejected  BY <1>8, <2>1
  <2>3. st[y].state = "Free" \/ (~mut /\ st[y].state = "ImmutBorrowed")  BY <1>6, <2>2
  <2>4. U \in SUBSET Var /\ y \in U /\ x \in Var \cup Slot /\ borrow_map[x] = None
    BY <1>0, <1>1, Newcomer
  <2>5. LoansTold(st, borrow_map, loans, U)  BY <1>5, <2>2
  <2> HIDE DEF ok, U
  <2>6. LoansTold(marked, [borrow_map EXCEPT ![x] = y], loans \cup {Loan(x, y, mut)}, U)
    BY <1>1, <1>2, <1>5, <2>3, <2>4, <2>5, LoansBorrow
  <2> HIDE DEF marked
  <2> QED  BY <1>7, <2>2, <2>6
<1>10. /\ Moved(states') = Moved(st)
       /\ \A v \in Var : states'[v].is_struct = st[v].is_struct
       /\ states'[x] = st[x]
  <2>1. CASE ok /\ mut
    <3>1. states' = mark_mut_borrowed(st, y)  BY <1>7, <2>1
    <3>2. st[y].state # "Moved"  BY <1>6, <2>1
    <3> QED  BY <1>2, <1>5, <3>1, <3>2, MarkEffect, MovedEffect
  <2>2. CASE ok /\ ~mut
    <3>1. states' = mark_immut_borrowed(st, y)  BY <1>7, <2>2
    <3>2. st[y].state # "Moved"  BY <1>6, <2>2
    <3> QED  BY <1>2, <1>5, <3>1, <3>2, MarkEffect, MovedEffect
  <2>3. CASE ~ok
    <3>1. states' = st  BY <1>7, <2>3
    <3> QED  BY <3>1
  <2> QED  BY <2>1, <2>2, <2>3
<1>11. /\ Loan(x, y, mut) \in LoanSet
       /\ Loan(x, y, mut).holder = x /\ Loan(x, y, mut).source = y
  BY DEF Loan, LoanSet
<1> HIDE DEF ok, marked, U
<1>12. /\ owner' = owner \ {x} /\ paths' = paths
       /\ gone' = (gone \ {x}) \cup {} /\ lost' = (lost \ {x}) \cup {}
  BY <1>7 DEF NewOwner
<1>13. /\ owner' \in SUBSET Var
       /\ \A v \in Declared : v \in owner' <=> v \in owner
  BY <1>2, <1>12 DEF HInv, HistoryTypes
<1>14. /\ states'[x].state # "Moved" /\ (states'[x].is_struct <=> x \in owner')
       /\ \A v \in Usable : states'[v].is_struct = states[v].is_struct
  <2>1. e.state = "Free"  BY DEF NewEntry
  <2>2. states'[x] = e  BY <1>5, <1>10
  <2>3. \A v \in Usable : v \in Var /\ v # x  BY <1>1, <1>2
  <2> QED  BY <1>3, <1>5, <1>10, <1>12, <2>1, <2>2, <2>3
<1>15. /\ Moved(states') \cap Usable \subseteq Moved(states) \cup {}
       /\ (Moved(states) \cap Usable) \cup {} \subseteq Moved(states')
       /\ {} \in SUBSET Usable
  BY <1>2, <1>5, <1>10
<1>16. /\ loans \subseteq loans' /\ loans' \in SUBSET LoanSet
       /\ \A l \in loans' \ loans : l.holder = x /\ l.source \in Usable
  BY <1>0, <1>1, <1>7, <1>11
<1>17. ~rejected' => LoansTold(states', borrow_map', loans', Usable \cup {x})
  BY <1>9 DEF U
<1> QED
  BY <1>0, <1>8, <1>12, <1>13, <1>14, <1>15, <1>16, <1>17, DeclareTold

(* let x: own<T> = y;                                                      *)
LEMMA LetOwnKeeps ==
    ASSUME IInv, HInv, Plain, NEW x \in Var, NEW y \in Var, HLetOwn(x, y)
    PROVE  HInv'
<1> DEFINE free == states[y].state = "Free"
<1>0. Declares(x) /\ y \in Usable
  BY DEF HLetOwn, LetOwn
<1>1. /\ states \in [Var -> VarInfo] /\ NoConflict
      /\ Usable \subseteq Var /\ loans \in SUBSET LoanSet
  BY HereTold DEF HInv
<1>2. x \notin Usable /\ x \notin Declared /\ x # y  BY <1>0, Newcomer
<1>3. PICK e \in NewEntry : e = Default /\ ~e.is_struct
  BY EntryIsNew DEF Default
<1>4. PICK st : st = WithEntry(x, e)  OBVIOUS
<1>5. /\ st \in [Var -> VarInfo] /\ st[x] = e
      /\ \A v \in Var : v # x => st[v] = states[v]
      /\ Moved(st) = Moved(states) \ {x}
      /\ ~rejected => LoansTold(st, borrow_map, loans, Usable \cup {x})
  <2>1. \A v \in Var : v # x => st[v] = states[v]
    BY <1>1, <1>4 DEF WithEntry
  <2>2. /\ st \in [Var -> VarInfo] /\ st[x] = e
        /\ Moved(st) = Moved(states) \ {x}
        /\ ~rejected => LoansTold(st, borrow_map, loans, Usable \cup {x})
    BY <1>0, <1>4, EntryTold
  <2> QED  BY <2>1, <2>2
<1>6. st[y] = states[y]  BY <1>2, <1>5
<1>7. /\ Report(Unreadable(y) \/ ~free)
      /\ states' = IF free THEN mark_moved(st, y) ELSE st
      /\ UNCHANGED <<borrow_map, loans>>
      /\ NewOwner(x, FALSE, {y})
      /\ faults' = faults \cup (ReadFaults(y) \cup TakeFaults(y))
  <2>1. st = [states EXCEPT ![x] = Default]  BY <1>3, <1>4 DEF WithEntry
  <2> QED  BY <1>6, <2>1 DEF HLetOwn, LetOwn
<1>8. NoConflict' /\ (rejected => rejected') /\ (~free => rejected')
  <2>1. ~rejected /\ ~(Unreadable(y) \/ ~free)
          => ReadFaults(y) \cup TakeFaults(y) \subseteq Overlooked
    BY <1>0, FaultsSeen
  <2> HIDE DEF free
  <2> QED  BY <1>1, <1>7, <2>1, ReportedFaults
<1> HIDE DEF free
<1>9. /\ Moved(states') \subseteq Moved(st) \cup {y} /\ Moved(st) \subseteq Moved(states')
      /\ ~rejected' => y \in Moved(states')
      /\ \A v \in Var : states'[v].is_struct = st[v].is_struct
      /\ \A v \in Var : states'[v].state = "ImmutBorrowed" => st[v].state = "ImmutBorrowed"
      /\ states'[x] = st[x]
  <2>1. CASE free
    <3>1. states' = mark_moved(st, y)  BY <1>7, <2>1
    <3> QED  BY <1>2, <1>5, <3>1, MarkEffect, MovedEffect
  <2>2. CASE ~free  BY <1>7, <1>8, <2>2
  <2> QED  BY <2>1, <2>2
<1>10. /\ owner' = owner \ {x} /\ paths' = paths
       /\ gone' = (gone \ {x}) \cup {y} /\ lost' = (lost \ {x}) \cup {y}
  BY <1>7 DEF NewOwner
<1>11. /\ owner' \in SUBSET Var
       /\ \A v \in Declared : v \in owner' <=> v \in owner
  BY <1>2, <1>10 DEF HInv, HistoryTypes
<1>12. \A v \in Usable : v \in Var /\ v # x  BY <1>1, <1>2
<1>13. /\ states'[x].state # "Moved" /\ (states'[x].is_struct <=> x \in owner')
       /\ \A v \in Usable : states'[v].is_struct = states[v].is_struct
  <2>1. e.state = "Free"  BY DEF NewEntry
  <2>2. states'[x] = e  BY <1>5, <1>9
  <2> QED  BY <1>3, <1>5, <1>9, <1>10, <1>12, <2>1, <2>2
<1>14. /\ Moved(states') \cap Usable \subseteq Moved(states) \cup {y}
       /\ ~rejected' => (Moved(states) \cap Usable) \cup {y} \subseteq Moved(states')
       /\ {y} \in SUBSET Usable
  BY <1>0, <1>2, <1>5, <1>9
<1>15. ~rejected' => LoansTold(states', borrow_map', loans', Usable \cup {x})
  <2>1. \A v \in Usable \cup {x} :
           states'[v].state = "ImmutBorrowed" => st[v].state = "ImmutBorrowed"
    BY <1>9, <1>12
  <2>2. ~rejected => LoansTold(states', borrow_map, loans, Usable \cup {x})
    BY <1>5, <2>1, LoansStay
  <2> QED  BY <1>7, <1>8, <2>2
<1>16. /\ loans \subseteq loans' /\ loans' \in SUBSET LoanSet
       /\ \A l \in loans' \ loans : l.holder = x /\ l.source \in Usable
  BY <1>1, <1>7
<1> QED
  BY <1>0, <1>8, <1>10, <1>11, <1>13, <1>14, <1>15, <1>16, DeclareTold

----------------------------------------------------------------------------
(* Blocks.                                                                 *)

(* What is lent is declared, and so is who holds it, between two           *)
(* statements.                                                             *)
LEMMA LoansDeclared ==
    ASSUME IInv, HInv, Plain
    PROVE  /\ \A l \in loans : l.source \in Declared
           /\ call = 0 => \A l \in loans : l.holder \in Declared
<1>1. Declared = NamesUpTo(frames, Len(frames))  BY HereTold
<1>2. call = 0 => 1..call = {}  OBVIOUS
<1> QED  BY <1>1, <1>2 DEF HInv, LoansNest, NamesUpTo

(* The paths in front of a new block are those to here.                    *)
LEMMA EnterPaths ==
    ASSUME HistoryTypes, Enter
    PROVE  /\ paths' \in Seq(PathSet) /\ Len(paths) \in Nat
           /\ Len(paths') = Len(paths) + 1
           /\ \A i \in 1..Len(paths) : paths'[i] = paths[i]
           /\ paths'[Len(paths) + 1].gone = gone
           /\ paths'[Len(paths) + 1].lost = lost
<1> DEFINE r == [gone |-> gone, lost |-> lost, everGone |-> {}, everLost |-> Var]
<1>1. r \in PathSet /\ r.gone = gone /\ r.lost = lost
  BY DEF HistoryTypes, PathSet
<1>2. paths \in Seq(PathSet) /\ paths' = Append(paths, r)
  BY DEF HistoryTypes, Enter
<1> HIDE DEF r
<1> QED  BY <1>1, <1>2, AppendProperties, LenProperties

(* Entering a block keeps the invariant: it saves what was told, or, a     *)
(* lambda, starts with empty maps and with no name usable.                 *)
LEMMA EnterKeeps ==
    ASSUME IInv, HInv, Plain, NEW f \in FrameSet, Enters(f), Enter,
           f.names \cap Declared = {}, f.kind \in {"block", "loop", "then", "lambda"},
           f.kind # "block" => f.states = states /\ f.borrow_map = borrow_map,
           f.kind = "lambda" => states' = NoStates /\ borrow_map' = NoBorrows,
           f.kind # "lambda" => states' = states /\ borrow_map' = borrow_map /\ f.names = {},
           owner' = owner \ f.names, gone' = gone \ f.names, lost' = lost \ f.names,
           UNCHANGED <<loans, faults>>
    PROVE  HInv'
<1>. PICK n : n = Len(frames)  OBVIOUS
<1>0. /\ states \in [Var -> VarInfo] /\ borrow_map \in BorrowMap
      /\ frames \in Seq(FrameSet) /\ Usable = Inside(frames, n)
      /\ Declared = NamesUpTo(frames, n)
      /\ Usable \subseteq Declared /\ Declared \subseteq Var
      /\ OwnersTold(states, owner, Usable)
      /\ Moved(states) \cap Usable \subseteq gone
      /\ ~rejected => /\ lost \cap Usable \subseteq Moved(states)
                      /\ LoansTold(states, borrow_map, loans, Usable)
  BY HereTold
<1>1. /\ frames # <<>> /\ call = 0 /\ call' = 0 /\ frames' = Append(frames, f)
      /\ rejected' = rejected
  BY DEF Enters, AtStatement
<1>2. n \in Nat \ {0}  BY <1>0, <1>1, TopOfStack
<1>3. /\ Len(frames') = n + 1
      /\ \A i \in 1..n : frames'[i] = frames[i]
      /\ frames'[n + 1] = f
  BY <1>0, <1>1, PushFrame
<1>4. Len(paths) = n - 1 /\ frames[1].kind = "function"
      /\ \A i, j \in 1..n : i # j => frames[i].names \cap frames[j].names = {}
  BY <1>1 DEF HInv, Shape
<1>5. /\ paths' \in Seq(PathSet) /\ Len(paths') = n
      /\ \A i \in 1..(n - 1) : paths'[i] = paths[i]
      /\ paths'[n].gone = gone /\ paths'[n].lost = lost
  BY <1>2, <1>4, EnterPaths DEF HInv
<1>6. ASSUME NEW m \in 0..n
      PROVE  /\ NamesUpTo(frames', m) = NamesUpTo(frames, m)
             /\ Inside(frames', m) = Inside(frames, m)
             /\ NamesUpTo(frames, m) \subseteq Declared
             /\ Inside(frames, m) \subseteq Declared
             /\ HeldUpTo(m)' = HeldUpTo(m)
  <2>1. m \in Nat /\ \A i \in 1..m : i \in 1..n  BY <1>2
  <2>2. \A i \in 1..m : frames'[i].names = frames[i].names /\ frames'[i].kind = frames[i].kind
    BY <1>3, <2>1
  <2>3. /\ NamesUpTo(frames', m) = NamesUpTo(frames, m)
        /\ Inside(frames', m) = Inside(frames, m)
    BY <2>1, <2>2, NamesSame
  <2>4. NamesUpTo(frames, m) \subseteq Declared  BY <1>0, <1>2, NamesOfBlocks
  <2>5. Inside(frames, m) \subseteq NamesUpTo(frames, m)  BY <2>1, NamesOfBlocks
  <2> QED  BY <2>3, <2>4, <2>5 DEF HeldUpTo
<1>7. \A i \in 1..n : f.names \cap frames[i].names = {}
  BY <1>0 DEF NamesUpTo
<1>8. HistoryTypes'  BY <1>5 DEF HInv, HistoryTypes
<1>9. Shape'
  <2>1. frames' # <<>>
    <3>1. Len(<<>>) = 0  OBVIOUS
    <3> QED  BY <1>2, <1>3, <3>1
  <2>2. 1 \in 1..n /\ n + 1 - 1 = n /\ 1..(n + 1) = (1..n) \cup {n + 1}
    BY <1>2
  <2>3. ASSUME NEW i \in 1..(n + 1), NEW j \in 1..(n + 1), i # j
        PROVE  frames'[i].names \cap frames'[j].names = {}
    BY <1>3, <1>4, <1>7, <2>2, <2>3
  <2>4. frames'[1].kind = "function"  BY <1>3, <1>4, <2>2
  <2> QED  BY <1>3, <1>5, <2>1, <2>2, <2>3, <2>4 DEF Shape
<1>10. LoansNest'
  <2> SUFFICES ASSUME NEW l \in loans
               PROVE  \E i, j \in 1..(n + 1) : /\ j <= i /\ l.holder \in frames'[i].names
                                               /\ l.source \in frames'[j].names
    BY <1>3 DEF LoansNest
  <2>1. 1..call = {} /\ \A i \in 1..n : i \in 1..(n + 1)  BY <1>1, <1>2
  <2>2. PICK i \in 1..n, j \in 1..n :
               j <= i /\ l.holder \in frames[i].names /\ l.source \in frames[j].names
    BY <2>1 DEF HInv, LoansNest
  <2> QED  BY <1>3, <2>1, <2>2
<1>11. Inside(frames', n + 1) = IF f.kind = "lambda" THEN f.names ELSE Usable
  <2>1. n \in Nat /\ n \in 0..n  BY <1>2
  <2>2. Inside(frames', n + 1) = IF frames'[n + 1].kind = "lambda" THEN frames'[n + 1].names
                                 ELSE Inside(frames', n) \cup frames'[n + 1].names
    BY <2>1, NamesOfBlocks
  <2>3. Inside(frames', n) = Usable  BY <1>0, <1>6, <2>1
  <2> QED  BY <1>3, <2>2, <2>3
<1>12. NowTold'
  <2>1. CASE f.kind = "lambda"
    <3>1. \A v \in Var : NoStates[v].is_struct = FALSE /\ NoStates[v].state = "Free"
      BY DEF NoStates, Default, Entry
    <3>2. f.names \subseteq Var  BY DEF FrameSet
    <3>3. \A b \in Var \cup Slot : NoBorrows[b] \notin f.names
      BY <3>2, VarAssumption DEF NoBorrows
    <3>4. \A l \in loans : l.source \notin f.names  BY LoansDeclared
    <3>5. OwnersTold(NoStates, owner', f.names)  BY <3>1, <3>2 DEF OwnersTold
    <3>6. Moved(NoStates) = {}  BY <3>1 DEF Moved
    <3>7. LoansTold(NoStates, NoBorrows, loans, f.names)
      BY <3>3, <3>4 DEF LoansTold
    <3> QED  BY <1>3, <1>11, <2>1, <3>5, <3>6, <3>7 DEF NowTold
  <2>2. CASE f.kind # "lambda"
    <3>1. owner' = owner /\ gone' = gone /\ lost' = lost  BY <2>2
    <3> QED  BY <1>0, <1>1, <1>3, <1>11, <2>2, <3>1 DEF NowTold
  <2> QED  BY <2>1, <2>2
<1>13. ASSUME NEW st, NEW m \in 0..n, OwnersTold(st, owner, Inside(frames, m))
       PROVE  OwnersTold(st, owner', Inside(frames, m))
  BY <1>6, <1>13 DEF OwnersTold
<1>14. \A i \in 2..n : i \in 1..n /\ i - 1 \in 0..n /\ i - 1 \in 1..(n - 1)
  BY <1>2
<1>15. CopiesTold'
  <2> SUFFICES ASSUME NEW i \in 2..(n + 1), frames'[i].kind # "block"
               PROVE  SavedTold(i)'
    BY <1>3 DEF CopiesTold, Kept
  <2>1. CASE i # n + 1
    <3>1. i \in 2..n  BY <1>2, <2>1
    <3>2. i \in Kept  BY <1>3, <1>14, <3>1 DEF Kept
    <3>3. SavedTold(i)  BY <3>2 DEF HInv, Outside, CopiesTold
    <3>4. /\ Inside(frames', i - 1) = Inside(frames, i - 1)
          /\ HeldUpTo(i - 1)' = HeldUpTo(i - 1)
          /\ frames'[i] = frames[i] /\ paths'[i - 1] = paths[i - 1]
      BY <1>3, <1>5, <1>6, <1>14, <3>1
    <3>5. OwnersTold(frames[i].states, owner', Inside(frames, i - 1))
      BY <1>13, <1>14, <3>1, <3>3 DEF SavedTold
    <3> QED  BY <1>1, <3>3, <3>4, <3>5 DEF SavedTold
  <2>2. CASE i = n + 1
    <3>1. i - 1 = n /\ n \in 0..n  BY <1>2, <2>2
    <3>2. f.states = states /\ f.borrow_map = borrow_map  BY <1>3, <2>2
    <3>3. Inside(frames', n) = Usable  BY <1>0, <1>6, <3>1
    <3>4. HeldUpTo(n)' = loans
      <4>1. \A l \in loans : l.holder \in Declared  BY <1>1, LoansDeclared
      <4>2. HeldUpTo(n) = loans  BY <1>0, <4>1 DEF HeldUpTo
      <4> QED  BY <1>6, <3>1, <4>2
    <3>5. OwnersTold(states, owner', Usable)  BY <1>0, <1>13, <3>1
    <3> QED  BY <1>0, <1>1, <1>3, <1>5, <2>2, <3>1, <3>2, <3>3, <3>4, <3>5 DEF SavedTold
  <2> QED  BY <2>1, <2>2
<1>16. MergedTold'
  <2> SUFFICES ASSUME NEW i \in 2..(n + 1), frames'[i].kind \in {"elif", "else"}, ~rejected
               PROVE  paths'[i - 1].everLost \cap Inside(frames', i - 1)
                         \subseteq frames'[i].merged
    BY <1>1, <1>3 DEF MergedTold
  <2>1. i \in 2..n
    <3>1. i # n + 1  BY <1>3
    <3> QED  BY <1>2, <3>1
  <2>2. /\ Inside(frames', i - 1) = Inside(frames, i - 1)
        /\ frames'[i] = frames[i] /\ paths'[i - 1] = paths[i - 1]
    BY <1>3, <1>5, <1>6, <1>14, <2>1
  <2> QED  BY <2>1, <2>2 DEF HInv, Outside, MergedTold
<1>17. \A i \in 1..n : i \in 0..n /\ (i # n => i \in 1..(n - 1)) /\ n \in 1..n
  BY <1>2
<1>18. GoneGrows'
  <2> SUFFICES ASSUME NEW i \in 1..n
               PROVE  /\ paths'[i].gone \cap NamesUpTo(frames', i) \subseteq gone'
                      /\ \A j \in i..n :
                            paths'[i].gone \cap NamesUpTo(frames', i) \subseteq paths'[j].gone
    BY <1>5 DEF GoneGrows
  <2>1. NamesUpTo(frames', i) = NamesUpTo(frames, i) /\ NamesUpTo(frames, i) \subseteq Declared
    BY <1>6, <1>17
  <2>2. CASE i = n
    <3>1. \A j \in i..n : j = n  BY <1>2, <2>2
    <3> QED  BY <1>5, <2>1, <2>2, <3>1
  <2>3. CASE i # n
    <3>1. \A j \in i..n : j = n \/ (j \in i..(n - 1) /\ j \in 1..(n - 1))  BY <1>2
    <3>2. /\ paths[i].gone \cap NamesUpTo(frames, i) \subseteq gone
          /\ \A j \in i..(n - 1) :
                paths[i].gone \cap NamesUpTo(frames, i) \subseteq paths[j].gone
      BY <1>4, <1>17, <2>3 DEF HInv, Outside, GoneGrows
    <3> QED  BY <1>5, <1>17, <2>1, <2>3, <3>1, <3>2
  <2> QED  BY <2>2, <2>3
<1>19. LambdaKeeps'
  <2> SUFFICES ASSUME NEW i \in 1..n, frames'[i + 1].kind = "lambda"
               PROVE  /\ lost' \cap NamesUpTo(frames', i) \subseteq paths'[i].lost
                      /\ \A j \in i..n :
                            paths'[j].lost \cap NamesUpTo(frames', i) \subseteq paths'[i].lost
    BY <1>5 DEF LambdaKeeps
  <2>1. NamesUpTo(frames', i) = NamesUpTo(frames, i)  BY <1>6, <1>17
  <2>2. CASE i = n
    <3>1. \A j \in i..n : j = n  BY <1>2, <2>2
    <3> QED  BY <1>5, <2>1, <2>2, <3>1
  <2>3. CASE i # n
    <3>1. \A j \in i..n : j = n \/ (j \in i..(n - 1) /\ j \in 1..(n - 1))  BY <1>2
    <3>2. i + 1 \in 1..n  BY <1>2, <2>3
    <3>3. /\ lost \cap NamesUpTo(frames, i) \subseteq paths[i].lost
          /\ \A j \in i..(n - 1) :
                paths[j].lost \cap NamesUpTo(frames, i) \subseteq paths[i].lost
      BY <1>3, <1>4, <1>17, <2>3, <3>2 DEF HInv, Outside, LambdaKeeps
    <3> QED  BY <1>5, <1>17, <2>1, <2>3, <3>1, <3>3
  <2> QED  BY <2>2, <2>3
<1>20. NoConflict'  BY <1>1 DEF HInv, NoConflict
<1> QED
  BY <1>8, <1>9, <1>10, <1>12, <1>15, <1>16, <1>18, <1>19, <1>20 DEF HInv, Outside

(* The beginning of a block, a loop body, an if or a lambda.               *)
LEMMA OpenKeeps ==
    ASSUME IInv, HInv, Plain, NEW P \in SUBSET Var, HOpen \/ HOpenLambda(P)
    PROVE  HInv'
<1>0. /\ states \in [Var -> VarInfo] /\ borrow_map \in BorrowMap
      /\ NoStates \in [Var -> VarInfo] /\ NoBorrows \in BorrowMap
      /\ {"block", "loop", "then", "lambda"} \subseteq FrameKind /\ {} \in SUBSET Var
      /\ NoShadow
  BY HereTold, EmptyType DEF FrameKind
<1>1. \A kind, names, st, bm, moved :
         LET f == Frame(kind, names, st, bm, moved)
         IN  f.kind = kind /\ f.names = names /\ f.states = st /\ f.borrow_map = bm
  BY DEF Frame
<1>2. CASE HOpen
  <2>1. PICK f \in {Frame("block", {}, NoStates, NoBorrows, {}),
                    Frame("loop", {}, states, borrow_map, {}),
                    Frame("then", {}, states, borrow_map, {})} : Enters(f)
    BY <1>2 DEF HOpen, OpenBlock, OpenLoop, OpenIf
  <2>2. f \in FrameSet  BY <1>0, <2>1, FrameType
  <2>3. /\ f.names = {} /\ f.kind \in {"block", "loop", "then"}
        /\ f.kind # "block" => f.states = states /\ f.borrow_map = borrow_map
    BY <1>1, <2>1
  <2>4. Enter /\ UNCHANGED <<states, borrow_map, owner, gone, lost, loans, faults>>
    BY <1>2 DEF HOpen, OpenBlock, OpenLoop, OpenIf
  <2>5. owner' = owner \ f.names /\ gone' = gone \ f.names /\ lost' = lost \ f.names
    BY <2>3, <2>4
  <2> QED  BY <2>1, <2>2, <2>3, <2>4, <2>5, EnterKeeps
<1>3. CASE HOpenLambda(P)
  <2>1. PICK f : f = Frame("lambda", P, states, borrow_map, {})  OBVIOUS
  <2>2. f \in FrameSet  BY <1>0, <2>1, FrameType
  <2>3. /\ f.names = P /\ f.kind = "lambda"
        /\ f.states = states /\ f.borrow_map = borrow_map
    BY <1>1, <2>1
  <2>4. /\ Enters(f) /\ P \subseteq Fresh /\ states' = NoStates /\ borrow_map' = NoBorrows
        /\ Enter /\ owner' = owner \ P /\ gone' = gone \ P /\ lost' = lost \ P
        /\ UNCHANGED <<loans, faults>>
    BY <1>3, <2>1 DEF HOpenLambda, OpenLambda
  <2>5. P \cap Declared = {}  BY <1>0, <2>4 DEF Fresh, NoShadow
  <2> QED  BY <2>2, <2>3, <2>4, <2>5, EnterKeeps
<1> QED  BY <1>2, <1>3

(* The end of a block: its loans end, and what was in front of the blocks  *)
(* outside is as it was.                                                   *)
LEMMA LeaveTold ==
    ASSUME IInv, HInv, Plain, frames # <<>>, call = 0, call' = 0,
           NEW n \in Nat, n = Len(frames),
           Len(frames') \in {n - 1, n},
           \A i \in 1..(n - 1) : frames'[i] = frames[i],
           \A i \in 1..(n - 2) : paths'[i] = paths[i],
           Settle(Top.names), owner' = owner, rejected' = rejected
    PROVE  /\ loans' = HeldUpTo(n - 1)
           /\ n # 0 => /\ \A m \in 0..(n - 1) :
                             /\ NamesUpTo(frames', m) = NamesUpTo(frames, m)
                             /\ Inside(frames', m) = Inside(frames, m)
                             /\ HeldUpTo(m)' = HeldUpTo(m)
                       /\ \A i \in 2..(n - 1) : frames[i].kind # "block" => SavedTold(i)'
                       /\ LoansNest'
<1>1. /\ frames \in Seq(FrameSet) /\ n # 0 /\ Top = frames[n]
      /\ Declared = NamesUpTo(frames, n)
  BY HereTold, TopOfStack
<1>2. n - 1 \in Nat /\ n - 1 + 1 = n /\ n \in 1..n
      /\ \A i \in 1..(n - 1) : i \in 1..n /\ i # n
  BY <1>1
<1>3. NamesUpTo(frames, n) = NamesUpTo(frames, n - 1) \cup Top.names
  <2>1. NamesUpTo(frames, n - 1 + 1)
          = NamesUpTo(frames, n - 1) \cup frames[n - 1 + 1].names
    BY <1>2, NamesOfBlocks
  <2> QED  BY <1>1, <1>2, <2>1
<1>4. NamesUpTo(frames, n - 1) \cap Top.names = {}
  <2>1. \A i \in 1..(n - 1) : frames[i].names \cap frames[n].names = {}
    BY <1>2 DEF HInv, Shape
  <2> QED  BY <1>1, <2>1 DEF NamesUpTo
<1>5. loans' = HeldUpTo(n - 1)
  <2>1. \A l \in loans : l.holder \in Declared  BY LoansDeclared
  <2> QED  BY <1>1, <1>3, <1>4, <2>1 DEF Settle, HeldUpTo
<1>6. ASSUME NEW m \in 0..(n - 1)
      PROVE  /\ NamesUpTo(frames', m) = NamesUpTo(frames, m)
             /\ Inside(frames', m) = Inside(frames, m)
             /\ NamesUpTo(frames, m) \subseteq NamesUpTo(frames, n - 1)
             /\ HeldUpTo(m)' = HeldUpTo(m)
  <2>1. m \in Nat /\ \A i \in 1..m : i \in 1..(n - 1)  BY <1>2
  <2>2. \A i \in 1..m : frames'[i].names = frames[i].names /\ frames'[i].kind = frames[i].kind
    BY <2>1
  <2>3. /\ NamesUpTo(frames', m) = NamesUpTo(frames, m)
        /\ Inside(frames', m) = Inside(frames, m)
    BY <2>1, <2>2, NamesSame
  <2>4. NamesUpTo(frames, m) \subseteq NamesUpTo(frames, n - 1)  BY <1>2, NamesOfBlocks
  <2>5. HeldUpTo(m)' = HeldUpTo(m)  BY <1>5, <2>3, <2>4 DEF HeldUpTo
  <2> QED  BY <2>3, <2>4, <2>5
<1>7. ASSUME NEW i \in 2..(n - 1), frames[i].kind # "block"
      PROVE  SavedTold(i)'
  <2>1. /\ i \in 1..(n - 1) /\ i - 1 \in 0..(n - 1) /\ i - 1 \in 1..(n - 2)
        /\ i \in 2..n
    BY <1>2
  <2>2. SavedTold(i)
    BY <1>7, <2>1 DEF HInv, Outside, CopiesTold, Kept
  <2>3. /\ Inside(frames', i - 1) = Inside(frames, i - 1)
        /\ HeldUpTo(i - 1)' = HeldUpTo(i - 1)
        /\ frames'[i] = frames[i] /\ paths'[i - 1] = paths[i - 1]
    BY <1>6, <2>1
  <2> QED  BY <2>2, <2>3 DEF SavedTold
<1>8. LoansNest'
  <2> SUFFICES ASSUME NEW l \in loans'
               PROVE  \E i, j \in 1..Len(frames') :
                         /\ j <= i /\ l.holder \in frames'[i].names
                         /\ l.source \in frames'[j].names
    BY DEF LoansNest
  <2>1. 1..call = {}  OBVIOUS
  <2>2. l \in loans /\ l.holder \notin Top.names  BY DEF Settle
  <2>3. PICK i \in 1..n, j \in 1..n :
               j <= i /\ l.holder \in frames[i].names /\ l.source \in frames[j].names
    BY <2>1, <2>2 DEF HInv, LoansNest
  <2>4. i # n  BY <1>1, <2>2, <2>3
  <2>5. i \in 1..(n - 1) /\ j \in 1..(n - 1)  BY <2>3, <2>4
  <2>6. \A k \in 1..(n - 1) : k \in 1..Len(frames')  BY <1>2
  <2> QED  BY <1>2, <2>3, <2>5, <2>6
<1> QED  BY <1>5, <1>6, <1>7, <1>8

(* The paths in front of the blocks outside.                               *)
LEMMA LeavePaths ==
    ASSUME HistoryTypes, paths # <<>>
    PROVE  /\ Len(paths) \in Nat \ {0} /\ Path = paths[Len(paths)]
           /\ Path \in PathSet
           /\ Outer \in Seq(PathSet) /\ Len(Outer) = Len(paths) - 1
           /\ \A i \in 1..(Len(paths) - 1) : Outer[i] = paths[i]
<1>0. paths \in Seq(PathSet)  BY DEF HistoryTypes
<1>1. Len(paths) \in Nat \ {0} /\ \A i \in 1..Len(paths) : paths[i] \in PathSet
  BY <1>0, ElementOfSeq, EmptySeq
<1>2. \A i \in 1..(Len(paths) - 1) : paths[i] \in PathSet  BY <1>1
<1> DEFINE n == Len(paths) - 1
<1>3. n \in Int /\ 1 \in Int /\ n >= 0  BY <1>1
<1>4. /\ SubSeq(paths, 1, n) \in Seq(PathSet)
      /\ Len(SubSeq(paths, 1, n)) = IF 1 <= n THEN n - 1 + 1 ELSE 0
      /\ \A i \in 1..(n - 1 + 1) : SubSeq(paths, 1, n)[i] = paths[1 + i - 1]
  BY ONLY <1>2, <1>3, SubSeqProperties
<1>5. n - 1 + 1 = n /\ \A i \in 1..n : 1 + i - 1 = i  BY <1>3
<1>6. \A k \in Int : k >= 0 => (IF 1 <= k THEN k - 1 + 1 ELSE 0) = k
  OBVIOUS
<1>7. Len(SubSeq(paths, 1, n)) = n  BY ONLY <1>3, <1>4, <1>6
<1>8. Path = paths[Len(paths)] /\ Path \in PathSet  BY <1>1 DEF Path
<1> QED  BY <1>1, <1>4, <1>5, <1>7, <1>8 DEF Outer

(* What is told when a block inside another is about to end.               *)
LEMMA InnerBlock ==
    ASSUME IInv, HInv, Plain, frames # <<>>, Top.kind # "function",
           NEW n \in Nat, n = Len(frames)
    PROVE  /\ n - 1 \in Nat /\ n - 1 # 0 /\ n \in 2..n
           /\ Top = frames[n] /\ Top \in FrameSet
           /\ Len(paths) = n - 1 /\ paths # <<>>
           /\ Path = paths[n - 1] /\ Path \in PathSet
           /\ Top.kind # "lambda" => Inside(frames, n - 1) \subseteq Usable
           /\ Inside(frames, n - 1) \subseteq NamesUpTo(frames, n - 1)
           /\ Inside(frames, n - 1) \subseteq Var
           /\ Path.gone \cap NamesUpTo(frames, n - 1) \subseteq gone
           /\ Top.kind = "lambda" => lost \cap NamesUpTo(frames, n - 1) \subseteq Path.lost
           /\ Top.kind # "block" => SavedTold(n)
<1>1. /\ frames \in Seq(FrameSet) /\ Usable = Inside(frames, n)
      /\ Declared = NamesUpTo(frames, n) /\ Declared \subseteq Var
  BY HereTold
<1>2. n # 0 /\ Top = frames[n] /\ Top \in FrameSet  BY <1>1, TopOfStack
<1>3. Len(paths) = n - 1 /\ frames[1].kind = "function"  BY DEF HInv, Shape
<1>4. n # 1  BY <1>2, <1>3
<1>5. /\ n - 1 \in Nat /\ n - 1 # 0 /\ n \in 2..n /\ n - 1 + 1 = n /\ n - 1 \in 1..(n - 1)
      /\ n - 1 \in (n - 1)..(n - 1)
  BY <1>2, <1>4
<1>6. paths # <<>>
  <2>1. Len(<<>>) = 0  OBVIOUS
  <2> QED  BY <1>3, <1>5, <2>1
<1>7. Path = paths[n - 1] /\ Path \in PathSet  BY <1>3, <1>6, LeavePaths DEF HInv
<1>8. Top.kind # "lambda" => Inside(frames, n - 1) \subseteq Usable
  <2>1. Inside(frames, n - 1 + 1)
          = IF frames[n - 1 + 1].kind = "lambda" THEN frames[n - 1 + 1].names
            ELSE Inside(frames, n - 1) \cup frames[n - 1 + 1].names
    BY <1>5, NamesOfBlocks
  <2> QED  BY <1>1, <1>2, <1>5, <2>1
<1>9. /\ Inside(frames, n - 1) \subseteq NamesUpTo(frames, n - 1)
      /\ Inside(frames, n - 1) \subseteq Var
  <2>1. Inside(frames, n - 1) \subseteq NamesUpTo(frames, n - 1)  BY <1>5, NamesOfBlocks
  <2>2. n - 1 \in 0..n  BY <1>5
  <2>3. NamesUpTo(frames, n - 1) \subseteq NamesUpTo(frames, n)  BY <2>2, NamesOfBlocks
  <2> QED  BY <1>1, <2>1, <2>3
<1>10. Path.gone \cap NamesUpTo(frames, n - 1) \subseteq gone
  BY <1>3, <1>5, <1>7 DEF HInv, Outside, GoneGrows
<1>11. Top.kind = "lambda" => lost \cap NamesUpTo(frames, n - 1) \subseteq Path.lost
  BY <1>2, <1>3, <1>5, <1>7 DEF HInv, Outside, LambdaKeeps
<1>12. Top.kind # "block" => SavedTold(n)
  BY <1>2, <1>5 DEF HInv, Outside, CopiesTold, Kept
<1> QED
  BY <1>2, <1>3, <1>5, <1>6, <1>7, <1>8, <1>9, <1>10, <1>11, <1>12

(* Leaving a block, with what is told outside it.                          *)
LEMMA LeaveKeeps ==
    ASSUME IInv, HInv, Plain, frames # <<>>, Top.kind # "function", call = 0, call' = 0,
           NEW n \in Nat, n = Len(frames),
           frames' = Below, paths' = Outer, Settle(Top.names), owner' = owner,
           rejected' = rejected, faults' = faults,
           gone' \in SUBSET Var, gone \subseteq gone', lost' \subseteq lost,
           OwnersTold(states', owner, Inside(frames, n - 1)),
           Moved(states') \cap Inside(frames, n - 1) \subseteq gone',
           ~rejected =>
              /\ lost' \cap Inside(frames, n - 1) \subseteq Moved(states')
              /\ LoansTold(states', borrow_map', HeldUpTo(n - 1), Inside(frames, n - 1))
    PROVE  HInv'
<1>0. frames \in Seq(FrameSet)  BY HereTold
<1>1. n - 1 \in Nat /\ n - 1 # 0 /\ Len(paths) = n - 1 /\ paths # <<>>
  BY InnerBlock
<1>2. Len(frames') = n - 1 /\ \A i \in 1..(n - 1) : frames'[i] = frames[i]
  BY <1>0, PopFrame
<1>3. /\ paths' \in Seq(PathSet) /\ Len(paths') = n - 2
      /\ \A i \in 1..(n - 2) : paths'[i] = paths[i]
  <2>1. n - 1 - 1 = n - 2  OBVIOUS
  <2> QED  BY <1>1, <2>1, LeavePaths DEF HInv
<1>4. /\ loans' = HeldUpTo(n - 1) /\ LoansNest'
      /\ \A m \in 0..(n - 1) : /\ NamesUpTo(frames', m) = NamesUpTo(frames, m)
                               /\ Inside(frames', m) = Inside(frames, m)
      /\ \A i \in 2..(n - 1) : frames[i].kind # "block" => SavedTold(i)'
  BY <1>1, <1>2, <1>3, LeaveTold
<1>5. HistoryTypes'
  <2>1. loans' \in SUBSET LoanSet /\ owner' \in SUBSET Var /\ lost' \in SUBSET Var
    BY DEF HInv, HistoryTypes, Settle
  <2> QED  BY <1>3, <2>1 DEF HistoryTypes
<1>6. Shape'
  <2>1. frames' # <<>>
    <3>1. Len(<<>>) = 0  OBVIOUS
    <3> QED  BY <1>1, <1>2, <3>1
  <2>2. 1 \in 1..(n - 1) /\ n - 2 = n - 1 - 1 /\ \A i \in 1..(n - 1) : i \in 1..n
    BY <1>1
  <2>3. /\ frames[1].kind = "function"
        /\ \A i, j \in 1..n : i # j => frames[i].names \cap frames[j].names = {}
    BY DEF HInv, Shape
  <2>4. ASSUME NEW i \in 1..(n - 1), NEW j \in 1..(n - 1), i # j
        PROVE  frames'[i].names \cap frames'[j].names = {}
    BY <1>2, <2>2, <2>3, <2>4
  <2> QED  BY <1>2, <1>3, <2>1, <2>2, <2>3, <2>4 DEF Shape
<1>7. NowTold'
  <2>1. n - 1 \in 0..(n - 1)  BY <1>1
  <2>2. Inside(frames', n - 1) = Inside(frames, n - 1)  BY <1>4, <2>1
  <2> QED  BY <1>2, <1>4, <2>2 DEF NowTold
<1>8. CopiesTold'
  <2> SUFFICES ASSUME NEW i \in 2..(n - 1), frames'[i].kind # "block"
               PROVE  SavedTold(i)'
    BY <1>2 DEF CopiesTold, Kept
  <2>1. i \in 1..(n - 1)  OBVIOUS
  <2> QED  BY <1>2, <1>4, <2>1
<1>9. MergedTold'
  <2> SUFFICES ASSUME NEW i \in 2..(n - 1), frames'[i].kind \in {"elif", "else"}, ~rejected
               PROVE  paths'[i - 1].everLost \cap Inside(frames', i - 1)
                         \subseteq frames'[i].merged
    BY <1>2 DEF MergedTold
  <2>1. /\ i \in 1..(n - 1) /\ i - 1 \in 0..(n - 1) /\ i - 1 \in 1..(n - 2) /\ i \in 2..n
    BY <1>1
  <2>2. /\ Inside(frames', i - 1) = Inside(frames, i - 1)
        /\ frames'[i] = frames[i] /\ paths'[i - 1] = paths[i - 1]
    BY <1>2, <1>3, <1>4, <2>1
  <2> QED  BY <2>1, <2>2 DEF HInv, Outside, MergedTold
<1>10. \A i \in 1..(n - 2) :
          /\ i \in 1..(n - 1) /\ i \in 0..(n - 1) /\ i + 1 \in 1..(n - 1)
          /\ \A j \in i..(n - 2) : j \in i..(n - 1) /\ j \in 1..(n - 2)
  BY <1>1
<1>11. GoneGrows'
  <2> SUFFICES ASSUME NEW i \in 1..(n - 2)
               PROVE  /\ paths'[i].gone \cap NamesUpTo(frames', i) \subseteq gone'
                      /\ \A j \in i..(n - 2) :
                            paths'[i].gone \cap NamesUpTo(frames', i) \subseteq paths'[j].gone
    BY <1>3 DEF GoneGrows
  <2>1. /\ paths[i].gone \cap NamesUpTo(frames, i) \subseteq gone
        /\ \A j \in i..(n - 1) :
              paths[i].gone \cap NamesUpTo(frames, i) \subseteq paths[j].gone
    BY <1>1, <1>10 DEF HInv, Outside, GoneGrows
  <2> QED  BY <1>3, <1>4, <1>10, <2>1
<1>12. LambdaKeeps'
  <2> SUFFICES ASSUME NEW i \in 1..(n - 2), frames'[i + 1].kind = "lambda"
               PROVE  /\ lost' \cap NamesUpTo(frames', i) \subseteq paths'[i].lost
                      /\ \A j \in i..(n - 2) :
                            paths'[j].lost \cap NamesUpTo(frames', i) \subseteq paths'[i].lost
    BY <1>3 DEF LambdaKeeps
  <2>1. /\ lost \cap NamesUpTo(frames, i) \subseteq paths[i].lost
        /\ \A j \in i..(n - 1) :
              paths[j].lost \cap NamesUpTo(frames, i) \subseteq paths[i].lost
    BY <1>1, <1>2, <1>10 DEF HInv, Outside, LambdaKeeps
  <2> QED  BY <1>3, <1>4, <1>10, <2>1
<1>13. NoConflict'  BY DEF HInv, NoConflict
<1> QED
  BY <1>4, <1>5, <1>6, <1>7, <1>8, <1>9, <1>11, <1>12, <1>13 DEF HInv, Outside

(* The end of a block releases what its variables have borrowed.           *)
LEMMA ExitTold ==
    ASSUME IInv, HInv, Plain
    PROVE  /\ ExitStates \in [Var -> VarInfo]
           /\ Moved(ExitStates) = Moved(states)
           /\ \A v \in Var : ExitStates[v].is_struct = states[v].is_struct
BY HereTold, MovedEffect, ReleaseEffect, ReleaseType DEF ExitStates

(* A block and a lambda.                                                   *)
LEMMA CloseStraightKeeps ==
    ASSUME IInv, HInv, Plain, HCloseStraight
    PROVE  HInv'
<1>. PICK n \in Nat : n = Len(frames)  BY HereTold
<1>0. /\ states \in [Var -> VarInfo] /\ borrow_map \in BorrowMap
      /\ Usable \in SUBSET Var /\ loans \in SUBSET LoanSet
      /\ OwnersTold(states, owner, Usable)
      /\ Moved(states) \cap Usable \subseteq gone
      /\ ~rejected => /\ lost \cap Usable \subseteq Moved(states)
                      /\ LoansTold(states, borrow_map, loans, Usable)
  BY HereTold
<1>1. /\ frames # <<>> /\ Top.kind # "function" /\ call = 0 /\ call' = 0
      /\ frames' = Below /\ paths' = Outer /\ Settle(Top.names)
      /\ rejected' = rejected
      /\ owner' = owner /\ gone' = gone /\ lost' = lost /\ faults' = faults
      /\ \/ Top.kind = "block" /\ states' = ExitStates /\ borrow_map' = ExitBorrows
         \/ Top.kind = "lambda" /\ states' = Top.states /\ borrow_map' = Top.borrow_map
  BY DEF HCloseStraight, CloseBlock, CloseLambda, Exits
<1> DEFINE I == Inside(frames, n - 1)
<1>2. /\ Top = frames[n] /\ Len(paths) = n - 1 /\ Path = paths[n - 1]
      /\ Top.kind # "lambda" => I \subseteq Usable
      /\ I \subseteq NamesUpTo(frames, n - 1) /\ I \subseteq Var
      /\ Path.gone \cap NamesUpTo(frames, n - 1) \subseteq gone
      /\ Top.kind = "lambda" => lost \cap NamesUpTo(frames, n - 1) \subseteq Path.lost
      /\ Top.kind # "block" => SavedTold(n)
  BY <1>1, InnerBlock
<1>3. /\ OwnersTold(states', owner, I)
      /\ Moved(states') \cap I \subseteq gone
      /\ ~rejected => /\ lost \cap I \subseteq Moved(states')
                      /\ LoansTold(states', borrow_map', HeldUpTo(n - 1), I)
  <2>1. CASE Top.kind = "block"
    <3>1. I \subseteq Usable /\ states' = ExitStates /\ borrow_map' = ExitBorrows
      BY <1>1, <1>2, <2>1
    <3>2. HeldUpTo(n - 1) = {l \in loans : l.holder \notin Top.names}
      <4>1. loans' = HeldUpTo(n - 1)
        <5>1. frames \in Seq(FrameSet) /\ paths # <<>> /\ HistoryTypes
          BY <1>1, HereTold, InnerBlock DEF HInv
        <5>2. /\ Len(frames') = n - 1 /\ \A i \in 1..(n - 1) : frames'[i] = frames[i]
              /\ \A i \in 1..(n - 2) : paths'[i] = paths[i]
          <6>1. n - 1 - 1 = n - 2  OBVIOUS
          <6> QED  BY <1>1, <1>2, <5>1, <6>1, PopFrame, LeavePaths
        <5> QED  BY <1>1, <5>2, LeaveTold
      <4> QED  BY <1>1, <4>1 DEF Settle
    <3> HIDE DEF I
    <3>3. OwnersTold(states', owner, I)
      BY <1>0, <1>2, <3>1, ExitTold DEF OwnersTold
    <3>4. Moved(states') = Moved(states)  BY <3>1, ExitTold
    <3>5. ~rejected => LoansTold(ExitStates, ExitBorrows,
                                 {l \in loans : l.holder \notin Top.names}, I)
      BY <1>0, <3>1, LoansRelease DEF ExitStates, ExitBorrows
    <3> QED  BY <1>0, <3>1, <3>2, <3>3, <3>4, <3>5
  <2>2. CASE Top.kind = "lambda"
    <3>1. states' = frames[n].states /\ borrow_map' = frames[n].borrow_map
      BY <1>1, <1>2, <2>2
    <3>2. SavedTold(n)  BY <1>2, <2>2
    <3> QED  BY <1>2, <2>2, <3>1, <3>2 DEF SavedTold
  <2> QED  BY <1>1, <2>1, <2>2
<1>4. gone \in SUBSET Var  BY DEF HInv, HistoryTypes
<1> QED  BY <1>1, <1>3, <1>4, LeaveKeeps

(* A loop and an if, which go on from the maps saved in front of them with *)
(* the names of M moved.                                                   *)
LEMMA JoinKeeps ==
    ASSUME IInv, HInv, Plain, frames # <<>>, Top.kind \notin {"function", "block", "lambda"},
           call = 0, call' = 0, NEW M \in SUBSET Moved(states),
           states' = JoinMoved(Top.states, M), borrow_map' = Top.borrow_map,
           frames' = Below, paths' = Outer, Settle(Top.names), owner' = owner,
           rejected' = rejected, faults' = faults,
           gone' \in SUBSET Var, gone \subseteq gone', lost' \subseteq lost,
           ~rejected => lost' \cap Inside(frames, Len(frames) - 1)
                           \subseteq Moved(Top.states) \cup M
    PROVE  HInv'
<1>. PICK n \in Nat : n = Len(frames)  BY HereTold
<1>0. Moved(states) \cap Usable \subseteq gone  BY HereTold
<1> DEFINE I == Inside(frames, n - 1)
<1>1. /\ Top = frames[n] /\ Top \in FrameSet /\ Path = paths[n - 1]
      /\ I \subseteq Usable /\ I \subseteq NamesUpTo(frames, n - 1) /\ I \subseteq Var
      /\ Path.gone \cap NamesUpTo(frames, n - 1) \subseteq gone
      /\ SavedTold(n)
  BY InnerBlock
<1>2. Top.states \in [Var -> VarInfo]  BY <1>1 DEF FrameSet
<1>3. /\ OwnersTold(Top.states, owner, I)
      /\ Moved(Top.states) \cap I \subseteq Path.gone
      /\ ~rejected => LoansTold(Top.states, Top.borrow_map, HeldUpTo(n - 1), I)
  BY <1>1 DEF SavedTold
<1> HIDE DEF I
<1>4. Moved(states') = Moved(Top.states) \cup M
  <2>1. M \cap Var = M  BY DEF Moved
  <2> QED  BY <1>2, <2>1, MovedEffect
<1>5. OwnersTold(states', owner, I)
  BY <1>1, <1>2, <1>3, JoinEffect DEF OwnersTold
<1>6. Moved(states') \cap I \subseteq gone'
  BY <1>0, <1>1, <1>3, <1>4
<1>7. ~rejected => LoansTold(states', borrow_map', HeldUpTo(n - 1), I)
  <2>1. \A v \in I : states'[v].state = "ImmutBorrowed"
                       => Top.states[v].state = "ImmutBorrowed"
    BY <1>1, <1>2, JoinEffect
  <2> QED  BY <1>3, <2>1, LoansStay
<1>8. ~rejected => lost' \cap I \subseteq Moved(states')  BY <1>4 DEF I
<1> QED  BY <1>5, <1>6, <1>7, <1>8, LeaveKeeps DEF I

(* A loop body may not run; what it moves may be gone.                     *)
LEMMA CloseLoopKeeps ==
    ASSUME IInv, HInv, Plain, HCloseLoop
    PROVE  HInv'
<1>. PICK n \in Nat : n = Len(frames)  BY HereTold
<1>1. /\ frames # <<>> /\ Top.kind = "loop" /\ call = 0 /\ call' = 0
      /\ states' = JoinMoved(Top.states, Moved(ExitStates))
      /\ borrow_map' = Top.borrow_map /\ frames' = Below /\ paths' = Outer
      /\ Settle(Top.names) /\ owner' = owner /\ rejected' = rejected /\ faults' = faults
      /\ gone' = gone \cup Path.gone /\ lost' = lost \cap Path.lost
  BY DEF HCloseLoop, CloseLoop, Exits
<1>2. Moved(ExitStates) = Moved(states)  BY ExitTold
<1>3. Path \in PathSet /\ SavedTold(n) /\ Top = frames[n] /\ Path = paths[n - 1]
  BY <1>1, InnerBlock
<1>4. gone' \in SUBSET Var  BY <1>1, <1>3 DEF HInv, HistoryTypes, PathSet
<1>5. ~rejected => lost' \cap Inside(frames, n - 1) \subseteq Moved(Top.states)
  BY <1>1, <1>3 DEF SavedTold
<1>6. gone \subseteq gone' /\ lost' \subseteq lost  BY <1>1
<1> QED  BY <1>1, <1>2, <1>4, <1>5, <1>6, JoinKeeps

(* Every path through an if goes through one of its branches.              *)
LEMMA BranchTold ==
    ASSUME IInv, HInv, Plain, frames # <<>>, Top.kind \in {"then", "elif", "else"},
           ~rejected, NEW n \in Nat, n = Len(frames)
    PROVE  /\ Top.kind = "then" =>
                 lost \cap Inside(frames, n - 1) \subseteq MergedMoves
           /\ Top.kind # "then" =>
                 lost \cap Path.everLost \cap Inside(frames, n - 1) \subseteq MergedMoves
<1>1. /\ Top = frames[n] /\ Path = paths[n - 1] /\ n \in 2..n
      /\ Inside(frames, n - 1) \subseteq Usable
  BY InnerBlock
<1>2. lost \cap Usable \subseteq Moved(states)  BY HereTold
<1>3. Moved(ExitStates) = Moved(states)  BY ExitTold
<1>4. Top.kind # "then" =>
         Path.everLost \cap Inside(frames, n - 1) \subseteq Top.merged
  BY <1>1 DEF HInv, Outside, MergedTold
<1> QED  BY <1>1, <1>2, <1>3, <1>4 DEF MergedMoves

(* The end of an if.                                                       *)
LEMMA EndIfKeeps ==
    ASSUME IInv, HInv, Plain, HEndIf
    PROVE  HInv'
<1>. PICK n \in Nat : n = Len(frames)  BY HereTold
<1>. PICK M : M = IF Top.kind = "elif" THEN MergedMoves \cap Moved(Top.states)
                                      ELSE MergedMoves
  OBVIOUS
<1>1. /\ frames # <<>> /\ Top.kind \in {"then", "elif", "else"} /\ call = 0 /\ call' = 0
      /\ states' = JoinMoved(Top.states, M)
      /\ borrow_map' = Top.borrow_map /\ frames' = Below /\ paths' = Outer
      /\ Settle(Top.names) /\ owner' = owner /\ rejected' = rejected /\ faults' = faults
      /\ gone' = gone \cup Path.everGone \cup (IF Top.kind # "else" THEN Path.gone ELSE {})
      /\ lost' = lost \cap Path.everLost \cap (IF Top.kind # "else" THEN Path.lost ELSE Var)
  BY DEF HEndIf, EndIf, Exits
<1>2. /\ Path \in PathSet /\ SavedTold(n) /\ Top = frames[n] /\ Path = paths[n - 1]
  BY <1>1, InnerBlock
<1>3. M \in SUBSET Moved(states)
  BY <1>1, ExitTold DEF MergedMoves
<1>4. gone' \in SUBSET Var
  <2>1. /\ Path.gone \in SUBSET Var /\ Path.everGone \in SUBSET Var
        /\ gone \in SUBSET Var
    BY <1>2 DEF PathSet, HInv, HistoryTypes
  <2> QED  BY <1>1, <2>1
<1>5. ~rejected => lost' \cap Inside(frames, n - 1) \subseteq Moved(Top.states) \cup M
  <2>1. HAVE ~rejected
  <2>2. CASE Top.kind = "else"
    <3>1. lost \cap Path.everLost \cap Inside(frames, n - 1) \subseteq MergedMoves
      BY <1>1, <2>1, <2>2, BranchTold
    <3>2. lost' \subseteq lost \cap Path.everLost /\ M = MergedMoves
      BY <1>1, <2>2
    <3> QED  BY <3>1, <3>2
  <2>3. CASE Top.kind # "else"
    <3>1. lost' \subseteq Path.lost  BY <1>1, <2>3
    <3>2. Path.lost \cap Inside(frames, n - 1) \subseteq Moved(Top.states)
      BY <1>2, <2>1 DEF SavedTold
    <3> QED  BY <3>1, <3>2
  <2> QED  BY <2>2, <2>3
<1>6. gone \subseteq gone' /\ lost' \subseteq lost  BY <1>1
<1> QED  BY <1>1, <1>3, <1>4, <1>5, <1>6, JoinKeeps

(* The next branch, which starts from the maps in front of the if.         *)
LEMMA NextBranchKeeps ==
    ASSUME IInv, HInv, Plain, NEW kind \in {"elif", "else"}, HNextBranch(kind)
    PROVE  HInv'
<1>. PICK n \in Nat : n = Len(frames)  BY HereTold
<1>. PICK f : f = Frame(kind, {}, Top.states, Top.borrow_map, MergedMoves)  OBVIOUS
<1>. PICK p : p = [Path EXCEPT !.everGone = @ \cup gone, !.everLost = @ \cap lost]  OBVIOUS
<1>1. /\ frames # <<>> /\ Top.kind \in {"then", "elif"} /\ call = 0 /\ call' = 0
      /\ states' = Top.states /\ borrow_map' = Top.borrow_map
      /\ frames' = [frames EXCEPT ![Len(frames)] = f]
      /\ Settle(Top.names) /\ owner' = owner /\ rejected' = rejected /\ faults' = faults
      /\ gone' = Path.gone /\ lost' = Path.lost
      /\ paths' = [paths EXCEPT ![Len(paths)].everGone = @ \cup gone,
                                ![Len(paths)].everLost = @ \cap lost]
  BY DEF HNextBranch, NextBranch, Exits
<1>2. /\ n - 1 \in Nat /\ n - 1 # 0 /\ n \in 2..n
      /\ Top = frames[n] /\ Top \in FrameSet
      /\ Len(paths) = n - 1 /\ paths # <<>>
      /\ Path = paths[n - 1] /\ Path \in PathSet
      /\ Inside(frames, n - 1) \subseteq Usable
      /\ Path.gone \cap NamesUpTo(frames, n - 1) \subseteq gone
      /\ SavedTold(n)
  BY <1>1, InnerBlock
<1>3. /\ frames \in Seq(FrameSet) /\ paths \in Seq(PathSet)
      /\ gone \in SUBSET Var /\ lost \in SUBSET Var /\ owner \in SUBSET Var
      /\ loans \in SUBSET LoanSet
  BY HereTold DEF HInv, HistoryTypes
<1>4. f.kind = kind /\ f.names = {} /\ f.states = Top.states
      /\ f.borrow_map = Top.borrow_map /\ f.merged = MergedMoves
  BY DEF Frame
<1>5. /\ p \in PathSet /\ p.gone = Path.gone /\ p.lost = Path.lost
      /\ p.everLost = Path.everLost \cap lost
  BY <1>2, <1>3 DEF PathSet
<1>6. /\ Len(frames') = n /\ frames'[n] = f
      /\ \A i \in 1..(n - 1) : frames'[i] = frames[i]
  <2>1. DOMAIN frames = 1..n  BY <1>1, <1>3, TopOfStack
  <2>2. \A i \in 1..(n - 1) : i \in 1..n /\ i # n  BY <1>2
  <2>3. n \in 1..n  BY <1>2
  <2>4. DOMAIN frames' = 1..n /\ frames'[n] = f
        /\ \A i \in 1..(n - 1) : frames'[i] = frames[i]
    BY <1>1, <2>1, <2>2, <2>3
  <2>5. frames' \in Seq(FrameSet)
    <3>1. IInv /\ NoShadow  BY HereTold
    <3>2. Next  BY HistoryWalks DEF HNext
    <3>3. TypeOK'  BY <3>1, <3>2, StepType DEF IInv
    <3> QED  BY <3>3 DEF TypeOK
  <2>6. Len(frames') = n  BY <2>4, <2>5, LenProperties
  <2> QED  BY <2>4, <2>6
<1>7. /\ paths' \in Seq(PathSet) /\ Len(paths') = n - 1
      /\ \A i \in 1..(n - 2) : paths'[i] = paths[i]
      /\ paths'[n - 1] = p
  <2>1. paths' = [paths EXCEPT ![n - 1] = p]
    <3>1. DOMAIN paths = 1..(n - 1) /\ n - 1 \in 1..(n - 1)  BY <1>2, <1>3, LenProperties
    <3> QED  BY <1>1, <1>2, <1>3, <3>1
  <2>2. n - 1 \in 1..Len(paths) /\ \A i \in 1..(n - 2) : i \in 1..(n - 1) /\ i # n - 1
    BY <1>2
  <2>3. PICK m : m = n - 1  OBVIOUS
  <2>4. paths \in Seq(PathSet) /\ m \in 1..Len(paths) /\ p \in PathSet
    BY <1>3, <1>5, <2>2, <2>3
  <2>5. /\ [paths EXCEPT ![m] = p] \in Seq(PathSet)
        /\ Len([paths EXCEPT ![m] = p]) = Len(paths)
        /\ \A j \in 1..Len(paths) : [paths EXCEPT ![m] = p][j] = IF j = m THEN p ELSE paths[j]
    BY ONLY <2>4, ExceptSeq
  <2> QED  BY <1>2, <2>1, <2>2, <2>3, <2>5
<1>8. /\ loans' = HeldUpTo(n - 1) /\ LoansNest'
      /\ \A m \in 0..(n - 1) : /\ NamesUpTo(frames', m) = NamesUpTo(frames, m)
                               /\ Inside(frames', m) = Inside(frames, m)
                               /\ HeldUpTo(m)' = HeldUpTo(m)
      /\ \A i \in 2..(n - 1) : frames[i].kind # "block" => SavedTold(i)'
  <2>1. n # 0 /\ Len(frames') \in {n - 1, n}  BY <1>2, <1>6
  <2> QED  BY <1>1, <1>6, <1>7, <2>1, LeaveTold
<1>9. /\ n - 1 + 1 = n /\ n - 1 \in 0..(n - 1) /\ n - 1 \in 1..(n - 1)
      /\ \A i \in 1..n : i = n \/ i \in 1..(n - 1)
      /\ \A i \in 2..n : i = n \/ (i \in 2..(n - 1) /\ i - 1 \in 1..(n - 2) /\ i - 1 \in 0..(n - 1))
      /\ \A i \in 1..(n - 1) : i = n - 1 \/ i \in 1..(n - 2)
      /\ \A i \in 1..(n - 1) : i \in 0..(n - 1) /\ i \in 1..n /\ n - 1 \in i..(n - 1)
                               /\ i + 1 \in 1..n
      /\ \A i \in 1..(n - 1) : \A j \in i..(n - 1) : j \in 1..(n - 1)
  BY <1>2
<1>10. Inside(frames', n) = Inside(frames, n - 1)
  <2>1. Inside(frames', n - 1 + 1)
          = IF frames'[n - 1 + 1].kind = "lambda" THEN frames'[n - 1 + 1].names
            ELSE Inside(frames', n - 1) \cup frames'[n - 1 + 1].names
    BY <1>2, NamesOfBlocks
  <2>2. kind # "lambda"  OBVIOUS
  <2> QED  BY <1>4, <1>6, <1>8, <1>9, <2>1, <2>2
<1>11. HistoryTypes'
  <2>1. Path.gone \in SUBSET Var /\ Path.lost \in SUBSET Var  BY <1>2 DEF PathSet
  <2>2. loans' \in SUBSET LoanSet  BY <1>3, <1>8 DEF HeldUpTo
  <2> QED  BY <1>1, <1>3, <1>7, <2>1, <2>2 DEF HistoryTypes
<1>12. Shape'
  <2>1. frames' # <<>>
    <3>1. Len(<<>>) = 0  OBVIOUS
    <3> QED  BY <1>2, <1>6, <3>1
  <2>2. 1 \in 1..(n - 1)  BY <1>2
  <2>3. /\ frames[1].kind = "function"
        /\ \A i, j \in 1..n : i # j => frames[i].names \cap frames[j].names = {}
    BY <1>1 DEF HInv, Shape
  <2>4. ASSUME NEW i \in 1..n, NEW j \in 1..n, i # j
        PROVE  frames'[i].names \cap frames'[j].names = {}
    BY <1>4, <1>6, <1>9, <2>3, <2>4
  <2> QED  BY <1>6, <1>7, <2>1, <2>2, <2>3, <2>4 DEF Shape
<1>13. SavedTold(n)'
  <2>1. /\ frames'[n].states = frames[n].states
        /\ frames'[n].borrow_map = frames[n].borrow_map
        /\ paths'[n - 1].gone = paths[n - 1].gone /\ paths'[n - 1].lost = paths[n - 1].lost
    BY <1>2, <1>4, <1>5, <1>6, <1>7
  <2>2. /\ Inside(frames', n - 1) = Inside(frames, n - 1)
        /\ HeldUpTo(n - 1)' = HeldUpTo(n - 1)
    BY <1>8, <1>9
  <2> QED  BY <1>1, <1>2, <2>1, <2>2 DEF SavedTold
<1>14. NowTold'
  BY <1>1, <1>2, <1>6, <1>8, <1>10 DEF NowTold, SavedTold
<1>15. CopiesTold'
  <2> SUFFICES ASSUME NEW i \in 2..n, frames'[i].kind # "block"
               PROVE  SavedTold(i)'
    BY <1>6 DEF CopiesTold, Kept
  <2>1. CASE i = n  BY <1>13, <2>1
  <2>2. CASE i # n
    <3>1. i \in 2..(n - 1) /\ i \in 1..(n - 1)  BY <1>9, <2>2
    <3> QED  BY <1>6, <1>8, <3>1
  <2> QED  BY <2>1, <2>2
<1>16. MergedTold'
  <2> SUFFICES ASSUME NEW i \in 2..n, frames'[i].kind \in {"elif", "else"}, ~rejected
               PROVE  paths'[i - 1].everLost \cap Inside(frames', i - 1)
                         \subseteq frames'[i].merged
    BY <1>1, <1>6 DEF MergedTold
  <2>1. CASE i = n
    <3>1. paths'[n - 1].everLost = Path.everLost \cap lost /\ frames'[n].merged = MergedMoves
          /\ Inside(frames', n - 1) = Inside(frames, n - 1)
      BY <1>4, <1>5, <1>6, <1>7, <1>8, <1>9
    <3>2. lost \cap Path.everLost \cap Inside(frames, n - 1) \subseteq MergedMoves
      BY <1>1, BranchTold
    <3> QED  BY <2>1, <3>1, <3>2
  <2>2. CASE i # n
    <3>1. /\ Inside(frames', i - 1) = Inside(frames, i - 1)
          /\ frames'[i] = frames[i] /\ paths'[i - 1] = paths[i - 1]
      <4>1. i \in 2..(n - 1) /\ i \in 1..(n - 1) /\ i - 1 \in 1..(n - 2) /\ i - 1 \in 0..(n - 1)
        BY <1>9, <2>2
      <4> QED  BY <1>6, <1>7, <1>8, <4>1
    <3> QED  BY <3>1 DEF HInv, Outside, MergedTold
  <2> QED  BY <2>1, <2>2
<1>17. ASSUME NEW i \in 1..(n - 1)
       PROVE  /\ paths'[i].gone = paths[i].gone /\ paths'[i].lost = paths[i].lost
              /\ NamesUpTo(frames', i) = NamesUpTo(frames, i)
  BY <1>2, <1>5, <1>7, <1>8, <1>9
<1>18. GoneGrows'
  <2> SUFFICES ASSUME NEW i \in 1..(n - 1)
               PROVE  /\ paths[i].gone \cap NamesUpTo(frames, i) \subseteq Path.gone
                      /\ \A j \in i..(n - 1) :
                            paths[i].gone \cap NamesUpTo(frames, i) \subseteq paths[j].gone
    BY <1>1, <1>7, <1>9, <1>17 DEF GoneGrows
  <2> QED  BY <1>2, <1>9 DEF HInv, Outside, GoneGrows
<1>19. LambdaKeeps'
  <2> SUFFICES ASSUME NEW i \in 1..(n - 1), frames'[i + 1].kind = "lambda"
               PROVE  /\ Path.lost \cap NamesUpTo(frames, i) \subseteq paths[i].lost
                      /\ \A j \in i..(n - 1) :
                            paths[j].lost \cap NamesUpTo(frames, i) \subseteq paths[i].lost
    BY <1>1, <1>7, <1>9, <1>17 DEF LambdaKeeps
  <2>1. i + 1 # n  BY <1>4, <1>6
  <2>2. frames[i + 1].kind = "lambda"  BY <1>6, <1>9, <2>1
  <2> QED  BY <1>2, <1>9, <2>2 DEF HInv, Outside, LambdaKeeps
<1>20. NoConflict'  BY <1>1 DEF HInv, NoConflict
<1> QED
  BY <1>8, <1>11, <1>12, <1>14, <1>15, <1>16, <1>18, <1>19, <1>20 DEF HInv, Outside

----------------------------------------------------------------------------
(* Functions, and the walk.                                                *)

(* A function begins with its parameters, and nothing moved or lent.       *)
LEMMA HFunctionKeeps ==
    ASSUME IInv, HInv, Plain, NEW P \in SUBSET Var, NEW S \in SUBSET P, NEW C \in SUBSET P,
           HFunction(P, S, C)
    PROVE  HInv'
<1>. PICK f : f = Frame("function", P, NoStates, NoBorrows, {})  OBVIOUS
<1>1. /\ frames' = <<f>>
      /\ states' = [v \in Var |-> Entry(v \in S, v \in C)] /\ borrow_map' = NoBorrows
      /\ call' = call /\ rejected' = rejected /\ faults' = {}
      /\ owner' = S /\ gone' = {} /\ lost' = {} /\ paths' = <<>> /\ loans' = {}
  BY DEF HFunction, check_function
<1>2. f.kind = "function" /\ f.names = P  BY DEF Frame
<1>3. /\ Len(frames') = 1 /\ frames'[1] = f /\ Len(paths') = 0 /\ frames' # <<>>
  BY <1>1
<1>4. Inside(frames', 1) = P
  <2>1. Inside(frames', 0) = {}  BY DEF Inside
  <2>2. 0 \in Nat /\ 0 + 1 = 1  OBVIOUS
  <2>3. Inside(frames', 0 + 1) = IF frames'[0 + 1].kind = "lambda" THEN frames'[0 + 1].names
                                 ELSE Inside(frames', 0) \cup frames'[0 + 1].names
    BY <2>2, NamesOfBlocks
  <2> QED  BY <1>2, <1>3, <2>1, <2>2, <2>3
<1>5. HistoryTypes'
  BY <1>1 DEF HistoryTypes
<1>6. Shape'
  <2>1. \A i, j \in 1..1 : i = j  OBVIOUS
  <2> QED  BY <1>2, <1>3, <2>1 DEF Shape
<1>7. LoansNest'  BY <1>1 DEF LoansNest
<1>8. NowTold'
  <2>1. \A v \in Var : states'[v].is_struct = (v \in S) /\ states'[v].state = "Free"
    BY <1>1 DEF Entry
  <2>2. OwnersTold(states', S, P)  BY <2>1 DEF OwnersTold
  <2>3. Moved(states') = {}  BY <2>1 DEF Moved
  <2>4. LoansTold(states', NoBorrows, {}, P)
    BY VarAssumption DEF LoansTold, NoBorrows
  <2> QED  BY <1>1, <1>3, <1>4, <2>2, <2>3, <2>4 DEF NowTold
<1>9. Outside'
  <2>1. 2..1 = {} /\ 1..0 = {}  OBVIOUS
  <2> QED
    BY <1>3, <2>1 DEF Outside, CopiesTold, Kept, MergedTold, GoneGrows, LambdaKeeps
<1>10. NoConflict'  BY <1>1 DEF HInv, NoConflict
<1> QED  BY <1>5, <1>6, <1>7, <1>8, <1>9, <1>10 DEF HInv

(* Nothing of it is left when it ends.                                     *)
NoneOpen == HistoryTypes /\ frames = <<>> /\ paths = <<>> /\ loans = {}

(* Then the maps have nothing to tell.                                     *)
LEMMA NothingTold == NoneOpen => Shape /\ LoansNest /\ NowTold /\ Outside
<1> SUFFICES ASSUME NoneOpen PROVE Shape /\ LoansNest /\ NowTold /\ Outside
  OBVIOUS
<1>0. frames = <<>> /\ paths = <<>> /\ loans = {}  BY DEF NoneOpen
<1>1. Len(frames) = 0 /\ Len(paths) = 0 /\ 1..0 = {} /\ 2..0 = {}  BY <1>0
<1>2. Inside(frames, 0) = {}  BY <1>1 DEF Inside
<1>3. NowTold
  <2>1. LoansTold(states, borrow_map, {}, {})  BY DEF LoansTold
  <2> QED  BY <1>0, <1>1, <1>2, <2>1 DEF NowTold, OwnersTold
<1>4. Outside
  BY <1>1 DEF Outside, CopiesTold, Kept, MergedTold, GoneGrows, LambdaKeeps
<1> QED  BY <1>0, <1>1, <1>3, <1>4 DEF Shape, LoansNest

(* The end of a function keeps it: the names and their loans go.           *)
LEMMA EndFunctionKeeps ==
    ASSUME IInv, HInv, Plain, HEndFunction
    PROVE  HInv'
<1>1. /\ Len(frames) = 1 /\ call = 0 /\ frames' = <<>>
      /\ rejected' = rejected /\ faults' = faults
      /\ owner' = owner /\ gone' = gone /\ lost' = lost /\ paths' = paths
      /\ loans' = {l \in loans : l.holder \notin Top.names}
  BY DEF HEndFunction, EndFunction, Settle
<1>2. frames # <<>>
  <2>1. Len(<<>>) = 0  OBVIOUS
  <2> QED  BY <1>1, <2>1
<1>3. paths' = <<>>
  <2>1. Len(paths) = 0 /\ paths \in Seq(PathSet)
    BY <1>1, <1>2 DEF HInv, Shape, HistoryTypes
  <2> QED  BY <1>1, <2>1, EmptySeq
<1>4. loans' = {}
  <2>1. Declared = Top.names
    <3>1. DOMAIN frames = 1..1 /\ Top = frames[1]
      BY <1>1, <1>2, HereTold, TopOfStack
    <3> QED  BY <3>1 DEF Declared
  <2> QED  BY <1>1, <2>1, LoansDeclared
<1>5. HistoryTypes'  BY <1>1, <1>4 DEF HInv, HistoryTypes
<1>6. (Shape /\ LoansNest /\ NowTold /\ Outside)'
  <2>1. NoneOpen'  BY <1>1, <1>3, <1>4, <1>5 DEF NoneOpen
  <2> QED  BY <2>1, NothingTold, PTL
<1>7. NoConflict'  BY <1>1 DEF HInv, NoConflict
<1> QED  BY <1>5, <1>6, <1>7 DEF HInv

(* The walk starts with nothing told.                                      *)
LEMMA HInitHolds == HInit => IInv /\ HInv
<1> SUFFICES ASSUME HInit PROVE IInv /\ HInv  OBVIOUS
<1>1. IInv  BY InitKeeps DEF HInit
<1>2. /\ frames = <<>> /\ paths = <<>> /\ loans = {} /\ faults = {}
      /\ owner = {} /\ gone = {} /\ lost = {}
  BY DEF HInit, Init
<1>3. HistoryTypes /\ NoConflict  BY <1>2 DEF HistoryTypes, NoConflict
<1>4. NoneOpen  BY <1>2, <1>3 DEF NoneOpen
<1> QED  BY <1>1, <1>3, <1>4, NothingTold DEF HInv

(* Every step of the walk keeps the maps true to the history.              *)
LEMMA HStepKeeps ==
    ASSUME Plain, IInv, HInv, [HNext]_<<vars, history>>
    PROVE  (IInv /\ HInv)'
<1>0. NoShadow  BY HereTold
<1>1. CASE UNCHANGED <<vars, history>>
  <2>1. UNCHANGED vars /\ UNCHANGED history  BY <1>1
  <2>2. /\ UNCHANGED <<states, borrow_map, frames, call, rejected, stmts>>
        /\ UNCHANGED <<owner, gone, lost, paths, loans, faults>>
    BY <2>1 DEF vars, history
  <2>3. IInv'  BY <1>0, <2>1, StepKeeps
  <2>4. HistoryTypes' /\ Shape' /\ LoansNest' /\ NoConflict'
    BY <2>2 DEF HInv, HistoryTypes, Shape, LoansNest, NoConflict, Declared
  <2>5. NowTold'  BY <2>2 DEF HInv, NowTold
  <2>6. CopiesTold'
    BY <2>2 DEF HInv, Outside, CopiesTold, Kept, SavedTold, HeldUpTo
  <2>7. MergedTold' /\ GoneGrows' /\ LambdaKeeps'
    BY <2>2 DEF HInv, Outside, MergedTold, GoneGrows, LambdaKeeps
  <2> QED  BY <2>3, <2>4, <2>5, <2>6, <2>7 DEF HInv, Outside
<1>2. CASE HNext
  <2>1. IInv'  BY <1>0, <1>2, HistoryWalks, StepKeeps
  <2>2. ASSUME NEW P \in SUBSET Var, NEW S \in SUBSET P, NEW C \in SUBSET P,
               HFunction(P, S, C)
        PROVE  HInv'
    BY <2>2, HFunctionKeeps
  <2>3. ASSUME NEW x \in Var,
               HLetUninit(x) \/ HLetFresh(x, FALSE, FALSE) \/ HLetFresh(x, TRUE, FALSE)
        PROVE  HInv'
    BY <2>3, LetFreshKeeps
  <2>4. ASSUME NEW x \in Var, NEW y \in Var, HLetFrom(x, y)
        PROVE  HInv'
    BY <2>4, LetFromKeeps
  <2>5. ASSUME NEW x \in Var, NEW y \in Var, HLetRef(x, y)
        PROVE  HInv'
    <3>1. /\ TRUE \in BOOLEAN /\ (TRUE => HLetRef(x, y)) /\ (~TRUE => HLetCRef(x, y))
      BY <2>5
    <3> QED  BY ONLY <3>1, IInv, HInv, Plain, x \in Var, y \in Var, LetBorrowKeeps
  <2>6. ASSUME NEW x \in Var, NEW y \in Var, HLetCRef(x, y)
        PROVE  HInv'
    <3>1. /\ FALSE \in BOOLEAN /\ (FALSE => HLetRef(x, y)) /\ (~FALSE => HLetCRef(x, y))
      BY <2>6
    <3> QED  BY ONLY <3>1, IInv, HInv, Plain, x \in Var, y \in Var, LetBorrowKeeps
  <2>7. ASSUME NEW x \in Var, NEW y \in Var, HLetOwn(x, y)
        PROVE  HInv'
    BY <2>7, LetOwnKeeps
  <2>8. ASSUME NEW y \in Var,
               \/ HUse(y) \/ HAssignFresh(y) \/ HWriteThrough(y) \/ HCallMutating(y)
               \/ \E t \in Var : HAssignVar(t, y)
        PROVE  HInv'
    BY <2>8, VisitKeeps
  <2>9. ASSUME NEW y \in Var, HPassMove(y) \/ HPassRef(y) \/ HPassCRef(y)
        PROVE  HInv'
    BY <2>9, PassMoveKeeps, PassBorrowKeeps
  <2>10. ASSUME NEW P \in SUBSET Var, HOpen \/ HOpenLambda(P)
         PROVE  HInv'
    BY <2>10, OpenKeeps
  <2>11. ASSUME NEW kind \in {"elif", "else"}, HNextBranch(kind)
         PROVE  HInv'
    BY <2>11, NextBranchKeeps
  <2>12. ASSUME HEndCall \/ HCloseStraight \/ HCloseLoop \/ HEndIf \/ HEndFunction
         PROVE  HInv'
    BY <2>12, EndCallKeeps, CloseStraightKeeps, CloseLoopKeeps, EndIfKeeps, EndFunctionKeeps
  <2>13. ASSUME HOpen PROVE HInv'
    <3>1. {} \in SUBSET Var  OBVIOUS
    <3> QED  BY <2>10, <2>13, <3>1
  <2>14. HInv'
    BY <1>2, <2>2, <2>3, <2>4, <2>5, <2>6, <2>7, <2>8, <2>9, <2>10, <2>11, <2>12, <2>13
    DEF HNext
  <2> QED  BY <2>1, <2>14
<1> QED  BY <1>1, <1>2

(* So the maps tell the history in every state of every walk.              *)
LEMMA HistoryTold ==
    ASSUME Plain
    PROVE  HSpec => [](IInv /\ HInv)
<1>1. IInv /\ HInv /\ [HNext]_<<vars, history>> => (IInv /\ HInv)'
  BY HStepKeeps
<1> QED  BY <1>1, HInitHolds, PTL DEF HSpec

(* What the properties say of a state, of the invariant's names.           *)
LEMMA ToldInFunction ==
    ASSUME IInv, HInv, Plain
    PROVE  /\ NoConflict /\ MovedOnSomePath /\ CertainMovesKnown
<1>1. /\ frames \in Seq(FrameSet)
      /\ Moved(states) \cap Usable \subseteq gone
      /\ ~rejected => lost \cap Usable \subseteq Moved(states)
  BY HereTold
<1>2. InFunction => Declared \subseteq Usable
  BY DEF InFunction, Declared, Usable
<1> QED  BY <1>1, <1>2 DEF HInv, MovedOnSomePath, CertainMovesKnown

(* The checker overlooks nothing but the three things it has no rule for:  *)
(* what else can go wrong with a borrowed or moved variable is reported,   *)
(* on every path through the nesting of blocks, branches, loop bodies      *)
(* (gone through once), calls and lambdas, whatever the names and however  *)
(* long the function is.                                                   *)
THEOREM NothingConflicts ==
    ASSUME Plain
    PROVE  HSpec => []NoConflict
<1>1. IInv /\ HInv => NoConflict  BY ToldInFunction
<1> QED  BY <1>1, HistoryTold, PTL

(* The checker takes a variable for moved only if some path does move it.  *)
THEOREM MovesAreReal ==
    ASSUME Plain
    PROVE  HSpec => []MovedOnSomePath
<1>1. IInv /\ HInv => MovedOnSomePath  BY ToldInFunction
<1> QED  BY <1>1, HistoryTold, PTL

(* What every path has moved the checker knows to be moved.                *)
THEOREM CertainMovesAreKnown ==
    ASSUME Plain
    PROVE  HSpec => []CertainMovesKnown
<1>1. IInv /\ HInv => CertainMovesKnown  BY ToldInFunction
<1> QED  BY <1>1, HistoryTold, PTL
============================================================================
