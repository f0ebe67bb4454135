--------------------------- MODULE Cleanup_proofs ---------------------------
(***************************************************************************)
(* Proofs about the cleanup lists and the code that is emitted from them,  *)
(* without the bounds: no variable has two cleanups, whatever the program  *)
(* does; and of the programs without features, or with those that only     *)
(* leak, that the run frees and uses what is live and loses nothing.       *)
(*                                                                         *)
(* The second proof goes by who owns what: own gives for each instruction  *)
(* the variables that hold a value of their own wherever execution is      *)
(* there.  Flow says that the code respects own, Holds what it means for   *)
(* the heap (RunStep keeps it).  While the function is compiled, own grows *)
(* with the code, and held remembers it for each open construct (Owned).   *)
(***************************************************************************)
EXTENDS Cleanup, FiniteSetTheorems, SequenceTheorems, TLAPS

(* Cleanup lists for the variables 1..n.                                   *)
Info(n)  == [slot : 1..n, cancelled : BOOLEAN]
Lists(n) == Seq(Seq(Info(n)))

(* No two uncancelled entries are for the same variable.                   *)
One(c) ==
    \A k, l \in DOMAIN c : \A i \in DOMAIN c[k], j \in DOMAIN c[l] :
        /\ ~c[k][i].cancelled /\ ~c[l][j].cancelled
        /\ c[k][i].slot = c[l][j].slot
        => k = l /\ i = j

(* No uncancelled entry is for s.                                          *)
None(c, s) ==
    \A k \in DOMAIN c : \A i \in DOMAIN c[k] :
        c[k][i].slot = s => c[k][i].cancelled

(* Every name an open construct will bring back is the name of a variable. *)
Scoped(ctl, n) ==
    \E S : /\ ctl \in Seq(S)
           /\ \A r \in S : "visible" \in DOMAIN r /\ DOMAIN r.visible \subseteq 1..n

Inv ==
    /\ kind \in Seq(Kinds)
    /\ cleanups \in Lists(Len(kind))
    /\ One(cleanups)
    /\ DOMAIN visible \subseteq Slot
    /\ Scoped(control, Len(kind))

----------------------------------------------------------------------------
LEMMA EntryDef ==
    ASSUME NEW c, NEW k, NEW i
    PROVE  <<k, i>> \in EntriesOf(c) <=> k \in DOMAIN c /\ i \in DOMAIN c[k]
BY DEF EntriesOf

(* Cancelling entries leaves lists of the same entries.                    *)
LEMMA MarkLists ==
    ASSUME NEW n \in Nat, NEW c \in Lists(n), NEW S
    PROVE  Mark(c, S) \in Lists(n)
<1> DEFINE m(k) == [i \in DOMAIN c[k] |-> [slot |-> c[k][i].slot,
                      cancelled |-> c[k][i].cancelled \/ <<k, i>> \in S]]
<1>1. ASSUME NEW k \in DOMAIN c PROVE m(k) \in Seq(Info(n))
  <2>1. c[k] \in Seq(Info(n))  BY <1>1 DEF Lists
  <2>2. DOMAIN c[k] = 1..Len(c[k]) /\ Len(c[k]) \in Nat  BY <2>1
  <2>3. ASSUME NEW i \in DOMAIN c[k]
        PROVE  [slot |-> c[k][i].slot,
                cancelled |-> c[k][i].cancelled \/ <<k, i>> \in S] \in Info(n)
    <3>1. c[k][i] \in Info(n)  BY <2>1, <2>3
    <3> QED  BY <3>1 DEF Info
  <2>4. m(k) \in [1..Len(c[k]) -> Info(n)]  BY <2>2, <2>3
  <2> QED  BY <2>2, <2>4
<1>2. DOMAIN c = 1..Len(c) /\ Len(c) \in Nat  BY DEF Lists
<1>3. Mark(c, S) = [k \in 1..Len(c) |-> m(k)]  BY <1>2 DEF Mark
<1> HIDE DEF m
<1>4. Mark(c, S) \in [1..Len(c) -> Seq(Info(n))]  BY <1>1, <1>2, <1>3
<1> QED  BY <1>2, <1>4 DEF Lists

LEMMA MarkEntry ==
    ASSUME NEW c, NEW S
    PROVE  /\ DOMAIN Mark(c, S) = DOMAIN c
           /\ \A k \in DOMAIN c :
                /\ DOMAIN Mark(c, S)[k] = DOMAIN c[k]
                /\ \A i \in DOMAIN c[k] :
                     /\ Mark(c, S)[k][i].slot = c[k][i].slot
                     /\ Mark(c, S)[k][i].cancelled
                          <=> c[k][i].cancelled \/ <<k, i>> \in S
BY DEF Mark

LEMMA MarkOne ==
    ASSUME NEW c, NEW S, One(c)
    PROVE  One(Mark(c, S))
<1> SUFFICES ASSUME NEW k \in DOMAIN c, NEW l \in DOMAIN c,
                    NEW i \in DOMAIN c[k], NEW j \in DOMAIN c[l],
                    ~Mark(c, S)[k][i].cancelled, ~Mark(c, S)[l][j].cancelled,
                    Mark(c, S)[k][i].slot = Mark(c, S)[l][j].slot
             PROVE  k = l /\ i = j
  BY MarkEntry DEF One
<1>1. ~c[k][i].cancelled /\ ~c[l][j].cancelled  BY MarkEntry
<1>2. c[k][i].slot = c[l][j].slot  BY MarkEntry
<1> QED  BY <1>1, <1>2 DEF One

(* Under One, the first uncancelled entry for s is the only one.           *)
LEMMA MarkFirst ==
    ASSUME NEW c, NEW s, One(c)
    PROVE  None(Mark(c, FirstOf(Active(c, s))), s)
<1> DEFINE A == Active(c, s)
           d == Mark(c, FirstOf(A))
<1> SUFFICES ASSUME NEW k \in DOMAIN c, NEW i \in DOMAIN c[k],
                    c[k][i].slot = s, ~c[k][i].cancelled
             PROVE  <<k, i>> \in FirstOf(A)
  <2>1. ASSUME NEW k \in DOMAIN d, NEW i \in DOMAIN d[k], d[k][i].slot = s,
               \A K \in DOMAIN c : \A I \in DOMAIN c[K] :
                  c[K][I].slot = s /\ ~c[K][I].cancelled => <<K, I>> \in FirstOf(A)
        PROVE  d[k][i].cancelled
    <3>1. k \in DOMAIN c  BY <2>1, MarkEntry
    <3>2. i \in DOMAIN c[k]  BY <2>1, <3>1, MarkEntry
    <3>3. c[k][i].slot = s  BY <2>1, <3>1, <3>2, MarkEntry
    <3>4. c[k][i].cancelled \/ <<k, i>> \in FirstOf(A)  BY <2>1, <3>1, <3>2, <3>3
    <3> QED  BY <3>1, <3>2, <3>4, MarkEntry
  <2> QED  BY <2>1 DEF None
<1>1. <<k, i>> \in EntriesOf(c)  BY EntryDef
<1>2. <<k, i>> \in A  BY <1>1 DEF Active, Entry
<1>3. ASSUME NEW q \in A PROVE q = <<k, i>>
  <2>1. q \in EntriesOf(c) /\ Entry(c, q).slot = s /\ ~Entry(c, q).cancelled
    BY <1>3 DEF Active
  <2>2. PICK l, j : l \in DOMAIN c /\ j \in DOMAIN c[l] /\ q = <<l, j>>
    BY <2>1 DEF EntriesOf
  <2>3. c[l][j].slot = s /\ ~c[l][j].cancelled  BY <2>1, <2>2 DEF Entry
  <2>4. l = k /\ j = i  BY <2>2, <2>3 DEF One
  <2> QED  BY <2>2, <2>4
<1> QED  BY <1>2, <1>3 DEF FirstOf

(* Registering a variable that no uncancelled entry is for.                *)
LEMMA AddOne ==
    ASSUME NEW n \in Nat, NEW c \in Lists(n), NEW s \in 1..n, One(c), None(c, s)
    PROVE  add_cleanup(c, s) \in Lists(n) /\ One(add_cleanup(c, s))
<1> DEFINE d == add_cleanup(c, s)
           last == Append(c[Len(c)], CleanupInfo(s))
<1>1. CASE Len(c) = 0
  <2>1. DOMAIN c = {}  BY <1>1 DEF Lists
  <2>2. d = c  BY <1>1, <2>1 DEF add_cleanup, Lists
  <2> QED  BY <2>2
<1>2. CASE Len(c) # 0
  <2>1. Len(c) \in DOMAIN c /\ c[Len(c)] \in Seq(Info(n))  BY <1>2 DEF Lists
  <2>2. CleanupInfo(s) \in Info(n)  BY DEF CleanupInfo, Info
  <2>3. last \in Seq(Info(n))  BY <2>1, <2>2
  <2>4. d = [c EXCEPT ![Len(c)] = last]  BY DEF add_cleanup
  <2>5. d \in Lists(n)
    <3>1. c \in Seq(Seq(Info(n))) /\ Len(c) \in DOMAIN c  BY <2>1 DEF Lists
    <3> HIDE DEF last
    <3>2. [c EXCEPT ![Len(c)] = last] \in Seq(Seq(Info(n)))  BY <2>3, <3>1
    <3> QED  BY <2>4, <3>2 DEF Lists
  <2>6. DOMAIN d = DOMAIN c /\ d[Len(c)] = last
        /\ \A k \in DOMAIN c : k # Len(c) => d[k] = c[k]
    BY <2>1, <2>4 DEF Lists
  <2>7. /\ DOMAIN last = DOMAIN c[Len(c)] \cup {Len(c[Len(c)]) + 1}
        /\ \A i \in DOMAIN c[Len(c)] : last[i] = c[Len(c)][i]
        /\ last[Len(c[Len(c)]) + 1] = CleanupInfo(s)
    BY <2>1, <2>2
  <2> HIDE DEF d, last
  <2>8. \A k \in DOMAIN d : \A i \in DOMAIN d[k] :
            \/ i \in DOMAIN c[k] /\ d[k][i] = c[k][i]
            \/ k = Len(c) /\ i = Len(c[Len(c)]) + 1 /\ d[k][i] = CleanupInfo(s)
    BY <2>6, <2>7
  <2>9. CleanupInfo(s).slot = s /\ ~CleanupInfo(s).cancelled  BY DEF CleanupInfo
  <2>10. One(d)
    <3> SUFFICES ASSUME NEW k \in DOMAIN d, NEW l \in DOMAIN d,
                        NEW i \in DOMAIN d[k], NEW j \in DOMAIN d[l],
                        ~d[k][i].cancelled, ~d[l][j].cancelled,
                        d[k][i].slot = d[l][j].slot
                 PROVE  k = l /\ i = j
      BY DEF One
    <3>1. CASE i \in DOMAIN c[k] /\ d[k][i] = c[k][i]
               /\ j \in DOMAIN c[l] /\ d[l][j] = c[l][j]
      BY <2>6, <3>1 DEF One
    <3>2. CASE i \in DOMAIN c[k] /\ d[k][i] = c[k][i] /\ d[l][j] = CleanupInfo(s)
      BY <2>6, <2>9, <3>2 DEF None
    <3>3. CASE j \in DOMAIN c[l] /\ d[l][j] = c[l][j] /\ d[k][i] = CleanupInfo(s)
      BY <2>6, <2>9, <3>3 DEF None
    <3>4. CASE k = Len(c) /\ i = Len(c[Len(c)]) + 1 /\ l = Len(c) /\ j = Len(c[Len(c)]) + 1
      BY <3>4
    <3> QED  BY <2>8, <3>1, <3>2, <3>3, <3>4
  <2> QED  BY <2>5, <2>10 DEF d
<1> QED  BY <1>1, <1>2

(* A new variable has no entry yet.                                        *)
LEMMA NewVariable ==
    ASSUME NEW n \in Nat, NEW c \in Lists(n)
    PROVE  c \in Lists(n + 1) /\ None(c, n + 1)
<1>1. Info(n) \subseteq Info(n + 1)  BY DEF Info
<1>2. Seq(Info(n)) \subseteq Seq(Info(n + 1))  BY <1>1
<1>3. c \in Lists(n + 1)  BY <1>2 DEF Lists
<1>4. ASSUME NEW k \in DOMAIN c, NEW i \in DOMAIN c[k] PROVE c[k][i].slot # n + 1
  <2>1. c[k] \in Seq(Info(n))  BY DEF Lists
  <2>2. c[k][i] \in Info(n)  BY <2>1
  <2> QED  BY <2>2 DEF Info
<1> QED  BY <1>3, <1>4 DEF None

LEMMA FrontIsPrefix ==
    ASSUME NEW S, NEW q \in Seq(S)
    PROVE  /\ Front(q) \in Seq(S)
           /\ DOMAIN Front(q) \subseteq DOMAIN q
           /\ \A i \in DOMAIN Front(q) : Front(q)[i] = q[i]
<1>1. CASE Len(q) = 0
  <2>1. q = <<>>  BY <1>1
  <2>2. Front(q) = <<>>  BY <2>1, SubSeqEmpty DEF Front
  <2> QED  BY <2>1, <2>2
<1>2. CASE Len(q) # 0
  <2>1. Len(q) \in Nat \ {0}  BY <1>2
  <2> QED  BY <2>1 DEF Front
<1> QED  BY <1>1, <1>2

(* Entering and leaving a block.                                           *)
LEMMA EnterLists ==
    ASSUME NEW n \in Nat, NEW c \in Lists(n), One(c)
    PROVE  Append(c, <<>>) \in Lists(n) /\ One(Append(c, <<>>))
<1> DEFINE d == Append(c, <<>>)
<1>1. <<>> \in Seq(Info(n))  OBVIOUS
<1>2. d \in Lists(n)  BY <1>1 DEF Lists
<1>3. /\ DOMAIN d = DOMAIN c \cup {Len(c) + 1}
      /\ \A k \in DOMAIN c : d[k] = c[k]
      /\ d[Len(c) + 1] = <<>>
  BY DEF Lists
<1>4. DOMAIN <<>> = {}  OBVIOUS
<1> HIDE DEF d
<1>5. \A k \in DOMAIN d : \A i \in DOMAIN d[k] : k \in DOMAIN c /\ d[k] = c[k]
  BY <1>3, <1>4
<1>6. One(d)  BY <1>5 DEF One
<1> QED  BY <1>2, <1>6 DEF d

LEMMA LeaveLists ==
    ASSUME NEW n \in Nat, NEW c \in Lists(n), One(c)
    PROVE  LeaveEnv(c) \in Lists(n) /\ One(LeaveEnv(c))
<1> DEFINE d == LeaveEnv(c)
<1>1. c \in Seq(Seq(Info(n)))  BY DEF Lists
<1>3. d \in Lists(n) /\ DOMAIN d \subseteq DOMAIN c /\ \A k \in DOMAIN d : d[k] = c[k]
  BY <1>1, FrontIsPrefix DEF LeaveEnv, Lists
<1> HIDE DEF d
<1>4. One(d)  BY <1>3 DEF One
<1> QED  BY <1>3, <1>4 DEF d

----------------------------------------------------------------------------
(* The names of the open constructs.                                       *)
LEMMA ScopedWider ==
    ASSUME NEW n \in Nat, NEW ctl, Scoped(ctl, n)
    PROVE  Scoped(ctl, n + 1)
<1>1. 1..n \subseteq 1..(n + 1)  OBVIOUS
<1> QED  BY <1>1 DEF Scoped

LEMMA ScopedAppend ==
    ASSUME NEW n \in Nat, NEW ctl, Scoped(ctl, n), NEW r,
           "visible" \in DOMAIN r, DOMAIN r.visible \subseteq 1..n
    PROVE  Scoped(Append(ctl, r), n)
<1>1. PICK S : /\ ctl \in Seq(S)
               /\ \A q \in S : "visible" \in DOMAIN q /\ DOMAIN q.visible \subseteq 1..n
  BY DEF Scoped
<1>2. ctl \in Seq(S \cup {r})  BY <1>1
<1>3. Append(ctl, r) \in Seq(S \cup {r})  BY <1>2
<1> QED  BY <1>1, <1>3 DEF Scoped

LEMMA ScopedFront ==
    ASSUME NEW n \in Nat, NEW ctl, Scoped(ctl, n)
    PROVE  Scoped(Front(ctl), n)
BY FrontIsPrefix DEF Scoped

LEMMA ScopedExcept ==
    ASSUME NEW n \in Nat, NEW ctl, Scoped(ctl, n), NEW i, NEW r,
           i \in DOMAIN ctl =>
                "visible" \in DOMAIN r /\ DOMAIN r.visible \subseteq 1..n
    PROVE  Scoped([ctl EXCEPT ![i] = r], n)
<1>1. PICK S : /\ ctl \in Seq(S)
               /\ \A q \in S : "visible" \in DOMAIN q /\ DOMAIN q.visible \subseteq 1..n
  BY DEF Scoped
<1>2. CASE i \in DOMAIN ctl
  <2>1. ctl \in Seq(S \cup {r})  BY <1>1
  <2>2. [ctl EXCEPT ![i] = r] \in Seq(S \cup {r})  BY <1>2, <2>1
  <2> QED  BY <1>1, <1>2, <2>2 DEF Scoped
<1>3. CASE i \notin DOMAIN ctl
  <2>1. [ctl EXCEPT ![i] = r] = ctl  BY <1>1, <1>3
  <2> QED  BY <2>1
<1> QED  BY <1>2, <1>3

LEMMA ScopedEntry ==
    ASSUME NEW n \in Nat, NEW ctl, Scoped(ctl, n), NEW i \in DOMAIN ctl
    PROVE  "visible" \in DOMAIN ctl[i] /\ DOMAIN ctl[i].visible \subseteq 1..n
BY DEF Scoped

----------------------------------------------------------------------------
(* What a statement may do to the lists.                                   *)
Good(c, n) == c \in Lists(n) /\ One(c)

LEMMA MarkGood ==
    ASSUME NEW n \in Nat, NEW c, Good(c, n), NEW S
    PROVE  Good(Mark(c, S), n)
BY MarkLists, MarkOne DEF Good

LEMMA CancelGood ==
    ASSUME NEW n \in Nat, NEW c, Good(c, n), NEW s
    PROVE  Good(cancel_cleanup(c, s), n) /\ Good(CancelFrom(c, s), n)
BY MarkGood DEF cancel_cleanup, CancelFrom

LEMMA AddGood ==
    ASSUME NEW n \in Nat, NEW c, Good(c, n)
    PROVE  Good(c, n + 1) /\ Good(add_cleanup(c, n + 1), n + 1)
<1>1. c \in Lists(n + 1) /\ None(c, n + 1)  BY NewVariable DEF Good
<1>2. n + 1 \in Nat /\ n + 1 \in 1..(n + 1)  OBVIOUS
<1> QED  BY <1>1, <1>2, AddOne DEF Good

LEMMA ReplaceGood ==
    ASSUME NEW n \in Nat, Good(cleanups, n), NEW t \in 1..n
    PROVE  Good(Replace(t), n)
<1> DEFINE d == Mark(cleanups, FirstOf(Active(cleanups, t)))
<1>1. d \in Lists(n) /\ One(d)  BY MarkGood DEF Good
<1>2. None(d, t)  BY MarkFirst DEF Good
<1> HIDE DEF d
<1>3. Good(add_cleanup(d, t), n)  BY <1>1, <1>2, AddOne DEF Good
<1> QED  BY <1>3 DEF Replace, d

----------------------------------------------------------------------------
(* Inv is inductive.                                                       *)
Shape(n) == DOMAIN visible \subseteq 1..n /\ Scoped(control, n)

LEMMA InvGood ==
    Inv <=> kind \in Seq(Kinds) /\ Good(cleanups, Len(kind)) /\ Shape(Len(kind))
BY DEF Inv, Good, Shape, Slot

LEMMA Declaration ==
    ASSUME Inv, NEW k \in Kinds, NEW typed, Declares(k, typed), UNCHANGED control,
           \/ cleanups' = cleanups
           \/ cleanups' = add_cleanup(cleanups, Len(kind) + 1)
           \/ \E y : \/ cleanups' = cancel_cleanup(cleanups, y)
                     \/ cleanups' = cancel_cleanup(add_cleanup(cleanups, Len(kind) + 1), y)
    PROVE  Inv'
<1> DEFINE n == Len(kind)
<1>1. /\ n \in Nat /\ kind \in Seq(Kinds) /\ Good(cleanups, n)
      /\ DOMAIN visible \subseteq 1..n /\ Scoped(control, n)
  BY InvGood DEF Shape
<1>2. kind' \in Seq(Kinds) /\ Len(kind') = n + 1
  <2>1. kind' = Append(kind, k)  BY DEF Declares
  <2> QED  BY <1>1, <2>1, AppendProperties
<1>3. DOMAIN visible' \subseteq 1..(n + 1)
  <2>1. DOMAIN visible' = DOMAIN visible \cup {n + 1}  BY DEF Declares
  <2> QED  BY <1>1, <2>1
<1> HIDE DEF n
<1>4. Scoped(control', n + 1)  BY <1>1, ScopedWider
<1>5. Good(cleanups, n + 1) /\ Good(add_cleanup(cleanups, n + 1), n + 1)
  BY <1>1, AddGood
<1>6. Good(cleanups', n + 1)
  <2>1. n + 1 \in Nat  BY <1>1
  <2> QED  BY <1>5, <2>1, CancelGood DEF n
<1>7. /\ kind' \in Seq(Kinds)
      /\ cleanups' \in Lists(Len(kind')) /\ One(cleanups')
      /\ DOMAIN visible' \subseteq 1..Len(kind')
      /\ Scoped(control', Len(kind'))
  BY <1>2, <1>3, <1>4, <1>6 DEF Good
<1> QED  BY <1>7 DEF Inv, Slot

(* A step that declares nothing.                                           *)
LEMMA NoDeclaration ==
    ASSUME Inv, UNCHANGED kind, Good(cleanups', Len(kind)),
           DOMAIN visible' \subseteq Slot, Scoped(control', Len(kind))
    PROVE  Inv'
BY DEF Inv, Good, Slot

LEMMA TypesOfVariables ==
    ASSUME Inv, NEW y \in DOMAIN visible
    PROVE  y \in Slot /\ kind[y] \in Kinds
BY DEF Inv, Slot

(* Statements that neither declare nor open nor close anything.            *)
LEMMA StatementKeeps ==
    ASSUME Inv, UNCHANGED <<kind, visible>>, Good(cleanups', Len(kind)),
           Scoped(control', Len(kind))
    PROVE  Inv'
BY NoDeclaration DEF Inv

LEMMA StepKeepsInv ==
    ASSUME Inv, [Next]_vars
    PROVE  Inv'
<1> DEFINE n == Len(kind)
<1> USE DEF Straight
<1>a. n \in Nat /\ Good(cleanups, n) /\ Scoped(control, n) /\ DOMAIN visible \subseteq 1..n
  BY InvGood DEF Shape
<1>b. ASSUME NEW s PROVE Good(cancel_cleanup(cleanups, s), n) /\ Good(CancelFrom(cleanups, s), n)
  BY <1>a, CancelGood
<1>c. ASSUME NEW s, NEW t
      PROVE  Good(CancelFrom(cancel_cleanup(cleanups, s), t), n)
  <2>1. Good(cancel_cleanup(cleanups, s), n)  BY <1>b
  <2> HIDE DEF n
  <2> QED  BY <1>a, <2>1, CancelGood
<1>d. ASSUME NEW t \in DOMAIN visible, NEW s
      PROVE  Good(Replace(t), n) /\ Good(cancel_cleanup(Replace(t), s), n)
  <2>1. t \in 1..n  BY <1>a
  <2>2. Good(Replace(t), n)  BY <1>a, <2>1, ReplaceGood
  <2> HIDE DEF n
  <2> QED  BY <1>a, <2>2, CancelGood
<1> HIDE DEF n
<1>1. ASSUME NEW k \in Kinds, NEW typed \in BOOLEAN, LetFresh(k, typed) PROVE Inv'
  <2>1. Declares(k, typed) /\ UNCHANGED control  BY <1>1 DEF LetFresh
  <2>2. cleanups' = cleanups \/ cleanups' = add_cleanup(cleanups, Len(kind) + 1)
    BY <1>1 DEF LetFresh
  <2> QED  BY <2>1, <2>2, Declaration
<1>2. ASSUME NEW y \in DOMAIN visible, NEW typed \in BOOLEAN, LetFrom(y, typed) PROVE Inv'
  <2>1. kind[y] \in Kinds  BY TypesOfVariables
  <2>2. Declares(kind[y], typed) /\ UNCHANGED control  BY <1>2 DEF LetFrom
  <2>3. \/ cleanups' = cleanups
        \/ cleanups' = add_cleanup(cleanups, Len(kind) + 1)
        \/ cleanups' = cancel_cleanup(cleanups, y)
        \/ cleanups' = cancel_cleanup(add_cleanup(cleanups, Len(kind) + 1), y)
    BY <1>2 DEF LetFrom
  <2> QED  BY <2>1, <2>2, <2>3, Declaration
<1>3. ASSUME NEW y \in DOMAIN visible, Use(y) \/ Push(y) \/ \E l \in BOOLEAN : CallIndirect(y, l)
      PROVE  Inv'
  <2>1. UNCHANGED <<kind, visible, cleanups, control>>
    BY <1>3 DEF Use, Push, CallIndirect
  <2> QED  BY <1>a, <2>1, StatementKeeps DEF n
<1>4. ASSUME NEW y \in DOMAIN visible, CallDirect(y) PROVE Inv'
  <2>1. UNCHANGED <<kind, visible, control>> /\ cleanups' = cancel_cleanup(cleanups, y)
    BY <1>4 DEF CallDirect
  <2> QED  BY <1>a, <1>b, <2>1, StatementKeeps DEF n
<1>5. ASSUME NEW t \in DOMAIN visible, AssignFresh(t) PROVE Inv'
  <2>1. UNCHANGED <<kind, visible, control>> /\ cleanups' = Replace(t)
    BY <1>5 DEF AssignFresh
  <2> QED  BY <1>a, <1>d, <2>1, StatementKeeps DEF n
<1>6. ASSUME NEW t \in DOMAIN visible, NEW y \in DOMAIN visible, AssignFrom(t, y) PROVE Inv'
  <2>1. /\ UNCHANGED <<kind, visible, control>>
        /\ cleanups' = Replace(t) \/ cleanups' = cancel_cleanup(Replace(t), y)
    BY <1>6 DEF AssignFrom
  <2> QED  BY <1>a, <1>d, <2>1, StatementKeeps DEF n
<1>7. ASSUME NEW y \in DOMAIN visible, ReturnVar(y) PROVE Inv'
  <2>1. /\ UNCHANGED <<kind, visible, control>>
        /\ \/ cleanups' = CancelFrom(cancel_cleanup(cleanups, y), 1)
           \/ cleanups' = CancelFrom(cleanups, 1)
    BY <1>7 DEF ReturnVar
  <2> QED  BY <1>a, <1>b, <1>c, <2>1, StatementKeeps DEF n
<1>8. ASSUME ReturnFresh PROVE Inv'
  <2>1. UNCHANGED <<kind, visible, control>> /\ cleanups' = CancelFrom(cleanups, 1)
    BY <1>8 DEF ReturnFresh
  <2> QED  BY <1>a, <1>b, <2>1, StatementKeeps DEF n
<1>e. ASSUME NEW k, NEW other, NEW end
      PROVE  Scoped(Append(control, Construct(k, other, end)), n)
  <2> DEFINE r == Construct(k, other, end)
  <2>1. "visible" \in DOMAIN r /\ r.visible = visible  BY DEF Construct
  <2> HIDE DEF r
  <2>2. Scoped(Append(control, r), n)  BY <1>a, <2>1, ScopedAppend
  <2> QED  BY <2>2 DEF r
<1>f. control # <<>> =>
        /\ Len(control) \in DOMAIN control
        /\ DOMAIN Top.visible \subseteq 1..n
        /\ Scoped(Front(control), n)
  <2>1. \E S : control \in Seq(S)  BY <1>a DEF Scoped
  <2>2. control # <<>> => Len(control) \in DOMAIN control  BY <2>1
  <2> QED  BY <1>a, <2>2, ScopedEntry, ScopedFront DEF Top
<1>9. CASE OpenBlock
  <2>1. /\ UNCHANGED <<kind, visible>>
        /\ control' = Append(control, Construct("block", 0, 0))
        /\ cleanups' = Append(cleanups, <<>>)
    BY <1>9 DEF OpenBlock, Opens
  <2>2. Good(cleanups', n)  BY <1>a, <2>1, EnterLists DEF Good
  <2> QED  BY <1>e, <2>1, <2>2, StatementKeeps DEF n
<1>10. CASE CloseBlock
  <2>1. /\ UNCHANGED kind /\ control # <<>>
        /\ control' = Front(control) /\ visible' = Top.visible
        /\ cleanups' = LeaveEnv(cleanups)
    BY <1>10 DEF CloseBlock, Closes
  <2>2. Good(cleanups', n)  BY <1>a, <2>1, LeaveLists DEF Good
  <2> QED  BY <1>f, <2>1, <2>2, NoDeclaration DEF n, Slot
<1>11. CASE OpenIf
  <2>1. /\ UNCHANGED <<kind, visible, cleanups>>
        /\ control' = Append(control, Construct("then", Len(label) + 2, Len(label) + 3))
    BY <1>11 DEF OpenIf, Opens
  <2> QED  BY <1>a, <1>e, <2>1, StatementKeeps DEF n
<1>12. CASE OpenLoop
  <2>1. /\ UNCHANGED <<kind, visible, cleanups>>
        /\ control' = Append(control, Construct("loop", Len(label) + 1, Len(label) + 3))
    BY <1>12 DEF OpenLoop, Opens
  <2> QED  BY <1>a, <1>e, <2>1, StatementKeeps DEF n
<1>13. CASE Else
  <2> DEFINE i == Len(control)
             r == [[control[i] EXCEPT !.kind = "else"] EXCEPT !.ends = PathEnd(Top)]
  <2>1. /\ UNCHANGED <<kind, cleanups>> /\ control # <<>> /\ visible' = Top.visible
        /\ control' = [control EXCEPT ![i] = r]
    BY <1>13 DEF Else, Closes
  <2>2. "visible" \in DOMAIN r /\ DOMAIN r.visible \subseteq 1..n
    BY <1>a, <1>f, <2>1, ScopedEntry
  <2> HIDE DEF r
  <2>3. Scoped(control', n)  BY <1>a, <2>1, <2>2, ScopedExcept
  <2> QED  BY <1>a, <1>f, <2>1, <2>3, NoDeclaration DEF n, Slot
<1>14. CASE EndIf \/ CloseLoop
  <2>1. /\ UNCHANGED <<kind, cleanups>> /\ control # <<>>
        /\ control' = Front(control) /\ visible' = Top.visible
    BY <1>14 DEF EndIf, CloseLoop, Closes, Join
  <2> QED  BY <1>a, <1>f, <2>1, NoDeclaration DEF n, Slot
<1>g. ASSUME NEW to, LeavesIteration(to)
      PROVE  UNCHANGED <<kind, visible>> /\ Good(cleanups', n)
  BY <1>b, <1>g DEF LeavesIteration
<1>15. CASE Break
  <2>1. PICK i : control' = [control EXCEPT ![i].ends = @ \cup {InScope(control[i], moved)}]
    BY <1>15 DEF Break
  <2> DEFINE r == [control[i] EXCEPT !.ends = control[i].ends \cup {InScope(control[i], moved)}]
  <2>2. control' = [control EXCEPT ![i] = r]  BY <2>1
  <2>3. i \in DOMAIN control => "visible" \in DOMAIN r /\ DOMAIN r.visible \subseteq 1..n
    BY <1>a, ScopedEntry
  <2> HIDE DEF r
  <2>4. Scoped(control', n)  BY <1>a, <2>2, <2>3, ScopedExcept
  <2> QED  BY <1>15, <1>g, <2>4, StatementKeeps DEF Break, n
<1>16. CASE Continue
  BY <1>16, <1>a, <1>g, StatementKeeps DEF Continue, n
<1>17. CASE EndFunction
  <2>1. /\ UNCHANGED <<kind, visible, control>>
        /\ cleanups' = cleanups \/ cleanups' = CancelFrom(cleanups, 1)
    BY <1>17 DEF EndFunction
  <2> QED  BY <1>a, <1>b, <2>1, StatementKeeps DEF n
<1>18. CASE Run \/ UNCHANGED vars
  <2>1. UNCHANGED <<kind, visible, control, cleanups>>
    BY <1>18 DEF Run, RunNew, RunMove, RunGrow, RunFree, RunBranch, RunReturn,
                 Continues, compileVars, vars
  <2> QED  BY <1>a, <2>1, StatementKeeps DEF n
<1> QED  BY <1>1, <1>2, <1>3, <1>4, <1>5, <1>6, <1>7, <1>8, <1>9, <1>10, <1>11,
            <1>12, <1>13, <1>14, <1>15, <1>16, <1>17, <1>18 DEF Next, Compile

LEMMA InitInv == Init => Inv
<1> SUFFICES ASSUME Init PROVE Inv
  OBVIOUS
<1>1. kind = <<>> \/ \E k \in Kinds : kind = <<k>>  BY DEF Init
<1>2. kind \in Seq(Kinds) /\ Len(kind) \in Nat
  <2>1. CASE kind = <<>>
    BY <2>1
  <2>2. ASSUME NEW k \in Kinds, kind = <<k>> PROVE kind \in Seq(Kinds) /\ Len(kind) = 1
    BY <2>2
  <2> QED  BY <1>1, <2>1, <2>2
<1>3. Scoped(control, Len(kind))
  <2>1. control = <<>>  BY DEF Init
  <2>2. control \in Seq({})  BY <2>1
  <2> QED  BY <2>2 DEF Scoped
<1>5. DOMAIN visible \subseteq Slot
  <2>1. visible = [s \in Slot |-> 1]  BY DEF Init
  <2> QED  BY <2>1
<1>4. cleanups \in Lists(Len(kind)) /\ One(cleanups)
  <2>1. CASE cleanups = <<<<>>>>
    BY <2>1 DEF Lists, One
  <2>2. CASE cleanups # <<<<>>>>
    <3>1. cleanups = <<<<CleanupInfo(1)>>>> /\ kind # <<>>  BY <2>2 DEF Init
    <3>2. Len(kind) = 1  BY <1>1, <3>1
    <3>3. CleanupInfo(1) \in Info(Len(kind))  BY <3>2 DEF CleanupInfo, Info
    <3>4. <<CleanupInfo(1)>> \in Seq(Info(Len(kind)))  BY <3>3
    <3>5. cleanups \in Lists(Len(kind))  BY <3>1, <3>4 DEF Lists
    <3>6. DOMAIN cleanups = {1} /\ DOMAIN cleanups[1] = {1}  BY <3>1
    <3> QED  BY <3>5, <3>6 DEF One
  <2> QED  BY <2>1, <2>2
<1> QED  BY <1>2, <1>3, <1>4, <1>5 DEF Inv

LEMMA InvGivesOneCleanup == Inv => OneCleanup
<1> SUFFICES ASSUME Inv, NEW s \in Slot,
                    NEW p \in Active(cleanups, s), NEW q \in Active(cleanups, s)
             PROVE  p = q
  BY DEF OneCleanup
<1>1. PICK k, i : k \in DOMAIN cleanups /\ i \in DOMAIN cleanups[k] /\ p = <<k, i>>
  BY DEF Active, EntriesOf
<1>2. PICK l, j : l \in DOMAIN cleanups /\ j \in DOMAIN cleanups[l] /\ q = <<l, j>>
  BY DEF Active, EntriesOf
<1>3. /\ cleanups[k][i].slot = s /\ ~cleanups[k][i].cancelled
      /\ cleanups[l][j].slot = s /\ ~cleanups[l][j].cancelled
  BY <1>1, <1>2 DEF Active, Entry
<1>4. k = l /\ i = j  BY <1>1, <1>2, <1>3 DEF Inv, One
<1> QED  BY <1>1, <1>2, <1>4

(* No variable ever has two cleanups that the emitter will still emit      *)
(* (ir_emitter.cpp:1443-1510, cleanup.cpp:134-169), whatever the program   *)
(* does and however many variables, blocks and statements it has.          *)
THEOREM NeverTwoCleanups == Spec => []OneCleanup
<1>1. Init => Inv  BY InitInv
<1>2. Inv /\ [Next]_vars => Inv'  BY StepKeepsInv
<1>3. Inv => OneCleanup  BY InvGivesOneCleanup
<1> QED  BY <1>1, <1>2, <1>3, PTL DEF Spec
----------------------------------------------------------------------------
(* What the lists will free.                                               *)
Due(c) == {Entry(c, p).slot : p \in Uncancelled(c)}
DueFrom(c, k) == {Entry(c, p).slot : p \in {q \in Uncancelled(c) : q[1] >= k}}

(* An entry is in the list of the environment its variable is declared in, *)
(* and none is for a str.                                                  *)
Placed(c, vis, knd) ==
    \A k \in DOMAIN c : \A i \in DOMAIN c[k] :
        /\ c[k][i].slot \in DOMAIN vis
        /\ vis[c[k][i].slot] = k
        /\ knd[c[k][i].slot] # "str"

(* The variable has one entry at most, cancelled or not.                   *)
Once(c, s) ==
    \A p, q \in EntriesOf(c) : Entry(c, p).slot = s /\ Entry(c, q).slot = s => p = q

LEMMA UncancelledDef ==
    ASSUME NEW c, NEW k, NEW i
    PROVE  <<k, i>> \in Uncancelled(c)
             <=> k \in DOMAIN c /\ i \in DOMAIN c[k] /\ ~c[k][i].cancelled
BY EntryDef DEF Uncancelled, Entry

LEMMA DueDef ==
    ASSUME NEW c, NEW s
    PROVE  s \in Due(c) <=> \E k \in DOMAIN c : \E i \in DOMAIN c[k] :
                                c[k][i].slot = s /\ ~c[k][i].cancelled
<1>1. ASSUME s \in Due(c)
      PROVE  \E k \in DOMAIN c : \E i \in DOMAIN c[k] :
                c[k][i].slot = s /\ ~c[k][i].cancelled
  <2>1. PICK p \in Uncancelled(c) : s = Entry(c, p).slot  BY <1>1 DEF Due
  <2>2. PICK k, i : k \in DOMAIN c /\ i \in DOMAIN c[k] /\ p = <<k, i>>
    BY <2>1 DEF Uncancelled, EntriesOf
  <2> QED  BY <2>1, <2>2 DEF Uncancelled, Entry
<1>2. ASSUME NEW k \in DOMAIN c, NEW i \in DOMAIN c[k],
             c[k][i].slot = s, ~c[k][i].cancelled
      PROVE  s \in Due(c)
  <2>1. <<k, i>> \in Uncancelled(c)  BY <1>2, UncancelledDef
  <2>2. Entry(c, <<k, i>>).slot = s  BY <1>2 DEF Entry
  <2> QED  BY <2>1, <2>2 DEF Due
<1> QED  BY <1>1, <1>2

LEMMA DueFromDef ==
    ASSUME NEW c, NEW s, NEW e
    PROVE  s \in DueFrom(c, e) <=> \E k \in DOMAIN c : \E i \in DOMAIN c[k] :
                                c[k][i].slot = s /\ ~c[k][i].cancelled /\ k >= e
<1>1. ASSUME s \in DueFrom(c, e)
      PROVE  \E k \in DOMAIN c : \E i \in DOMAIN c[k] :
                c[k][i].slot = s /\ ~c[k][i].cancelled /\ k >= e
  <2>1. PICK p \in Uncancelled(c) : s = Entry(c, p).slot /\ p[1] >= e
    BY <1>1 DEF DueFrom
  <2>2. PICK k, i : k \in DOMAIN c /\ i \in DOMAIN c[k] /\ p = <<k, i>>
    BY <2>1 DEF Uncancelled, EntriesOf
  <2> QED  BY <2>1, <2>2 DEF Uncancelled, Entry
<1>2. ASSUME NEW k \in DOMAIN c, NEW i \in DOMAIN c[k],
             c[k][i].slot = s, ~c[k][i].cancelled, k >= e
      PROVE  s \in DueFrom(c, e)
  <2>1. <<k, i>> \in Uncancelled(c)  BY <1>2, UncancelledDef
  <2>2. Entry(c, <<k, i>>).slot = s  BY <1>2 DEF Entry
  <2>3. <<k, i>> \in {q \in Uncancelled(c) : q[1] >= e}  BY <1>2, <2>1
  <2> QED  BY <2>2, <2>3 DEF DueFrom
<1> QED  BY <1>1, <1>2

LEMMA ActiveDue ==
    ASSUME NEW c, NEW s
    PROVE  Active(c, s) = {} <=> s \notin Due(c)
<1>1. Active(c, s) = {p \in Uncancelled(c) : Entry(c, p).slot = s}
  BY DEF Active, Uncancelled
<1> QED  BY <1>1 DEF Due

LEMMA DueFromPlaced ==
    ASSUME NEW c, NEW vis, NEW knd, Placed(c, vis, knd), NEW e
    PROVE  DueFrom(c, e) = {s \in Due(c) : vis[s] >= e}
<1>1. ASSUME NEW s PROVE s \in DueFrom(c, e) <=> s \in Due(c) /\ vis[s] >= e
  BY DueDef, DueFromDef DEF Placed
<1> QED  BY <1>1

LEMMA DueArePlaced ==
    ASSUME NEW c, NEW vis, NEW knd, Placed(c, vis, knd), NEW s \in Due(c)
    PROVE  s \in DOMAIN vis /\ vis[s] \in DOMAIN c /\ knd[s] # "str"
BY DueDef DEF Placed

LEMMA MarkDue ==
    ASSUME NEW c, NEW S, NEW s
    PROVE  s \in Due(Mark(c, S)) <=>
             \E k \in DOMAIN c : \E i \in DOMAIN c[k] :
                c[k][i].slot = s /\ ~c[k][i].cancelled /\ <<k, i>> \notin S
<1> DEFINE d == Mark(c, S)
<1>1. s \in Due(d) <=> \E k \in DOMAIN d : \E i \in DOMAIN d[k] :
                          d[k][i].slot = s /\ ~d[k][i].cancelled
  BY DueDef
<1>2. DOMAIN d = DOMAIN c /\ \A k \in DOMAIN c :
            /\ DOMAIN d[k] = DOMAIN c[k]
            /\ \A i \in DOMAIN c[k] :
                 /\ d[k][i].slot = c[k][i].slot
                 /\ d[k][i].cancelled <=> c[k][i].cancelled \/ <<k, i>> \in S
  BY MarkEntry
<1> HIDE DEF d
<1>3. s \in Due(d) <=>
             \E k \in DOMAIN c : \E i \in DOMAIN c[k] :
                c[k][i].slot = s /\ ~c[k][i].cancelled /\ <<k, i>> \notin S
  BY <1>1, <1>2
<1> QED  BY <1>3 DEF d

LEMMA MarkPlaced ==
    ASSUME NEW c, NEW vis, NEW knd, Placed(c, vis, knd), NEW S
    PROVE  Placed(Mark(c, S), vis, knd)
<1> DEFINE d == Mark(c, S)
<1>2. DOMAIN d = DOMAIN c /\ \A k \in DOMAIN c :
            /\ DOMAIN d[k] = DOMAIN c[k]
            /\ \A i \in DOMAIN c[k] :
                 /\ d[k][i].slot = c[k][i].slot
                 /\ d[k][i].cancelled <=> c[k][i].cancelled \/ <<k, i>> \in S
  BY MarkEntry
<1> HIDE DEF d
<1>3. ASSUME NEW k \in DOMAIN d, NEW i \in DOMAIN d[k]
      PROVE  /\ d[k][i].slot \in DOMAIN vis
             /\ vis[d[k][i].slot] = k
             /\ knd[d[k][i].slot] # "str"
  <2>1. k \in DOMAIN c /\ i \in DOMAIN c[k]  BY <1>2, <1>3
  <2>2. d[k][i].slot = c[k][i].slot  BY <1>2, <2>1
  <2> QED  BY <2>1, <2>2 DEF Placed
<1>4. Placed(d, vis, knd)  BY <1>3 DEF Placed
<1> QED  BY <1>4 DEF d

(* The lists after a registration, entry by entry.                         *)
LEMMA AddEntries ==
    ASSUME NEW n \in Nat, NEW c \in Lists(n), c # <<>>, NEW s
    PROVE  LET d == add_cleanup(c, s) IN
           /\ DOMAIN d = DOMAIN c /\ Len(c) \in DOMAIN c
           /\ \A k \in DOMAIN c : k # Len(c) => d[k] = c[k]
           /\ DOMAIN d[Len(c)] = DOMAIN c[Len(c)] \cup {Len(c[Len(c)]) + 1}
           /\ \A i \in DOMAIN c[Len(c)] : d[Len(c)][i] = c[Len(c)][i]
           /\ d[Len(c)][Len(c[Len(c)]) + 1] = CleanupInfo(s)
           /\ Len(c[Len(c)]) + 1 \notin DOMAIN c[Len(c)]
<1>1. c \in Seq(Seq(Info(n)))  BY DEF Lists
<1>2. Len(c) \in DOMAIN c /\ c[Len(c)] \in Seq(Info(n))  BY <1>1
<1> DEFINE last == Append(c[Len(c)], CleanupInfo(s))
<1>3. /\ DOMAIN last = DOMAIN c[Len(c)] \cup {Len(c[Len(c)]) + 1}
      /\ \A i \in DOMAIN c[Len(c)] : last[i] = c[Len(c)][i]
      /\ last[Len(c[Len(c)]) + 1] = CleanupInfo(s)
      /\ Len(c[Len(c)]) + 1 \notin DOMAIN c[Len(c)]
  BY <1>2
<1> HIDE DEF last
<1>4. add_cleanup(c, s) = [c EXCEPT ![Len(c)] = last]  BY DEF add_cleanup, last
<1> QED  BY <1>1, <1>2, <1>3, <1>4

LEMMA AddDue ==
    ASSUME NEW n \in Nat, NEW c \in Lists(n), c # <<>>, NEW s
    PROVE  Due(add_cleanup(c, s)) = Due(c) \cup {s}
<1> DEFINE d == add_cleanup(c, s)
<1>1. /\ DOMAIN d = DOMAIN c /\ Len(c) \in DOMAIN c
      /\ \A k \in DOMAIN c : k # Len(c) => d[k] = c[k]
      /\ DOMAIN d[Len(c)] = DOMAIN c[Len(c)] \cup {Len(c[Len(c)]) + 1}
      /\ \A i \in DOMAIN c[Len(c)] : d[Len(c)][i] = c[Len(c)][i]
      /\ d[Len(c)][Len(c[Len(c)]) + 1] = CleanupInfo(s)
  BY AddEntries
<1> HIDE DEF d
<1>2. CleanupInfo(s).slot = s /\ ~CleanupInfo(s).cancelled  BY DEF CleanupInfo
<1>3. ASSUME NEW t, t \in Due(d) PROVE t \in Due(c) \cup {s}
  <2>1. PICK k, i : k \in DOMAIN d /\ i \in DOMAIN d[k] /\ d[k][i].slot = t /\ ~d[k][i].cancelled
    BY <1>3, DueDef
  <2>2. CASE k # Len(c)  BY <1>1, <2>1, <2>2, DueDef
  <2>3. CASE k = Len(c) /\ i \in DOMAIN c[k]  BY <1>1, <2>1, <2>3, DueDef
  <2>4. CASE k = Len(c) /\ i \notin DOMAIN c[k]  BY <1>1, <1>2, <2>1, <2>4
  <2> QED  BY <2>2, <2>3, <2>4
<1>4. ASSUME NEW t \in Due(c) PROVE t \in Due(d)
  <2>1. PICK k, i : k \in DOMAIN c /\ i \in DOMAIN c[k] /\ c[k][i].slot = t /\ ~c[k][i].cancelled
    BY <1>4, DueDef
  <2>2. k \in DOMAIN d /\ i \in DOMAIN d[k] /\ d[k][i] = c[k][i]  BY <1>1, <2>1
  <2> QED  BY <2>1, <2>2, DueDef
<1>5. s \in Due(d)
  <2>1. /\ Len(c) \in DOMAIN d /\ Len(c[Len(c)]) + 1 \in DOMAIN d[Len(c)]
        /\ d[Len(c)][Len(c[Len(c)]) + 1].slot = s
        /\ ~d[Len(c)][Len(c[Len(c)]) + 1].cancelled
    BY <1>1, <1>2
  <2> QED  BY <2>1, DueDef
<1> QED  BY <1>3, <1>4, <1>5 DEF d

LEMMA AddPlaced ==
    ASSUME NEW n \in Nat, NEW c \in Lists(n), c # <<>>, NEW s,
           NEW vis, NEW knd, Placed(c, vis, knd),
           s \in DOMAIN vis, vis[s] = Len(c), knd[s] # "str"
    PROVE  Placed(add_cleanup(c, s), vis, knd)
<1> DEFINE d == add_cleanup(c, s)
<1>1. /\ DOMAIN d = DOMAIN c /\ Len(c) \in DOMAIN c
      /\ \A k \in DOMAIN c : k # Len(c) => d[k] = c[k]
      /\ DOMAIN d[Len(c)] = DOMAIN c[Len(c)] \cup {Len(c[Len(c)]) + 1}
      /\ \A i \in DOMAIN c[Len(c)] : d[Len(c)][i] = c[Len(c)][i]
      /\ d[Len(c)][Len(c[Len(c)]) + 1] = CleanupInfo(s)
  BY AddEntries
<1> HIDE DEF d
<1>2. CleanupInfo(s).slot = s  BY DEF CleanupInfo
<1>3. ASSUME NEW k \in DOMAIN d, NEW i \in DOMAIN d[k]
      PROVE  /\ d[k][i].slot \in DOMAIN vis
             /\ vis[d[k][i].slot] = k
             /\ knd[d[k][i].slot] # "str"
  <2>2. CASE k # Len(c)  BY <1>1, <1>3, <2>2 DEF Placed
  <2>3. CASE k = Len(c) /\ i \in DOMAIN c[k]  BY <1>1, <1>3, <2>3 DEF Placed
  <2>4. CASE k = Len(c) /\ i \notin DOMAIN c[k]  BY <1>1, <1>2, <1>3, <2>4
  <2> QED  BY <2>2, <2>3, <2>4
<1>4. Placed(d, vis, knd)  BY <1>3 DEF Placed
<1> QED  BY <1>4 DEF d

(* Cancelling what has one entry at most.                                  *)
LEMMA CancelOnce ==
    ASSUME NEW c, NEW s, Once(c, s)
    PROVE  Due(cancel_cleanup(c, s)) = Due(c) \ {s}
<1> DEFINE E == {p \in EntriesOf(c) : Entry(c, p).slot = s}
<1>1. FirstOf(E) = E  BY DEF Once, FirstOf
<1>2. cancel_cleanup(c, s) = Mark(c, E)  BY <1>1 DEF cancel_cleanup
<1>3. ASSUME NEW k \in DOMAIN c, NEW i \in DOMAIN c[k]
      PROVE  <<k, i>> \in E <=> c[k][i].slot = s
  BY EntryDef DEF Entry
<1> HIDE DEF E
<1>4. ASSUME NEW t PROVE t \in Due(Mark(c, E)) <=> t \in Due(c) /\ t # s
  <2>1. t \in Due(Mark(c, E)) <=>
             \E k \in DOMAIN c : \E i \in DOMAIN c[k] :
                c[k][i].slot = t /\ ~c[k][i].cancelled /\ <<k, i>> \notin E
    BY MarkDue
  <2>2. t \in Due(c) <=> \E k \in DOMAIN c : \E i \in DOMAIN c[k] :
                            c[k][i].slot = t /\ ~c[k][i].cancelled
    BY DueDef
  <2> QED  BY <1>3, <2>1, <2>2
<1> QED  BY <1>2, <1>4

LEMMA OnceMark ==
    ASSUME NEW c, NEW s, Once(c, s), NEW S
    PROVE  Once(Mark(c, S), s)
<1> DEFINE d == Mark(c, S)
<1>1. EntriesOf(d) = EntriesOf(c)
  <2>1. DOMAIN d = DOMAIN c /\ \A k \in DOMAIN c : DOMAIN d[k] = DOMAIN c[k]
    BY MarkEntry
  <2> HIDE DEF d
  <2> QED  BY <2>1 DEF EntriesOf
<1>2. ASSUME NEW p \in EntriesOf(c) PROVE Entry(d, p).slot = Entry(c, p).slot
  <2>1. PICK k, i : k \in DOMAIN c /\ i \in DOMAIN c[k] /\ p = <<k, i>>  BY <1>2 DEF EntriesOf
  <2>2. d[k][i].slot = c[k][i].slot  BY <2>1, MarkEntry
  <2> QED  BY <2>1, <2>2 DEF Entry
<1> HIDE DEF d
<1>3. Once(d, s)  BY <1>1, <1>2 DEF Once
<1> QED  BY <1>3 DEF d

LEMMA OnceAdd ==
    ASSUME NEW n \in Nat, NEW c \in Lists(n), c # <<>>, NEW t, NEW s, t # s, Once(c, s)
    PROVE  Once(add_cleanup(c, t), s)
<1> DEFINE d == add_cleanup(c, t)
<1>1. /\ DOMAIN d = DOMAIN c /\ Len(c) \in DOMAIN c
      /\ \A k \in DOMAIN c : k # Len(c) => d[k] = c[k]
      /\ DOMAIN d[Len(c)] = DOMAIN c[Len(c)] \cup {Len(c[Len(c)]) + 1}
      /\ \A i \in DOMAIN c[Len(c)] : d[Len(c)][i] = c[Len(c)][i]
      /\ d[Len(c)][Len(c[Len(c)]) + 1] = CleanupInfo(t)
  BY AddEntries
<1> HIDE DEF d
<1>2. CleanupInfo(t).slot = t  BY DEF CleanupInfo
<1>3. ASSUME NEW p \in EntriesOf(d), Entry(d, p).slot = s
      PROVE  p \in EntriesOf(c) /\ Entry(c, p).slot = s
  <2>1. PICK k, i : k \in DOMAIN d /\ i \in DOMAIN d[k] /\ p = <<k, i>>  BY <1>3 DEF EntriesOf
  <2>2. d[k][i].slot = s  BY <1>3, <2>1 DEF Entry
  <2>3. k \in DOMAIN c /\ i \in DOMAIN c[k] /\ d[k][i] = c[k][i]
    <3>1. CASE k # Len(c)  BY <1>1, <2>1, <3>1
    <3>2. CASE k = Len(c) /\ i \in DOMAIN c[k]  BY <1>1, <2>1, <3>2
    <3>3. CASE k = Len(c) /\ i \notin DOMAIN c[k]  BY <1>1, <1>2, <2>1, <2>2, <3>3
    <3> QED  BY <3>1, <3>2, <3>3
  <2> QED  BY <2>1, <2>2, <2>3, EntryDef DEF Entry
<1>4. Once(d, s)  BY <1>3 DEF Once
<1> QED  BY <1>4 DEF d

LEMMA FiniteEntries ==
    ASSUME NEW n \in Nat, NEW c \in Lists(n)
    PROVE  IsFiniteSet(EntriesOf(c))
<1> DEFINE m(k) == {<<k, i>> : i \in DOMAIN c[k]}
           T == {m(k) : k \in DOMAIN c}
<1>1. c \in Seq(Seq(Info(n)))  BY DEF Lists
<1>2. IsFiniteSet(DOMAIN c)
  <2>1. DOMAIN c = 1..Len(c) /\ Len(c) \in Nat  BY <1>1
  <2> QED  BY <2>1, FS_Interval
<1>3. ASSUME NEW k \in DOMAIN c PROVE IsFiniteSet(m(k))
  <2>1. c[k] \in Seq(Info(n))  BY <1>1
  <2>2. DOMAIN c[k] = 1..Len(c[k]) /\ Len(c[k]) \in Nat  BY <2>1
  <2>3. IsFiniteSet(DOMAIN c[k])  BY <2>2, FS_Interval
  <2> DEFINE f == [i \in DOMAIN c[k] |-> <<k, i>>]
  <2>4. f \in Surjection(DOMAIN c[k], m(k))  BY DEF Surjection
  <2> QED  BY <2>3, <2>4, FS_Surjection
<1>4. IsFiniteSet(T)
  <2> HIDE DEF m
  <2> DEFINE f == [k \in DOMAIN c |-> m(k)]
  <2>1. f \in Surjection(DOMAIN c, T)  BY DEF Surjection
  <2> QED  BY <1>2, <2>1, FS_Surjection
<1>5. \A t \in T : IsFiniteSet(t)
  <2> HIDE DEF m
  <2> QED  BY <1>3
<1>6. IsFiniteSet(UNION T)
  <2> HIDE DEF T
  <2> QED  BY <1>4, <1>5, FS_UNION
<1> QED  BY <1>6 DEF EntriesOf

(* What has not been assigned to has one entry at most.                    *)
LEMMA NotReassigned ==
    ASSUME NEW n \in Nat, cleanups \in Lists(n), NEW s, ~Reassigned(s)
    PROVE  Once(cleanups, s)
<1> DEFINE E == {p \in EntriesOf(cleanups) : Entry(cleanups, p).slot = s}
<1>1. IsFiniteSet(E)
  <2>1. IsFiniteSet(EntriesOf(cleanups))  BY FiniteEntries
  <2>2. E \in SUBSET EntriesOf(cleanups)  OBVIOUS
  <2> HIDE DEF E
  <2> QED  BY <2>1, <2>2, FS_Subset
<1>2. ~(Cardinality(E) > 1)  BY DEF Reassigned
<1> SUFFICES ASSUME NEW p \in E, NEW q \in E PROVE p = q
  BY DEF Once
<1> HIDE DEF E
<1>3. Cardinality(E) \in Nat  BY <1>1, FS_CardinalityType
<1>4. Cardinality(E) # 0  BY <1>1, FS_EmptySet
<1>5. Cardinality(E) = 1  BY <1>2, <1>3, <1>4
<1>6. \E x : E = {x}  BY <1>1, <1>5, FS_Singleton
<1> QED  BY <1>6

(* An assignment leaves the variable one uncancelled entry.                *)
LEMMA ReplaceDue ==
    ASSUME NEW n \in Nat, cleanups \in Lists(n), cleanups # <<>>, One(cleanups), NEW t
    PROVE  Due(Replace(t)) = Due(cleanups) \cup {t}
<1> DEFINE d == Mark(cleanups, FirstOf(Active(cleanups, t)))
<1>1. d \in Lists(n)  BY MarkLists
<1>2. d # <<>>
  <2>1. DOMAIN d = DOMAIN cleanups  BY MarkEntry
  <2>2. 1 \in DOMAIN cleanups  BY DEF Lists
  <2> HIDE DEF d
  <2> QED  BY <2>1, <2>2
<1>3. ASSUME NEW s, s # t PROVE s \in Due(d) <=> s \in Due(cleanups)
  <2> DEFINE F == FirstOf(Active(cleanups, t))
  <2>1. ASSUME NEW k \in DOMAIN cleanups, NEW i \in DOMAIN cleanups[k], <<k, i>> \in F
        PROVE  cleanups[k][i].slot = t
    BY <2>1 DEF FirstOf, Active, Entry
  <2>2. s \in Due(Mark(cleanups, F)) <=>
             \E k \in DOMAIN cleanups : \E i \in DOMAIN cleanups[k] :
                cleanups[k][i].slot = s /\ ~cleanups[k][i].cancelled /\ <<k, i>> \notin F
    BY MarkDue
  <2>3. s \in Due(cleanups) <=>
             \E k \in DOMAIN cleanups : \E i \in DOMAIN cleanups[k] :
                cleanups[k][i].slot = s /\ ~cleanups[k][i].cancelled
    BY DueDef
  <2> HIDE DEF F
  <2>4. ASSUME NEW k \in DOMAIN cleanups, NEW i \in DOMAIN cleanups[k],
               cleanups[k][i].slot = s
        PROVE  <<k, i>> \notin F
    BY <1>3, <2>1, <2>4
  <2>5. s \in Due(Mark(cleanups, F)) <=> s \in Due(cleanups)
    BY <2>2, <2>3, <2>4
  <2> QED  BY <2>5 DEF F
<1> HIDE DEF d
<1>4. Due(add_cleanup(d, t)) = Due(d) \cup {t}  BY <1>1, <1>2, AddDue
<1>5. Due(d) \cup {t} = Due(cleanups) \cup {t}  BY <1>3
<1> QED  BY <1>4, <1>5 DEF Replace, d

LEMMA ReplaceOnce ==
    ASSUME NEW n \in Nat, cleanups \in Lists(n), cleanups # <<>>, NEW t, NEW s, s # t,
           Once(cleanups, s)
    PROVE  Once(Replace(t), s)
<1> DEFINE d == Mark(cleanups, FirstOf(Active(cleanups, t)))
<1>1. d \in Lists(n) /\ Once(d, s)  BY MarkLists, OnceMark
<1>2. d # <<>>
  <2>1. DOMAIN d = DOMAIN cleanups  BY MarkEntry
  <2>2. 1 \in DOMAIN cleanups  BY DEF Lists
  <2> HIDE DEF d
  <2> QED  BY <2>1, <2>2
<1> HIDE DEF d
<1> QED  BY <1>1, <1>2, OnceAdd DEF Replace, d

LEMMA ReplacePlaced ==
    ASSUME NEW n \in Nat, cleanups \in Lists(n), cleanups # <<>>, NEW t,
           NEW vis, NEW knd, Placed(cleanups, vis, knd),
           t \in DOMAIN vis, vis[t] = Len(cleanups), knd[t] # "str"
    PROVE  Placed(Replace(t), vis, knd) /\ Len(Replace(t)) = Len(cleanups)
<1> DEFINE d == Mark(cleanups, FirstOf(Active(cleanups, t)))
<1>1. d \in Lists(n) /\ Placed(d, vis, knd)  BY MarkLists, MarkPlaced
<1>2. DOMAIN d = DOMAIN cleanups  BY MarkEntry
<1>3. 1 \in DOMAIN cleanups  BY DEF Lists
<1> HIDE DEF d
<1>4. d # <<>>  BY <1>2, <1>3
<1>5. Len(d) = Len(cleanups)  BY <1>1, <1>2 DEF Lists
<1>6. Placed(add_cleanup(d, t), vis, knd)  BY <1>1, <1>4, <1>5, AddPlaced
<1>7. Len(add_cleanup(d, t)) = Len(d)  BY <1>1 DEF add_cleanup, Lists
<1> QED  BY <1>5, <1>6, <1>7 DEF Replace, d

LEMMA CancelFromDue ==
    ASSUME NEW n \in Nat, NEW c \in Lists(n), NEW e
    PROVE  Due(CancelFrom(c, e)) = Due(c) \ DueFrom(c, e) \/ ~One(c)
<1> DEFINE S == {p \in EntriesOf(c) : p[1] >= e}
<1>1. ASSUME NEW k \in DOMAIN c, NEW i \in DOMAIN c[k]
      PROVE  <<k, i>> \in S <=> k >= e
  BY EntryDef
<1> HIDE DEF S
<1>2. ASSUME One(c), NEW s
      PROVE  s \in Due(Mark(c, S)) <=> s \in Due(c) /\ s \notin DueFrom(c, e)
  <2>1. s \in Due(Mark(c, S)) <=>
             \E k \in DOMAIN c : \E i \in DOMAIN c[k] :
                c[k][i].slot = s /\ ~c[k][i].cancelled /\ <<k, i>> \notin S
    BY MarkDue
  <2>2. s \in Due(c) <=> \E k \in DOMAIN c : \E i \in DOMAIN c[k] :
                            c[k][i].slot = s /\ ~c[k][i].cancelled
    BY DueDef
  <2>3. s \in DueFrom(c, e) <=> \E k \in DOMAIN c : \E i \in DOMAIN c[k] :
                                  c[k][i].slot = s /\ ~c[k][i].cancelled /\ k >= e
    BY DueFromDef
  <2>4. ASSUME NEW k \in DOMAIN c, NEW l \in DOMAIN c,
               NEW i \in DOMAIN c[k], NEW j \in DOMAIN c[l],
               ~c[k][i].cancelled, ~c[l][j].cancelled,
               c[k][i].slot = s, c[l][j].slot = s
        PROVE  k = l
    BY <1>2, <2>4 DEF One
  <2> QED  BY <1>1, <2>1, <2>2, <2>3, <2>4
<1> QED  BY <1>2 DEF CancelFrom, S

LEMMA EnterDue ==
    ASSUME NEW n \in Nat, NEW c \in Lists(n)
    PROVE  /\ Due(Append(c, <<>>)) = Due(c) /\ Len(Append(c, <<>>)) = Len(c) + 1
           /\ \A vis, knd : Placed(c, vis, knd) => Placed(Append(c, <<>>), vis, knd)
<1> DEFINE d == Append(c, <<>>)
<1>3. /\ DOMAIN d = DOMAIN c \cup {Len(c) + 1}
      /\ \A k \in DOMAIN c : d[k] = c[k]
      /\ d[Len(c) + 1] = <<>>
      /\ Len(d) = Len(c) + 1
  BY DEF Lists
<1>4. DOMAIN <<>> = {}  OBVIOUS
<1> HIDE DEF d
<1>5. \A k \in DOMAIN d : \A i \in DOMAIN d[k] : k \in DOMAIN c /\ d[k] = c[k]
  BY <1>3, <1>4
<1>6. \A s : s \in Due(d) <=> s \in Due(c)
  <2> TAKE s
  <2>1. s \in Due(d) <=> \E k \in DOMAIN d : \E i \in DOMAIN d[k] :
                            d[k][i].slot = s /\ ~d[k][i].cancelled
    BY DueDef
  <2>2. s \in Due(c) <=> \E k \in DOMAIN c : \E i \in DOMAIN c[k] :
                            c[k][i].slot = s /\ ~c[k][i].cancelled
    BY DueDef
  <2> QED  BY <1>3, <1>5, <2>1, <2>2
<1>7. \A vis, knd : Placed(c, vis, knd) => Placed(d, vis, knd)  BY <1>5 DEF Placed
<1> QED  BY <1>3, <1>6, <1>7 DEF d

LEMMA LeaveDue ==
    ASSUME NEW n \in Nat, NEW c \in Lists(n), c # <<>>, NEW vis, NEW knd, Placed(c, vis, knd)
    PROVE  /\ Due(LeaveEnv(c)) = {s \in Due(c) : vis[s] < Len(c)}
           /\ Due(LeaveEnv(c)) = Due(c) \ DueFrom(c, Len(c))
           /\ Placed(LeaveEnv(c), vis, knd)
           /\ Len(LeaveEnv(c)) = Len(c) - 1
<1> DEFINE d == LeaveEnv(c)
<1>1. c \in Seq(Seq(Info(n))) /\ Len(c) \in Nat \ {0}  BY DEF Lists
<1>2. DOMAIN d = 1..(Len(c) - 1) /\ (\A k \in DOMAIN d : d[k] = c[k]) /\ Len(d) = Len(c) - 1
  <2>1. d = SubSeq(c, 1, Len(c) - 1)  BY DEF LeaveEnv, Front
  <2>2. Len(c) - 1 \in Nat /\ Len(c) - 1 <= Len(c)  BY <1>1
  <2>3. Len(SubSeq(c, 1, Len(c) - 1)) = Len(c) - 1
    <3>1. \A i \in 1..(Len(c) - 1) : c[i] \in Seq(Info(n))  BY <1>1
    <3>2. Len(SubSeq(c, 1, Len(c) - 1))
             = IF 1 <= Len(c) - 1 THEN Len(c) - 1 - 1 + 1 ELSE 0
      BY <2>2, <3>1, SubSeqProperties
    <3>3. PICK l : l = Len(c)  OBVIOUS
    <3>4. l \in Nat \ {0}  BY <1>1, <3>3
    <3>5. (IF 1 <= l - 1 THEN l - 1 - 1 + 1 ELSE 0) = l - 1  BY <3>4
    <3> QED  BY <3>2, <3>3, <3>5
  <2>4. \A k \in 1..(Len(c) - 1) : SubSeq(c, 1, Len(c) - 1)[k] = c[k]
    BY <1>1, <2>2, SubSeqProperties
  <2>5. DOMAIN SubSeq(c, 1, Len(c) - 1) = 1..(Len(c) - 1)
    BY <1>1, <2>2, <2>3, SubSeqProperties
  <2> HIDE DEF d
  <2> QED  BY <2>1, <2>3, <2>4, <2>5
<1>3. DOMAIN c = 1..Len(c)  BY <1>1
<1> HIDE DEF d
<1>4. ASSUME NEW s PROVE s \in Due(d) <=> s \in Due(c) /\ vis[s] < Len(c)
  <2>1. s \in Due(d) <=> \E k \in DOMAIN d : \E i \in DOMAIN d[k] :
                            d[k][i].slot = s /\ ~d[k][i].cancelled
    BY DueDef
  <2>2. s \in Due(c) <=> \E k \in DOMAIN c : \E i \in DOMAIN c[k] :
                            c[k][i].slot = s /\ ~c[k][i].cancelled
    BY DueDef
  <2>3. \A k \in DOMAIN c : k \in DOMAIN d <=> k < Len(c)  BY <1>1, <1>2, <1>3
  <2>4. DOMAIN d \subseteq DOMAIN c  BY <1>1, <1>2, <1>3
  <2> QED  BY <1>2, <2>1, <2>2, <2>3, <2>4 DEF Placed
<1>5. Placed(d, vis, knd)
  <2>1. DOMAIN d \subseteq DOMAIN c  BY <1>1, <1>2, <1>3
  <2> QED  BY <1>2, <2>1 DEF Placed
<1>6. ASSUME NEW s \in Due(c) PROVE vis[s] < Len(c) <=> s \notin DueFrom(c, Len(c))
  <2>1. vis[s] \in 1..Len(c)  BY <1>3, DueArePlaced
  <2>2. DueFrom(c, Len(c)) = {t \in Due(c) : vis[t] >= Len(c)}  BY DueFromPlaced
  <2> QED  BY <1>1, <2>1, <2>2
<1> QED  BY <1>2, <1>4, <1>5, <1>6 DEF d

(* The positions that come later are fewer the later a position is, so the *)
(* ranks are 0, 1, ... and Ranked enumerates the positions.                *)
Position == Nat \X Nat

LEMMA LaterOrders ==
    ASSUME NEW P \in SUBSET Position, IsFiniteSet(P), NEW p \in P, NEW q \in P,
           Cardinality(LaterThan(p, P)) = Cardinality(LaterThan(q, P))
    PROVE  p = q
<1> DEFINE Later(x, y) == x[1] > y[1] \/ (x[1] = y[1] /\ x[2] > y[2])
<1>1. ASSUME NEW x \in P PROVE IsFiniteSet(LaterThan(x, P))
  <2>1. LaterThan(x, P) \in SUBSET P  BY DEF LaterThan
  <2> QED  BY <2>1, FS_Subset
<1>2. ASSUME NEW x \in P, NEW y \in P, Later(x, y)
      PROVE  Cardinality(LaterThan(x, P)) # Cardinality(LaterThan(y, P))
  <2>1. /\ x[1] \in Nat /\ x[2] \in Nat /\ y[1] \in Nat /\ y[2] \in Nat
        /\ \A z \in P : z[1] \in Nat /\ z[2] \in Nat
    BY DEF Position
  <2>2. LaterThan(x, P) \in SUBSET LaterThan(y, P)
    BY <1>2, <2>1 DEF LaterThan
  <2>3. x \in LaterThan(y, P) /\ x \notin LaterThan(x, P)
    BY <1>2, <2>1 DEF LaterThan
  <2> QED  BY <1>1, <2>2, <2>3, FS_Subset
<1>3. /\ p[1] \in Nat /\ p[2] \in Nat /\ p = <<p[1], p[2]>>
      /\ q[1] \in Nat /\ q[2] \in Nat /\ q = <<q[1], q[2]>>
  BY DEF Position
<1>4. Later(p, q) \/ Later(q, p) \/ (p[1] = q[1] /\ p[2] = q[2])  BY <1>3
<1> HIDE DEF Later
<1> QED  BY <1>2, <1>3, <1>4

LEMMA RankedEnumerates ==
    ASSUME NEW P \in SUBSET Position, IsFiniteSet(P)
    PROVE  /\ Cardinality(P) \in Nat
           /\ \A i \in 1..Cardinality(P) : Ranked(P, i) \in P
           /\ \A i, j \in 1..Cardinality(P) : Ranked(P, i) = Ranked(P, j) => i = j
           /\ \A p \in P : \E i \in 1..Cardinality(P) : Ranked(P, i) = p
<1>0. PICK n : n = Cardinality(P)  OBVIOUS
<1> DEFINE rank(p) == Cardinality(LaterThan(p, P)) + 1
<1>1. n \in Nat  BY <1>0, FS_CardinalityType
<1>2. ASSUME NEW p \in P PROVE rank(p) \in 1..n
  <2>1. LaterThan(p, P) \in SUBSET P  BY DEF LaterThan
  <2>2. p[1] \in Nat /\ p[2] \in Nat  BY DEF Position
  <2>3. p \notin LaterThan(p, P)  BY <2>2 DEF LaterThan
  <2>4. /\ IsFiniteSet(LaterThan(p, P))
        /\ Cardinality(LaterThan(p, P)) <= n
        /\ Cardinality(LaterThan(p, P)) # n
    BY <1>0, <2>1, <2>3, FS_Subset
  <2>5. Cardinality(LaterThan(p, P)) \in Nat  BY <2>4, FS_CardinalityType
  <2> QED  BY <1>1, <2>4, <2>5
<1>3. ASSUME NEW p \in P, NEW q \in P, rank(p) = rank(q) PROVE p = q
  <2>1. LaterThan(p, P) \in SUBSET P /\ LaterThan(q, P) \in SUBSET P  BY DEF LaterThan
  <2>2. Cardinality(LaterThan(p, P)) \in Nat /\ Cardinality(LaterThan(q, P)) \in Nat
    BY <2>1, FS_Subset, FS_CardinalityType
  <2>3. Cardinality(LaterThan(p, P)) = Cardinality(LaterThan(q, P))  BY <1>3, <2>2
  <2> QED  BY <2>3, LaterOrders
<1>4. ASSUME NEW i \in 1..n PROVE \E p \in P : rank(p) = i
  <2> DEFINE f == [p \in P |-> rank(p)]
  <2> HIDE DEF rank
  <2>1. f \in Injection(P, 1..n)  BY <1>2, <1>3 DEF Injection, IsInjective
  <2>2. IsFiniteSet(1..n) /\ Cardinality(1..n) = n
    <3>1. Cardinality(1..n) = IF 1 > n THEN 0 ELSE n - 1 + 1  BY <1>1, FS_Interval
    <3> QED  BY <1>1, <3>1, FS_Interval
  <2>3. f \in Surjection(P, 1..n)  BY <1>0, <2>1, <2>2, FS_Injection
  <2> QED  BY <2>3 DEF Surjection
<1>5. ASSUME NEW i \in 1..n PROVE Ranked(P, i) \in P /\ rank(Ranked(P, i)) = i
  <2>1. PICK p \in P : rank(p) = i  BY <1>4
  <2>2. Cardinality(LaterThan(p, P)) \in Nat
    <3>1. LaterThan(p, P) \in SUBSET P  BY DEF LaterThan
    <3> QED  BY <3>1, FS_Subset, FS_CardinalityType
  <2>3. Cardinality(LaterThan(p, P)) = i - 1  BY <2>1, <2>2
  <2>4. Ranked(P, i) \in P /\ Cardinality(LaterThan(Ranked(P, i), P)) = i - 1
    BY <2>3 DEF Ranked
  <2> QED  BY <1>1, <2>4
<1>6. ASSUME NEW p \in P PROVE \E i \in 1..n : Ranked(P, i) = p
  <2>1. rank(p) \in 1..n  BY <1>2
  <2>2. Ranked(P, rank(p)) \in P /\ rank(Ranked(P, rank(p))) = rank(p)  BY <1>5, <2>1
  <2> HIDE DEF rank
  <2>3. Ranked(P, rank(p)) = p  BY <1>3, <2>2
  <2> QED  BY <2>1, <2>3
<1> HIDE DEF rank
<1>7. \A i, j \in 1..n : Ranked(P, i) = Ranked(P, j) => i = j  BY <1>5
<1> QED  BY <1>0, <1>1, <1>5, <1>6, <1>7

(* The frees that are emitted: one for each variable that is due.          *)
LEMMA FreesAre ==
    ASSUME NEW n \in Nat, NEW c \in Lists(n), One(c), NEW k
    PROVE  \E m \in Nat : \E f \in [1..m -> DueFrom(c, k)] :
             /\ Frees(c, k) = [i \in 1..m |-> Free(f[i])]
             /\ \A i, j \in 1..m : f[i] = f[j] => i = j
             /\ \A s \in DueFrom(c, k) : \E i \in 1..m : f[i] = s
<1> DEFINE P == {p \in Uncancelled(c) : p[1] >= k}
<1>1. P \in SUBSET Position
  <2>1. c \in Seq(Seq(Info(n)))  BY DEF Lists
  <2>2. ASSUME NEW p \in Uncancelled(c) PROVE p \in Position
    <3>1. PICK l, i : l \in DOMAIN c /\ i \in DOMAIN c[l] /\ p = <<l, i>>
      BY DEF Uncancelled, EntriesOf
    <3>2. c[l] \in Seq(Info(n))  BY <2>1, <3>1
    <3>3. l \in Nat /\ i \in Nat  BY <2>1, <3>1, <3>2
    <3> QED  BY <3>1, <3>3 DEF Position
  <2> QED  BY <2>2
<1>2. IsFiniteSet(P)
  <2>1. IsFiniteSet(EntriesOf(c))  BY FiniteEntries
  <2>2. P \in SUBSET EntriesOf(c)  BY DEF Uncancelled
  <2> HIDE DEF P
  <2> QED  BY <2>1, <2>2, FS_Subset
<1>3. DueFrom(c, k) = {Entry(c, p).slot : p \in P}  BY DEF DueFrom
<1>4. Frees(c, k) = FreesOf(c, P)  BY DEF Frees
<1>5. ASSUME NEW p \in P, NEW q \in P, Entry(c, p).slot = Entry(c, q).slot PROVE p = q
  <2>1. PICK l, i : l \in DOMAIN c /\ i \in DOMAIN c[l] /\ p = <<l, i>>
    BY DEF Uncancelled, EntriesOf
  <2>2. PICK r, j : r \in DOMAIN c /\ j \in DOMAIN c[r] /\ q = <<r, j>>
    BY DEF Uncancelled, EntriesOf
  <2>3. ~c[l][i].cancelled /\ ~c[r][j].cancelled  BY <2>1, <2>2 DEF Uncancelled, Entry
  <2>4. c[l][i].slot = c[r][j].slot  BY <1>5, <2>1, <2>2 DEF Entry
  <2>5. l = r /\ i = j  BY <2>1, <2>2, <2>3, <2>4 DEF One
  <2> QED  BY <2>1, <2>2, <2>5
<1> HIDE DEF P
<1>6. PICK m : m = Cardinality(P)  OBVIOUS
<1>7. /\ m \in Nat
      /\ \A i \in 1..m : Ranked(P, i) \in P
      /\ \A i, j \in 1..m : Ranked(P, i) = Ranked(P, j) => i = j
      /\ \A p \in P : \E i \in 1..m : Ranked(P, i) = p
  BY <1>1, <1>2, <1>6, RankedEnumerates
<1> DEFINE f == [i \in 1..m |-> Entry(c, Ranked(P, i)).slot]
<1>8. f \in [1..m -> DueFrom(c, k)]  BY <1>3, <1>7
<1>9. Frees(c, k) = [i \in 1..m |-> Free(f[i])]  BY <1>4, <1>6 DEF FreesOf
<1>10. \A i, j \in 1..m : f[i] = f[j] => i = j  BY <1>5, <1>7
<1>11. \A s \in DueFrom(c, k) : \E i \in 1..m : f[i] = s
  <2> TAKE s \in DueFrom(c, k)
  <2>1. PICK p \in P : s = Entry(c, p).slot  BY <1>3
  <2>2. PICK i \in 1..m : Ranked(P, i) = p  BY <1>7
  <2> QED  BY <2>1, <2>2
<1> HIDE DEF f
<1> QED  BY <1>7, <1>8, <1>9, <1>10, <1>11

LEMMA NoFrees ==
    ASSUME NEW n \in Nat, NEW c \in Lists(n), One(c), NEW k, Frees(c, k) = <<>>
    PROVE  DueFrom(c, k) = {}
<1>0. PICK m \in Nat : \E f \in [1..m -> DueFrom(c, k)] :
             /\ Frees(c, k) = [i \in 1..m |-> Free(f[i])]
             /\ \A i, j \in 1..m : f[i] = f[j] => i = j
             /\ \A s \in DueFrom(c, k) : \E i \in 1..m : f[i] = s
  BY FreesAre
<1>1. PICK f \in [1..m -> DueFrom(c, k)] :
             /\ Frees(c, k) = [i \in 1..m |-> Free(f[i])]
             /\ \A s \in DueFrom(c, k) : \E i \in 1..m : f[i] = s
  BY <1>0
<1>2. DOMAIN Frees(c, k) = {}  OBVIOUS
<1>3. 1..m = {}  BY <1>1, <1>2
<1> QED  BY <1>1, <1>3

----------------------------------------------------------------------------
(* The code.  own says which variables own their value wherever execution  *)
(* is at an instruction, own[Len(code) + 1] which do where the emitter is. *)
IsSeq(q) == \E S : q \in Seq(S)

Heap(knd) == {s \in DOMAIN knd : knd[s] # "str"}
Leaves == {"br", "ret", "ret value"}

(* Code in front of which V own their values can be come to with W.  exact *)
(* says that nothing may be lost on the way.                               *)
Passes(W, V, knd, exact) ==
    V \subseteq W /\ (exact => W \cap Heap(knd) \subseteq V)

(* Which own their value behind instruction i.                             *)
Owners(knd, W, i) ==
    IF i.op = "new" THEN W \cup {i.slot}
    ELSE IF i.op = "copy"
         THEN IF knd[i.slot] = "str" THEN W \cup {i.slot} ELSE (W \cup {i.slot}) \ {i.from}
    ELSE IF i.op \in {"undef", "free", "consume"} THEN W \ {i.slot} ELSE W

(* What i needs, W owning their values.                                    *)
Operands(knd, W, i, exact) ==
    /\ i.op \in {"new", "copy", "undef"} =>
            /\ i.slot \in DOMAIN knd
            /\ exact => i.slot \notin W \cap Heap(knd)
    /\ i.op = "copy" =>
            /\ i.from \in W
            /\ i.from # i.slot
            /\ knd[i.from] = "str" <=> knd[i.slot] = "str"
    /\ i.op \in {"load", "consume", "ret value"} => i.slot \in W
    /\ i.op \in {"free", "grow"} => i.slot \in W \cap Heap(knd)
    /\ i.op = "ret" => (exact => W \cap Heap(knd) = {})
    /\ i.op = "ret value" => (exact => W \cap Heap(knd) \subseteq {i.slot})
    /\ i.op \in {"new", "copy", "undef", "free", "load", "grow", "consume"} \cup Leaves

(* Execution goes on behind i, or at one of its labels that are placed.    *)
Continuing(knd, cd, own, lb, tm, exact, p) ==
    /\ cd[p].op \notin Leaves =>
            /\ p = Len(cd) => ~tm
            /\ Passes(Owners(knd, own[p], cd[p]), own[p + 1], knd, exact)
    /\ cd[p].op = "br" => \A l \in cd[p].to :
            /\ l \in DOMAIN lb
            /\ lb[l] # 0 =>
                 /\ lb[l] \in 1..(Len(cd) + 1)
                 /\ lb[l] = Len(cd) + 1 => ~tm
                 /\ Passes(own[p], own[lb[l]], knd, exact)

Flow(knd, cd, own, lb, tm, exact) ==
    /\ IsSeq(cd)
    /\ own \in [1..(Len(cd) + 1) -> SUBSET DOMAIN knd]
    /\ own[1] = {}
    /\ tm => Len(cd) # 0
    /\ \A p \in 1..Len(cd) :
            /\ Operands(knd, own[p], cd[p], exact)
            /\ Continuing(knd, cd, own, lb, tm, exact, p)

(* cd2 is cd and some instructions that are no jumps, V own their values   *)
(* behind it.                                                              *)
Emitted(knd, cd, own, cd2, own2, V, lb, exact) ==
    /\ Flow(knd, cd2, own2, lb, FALSE, exact)
    /\ own2[Len(cd2) + 1] = V
    /\ Len(cd) <= Len(cd2)
    /\ \A p \in 1..Len(cd) : cd2[p] = cd[p] /\ own2[p] = own[p]
    /\ \A p \in (Len(cd) + 1)..Len(cd2) : cd2[p].op \notin Leaves

LEMMA AppendSeq ==
    ASSUME NEW q, IsSeq(q), NEW x
    PROVE  /\ IsSeq(Append(q, x))
           /\ Len(q) \in Nat /\ DOMAIN q = 1..Len(q)
           /\ Len(Append(q, x)) = Len(q) + 1
           /\ \A i \in 1..Len(q) : Append(q, x)[i] = q[i]
           /\ Append(q, x)[Len(q) + 1] = x
<1>1. PICK S : q \in Seq(S)  BY DEF IsSeq
<1>2. q \in Seq(S \cup {x})  BY <1>1
<1>3. Append(q, x) \in Seq(S \cup {x})  BY <1>2
<1> QED  BY <1>2, <1>3 DEF IsSeq

LEMMA EmitNothing ==
    ASSUME NEW knd, NEW cd, NEW own, NEW lb, NEW exact, Flow(knd, cd, own, lb, FALSE, exact)
    PROVE  Emitted(knd, cd, own, cd, own, own[Len(cd) + 1], lb, exact)
<1>1. Len(cd) \in Nat  BY DEF Flow, IsSeq
<1>2. (Len(cd) + 1)..Len(cd) = {}  BY <1>1
<1>3. Len(cd) <= Len(cd)  BY <1>1
<1> QED  BY <1>2, <1>3 DEF Emitted

(* One instruction more that execution does not leave.                     *)
LEMMA EmitOne ==
    ASSUME NEW knd, NEW cd0, NEW own0, NEW cd, NEW own, NEW W, NEW lb, NEW exact,
           IsSeq(cd0), Emitted(knd, cd0, own0, cd, own, W, lb, exact),
           NEW i, i.op \notin Leaves, Operands(knd, W, i, exact),
           NEW V, Passes(Owners(knd, W, i), V, knd, exact), V \subseteq DOMAIN knd
    PROVE  \E own2 : Emitted(knd, cd0, own0, Append(cd, i), own2, V, lb, exact)
<1>1. Flow(knd, cd, own, lb, FALSE, exact) /\ own[Len(cd) + 1] = W  BY DEF Emitted
<1>2. PICK n : n = Len(cd)  OBVIOUS
<1>3. PICK cd2 : cd2 = Append(cd, i)  OBVIOUS
<1>4. /\ n \in Nat /\ IsSeq(cd2) /\ Len(cd2) = n + 1
      /\ \A p \in 1..n : cd2[p] = cd[p]
      /\ cd2[n + 1] = i
  BY <1>1, <1>2, <1>3, AppendSeq DEF Flow
<1>5. own \in [1..(n + 1) -> SUBSET DOMAIN knd]  BY <1>1, <1>2 DEF Flow
<1>6. PICK own2 : own2 = [p \in 1..(n + 2) |-> IF p = n + 2 THEN V ELSE own[p]]  OBVIOUS
<1>7. /\ own2 \in [1..(n + 2) -> SUBSET DOMAIN knd]
      /\ \A p \in 1..(n + 1) : own2[p] = own[p]
      /\ own2[n + 2] = V
  BY <1>4, <1>5, <1>6
<1>8. ASSUME NEW p \in 1..n
      PROVE  Operands(knd, own2[p], cd2[p], exact)
             /\ Continuing(knd, cd2, own2, lb, FALSE, exact, p)
  <2>1. /\ Operands(knd, own[p], cd[p], exact)
        /\ Continuing(knd, cd, own, lb, FALSE, exact, p)
    BY <1>1, <1>2 DEF Flow
  <2>2. own2[p] = own[p] /\ own2[p + 1] = own[p + 1] /\ cd2[p] = cd[p]
    BY <1>4, <1>7
  <2>3. ASSUME NEW l \in 1..(n + 1) PROVE own2[l] = own[l] /\ l \in 1..(Len(cd2) + 1)
    BY <1>4, <1>7, <2>3
  <2>4. Continuing(knd, cd2, own2, lb, FALSE, exact, p)
    BY <1>2, <2>1, <2>2, <2>3 DEF Continuing
  <2> QED  BY <2>1, <2>2, <2>4
<1>9. /\ Operands(knd, own2[n + 1], cd2[n + 1], exact)
      /\ Continuing(knd, cd2, own2, lb, FALSE, exact, n + 1)
  <2>1. own2[n + 1] = W /\ own2[n + 1 + 1] = V /\ cd2[n + 1] = i
    BY <1>1, <1>2, <1>4, <1>7
  <2>2. i.op # "br"  BY DEF Leaves
  <2> QED  BY <2>1, <2>2 DEF Continuing
<1>10. Flow(knd, cd2, own2, lb, FALSE, exact)
  <2>1. \A p \in 1..Len(cd2) : p \in 1..n \/ p = n + 1  BY <1>4
  <2>2. Len(cd2) + 1 = n + 2  BY <1>4
  <2>3. own2[1] = {}
    <3>1. own[1] = {} /\ 1 \in 1..(n + 1)  BY <1>1, <1>4 DEF Flow
    <3> QED  BY <1>7, <3>1
  <2> QED  BY <1>4, <1>7, <1>8, <1>9, <2>1, <2>2, <2>3 DEF Flow
<1>11. /\ Len(cd0) <= n /\ Len(cd0) \in Nat
       /\ \A p \in 1..Len(cd0) : cd[p] = cd0[p] /\ own[p] = own0[p]
       /\ \A p \in (Len(cd0) + 1)..n : cd[p].op \notin Leaves
  BY <1>2 DEF Emitted, IsSeq
<1>12. \A p \in 1..Len(cd0) : p \in 1..n /\ p \in 1..(n + 1)  BY <1>4, <1>11
<1>13. \A p \in (Len(cd0) + 1)..(n + 1) : (p \in (Len(cd0) + 1)..n /\ p \in 1..n) \/ p = n + 1
  BY <1>4, <1>11
<1>14. /\ \A p \in 1..Len(cd0) : cd2[p] = cd0[p] /\ own2[p] = own0[p]
       /\ \A p \in (Len(cd0) + 1)..(n + 1) : cd2[p].op \notin Leaves
  BY <1>4, <1>7, <1>11, <1>12, <1>13
<1>15. own2[Len(cd2) + 1] = V /\ Len(cd0) <= Len(cd2)  BY <1>4, <1>7, <1>11
<1> QED  BY <1>3, <1>4, <1>10, <1>14, <1>15 DEF Emitted

(* Less may be said of what owns its value where the emitter is.           *)
LEMMA EmitLess ==
    ASSUME NEW knd, NEW cd0, NEW own0, NEW cd, NEW own, NEW W, NEW lb, NEW exact,
           IsSeq(cd0), Emitted(knd, cd0, own0, cd, own, W, lb, exact),
           NEW V, Passes(W, V, knd, exact)
    PROVE  \E own2 : Emitted(knd, cd0, own0, cd, own2, V, lb, exact)
<1>1. Flow(knd, cd, own, lb, FALSE, exact) /\ own[Len(cd) + 1] = W  BY DEF Emitted
<1>2. PICK n : n = Len(cd)  OBVIOUS
<1>3. n \in Nat /\ own \in [1..(n + 1) -> SUBSET DOMAIN knd]  BY <1>1, <1>2 DEF Flow, IsSeq
<1>4. PICK own2 : own2 = [p \in 1..(n + 1) |-> IF p = n + 1 THEN V ELSE own[p]]  OBVIOUS
<1>5. V \subseteq DOMAIN knd /\ V \subseteq W  BY <1>1, <1>2, <1>3 DEF Passes
<1>6. /\ own2 \in [1..(n + 1) -> SUBSET DOMAIN knd]
      /\ \A p \in 1..n : own2[p] = own[p]
      /\ own2[n + 1] = V
  BY <1>3, <1>4, <1>5
<1>7. ASSUME NEW U, NEW p \in 1..(n + 1), Passes(U, own[p], knd, exact)
      PROVE  Passes(U, own2[p], knd, exact)
  <2>1. CASE p = n + 1  BY <1>1, <1>2, <1>6, <1>7, <2>1 DEF Passes
  <2>2. CASE p # n + 1  BY <1>3, <1>6, <1>7, <2>2
  <2> QED  BY <2>1, <2>2
<1>8. ASSUME NEW p \in 1..n
      PROVE  Operands(knd, own2[p], cd[p], exact)
             /\ Continuing(knd, cd, own2, lb, FALSE, exact, p)
  <2>1. /\ Operands(knd, own[p], cd[p], exact)
        /\ Continuing(knd, cd, own, lb, FALSE, exact, p)
    BY <1>1, <1>2 DEF Flow
  <2>2. own2[p] = own[p] /\ p + 1 \in 1..(n + 1)  BY <1>3, <1>6
  <2> QED  BY <1>2, <1>7, <2>1, <2>2 DEF Continuing
<1>9. Flow(knd, cd, own2, lb, FALSE, exact)
  <2>1. own[1] = {} /\ IsSeq(cd)  BY <1>1 DEF Flow
  <2>2. CASE n = 0
    <3>1. own2[1] = {}  BY <1>1, <1>2, <1>5, <1>6, <2>1, <2>2
    <3> QED  BY <1>2, <1>6, <1>8, <2>1, <3>1 DEF Flow
  <2>3. CASE n # 0
    <3>1. 1 \in 1..n  BY <1>3, <2>3
    <3>2. own2[1] = {}  BY <1>6, <2>1, <3>1
    <3> QED  BY <1>2, <1>6, <1>8, <2>1, <3>2 DEF Flow
  <2> QED  BY <2>2, <2>3
<1>10. \A p \in 1..Len(cd0) : p \in 1..n  BY <1>2, <1>3 DEF Emitted, IsSeq
<1> QED  BY <1>2, <1>6, <1>9, <1>10 DEF Emitted

(* The frees of cleanup lists.                                             *)
LEMMA EmitFrees ==
    ASSUME NEW knd, NEW cd0, NEW own0, NEW cd, NEW own, NEW W, NEW lb, NEW exact,
           IsSeq(cd0), Emitted(knd, cd0, own0, cd, own, W, lb, exact),
           NEW n \in Nat, NEW c \in Lists(n), One(c), NEW k,
           DueFrom(c, k) \subseteq W \cap Heap(knd)
    PROVE  \E own2 : Emitted(knd, cd0, own0, cd \o Frees(c, k), own2, W \ DueFrom(c, k), lb, exact)
<1>0. PICK D : D = DueFrom(c, k)  OBVIOUS
<1>1. Flow(knd, cd, own, lb, FALSE, exact) /\ own[Len(cd) + 1] = W  BY DEF Emitted
<1>2. PICK m : m = Len(cd)  OBVIOUS
<1>3. PICK r \in Nat : \E f \in [1..r -> D] :
             /\ Frees(c, k) = [i \in 1..r |-> Free(f[i])]
             /\ \A i, j \in 1..r : f[i] = f[j] => i = j
             /\ \A s \in D : \E i \in 1..r : f[i] = s
  BY <1>0, FreesAre
<1>4. PICK f \in [1..r -> D] :
             /\ Frees(c, k) = [i \in 1..r |-> Free(f[i])]
             /\ \A i, j \in 1..r : f[i] = f[j] => i = j
             /\ \A s \in D : \E i \in 1..r : f[i] = s
  BY <1>3
<1>5. D \subseteq W /\ D \subseteq Heap(knd)  BY <1>0
<1>6. PICK cd2 : cd2 = cd \o Frees(c, k)  OBVIOUS
<1>7. /\ m \in Nat /\ IsSeq(cd2) /\ Len(cd2) = m + r
      /\ \A p \in 1..m : cd2[p] = cd[p]
      /\ \A i \in 1..r : cd2[m + i] = Free(f[i])
  <2>1. PICK S : cd \in Seq(S)  BY <1>1 DEF Flow, IsSeq
  <2>2. PICK q : q = Frees(c, k)  OBVIOUS
  <2> DEFINE T == S \cup {Free(f[i]) : i \in 1..r}
  <2>3. q \in Seq(T) /\ Len(q) = r /\ \A i \in 1..r : q[i] = Free(f[i])
    <3>1. q \in [1..r -> T]  BY <1>4, <2>2
    <3> QED  BY <1>4, <2>2, <3>1
  <2>4. cd \in Seq(T) /\ Len(cd) = m /\ m \in Nat  BY <1>2, <2>1
  <2> HIDE DEF T
  <2>5. cd2 = cd \o q  BY <1>6, <2>2
  <2>6. cd2 \in Seq(T) /\ Len(cd2) = m + r  BY <2>3, <2>4, <2>5, ConcatProperties
  <2>7. \A p \in 1..m : cd2[p] = cd[p]  BY <2>3, <2>4, <2>5
  <2>8. \A i \in 1..r : cd2[m + i] = q[i]  BY <2>3, <2>4, <2>5
  <2> QED  BY <2>3, <2>4, <2>6, <2>7, <2>8 DEF IsSeq
<1>8. own \in [1..(m + 1) -> SUBSET DOMAIN knd]  BY <1>1, <1>2 DEF Flow
<1>9. PICK own2 : own2 = [p \in 1..(m + r + 1) |->
                            IF p <= m + 1 THEN own[p] ELSE W \ {f[i] : i \in 1..(p - m - 1)}]
  OBVIOUS
<1>10. W \in SUBSET DOMAIN knd  BY <1>1, <1>2, <1>7, <1>8
<1>11. /\ own2 \in [1..(m + r + 1) -> SUBSET DOMAIN knd]
       /\ \A p \in 1..(m + 1) : own2[p] = own[p]
  <2>1. \A p \in 1..(m + r + 1) : p <= m + 1 => p \in 1..(m + 1)  BY <1>7
  <2>2. \A p \in 1..(m + 1) : p \in 1..(m + r + 1) /\ p <= m + 1  BY <1>7
  <2> QED  BY <1>8, <1>9, <1>10, <2>1, <2>2
<1>12. ASSUME NEW i \in 1..(r + 1) PROVE own2[m + i] = W \ {f[j] : j \in 1..(i - 1)}
  <2>1. CASE i = 1
    <3>1. own2[m + 1] = W  BY <1>1, <1>2, <1>7, <1>11
    <3>2. 1..(i - 1) = {}  BY <2>1
    <3> QED  BY <2>1, <3>1, <3>2
  <2>2. CASE i # 1
    <3>0. PICK p : p = m + i  OBVIOUS
    <3>1. p \in 1..(m + r + 1) /\ ~(p <= m + 1) /\ p - m - 1 = i - 1
      BY <1>7, <2>2, <3>0
    <3>2. own2[p] = W \ {f[j] : j \in 1..(p - m - 1)}  BY <1>9, <3>1
    <3> QED  BY <3>0, <3>1, <3>2
  <2> QED  BY <2>1, <2>2
<1>13. ASSUME NEW p \in 1..m
       PROVE  Operands(knd, own2[p], cd2[p], exact)
              /\ Continuing(knd, cd2, own2, lb, FALSE, exact, p)
  <2>1. /\ Operands(knd, own[p], cd[p], exact)
        /\ Continuing(knd, cd, own, lb, FALSE, exact, p)
    BY <1>1, <1>2 DEF Flow
  <2>2. own2[p] = own[p] /\ own2[p + 1] = own[p + 1] /\ cd2[p] = cd[p]
    BY <1>7, <1>11
  <2>3. ASSUME NEW l \in 1..(m + 1) PROVE own2[l] = own[l] /\ l \in 1..(Len(cd2) + 1)
    BY <1>7, <1>11, <2>3
  <2>4. Continuing(knd, cd2, own2, lb, FALSE, exact, p)
    BY <1>2, <2>1, <2>2, <2>3 DEF Continuing
  <2> QED  BY <2>1, <2>2, <2>4
<1>14. ASSUME NEW i \in 1..r
       PROVE  Operands(knd, own2[m + i], cd2[m + i], exact)
              /\ Continuing(knd, cd2, own2, lb, FALSE, exact, m + i)
              /\ cd2[m + i].op \notin Leaves
  <2>1. PICK d : d = cd2[m + i]  OBVIOUS
  <2>2. d.op = "free" /\ d.slot = f[i]
    <3>1. d = Free(f[i])  BY <1>7, <2>1
    <3> QED  BY <3>1 DEF Free
  <2>3. own2[m + i] = W \ {f[j] : j \in 1..(i - 1)}  BY <1>12
  <2>4. own2[m + i + 1] = W \ {f[j] : j \in 1..i}
    <3>1. i + 1 \in 1..(r + 1) /\ i + 1 - 1 = i /\ m + (i + 1) = m + i + 1  BY <1>7
    <3> QED  BY <1>12, <3>1
  <2>5. f[i] \notin {f[j] : j \in 1..(i - 1)}  BY <1>4
  <2>6. 1..i = 1..(i - 1) \cup {i}  OBVIOUS
  <2>7. own2[m + i + 1] = own2[m + i] \ {f[i]}  BY <2>3, <2>4, <2>6
  <2>8. f[i] \in W /\ f[i] \in Heap(knd)  BY <1>4, <1>5
  <2>9. Operands(knd, own2[m + i], d, exact)
    BY <2>2, <2>3, <2>5, <2>8 DEF Operands, Leaves
  <2>10. d.op \notin Leaves /\ d.op # "br"  BY <2>2 DEF Leaves
  <2>11. Owners(knd, own2[m + i], d) = own2[m + i] \ {f[i]}  BY <2>2 DEF Owners
  <2>12. Continuing(knd, cd2, own2, lb, FALSE, exact, m + i)
    BY <2>1, <2>7, <2>10, <2>11 DEF Continuing, Passes
  <2> QED  BY <2>1, <2>9, <2>10, <2>12
<1>15. \A p \in 1..(m + r) : p \in 1..m \/ \E i \in 1..r : p = m + i
  <2> TAKE p \in 1..(m + r)
  <2>1. CASE p <= m  BY <1>7, <2>1
  <2>2. CASE ~(p <= m)
    <3>1. p - m \in 1..r /\ p = m + (p - m)  BY <1>7, <2>2
    <3> QED  BY <3>1
  <2> QED  BY <2>1, <2>2
<1>16. Flow(knd, cd2, own2, lb, FALSE, exact)
  <2>1. ASSUME NEW p \in 1..(m + r)
        PROVE  Operands(knd, own2[p], cd2[p], exact)
               /\ Continuing(knd, cd2, own2, lb, FALSE, exact, p)
    <3>1. CASE p \in 1..m  BY <1>13, <3>1
    <3>2. CASE p \notin 1..m
      <4>1. PICK i \in 1..r : p = m + i  BY <1>15, <3>2
      <4> QED  BY <1>14, <4>1
    <3> QED  BY <3>1, <3>2
  <2>2. own[1] = {} /\ 1 \in 1..(m + 1)  BY <1>1, <1>7 DEF Flow
  <2>3. own2[1] = {}  BY <1>11, <2>2
  <2> QED  BY <1>7, <1>11, <2>1, <2>3 DEF Flow
<1>17. own2[Len(cd2) + 1] = W \ D
  <2>1. r + 1 \in 1..(r + 1) /\ r + 1 - 1 = r /\ m + (r + 1) = Len(cd2) + 1  BY <1>7
  <2>2. own2[Len(cd2) + 1] = W \ {f[j] : j \in 1..r}  BY <1>12, <2>1
  <2>3. {f[j] : j \in 1..r} = D  BY <1>4
  <2> QED  BY <2>2, <2>3
<1>18. /\ Len(cd0) <= m /\ Len(cd0) \in Nat
       /\ \A p \in 1..Len(cd0) : cd[p] = cd0[p] /\ own[p] = own0[p]
       /\ \A p \in (Len(cd0) + 1)..m : cd[p].op \notin Leaves
  BY <1>2 DEF Emitted, IsSeq
<1>19. \A p \in 1..Len(cd0) : p \in 1..m /\ p \in 1..(m + 1)  BY <1>7, <1>18
<1>20. \A p \in (Len(cd0) + 1)..(m + r) : cd2[p].op \notin Leaves
  <2> TAKE p \in (Len(cd0) + 1)..(m + r)
  <2>1. p \in 1..(m + r)  BY <1>7, <1>18
  <2>2. CASE p \in 1..m
    <3>1. p \in (Len(cd0) + 1)..m  BY <1>18, <2>2
    <3> QED  BY <1>7, <1>18, <2>2, <3>1
  <2>3. CASE p \notin 1..m  BY <1>14, <1>15, <2>1, <2>3
  <2> QED  BY <2>2, <2>3
<1>21. Len(cd0) <= Len(cd2)  BY <1>7, <1>18
<1>22. \A p \in 1..Len(cd0) : cd2[p] = cd0[p] /\ own2[p] = own0[p]
  BY <1>7, <1>11, <1>18, <1>19
<1>23. \A p \in (Len(cd0) + 1)..Len(cd2) : cd2[p].op \notin Leaves  BY <1>7, <1>20
<1>24. Emitted(knd, cd0, own0, cd2, own2, W \ D, lb, exact)
  BY <1>16, <1>17, <1>21, <1>22, <1>23 DEF Emitted
<1> QED  BY <1>0, <1>6, <1>24

(* cd2 is cd, some instructions that are no jumps, and i, in front of      *)
(* which V own their values.                                               *)
Left(knd, cd, own, cd2, own2, i, V, lb, exact) ==
    /\ Flow(knd, cd2, own2, lb, TRUE, exact)
    /\ Len(cd) < Len(cd2)
    /\ \A p \in 1..Len(cd) : cd2[p] = cd[p] /\ own2[p] = own[p]
    /\ \A p \in (Len(cd) + 1)..(Len(cd2) - 1) : cd2[p].op \notin Leaves
    /\ cd2[Len(cd2)] = i /\ own2[Len(cd2)] = V

LEMMA EmitLast ==
    ASSUME NEW knd, NEW cd0, NEW own0, NEW cd, NEW own, NEW W, NEW lb, NEW exact,
           IsSeq(cd0), Emitted(knd, cd0, own0, cd, own, W, lb, exact),
           NEW i, i.op \in Leaves, Operands(knd, W, i, exact),
           i.op = "br" => \A l \in i.to :
                /\ l \in DOMAIN lb
                /\ lb[l] # 0 => /\ lb[l] \in 1..(Len(cd) + 1)
                                /\ Passes(W, own[lb[l]], knd, exact)
    PROVE  \E own2 : Left(knd, cd0, own0, Append(cd, i), own2, i, W, lb, exact)
<1>1. Flow(knd, cd, own, lb, FALSE, exact) /\ own[Len(cd) + 1] = W  BY DEF Emitted
<1>2. PICK n : n = Len(cd)  OBVIOUS
<1>3. PICK cd2 : cd2 = Append(cd, i)  OBVIOUS
<1>4. /\ n \in Nat /\ IsSeq(cd2) /\ Len(cd2) = n + 1
      /\ \A p \in 1..n : cd2[p] = cd[p]
      /\ cd2[n + 1] = i
  BY <1>1, <1>2, <1>3, AppendSeq DEF Flow
<1>5. own \in [1..(n + 1) -> SUBSET DOMAIN knd]  BY <1>1, <1>2 DEF Flow
<1>6. PICK own2 : own2 = [p \in 1..(n + 2) |-> IF p = n + 2 THEN {} ELSE own[p]]  OBVIOUS
<1>7. /\ own2 \in [1..(n + 2) -> SUBSET DOMAIN knd]
      /\ \A p \in 1..(n + 1) : own2[p] = own[p]
  BY <1>4, <1>5, <1>6
<1>8. ASSUME NEW p \in 1..n
      PROVE  Operands(knd, own2[p], cd2[p], exact)
             /\ Continuing(knd, cd2, own2, lb, TRUE, exact, p)
  <2>1. /\ Operands(knd, own[p], cd[p], exact)
        /\ Continuing(knd, cd, own, lb, FALSE, exact, p)
    BY <1>1, <1>2 DEF Flow
  <2>2. own2[p] = own[p] /\ own2[p + 1] = own[p + 1] /\ cd2[p] = cd[p]
    BY <1>4, <1>7
  <2>3. ASSUME NEW l \in 1..(n + 1)
        PROVE  own2[l] = own[l] /\ l \in 1..(Len(cd2) + 1) /\ l # Len(cd2) + 1
    BY <1>4, <1>7, <2>3
  <2>4. p # Len(cd2)  BY <1>4
  <2>5. Continuing(knd, cd2, own2, lb, TRUE, exact, p)
    BY <1>2, <2>1, <2>2, <2>3, <2>4 DEF Continuing
  <2> QED  BY <2>1, <2>2, <2>5
<1>9. /\ Operands(knd, own2[n + 1], cd2[n + 1], exact)
      /\ Continuing(knd, cd2, own2, lb, TRUE, exact, n + 1)
  <2>1. own2[n + 1] = W /\ cd2[n + 1] = i
    BY <1>1, <1>2, <1>4, <1>7
  <2>2. ASSUME NEW l \in 1..(n + 1)
        PROVE  own2[l] = own[l] /\ l \in 1..(Len(cd2) + 1) /\ l # Len(cd2) + 1
    BY <1>4, <1>7, <2>2
  <2> QED  BY <1>2, <2>1, <2>2 DEF Continuing
<1>10. Flow(knd, cd2, own2, lb, TRUE, exact)
  <2>1. \A p \in 1..Len(cd2) : p \in 1..n \/ p = n + 1  BY <1>4
  <2>2. Len(cd2) + 1 = n + 2 /\ Len(cd2) # 0  BY <1>4
  <2>3. own2[1] = {}
    <3>1. own[1] = {} /\ 1 \in 1..(n + 1)  BY <1>1, <1>4 DEF Flow
    <3> QED  BY <1>7, <3>1
  <2> QED  BY <1>4, <1>7, <1>8, <1>9, <2>1, <2>2, <2>3 DEF Flow
<1>11. /\ Len(cd0) <= n /\ Len(cd0) \in Nat
       /\ \A p \in 1..Len(cd0) : cd[p] = cd0[p] /\ own[p] = own0[p]
       /\ \A p \in (Len(cd0) + 1)..n : cd[p].op \notin Leaves
  BY <1>2 DEF Emitted, IsSeq
<1>12. \A p \in 1..Len(cd0) : p \in 1..n /\ p \in 1..(n + 1)  BY <1>4, <1>11
<1>13. \A p \in (Len(cd0) + 1)..n : p \in 1..n  BY <1>4, <1>11
<1>14. /\ \A p \in 1..Len(cd0) : cd2[p] = cd0[p] /\ own2[p] = own0[p]
       /\ \A p \in (Len(cd0) + 1)..n : cd2[p].op \notin Leaves
  BY <1>4, <1>7, <1>11, <1>12, <1>13
<1>15. cd2[Len(cd2)] = i /\ own2[Len(cd2)] = W /\ Len(cd0) < Len(cd2) /\ Len(cd2) - 1 = n
  BY <1>1, <1>2, <1>4, <1>7, <1>11
<1> QED  BY <1>3, <1>10, <1>14, <1>15 DEF Left

(* New labels.                                                             *)
LEMMA MoreLabels ==
    ASSUME NEW knd, NEW cd, NEW own, NEW lb, NEW tm, NEW exact,
           Flow(knd, cd, own, lb, tm, exact),
           NEW lb2, DOMAIN lb \subseteq DOMAIN lb2, \A l \in DOMAIN lb : lb2[l] = lb[l]
    PROVE  Flow(knd, cd, own, lb2, tm, exact)
BY DEF Flow, Continuing

(* Labels are placed where the emitter is, and V is what all owned that    *)
(* jump there.                                                             *)
LEMMA PlaceLabels ==
    ASSUME NEW knd, NEW cd, NEW own, NEW lb, NEW exact,
           Flow(knd, cd, own, lb, TRUE, exact),
           NEW V \in SUBSET DOMAIN knd, NEW lb2, DOMAIN lb2 = DOMAIN lb,
           \A p \in 1..Len(cd) : cd[p].op = "br" => \A l \in cd[p].to :
                \/ lb2[l] = lb[l]
                \/ lb2[l] = Len(cd) + 1 /\ Passes(own[p], V, knd, exact)
    PROVE  Flow(knd, cd, [own EXCEPT ![Len(cd) + 1] = V], lb2, FALSE, exact)
<1>1. PICK n : n = Len(cd)  OBVIOUS
<1>2. n \in Nat /\ own \in [1..(n + 1) -> SUBSET DOMAIN knd]  BY <1>1 DEF Flow, IsSeq
<1>3. PICK own2 : own2 = [own EXCEPT ![n + 1] = V]  OBVIOUS
<1>4. /\ own2 \in [1..(n + 1) -> SUBSET DOMAIN knd]
      /\ \A p \in 1..n : own2[p] = own[p]
      /\ own2[n + 1] = V
      /\ \A p \in 1..(n + 1) : p # n + 1 => own2[p] = own[p]
  BY <1>2, <1>3
<1>5. ASSUME NEW p \in 1..n
      PROVE  Operands(knd, own2[p], cd[p], exact)
             /\ Continuing(knd, cd, own2, lb2, FALSE, exact, p)
  <2>1. /\ Operands(knd, own[p], cd[p], exact)
        /\ Continuing(knd, cd, own, lb, TRUE, exact, p)
    BY <1>1 DEF Flow
  <2>2. own2[p] = own[p]  BY <1>4
  <2>3. cd[p].op \notin Leaves => p # n  BY <1>1, <2>1 DEF Continuing
  <2>4. p # n => own2[p + 1] = own[p + 1]  BY <1>2, <1>4
  <2>5. ASSUME cd[p].op = "br", NEW l \in cd[p].to
        PROVE  /\ l \in DOMAIN lb2
               /\ lb2[l] # 0 => /\ lb2[l] \in 1..(n + 1)
                                /\ Passes(own2[p], own2[lb2[l]], knd, exact)
    <3>1. /\ l \in DOMAIN lb
          /\ lb[l] # 0 => /\ lb[l] \in 1..(n + 1) /\ lb[l] # n + 1
                          /\ Passes(own[p], own[lb[l]], knd, exact)
      BY <1>1, <2>1, <2>5 DEF Continuing
    <3>2. \/ lb2[l] = lb[l]
          \/ lb2[l] = n + 1 /\ Passes(own[p], V, knd, exact)
      BY <1>1, <2>5
    <3>3. CASE lb2[l] = lb[l]  BY <1>4, <2>2, <3>1, <3>3
    <3>4. CASE lb2[l] = n + 1 /\ Passes(own[p], V, knd, exact)
      BY <1>2, <1>4, <2>2, <3>1, <3>4
    <3> QED  BY <3>2, <3>3, <3>4
  <2>6. Continuing(knd, cd, own2, lb2, FALSE, exact, p)
    BY <1>1, <2>1, <2>2, <2>3, <2>4, <2>5 DEF Continuing
  <2> QED  BY <2>1, <2>2, <2>6
<1>6. Flow(knd, cd, own2, lb2, FALSE, exact)
  <2>1. own[1] = {} /\ n # 0 /\ IsSeq(cd)  BY <1>1 DEF Flow
  <2>2. 1 \in 1..n  BY <1>2, <2>1
  <2>3. own2[1] = {}  BY <1>4, <2>1, <2>2
  <2> QED  BY <1>1, <1>4, <1>5, <2>1, <2>3 DEF Flow
<1> QED  BY <1>1, <1>3, <1>6

(* Another variable.                                                       *)
LEMMA MoreVariables ==
    ASSUME NEW knd, NEW cd, NEW own, NEW lb, NEW tm, NEW exact,
           Flow(knd, cd, own, lb, tm, exact), IsSeq(knd), NEW k
    PROVE  Flow(Append(knd, k), cd, own, lb, tm, exact)
<1>1. PICK knd2 : knd2 = Append(knd, k)  OBVIOUS
<1>2. DOMAIN knd \subseteq DOMAIN knd2 /\ \A s \in DOMAIN knd : knd2[s] = knd[s]
  <2>1. /\ IsSeq(knd2) /\ Len(knd) \in Nat /\ DOMAIN knd = 1..Len(knd)
        /\ Len(knd2) = Len(knd) + 1
        /\ \A i \in 1..Len(knd) : knd2[i] = knd[i]
    BY <1>1, AppendSeq
  <2>2. DOMAIN knd2 = 1..Len(knd2)  BY <2>1, AppendSeq
  <2> QED  BY <2>1, <2>2
<1>3. ASSUME NEW W \in SUBSET DOMAIN knd PROVE W \cap Heap(knd2) = W \cap Heap(knd)
  BY <1>2 DEF Heap
<1>4. ASSUME NEW W \in SUBSET DOMAIN knd, NEW V, Passes(W, V, knd, exact)
      PROVE  Passes(W, V, knd2, exact)
  BY <1>3, <1>4 DEF Passes
<1>5. PICK n : n = Len(cd)  OBVIOUS
<1>6. n \in Nat /\ own \in [1..(n + 1) -> SUBSET DOMAIN knd]  BY <1>5 DEF Flow, IsSeq
<1>7. own \in [1..(n + 1) -> SUBSET DOMAIN knd2]  BY <1>2, <1>6
<1>8. ASSUME NEW p \in 1..n
      PROVE  Operands(knd2, own[p], cd[p], exact)
             /\ Continuing(knd2, cd, own, lb, tm, exact, p)
  <2>1. /\ Operands(knd, own[p], cd[p], exact)
        /\ Continuing(knd, cd, own, lb, tm, exact, p)
    BY <1>5 DEF Flow
  <2>2. own[p] \in SUBSET DOMAIN knd  BY <1>6
  <2>3. own[p] \cap Heap(knd2) = own[p] \cap Heap(knd)  BY <1>3, <2>2
  <2>4. Operands(knd2, own[p], cd[p], exact)
    BY <1>2, <2>1, <2>2, <2>3 DEF Operands
  <2>5. Owners(knd2, own[p], cd[p]) = Owners(knd, own[p], cd[p])
    BY <1>2, <2>1 DEF Operands, Owners
  <2>6. cd[p].op \notin Leaves => Owners(knd, own[p], cd[p]) \in SUBSET DOMAIN knd
    BY <2>1, <2>2 DEF Operands, Owners
  <2>7. Continuing(knd2, cd, own, lb, tm, exact, p)
    <3>1. cd[p].op \notin Leaves =>
            /\ p = Len(cd) => ~tm
            /\ Passes(Owners(knd2, own[p], cd[p]), own[p + 1], knd2, exact)
      BY <1>4, <2>1, <2>5, <2>6 DEF Continuing
    <3> QED  BY <1>4, <2>1, <2>2, <3>1 DEF Continuing
  <2> QED  BY <2>4, <2>7
<1>9. Flow(knd2, cd, own, lb, tm, exact)  BY <1>5, <1>7, <1>8 DEF Flow
<1> QED  BY <1>1, <1>9

----------------------------------------------------------------------------
(* The run.  The variables W have the values they own, each another one;   *)
(* and where nothing may be lost, everything live is one of these.         *)
Holds(knd, W, m, alive, exact) ==
    /\ \A s \in W : knd[s] = "str" => m[s] = Constant
    /\ \A s \in W \cap Heap(knd) : m[s] \in alive
    /\ \A s, t \in W \cap Heap(knd) : m[s] = m[t] => s = t
    /\ exact => \A o \in alive : \E s \in W \cap Heap(knd) : m[s] = o

Exact == features = {}

RunTypes ==
    /\ made \in Nat /\ made <= MaxObjects
    /\ live \subseteq 1..made
    /\ mem \in [DOMAIN kind -> 0..Constant]

(* Every label is placed.                                                  *)
Finished(own) ==
    /\ Flow(kind, code, own, label, TRUE, Exact)
    /\ \A l \in DOMAIN label : label[l] # 0

RunInv(own) ==
    /\ Finished(own)
    /\ RunTypes
    /\ phase = "run" => pc \in 1..Len(code) /\ Holds(kind, own[pc], mem, live, Exact)
    /\ phase = "returned" /\ Exact => live = {result} \cap Object

LEMMA HoldsLess ==
    ASSUME NEW knd, NEW W, NEW V, NEW m, NEW alive, NEW exact,
           Holds(knd, W, m, alive, exact), Passes(W, V, knd, exact)
    PROVE  Holds(knd, V, m, alive, exact)
BY DEF Holds, Passes

(* Behind an instruction that is no jump.                                  *)
LEMMA RunsOn ==
    ASSUME NEW own, Finished(own), NEW p \in 1..Len(code), code[p].op \notin Leaves,
           NEW m, NEW alive, Holds(kind, Owners(kind, own[p], code[p]), m, alive, Exact)
    PROVE  p + 1 \in 1..Len(code) /\ Holds(kind, own[p + 1], m, alive, Exact)
<1>1. Continuing(kind, code, own, label, TRUE, Exact, p)  BY DEF Finished, Flow
<1>2. p # Len(code) /\ Passes(Owners(kind, own[p], code[p]), own[p + 1], kind, Exact)
  BY <1>1 DEF Continuing
<1>3. Len(code) \in Nat  BY DEF Finished, Flow, IsSeq
<1>4. p + 1 \in 1..Len(code)  BY <1>2, <1>3
<1> QED  BY <1>2, <1>4, HoldsLess

(* One lemma for each instruction: behind it the owners hold.              *)
LEMMA NewHolds ==
    ASSUME NEW knd, NEW W \in SUBSET DOMAIN knd, NEW m \in [DOMAIN knd -> 0..Constant],
           NEW n \in Nat, NEW alive \in SUBSET (1..n), NEW exact,
           Holds(knd, W, m, alive, exact),
           NEW s \in DOMAIN knd, exact => s \notin W \cap Heap(knd)
    PROVE  /\ knd[s] = "str" =>
                Holds(knd, W \cup {s}, [m EXCEPT ![s] = Constant], alive, exact)
           /\ knd[s] # "str" =>
                Holds(knd, W \cup {s}, [m EXCEPT ![s] = n + 1], alive \cup {n + 1}, exact)
<1>1. ASSUME NEW v PROVE \A t \in DOMAIN knd : [m EXCEPT ![s] = v][t] = IF t = s THEN v ELSE m[t]
  OBVIOUS
<1>2. n + 1 \notin alive  OBVIOUS
<1>3. CASE knd[s] = "str"
  <2>1. PICK m2 : m2 = [m EXCEPT ![s] = Constant]  OBVIOUS
  <2>2. m2[s] = Constant /\ \A t \in W : t # s => m2[t] = m[t]  BY <1>1, <2>1
  <2>3. s \notin Heap(knd)  BY <1>3 DEF Heap
  <2>4. Holds(knd, W \cup {s}, m2, alive, exact)  BY <2>2, <2>3 DEF Holds
  <2> QED  BY <1>3, <2>1, <2>4
<1>4. CASE knd[s] # "str"
  <2>1. PICK m2 : m2 = [m EXCEPT ![s] = n + 1]  OBVIOUS
  <2>2. m2[s] = n + 1 /\ \A t \in W : t # s => m2[t] = m[t]  BY <1>1, <2>1
  <2>3. s \in Heap(knd)  BY <1>4 DEF Heap
  <2>4. Holds(knd, W \cup {s}, m2, alive \cup {n + 1}, exact)
    <3>1. \A t \in W \cup {s} : knd[t] = "str" => m2[t] = Constant  BY <1>4, <2>2 DEF Holds
    <3>2. \A t \in (W \cup {s}) \cap Heap(knd) : m2[t] \in alive \cup {n + 1}
      BY <2>2 DEF Holds
    <3>3. \A t, u \in (W \cup {s}) \cap Heap(knd) : m2[t] = m2[u] => t = u
      BY <1>2, <2>2 DEF Holds
    <3>4. exact => \A o \in alive \cup {n + 1} : \E t \in (W \cup {s}) \cap Heap(knd) : m2[t] = o
      <4> SUFFICES ASSUME exact, NEW o \in alive \cup {n + 1}
                   PROVE  \E t \in (W \cup {s}) \cap Heap(knd) : m2[t] = o
        OBVIOUS
      <4>1. CASE o = n + 1  BY <2>2, <2>3, <4>1
      <4>2. CASE o \in alive
        <5>1. PICK t \in W \cap Heap(knd) : m[t] = o  BY <4>2 DEF Holds
        <5> QED  BY <2>2, <5>1
      <4> QED  BY <4>1, <4>2
    <3> QED  BY <3>1, <3>2, <3>3, <3>4 DEF Holds
  <2> QED  BY <1>4, <2>1, <2>4
<1> QED  BY <1>3, <1>4

LEMMA CopyHolds ==
    ASSUME NEW knd, NEW W \in SUBSET DOMAIN knd, NEW m \in [DOMAIN knd -> 0..Constant],
           NEW alive, NEW exact, Holds(knd, W, m, alive, exact),
           NEW s \in DOMAIN knd, exact => s \notin W \cap Heap(knd),
           NEW t \in W, t # s, knd[t] = "str" <=> knd[s] = "str"
    PROVE  /\ knd[s] = "str" => Holds(knd, W \cup {s}, [m EXCEPT ![s] = m[t]], alive, exact)
           /\ knd[s] # "str" =>
                Holds(knd, (W \cup {s}) \ {t}, [m EXCEPT ![s] = m[t]], alive, exact)
<1>1. PICK m2 : m2 = [m EXCEPT ![s] = m[t]]  OBVIOUS
<1>2. m2[s] = m[t] /\ \A u \in W : u # s => m2[u] = m[u]  BY <1>1
<1>3. CASE knd[s] = "str"
  <2>1. s \notin Heap(knd)  BY <1>3 DEF Heap
  <2>2. m[t] = Constant  BY <1>3 DEF Holds
  <2>3. Holds(knd, W \cup {s}, m2, alive, exact)  BY <1>2, <2>1, <2>2 DEF Holds
  <2> QED  BY <1>1, <1>3, <2>3
<1>4. CASE knd[s] # "str"
  <2>1. s \in Heap(knd) /\ t \in W \cap Heap(knd)  BY <1>4 DEF Heap
  <2> DEFINE V == (W \cup {s}) \ {t}
  <2>2. \A u \in V : knd[u] = "str" => m2[u] = Constant  BY <1>2, <1>4 DEF Holds
  <2>3. \A u \in V \cap Heap(knd) : m2[u] \in alive  BY <1>2, <2>1 DEF Holds
  <2>4. \A u, v \in V \cap Heap(knd) : m2[u] = m2[v] => u = v  BY <1>2, <2>1 DEF Holds
  <2>5. exact => \A o \in alive : \E u \in V \cap Heap(knd) : m2[u] = o
    <3> SUFFICES ASSUME exact, NEW o \in alive PROVE \E u \in V \cap Heap(knd) : m2[u] = o
      OBVIOUS
    <3>1. PICK u \in W \cap Heap(knd) : m[u] = o  BY DEF Holds
    <3>2. CASE u = t  BY <1>2, <2>1, <3>1, <3>2
    <3>3. CASE u # t  BY <1>2, <3>1, <3>3
    <3> QED  BY <3>2, <3>3
  <2>6. Holds(knd, V, m2, alive, exact)
    <3> HIDE DEF V
    <3> QED  BY <2>2, <2>3, <2>4, <2>5 DEF Holds
  <2> QED  BY <1>1, <1>4, <2>6
<1> QED  BY <1>3, <1>4

LEMMA GrowHolds ==
    ASSUME NEW knd, NEW W \in SUBSET DOMAIN knd, NEW m \in [DOMAIN knd -> 0..Constant],
           NEW n \in Nat, NEW alive \in SUBSET (1..n), NEW exact,
           Holds(knd, W, m, alive, exact), NEW s \in W \cap Heap(knd)
    PROVE  Holds(knd, W, [m EXCEPT ![s] = n + 1], (alive \ {m[s]}) \cup {n + 1}, exact)
<1>1. PICK m2 : m2 = [m EXCEPT ![s] = n + 1]  OBVIOUS
<1>2. m2[s] = n + 1 /\ \A u \in W : u # s => m2[u] = m[u]  BY <1>1
<1>3. n + 1 \notin alive  OBVIOUS
<1>4. knd[s] # "str"  BY DEF Heap
<1> DEFINE al == (alive \ {m[s]}) \cup {n + 1}
<1>5. \A u \in W : knd[u] = "str" => m2[u] = Constant  BY <1>2, <1>4 DEF Holds
<1>6. \A u \in W \cap Heap(knd) : m2[u] \in al  BY <1>2 DEF Holds
<1>7. \A u, v \in W \cap Heap(knd) : m2[u] = m2[v] => u = v  BY <1>2, <1>3 DEF Holds
<1>8. exact => \A o \in al : \E u \in W \cap Heap(knd) : m2[u] = o
  <2> SUFFICES ASSUME exact, NEW o \in al PROVE \E u \in W \cap Heap(knd) : m2[u] = o
    OBVIOUS
  <2>1. CASE o = n + 1  BY <1>2, <2>1
  <2>2. CASE o # n + 1
    <3>1. PICK u \in W \cap Heap(knd) : m[u] = o  BY <2>2 DEF Holds
    <3>2. u # s  BY <2>2, <3>1
    <3> QED  BY <1>2, <3>1, <3>2
  <2> QED  BY <2>1, <2>2
<1> HIDE DEF al
<1>9. Holds(knd, W, m2, al, exact)  BY <1>5, <1>6, <1>7, <1>8 DEF Holds
<1> QED  BY <1>1, <1>9 DEF al

(* Freed, by the emitter or by a callee.                                   *)
LEMMA FreeHolds ==
    ASSUME NEW knd, NEW W \in SUBSET DOMAIN knd, NEW m,
           NEW alive, Constant \notin alive, NEW exact,
           Holds(knd, W, m, alive, exact), NEW s \in W
    PROVE  Holds(knd, W \ {s}, m, alive \ {m[s]}, exact)
<1>1. CASE knd[s] = "str"
  <2>1. m[s] = Constant /\ s \notin Heap(knd)  BY <1>1 DEF Holds, Heap
  <2>2. alive \ {m[s]} = alive  BY <2>1
  <2>3. (W \ {s}) \cap Heap(knd) = W \cap Heap(knd)  BY <2>1
  <2> QED  BY <2>2, <2>3 DEF Holds
<1>2. CASE knd[s] # "str"
  <2>1. s \in W \cap Heap(knd)  BY <1>2 DEF Heap
  <2> QED  BY <2>1 DEF Holds
<1> QED  BY <1>1, <1>2

(* The value of a variable that owns none.                                 *)
LEMMA UndefHolds ==
    ASSUME NEW knd, NEW W \in SUBSET DOMAIN knd, NEW m \in [DOMAIN knd -> 0..Constant],
           NEW alive, NEW exact, Holds(knd, W, m, alive, exact),
           NEW s, exact => s \notin W \cap Heap(knd)
    PROVE  Holds(knd, W \ {s}, [m EXCEPT ![s] = Unset], alive, exact)
<1>1. PICK m2 : m2 = [m EXCEPT ![s] = Unset]  OBVIOUS
<1>2. \A u \in W : u # s => m2[u] = m[u]  BY <1>1
<1>3. exact => (W \ {s}) \cap Heap(knd) = W \cap Heap(knd)  OBVIOUS
<1>4. Holds(knd, W \ {s}, m2, alive, exact)  BY <1>2, <1>3 DEF Holds
<1> QED  BY <1>1, <1>4

LEMMA NewTypes ==
    ASSUME RunTypes, made < MaxObjects, NEW s \in DOMAIN kind,
           mem' = [mem EXCEPT ![s] = made + 1], made' = made + 1,
           live' \subseteq live \cup {made + 1}
    PROVE  /\ made' \in Nat /\ made' <= MaxObjects
           /\ live' \subseteq 1..made'
           /\ mem' \in [DOMAIN kind -> 0..Constant]
<1>1. made \in Nat /\ MaxObjects \in Nat /\ made + 1 \in 0..Constant
  BY BoundsAssumption DEF RunTypes, Constant
<1>2. made' \in Nat /\ made' <= MaxObjects  BY <1>1
<1>3. \A o \in live : o \in 1..made'  BY <1>1 DEF RunTypes
<1>4. live' \subseteq 1..made'  BY <1>1, <1>3
<1>5. mem' \in [DOMAIN kind -> 0..Constant]  BY <1>1 DEF RunTypes
<1> QED  BY <1>2, <1>4, <1>5

LEMMA RunStep ==
    ASSUME NEW own, RunInv(own), Run, UNCHANGED features
    PROVE  RunInv(own)'
<1>0. UNCHANGED <<kind, code, label>> => Finished(own)'
  <2>1. Finished(own)  BY DEF RunInv
  <2> QED  BY <2>1 DEF Finished, Exact
<1>1. /\ phase = "run" /\ UNCHANGED <<kind, code, label>>
  BY DEF Run, RunNew, RunMove, RunGrow, RunFree, RunBranch, RunReturn, Running, Continues,
         compileVars
<1>2. Finished(own)' /\ (Exact' <=> Exact)  BY <1>0, <1>1 DEF Exact
<1>3. PICK i : i = code[pc]  OBVIOUS
<1>4. PICK W : W = own[pc]  OBVIOUS
<1>5. /\ Finished(own) /\ RunTypes
      /\ pc \in 1..Len(code) /\ Holds(kind, W, mem, live, Exact)
  BY <1>1, <1>4 DEF RunInv
<1>6. /\ Operands(kind, W, i, Exact)
      /\ Continuing(kind, code, own, label, TRUE, Exact, pc)
      /\ W \in SUBSET DOMAIN kind
      /\ Len(code) \in Nat
  <2>1. Flow(kind, code, own, label, TRUE, Exact)  BY <1>5 DEF Finished
  <2>2. Len(code) \in Nat  BY <2>1 DEF Flow, IsSeq
  <2>3. pc \in 1..(Len(code) + 1)  BY <1>5, <2>2
  <2> QED  BY <1>3, <1>4, <1>5, <2>1, <2>2, <2>3 DEF Flow
<1>7. /\ mem \in [DOMAIN kind -> 0..Constant] /\ made \in Nat /\ made <= MaxObjects
      /\ live \in SUBSET (1..made)
      /\ Constant = MaxObjects + 1 /\ MaxObjects \in Nat
  BY <1>5, BoundsAssumption DEF RunTypes, Constant
<1>8. Constant \notin live  BY <1>7
<1>9. ASSUME UNCHANGED phase, pc' = pc + 1, i.op \notin Leaves, RunTypes',
             Holds(kind, Owners(kind, W, i), mem', live', Exact)
      PROVE  RunInv(own)'
  <2>1. pc + 1 \in 1..Len(code) /\ Holds(kind, own[pc + 1], mem', live', Exact)
    BY <1>3, <1>4, <1>5, <1>9, RunsOn
  <2>2. Holds(kind', own[pc'], mem', live', Exact')
    BY <1>1, <1>2, <1>9, <2>1 DEF Exact
  <2>3. phase' = "run"  BY <1>1, <1>9
  <2> QED  BY <1>1, <1>2, <1>9, <2>1, <2>2, <2>3 DEF RunInv
<1>10. CASE RunNew
  <2>1. /\ UNCHANGED phase /\ pc' = pc + 1 /\ i.op = "new" /\ This = i.slot
        /\ IF kind[i.slot] = "str"
           THEN mem' = [mem EXCEPT ![i.slot] = Constant] /\ UNCHANGED <<live, made>>
           ELSE /\ made < MaxObjects /\ made' = made + 1
                /\ mem' = [mem EXCEPT ![i.slot] = made + 1]
                /\ live' = live \cup {made + 1}
    BY <1>3, <1>10 DEF RunNew, Running, Continues, This, Allocates
  <2>2. i.slot \in DOMAIN kind /\ (Exact => i.slot \notin W \cap Heap(kind))
    BY <1>6, <2>1 DEF Operands
  <2>3. Owners(kind, W, i) = W \cup {i.slot}  BY <2>1 DEF Owners
  <2>4. i.op \notin Leaves  BY <2>1 DEF Leaves
  <2>5. RunTypes'
    <3>1. CASE kind[i.slot] = "str"
      <4>1. Constant \in 0..Constant  BY <1>7
      <4>2. mem' = [mem EXCEPT ![i.slot] = Constant] /\ UNCHANGED <<live, made>>
        BY <2>1, <3>1
      <4>3. mem' \in [DOMAIN kind -> 0..Constant]  BY <1>7, <2>2, <4>1, <4>2
      <4> HIDE DEF Constant
      <4>4. Constant' = Constant /\ DOMAIN kind' = DOMAIN kind  BY <1>1 DEF Constant
      <4> QED  BY <1>7, <4>2, <4>3, <4>4 DEF RunTypes
    <3>2. CASE kind[i.slot] # "str"
      BY <1>1, <1>7, <2>1, <2>2, <3>2, NewTypes DEF RunTypes
    <3> QED  BY <3>1, <3>2
  <2>6. Holds(kind, W \cup {i.slot}, mem', live', Exact)
    <3>1. live \in SUBSET (1..made)  BY <1>7
    <3>2. /\ kind[i.slot] = "str" =>
                Holds(kind, W \cup {i.slot}, [mem EXCEPT ![i.slot] = Constant], live, Exact)
          /\ kind[i.slot] # "str" =>
                Holds(kind, W \cup {i.slot}, [mem EXCEPT ![i.slot] = made + 1],
                      live \cup {made + 1}, Exact)
      BY <1>5, <1>6, <1>7, <2>2, <3>1, NewHolds
    <3> QED  BY <2>1, <3>2
  <2> QED  BY <1>9, <2>1, <2>3, <2>4, <2>5, <2>6
<1>11. CASE RunMove
  <2>1. /\ UNCHANGED <<phase, live, made>> /\ pc' = pc + 1 /\ i.op \in {"copy", "undef"}
        /\ mem' = [mem EXCEPT ![i.slot] = IF i.op = "copy" THEN mem[i.from] ELSE Unset]
    BY <1>3, <1>11 DEF RunMove, Running, Continues, This
  <2>2. i.slot \in DOMAIN kind /\ (Exact => i.slot \notin W \cap Heap(kind))
    BY <1>6, <2>1 DEF Operands
  <2>3. i.op \notin Leaves  BY <2>1 DEF Leaves
  <2>4. CASE i.op = "copy"
    <3>1. /\ i.from \in W /\ i.from # i.slot /\ (kind[i.from] = "str" <=> kind[i.slot] = "str")
      BY <1>6, <2>4 DEF Operands
    <3>2. mem' = [mem EXCEPT ![i.slot] = mem[i.from]]  BY <2>1, <2>4
    <3>3. i.from \in DOMAIN kind  BY <1>6, <3>1
    <3>4. RunTypes'  BY <1>1, <1>7, <2>1, <2>2, <3>2, <3>3 DEF RunTypes, Constant
    <3>5. Holds(kind, Owners(kind, W, i), mem', live', Exact)
      <4>1. /\ kind[i.slot] = "str" => Holds(kind, W \cup {i.slot}, mem', live, Exact)
            /\ kind[i.slot] # "str" =>
                    Holds(kind, (W \cup {i.slot}) \ {i.from}, mem', live, Exact)
        BY <1>5, <1>6, <1>7, <2>2, <3>1, <3>2, CopyHolds
      <4> QED  BY <2>1, <2>4, <4>1 DEF Owners
    <3> QED  BY <1>9, <2>1, <2>3, <3>4, <3>5
  <2>5. CASE i.op = "undef"
    <3>1. mem' = [mem EXCEPT ![i.slot] = Unset]  BY <2>1, <2>5
    <3>2. RunTypes'  BY <1>1, <1>7, <2>1, <2>2, <3>1 DEF RunTypes, Constant, Unset
    <3>3. Holds(kind, W \ {i.slot}, mem', live', Exact)
      <4>1. Holds(kind, W \ {i.slot}, mem', live, Exact)
        BY <1>5, <1>6, <1>7, <2>2, <3>1, UndefHolds
      <4> QED  BY <2>1, <4>1
    <3>4. Owners(kind, W, i) = W \ {i.slot}  BY <2>5 DEF Owners
    <3> QED  BY <1>9, <2>1, <2>3, <3>2, <3>3, <3>4
  <2> QED  BY <2>1, <2>4, <2>5
<1>12. CASE RunGrow
  <2>1. /\ UNCHANGED phase /\ pc' = pc + 1 /\ i.op = "grow"
        /\ \/ /\ made < MaxObjects /\ made' = made + 1
              /\ mem' = [mem EXCEPT ![i.slot] = made + 1]
              /\ live' = (live \ {mem[i.slot]}) \cup {made + 1}
           \/ UNCHANGED <<mem, live, made>>
    BY <1>3, <1>12 DEF RunGrow, Running, Continues, This, Allocates
  <2>2. i.slot \in W \cap Heap(kind)  BY <1>6, <2>1 DEF Operands
  <2>3. i.op \notin Leaves /\ Owners(kind, W, i) = W  BY <2>1 DEF Leaves, Owners
  <2>4. CASE UNCHANGED <<mem, live, made>>
    BY <1>1, <1>5, <1>9, <2>1, <2>3, <2>4 DEF RunTypes
  <2>5. CASE /\ made < MaxObjects /\ made' = made + 1
             /\ mem' = [mem EXCEPT ![i.slot] = made + 1]
             /\ live' = (live \ {mem[i.slot]}) \cup {made + 1}
    <3>1. RunTypes'
      <4>1. i.slot \in DOMAIN kind  BY <1>6, <2>2
      <4> QED  BY <1>1, <1>7, <2>5, <4>1, NewTypes DEF RunTypes
    <3>2. Holds(kind, W, mem', live', Exact)
      BY <1>5, <1>6, <1>7, <2>2, <2>5, GrowHolds
    <3> QED  BY <1>9, <2>1, <2>3, <3>1, <3>2
  <2> QED  BY <2>1, <2>4, <2>5
<1>13. CASE RunFree
  <2>1. /\ UNCHANGED <<phase, mem, made>> /\ pc' = pc + 1
        /\ i.op \in {"free", "consume", "load"}
        /\ live' = IF i.op = "load" THEN live ELSE live \ {mem[i.slot]}
    BY <1>3, <1>13 DEF RunFree, Running, Continues, This
  <2>2. i.slot \in W  BY <1>6, <2>1 DEF Operands
  <2>3. i.op \notin Leaves  BY <2>1 DEF Leaves
  <2>4. RunTypes'  BY <1>1, <1>7, <2>1 DEF RunTypes
  <2>5. CASE i.op = "load"
    <3>1. Owners(kind, W, i) = W  BY <2>5 DEF Owners
    <3> QED  BY <1>5, <1>9, <2>1, <2>3, <2>4, <2>5, <3>1
  <2>6. CASE i.op # "load"
    <3>1. Owners(kind, W, i) = W \ {i.slot}  BY <2>1, <2>6 DEF Owners
    <3>2. Holds(kind, W \ {i.slot}, mem, live \ {mem[i.slot]}, Exact)
      BY <1>5, <1>6, <1>8, <2>2, FreeHolds
    <3> QED  BY <1>9, <2>1, <2>3, <2>4, <2>6, <3>1, <3>2
  <2> QED  BY <2>5, <2>6
<1>14. CASE RunBranch
  <2>1. i.op = "br" /\ \E l \in i.to : pc' = label[l]
    BY <1>3, <1>14 DEF RunBranch, Running
  <2>2. UNCHANGED <<phase, kind, mem, live, made>>
    BY <1>14 DEF RunBranch, compileVars
  <2>3. PICK l \in i.to : pc' = label[l]  BY <2>1
  <2>4. l \in DOMAIN label /\ label[l] # 0 =>
            /\ label[l] \in 1..(Len(code) + 1) /\ label[l] # Len(code) + 1
            /\ Passes(W, own[label[l]], kind, Exact)
    BY <1>3, <1>4, <1>6, <2>1 DEF Continuing
  <2>5. l \in DOMAIN label  BY <1>3, <1>6, <2>1 DEF Continuing
  <2>6. label[l] # 0  BY <1>5, <2>5 DEF Finished
  <2>7. pc' \in 1..Len(code) /\ Passes(W, own[pc'], kind, Exact)
    BY <1>6, <2>3, <2>4, <2>5, <2>6
  <2>8. Holds(kind, own[pc'], mem, live, Exact)  BY <1>5, <2>7, HoldsLess
  <2>9. Holds(kind', own[pc'], mem', live', Exact')  BY <1>2, <2>2, <2>8 DEF Exact
  <2>10. RunTypes'  BY <1>5, <2>2 DEF RunTypes
  <2>11. phase' = "run"  BY <1>1, <2>2
  <2> QED  BY <1>1, <1>2, <2>7, <2>9, <2>10, <2>11 DEF RunInv
<1>15. CASE RunReturn
  <2>1. /\ i.op \in {"ret", "ret value"} /\ phase' = "returned"
        /\ result' = IF i.op = "ret" THEN Unset ELSE mem[i.slot]
        /\ UNCHANGED <<kind, mem, live, made>>
    BY <1>3, <1>15 DEF RunReturn, Running, This, compileVars
  <2>2. RunTypes'  BY <1>5, <2>1 DEF RunTypes
  <2>3. ASSUME Exact PROVE live = {result'} \cap Object
    <3>1. Object = 1..MaxObjects /\ Unset = 0  BY DEF Object, Unset
    <3>2. \A o \in live : \E s \in W \cap Heap(kind) : mem[s] = o  BY <1>5, <2>3 DEF Holds
    <3>3. CASE i.op = "ret"
      <4>1. W \cap Heap(kind) = {}  BY <1>6, <2>3, <3>3 DEF Operands
      <4>2. live = {}  BY <3>2, <4>1
      <4>3. result' = 0  BY <2>1, <3>1, <3>3
      <4> QED  BY <1>7, <3>1, <4>2, <4>3
    <3>4. CASE i.op = "ret value"
      <4>1. W \cap Heap(kind) \subseteq {i.slot} /\ i.slot \in W
        BY <1>6, <2>3, <3>4 DEF Operands
      <4>2. result' = mem[i.slot]  BY <2>1, <3>4
      <4>3. CASE kind[i.slot] = "str"
        <5>1. mem[i.slot] = Constant  BY <1>5, <4>1, <4>3 DEF Holds
        <5>2. i.slot \notin Heap(kind)  BY <4>3 DEF Heap
        <5>3. live = {}  BY <3>2, <4>1, <5>2
        <5> QED  BY <1>7, <3>1, <4>2, <5>1, <5>3
      <4>4. CASE kind[i.slot] # "str"
        <5>1. i.slot \in W \cap Heap(kind)  BY <1>6, <4>1, <4>4 DEF Heap
        <5>2. mem[i.slot] \in live  BY <1>5, <5>1 DEF Holds
        <5>3. live = {mem[i.slot]}  BY <3>2, <4>1, <5>2
        <5>4. mem[i.slot] \in Object
          <6>1. mem[i.slot] \in 1..made  BY <1>7, <5>2
          <6>2. \A o \in 1..made : o \in 1..MaxObjects  BY <1>7
          <6> QED  BY <3>1, <6>1, <6>2
        <5> QED  BY <4>2, <5>3, <5>4
      <4> QED  BY <4>3, <4>4
    <3> QED  BY <2>1, <3>3, <3>4
  <2>4. (phase' = "returned" /\ Exact') => live' = {result'} \cap Object
    BY <1>2, <2>1, <2>3
  <2>5. phase' # "run"  BY <2>1
  <2> QED  BY <1>2, <2>2, <2>4, <2>5 DEF RunInv
<1> QED  BY <1>10, <1>11, <1>12, <1>13, <1>14, <1>15 DEF Run

(* What the properties say of the run.                                     *)
LEMMA RunIsSafe ==
    ASSUME NEW own, RunInv(own)
    PROVE  FreesLive /\ UsesLive /\ NothingLeaks
<1>1. ASSUME phase = "run"
      PROVE  FreesLive /\ UsesLive
  <2>1. PICK i : i = code[pc]  OBVIOUS
  <2>2. PICK W : W = own[pc]  OBVIOUS
  <2>3. Holds(kind, W, mem, live, Exact) /\ pc \in 1..Len(code)  BY <1>1, <2>2 DEF RunInv
  <2>4. Flow(kind, code, own, label, TRUE, Exact)  BY DEF RunInv, Finished
  <2>5. Operands(kind, W, i, Exact)  BY <2>1, <2>2, <2>3, <2>4 DEF Flow
  <2>6. W \in SUBSET DOMAIN kind
    <3>1. Len(code) \in Nat  BY <2>4 DEF Flow, IsSeq
    <3>2. pc \in 1..(Len(code) + 1)  BY <2>3, <3>1
    <3> QED  BY <2>2, <2>4, <3>2 DEF Flow
  <2>7. ASSUME NEW s \in W PROVE mem[s] \in live \cup {Constant}
    <3>1. CASE kind[s] = "str"  BY <2>3, <3>1 DEF Holds
    <3>2. CASE kind[s] # "str"
      <4>1. s \in W \cap Heap(kind)  BY <2>6, <3>2 DEF Heap
      <4> QED  BY <2>3, <4>1 DEF Holds
    <3> QED  BY <3>1, <3>2
  <2>8. FreesLive
    <3> SUFFICES ASSUME i.op = "free" PROVE mem[i.slot] \in live
      BY <2>1 DEF FreesLive, Running, This
    <3>1. i.slot \in W \cap Heap(kind)  BY <2>5 DEF Operands
    <3> QED  BY <2>3, <3>1 DEF Holds
  <2>9. i.op \in {"load", "grow", "consume", "ret value"} => i.slot \in W
    BY <2>5 DEF Operands
  <2>10. i.op \in {"copy"} => i.from \in W  BY <2>5 DEF Operands
  <2>11. UsesLive  BY <2>1, <2>7, <2>9, <2>10 DEF UsesLive, Running, This
  <2> QED  BY <2>8, <2>11
<1>2. phase # "run" => FreesLive /\ UsesLive  BY DEF FreesLive, UsesLive, Running
<1>3. NothingLeaks  BY DEF NothingLeaks, RunInv, Exact
<1> QED  BY <1>1, <1>2, <1>3

----------------------------------------------------------------------------
(* The scopes.  What holds of a construct that is open: vis are the names  *)
(* in scope inside it, mv those that are moved, e is the environment.      *)
EnvIn(c) == IF c.kind = "block" THEN c.env + 1 ELSE c.env

IsConstruct(c) ==
    /\ c = [kind |-> c.kind, other |-> c.other, end |-> c.end, saved |-> c.saved,
            env |-> c.env, visible |-> c.visible, moved |-> c.moved, ends |-> c.ends]
    /\ c.kind \in {"block", "then", "else", "loop"}

Around(c, vis, mv, knd, e) ==
    /\ IsConstruct(c)
    /\ c.moved \subseteq DOMAIN c.visible
    /\ DOMAIN c.visible \subseteq DOMAIN vis
    /\ c.env \in Nat /\ c.env # 0 /\ EnvIn(c) <= e
    /\ \A s \in DOMAIN c.visible : c.visible[s] = vis[s] /\ vis[s] <= c.env
    /\ \A s \in DOMAIN vis \ DOMAIN c.visible : knd[s] # "str" => vis[s] > c.env
    /\ c.kind # "block" =>
         /\ c.moved \subseteq mv
         /\ \A M \in c.ends : c.moved \subseteq M /\ M \subseteq DOMAIN c.visible

Labelled(c, n) ==
    c.kind # "block" => /\ c.other \in 1..n /\ c.end \in 1..n
                        /\ c.other < c.end

(* d is inside c.                                                          *)
Pair(c, d) ==
    /\ EnvIn(c) <= d.env
    /\ DOMAIN c.visible \subseteq DOMAIN d.visible
    /\ c.kind # "block" => c.moved \subseteq d.moved
    /\ c.kind # "block" /\ d.kind # "block" => c.end < d.other

Nested(ctl, e) ==
    /\ IsSeq(ctl)
    /\ \A i, j \in 1..Len(ctl) : i < j => Pair(ctl[i], ctl[j])
    /\ \A i \in 1..Len(ctl) :
            EnvIn(ctl[i]) = IF i = Len(ctl) THEN e ELSE ctl[i + 1].env

Names(vis, e) == \A s \in DOMAIN vis : vis[s] \in 1..e

Scopes ==
    /\ Env \in Nat /\ Env # 0
    /\ IsSeq(label)
    /\ Names(visible, Env)
    /\ moved \subseteq DOMAIN visible
    /\ Placed(cleanups, visible, kind)
    /\ Nested(control, Env)
    /\ \A i \in 1..Len(control) :
            Around(control[i], visible, moved, kind, Env) /\ Labelled(control[i], Len(label))

(* No name goes, new ones are of this environment, and nothing is forgotten*)
(* to be moved.  To c new ends may be added.                               *)
LEMMA AroundMore ==
    ASSUME NEW c, NEW vis, NEW mv, NEW knd, NEW e \in Nat, Around(c, vis, mv, knd, e),
           NEW d, d = [c EXCEPT !.ends = d.ends],
           c.kind # "block" =>
             \A M \in d.ends : c.moved \subseteq M /\ M \subseteq DOMAIN c.visible,
           NEW vis2, DOMAIN vis \subseteq DOMAIN vis2, \A s \in DOMAIN vis : vis2[s] = vis[s],
           NEW mv2, c.kind # "block" => c.moved \subseteq mv2,
           NEW knd2, \A s \in DOMAIN vis : knd2[s] = knd[s],
           \A s \in DOMAIN vis2 \ DOMAIN vis : knd2[s] # "str" => vis2[s] > c.env
    PROVE  Around(d, vis2, mv2, knd2, e)
<1>1. /\ d.kind = c.kind /\ d.env = c.env /\ d.visible = c.visible /\ d.moved = c.moved
      /\ IsConstruct(d)
  BY DEF Around, IsConstruct
<1>2. EnvIn(d) = EnvIn(c)  BY <1>1 DEF EnvIn
<1>3. \A s \in DOMAIN vis2 \ DOMAIN c.visible : knd2[s] # "str" => vis2[s] > c.env
  BY DEF Around
<1>4. \A s \in DOMAIN c.visible : c.visible[s] = vis2[s] /\ vis2[s] <= c.env
  BY DEF Around
<1> QED  BY <1>1, <1>2, <1>3, <1>4 DEF Around

(* The same of all that are open.                                          *)
LEMMA ScopesMore ==
    ASSUME Scopes, IsSeq(control'), Len(control') = Len(control),
           \A i \in 1..Len(control) :
             /\ control'[i] = [control[i] EXCEPT !.ends = control'[i].ends]
             /\ control[i].kind # "block" =>
                  /\ control[i].moved \subseteq moved'
                  /\ \A M \in control'[i].ends :
                        control[i].moved \subseteq M /\ M \subseteq DOMAIN control[i].visible
             /\ \A s \in DOMAIN visible' \ DOMAIN visible :
                        kind'[s] # "str" => visible'[s] > control[i].env,
           UNCHANGED label, Len(cleanups') = Len(cleanups),
           DOMAIN visible \subseteq DOMAIN visible', Names(visible', Env),
           \A s \in DOMAIN visible : visible'[s] = visible[s] /\ kind'[s] = kind[s],
           moved' \subseteq DOMAIN visible',
           Placed(cleanups', visible', kind')
    PROVE  Scopes'
<1>1. PICK m : m = Len(control)  OBVIOUS
<1>2. Env' = Env /\ Env \in Nat /\ Env # 0  BY DEF Scopes, Env
<1>3. ASSUME NEW i \in 1..m
      PROVE  /\ Around(control'[i], visible', moved', kind', Env)
             /\ Labelled(control'[i], Len(label))
             /\ EnvIn(control'[i]) = EnvIn(control[i])
             /\ control'[i].env = control[i].env
             /\ DOMAIN control'[i].visible = DOMAIN control[i].visible
             /\ control'[i].moved = control[i].moved
             /\ control'[i].kind = control[i].kind
             /\ control'[i].end = control[i].end
             /\ control'[i].other = control[i].other
  <2>1. PICK c, d : c = control[i] /\ d = control'[i]  OBVIOUS
  <2>2. Around(c, visible, moved, kind, Env) /\ Labelled(c, Len(label))
    BY <1>1, <2>1 DEF Scopes
  <2>3. d = [c EXCEPT !.ends = d.ends]  BY <1>1, <2>1
  <2>4. /\ d.kind = c.kind /\ d.env = c.env /\ d.visible = c.visible /\ d.moved = c.moved
        /\ d.end = c.end /\ d.other = c.other
    BY <2>2, <2>3 DEF Around, IsConstruct
  <2>5. Around(d, visible', moved', kind', Env)
    <3>1. c.kind # "block" =>
                /\ c.moved \subseteq moved'
                /\ \A M \in d.ends : c.moved \subseteq M /\ M \subseteq DOMAIN c.visible
      BY <1>1, <2>1
    <3>2. \A s \in DOMAIN visible' \ DOMAIN visible : kind'[s] # "str" => visible'[s] > c.env
      BY <1>1, <2>1
    <3>3. \A s \in DOMAIN visible : visible'[s] = visible[s]  OBVIOUS
    <3>4. \A s \in DOMAIN visible : kind'[s] = kind[s]  OBVIOUS
    <3> QED  BY <1>2, <2>2, <2>3, <3>1, <3>2, <3>3, <3>4, AroundMore
  <2>6. Labelled(d, Len(label)) /\ EnvIn(d) = EnvIn(c)  BY <2>2, <2>4 DEF Labelled, EnvIn
  <2> QED  BY <2>1, <2>4, <2>5, <2>6
<1>4. Nested(control', Env)
  <2>1. Nested(control, Env)  BY DEF Scopes
  <2>2. ASSUME NEW i \in 1..m, NEW j \in 1..m, i < j PROVE Pair(control'[i], control'[j])
    BY <1>1, <1>3, <2>1, <2>2 DEF Nested, Pair
  <2>3. ASSUME NEW i \in 1..m
        PROVE  EnvIn(control'[i]) = IF i = m THEN Env ELSE control'[i + 1].env
    <3>1. m \in Nat  BY <1>1, <2>1 DEF Nested, IsSeq
    <3>2. i # m => i + 1 \in 1..m  BY <3>1
    <3> QED  BY <1>1, <1>3, <2>1, <3>2 DEF Nested
  <2> QED  BY <1>1, <2>2, <2>3 DEF Nested
<1>5. \A i \in 1..m : /\ Around(control'[i], visible', moved', kind', Env)
                      /\ Labelled(control'[i], Len(label))
  BY <1>3
<1> QED  BY <1>1, <1>2, <1>4, <1>5 DEF Scopes

(* One construct more, c: what is in scope in front of it is inside it.    *)
LEMMA ScopesPush ==
    ASSUME Scopes, NEW c, control' = Append(control, c),
           c.visible = visible, c.moved = moved, c.ends = {}, c.env = Env,
           IsConstruct(c), Labelled(c, Len(label')),
           c.kind # "block" => c.other > Len(label),
           IsSeq(label'), Len(label) <= Len(label'),
           Env' = EnvIn(c), UNCHANGED <<visible, moved, kind>>,
           Placed(cleanups', visible, kind)
    PROVE  Scopes'
<1>1. PICK m : m = Len(control)  OBVIOUS
<1>2. /\ Env \in Nat /\ Env # 0 /\ IsSeq(label) /\ Nested(control, Env)
      /\ Names(visible, Env) /\ moved \subseteq DOMAIN visible
  BY DEF Scopes
<1>3. Env' \in Nat /\ Env <= Env'  BY <1>2 DEF EnvIn
<1>4. /\ IsSeq(control') /\ m \in Nat /\ Len(control') = m + 1
      /\ \A i \in 1..m : control'[i] = control[i]
      /\ control'[m + 1] = c
  BY <1>1, <1>2, AppendSeq DEF Nested
<1>5. Len(label) \in Nat /\ Len(label') \in Nat  BY <1>2 DEF IsSeq
<1>6. ASSUME NEW i \in 1..m
      PROVE  /\ Around(control[i], visible, moved, kind, Env')
             /\ Labelled(control[i], Len(label'))
             /\ Pair(control[i], c)
  <2>1. PICK d : d = control[i]  OBVIOUS
  <2>2. Around(d, visible, moved, kind, Env) /\ Labelled(d, Len(label))
    BY <1>1, <2>1 DEF Scopes
  <2>3. d.env \in Nat /\ EnvIn(d) <= Env  BY <2>2 DEF Around
  <2>4. EnvIn(d) \in Nat  BY <2>3 DEF EnvIn
  <2>5. EnvIn(d) <= Env'  BY <1>2, <1>3, <2>3, <2>4
  <2>6. Around(d, visible, moved, kind, Env')  BY <2>2, <2>5 DEF Around
  <2>7. d.kind # "block" => d.other \in 1..Len(label') /\ d.end \in 1..Len(label')
    BY <1>5, <2>2 DEF Labelled
  <2>8. Labelled(d, Len(label'))  BY <2>2, <2>7 DEF Labelled
  <2>9. d.kind # "block" /\ c.kind # "block" => d.end < c.other
    BY <1>5, <2>2 DEF Labelled
  <2>10. Pair(d, c)  BY <2>2, <2>3, <2>9 DEF Pair, Around
  <2> QED  BY <2>1, <2>6, <2>8, <2>10
<1>7. Around(c, visible, moved, kind, Env')
  <2>1. \A s \in DOMAIN visible : visible[s] <= Env  BY <1>2 DEF Names
  <2>2. EnvIn(c) <= Env'  BY <1>3
  <2> QED  BY <1>2, <2>1, <2>2 DEF Around
<1>8. Nested(control', Env')
  <2>1. ASSUME NEW i \in 1..(m + 1), NEW j \in 1..(m + 1), i < j
        PROVE  Pair(control'[i], control'[j])
    <3>1. i \in 1..m /\ control'[i] = control[i]  BY <1>4, <2>1
    <3>2. CASE j = m + 1  BY <1>4, <1>6, <3>1, <3>2
    <3>3. CASE j # m + 1
      <4>1. j \in 1..m /\ control'[j] = control[j]  BY <1>4, <3>3
      <4> QED  BY <1>1, <1>2, <2>1, <3>1, <4>1 DEF Nested
    <3> QED  BY <3>2, <3>3
  <2>2. ASSUME NEW i \in 1..(m + 1)
        PROVE  EnvIn(control'[i]) = IF i = m + 1 THEN Env' ELSE control'[i + 1].env
    <3>1. CASE i = m + 1  BY <1>4, <3>1
    <3>2. CASE i = m
      <4>1. EnvIn(control[i]) = Env /\ i \in 1..m
        BY <1>1, <1>2, <1>4, <3>2 DEF Nested
      <4>2. i # m + 1 /\ control'[i + 1] = c  BY <1>4, <3>2
      <4> QED  BY <1>4, <4>1, <4>2
    <3>3. CASE i # m /\ i # m + 1
      <4>1. i \in 1..m /\ i + 1 \in 1..m  BY <1>4, <3>3
      <4>2. EnvIn(control[i]) = control[i + 1].env
        BY <1>1, <1>2, <3>3, <4>1 DEF Nested
      <4> QED  BY <1>4, <3>3, <4>1, <4>2
    <3> QED  BY <3>1, <3>2, <3>3
  <2> QED  BY <1>4, <2>1, <2>2 DEF Nested
<1>9. ASSUME NEW i \in 1..(m + 1)
      PROVE  Around(control'[i], visible, moved, kind, Env')
             /\ Labelled(control'[i], Len(label'))
  <2>1. i \in 1..m \/ i = m + 1  BY <1>4
  <2> QED  BY <1>4, <1>6, <1>7, <2>1
<1>10. Names(visible, Env')  BY <1>2, <1>3 DEF Names
<1>11. Env' # 0  BY <1>2, <1>3
<1> QED  BY <1>2, <1>3, <1>4, <1>8, <1>9, <1>10, <1>11 DEF Scopes

LEMMA FrontSeq ==
    ASSUME NEW q, IsSeq(q), q # <<>>
    PROVE  /\ IsSeq(Front(q)) /\ Len(q) \in Nat /\ Len(q) # 0 /\ DOMAIN q = 1..Len(q)
           /\ Len(Front(q)) = Len(q) - 1
           /\ \A i \in 1..(Len(q) - 1) : Front(q)[i] = q[i]
<1>1. PICK S : q \in Seq(S)  BY DEF IsSeq
<1>2. Len(q) \in Nat /\ Len(q) # 0 /\ DOMAIN q = 1..Len(q)  BY <1>1
<1>3. Front(q) \in Seq(S) /\ \A i \in DOMAIN Front(q) : Front(q)[i] = q[i]
  BY <1>1, FrontIsPrefix
<1>4. Len(Front(q)) = Len(q) - 1
  <2>1. PICK n : n = Len(q) - 1  OBVIOUS
  <2>2. n \in Nat /\ 1 \in 1..(Len(q) + 1) /\ n \in (1 - 1)..Len(q)  BY <1>2, <2>1
  <2>3. Len(SubSeq(q, 1, n)) = n  BY <1>1, <2>2, SubSeqProperties
  <2> QED  BY <2>1, <2>3 DEF Front
<1>5. DOMAIN Front(q) = 1..(Len(q) - 1)  BY <1>3, <1>4
<1> QED  BY <1>2, <1>3, <1>4, <1>5 DEF IsSeq

(* The innermost construct closes: the names are the ones in front of it.  *)
LEMMA ScopesPop ==
    ASSUME Scopes, control # <<>>, control' = Front(control),
           DOMAIN visible' = DOMAIN Top.visible,
           \A s \in DOMAIN visible' : visible'[s] = Top.visible[s],
           moved' \subseteq DOMAIN Top.visible, UNCHANGED kind,
           \/ Top.kind # "block" /\ Top.moved \subseteq moved'
           \/ moved \cap DOMAIN Top.visible \subseteq moved',
           Env' = Top.env, IsSeq(label'), Len(label') = Len(label),
           Placed(cleanups', visible', kind)
    PROVE  Scopes'
<1>1. PICK m : m = Len(control)  OBVIOUS
<1>2. PICK t : t = control[m]  OBVIOUS
<1>3. /\ Env \in Nat /\ Env # 0 /\ IsSeq(label) /\ Nested(control, Env)
  BY DEF Scopes
<1>4. /\ IsSeq(control') /\ m \in Nat /\ m # 0 /\ Len(control') = m - 1
      /\ \A i \in 1..(m - 1) : control'[i] = control[i]
      /\ Top = t
  BY <1>1, <1>2, <1>3, FrontSeq DEF Nested, Top
<1>5. m \in 1..m  BY <1>4
<1>6. Around(t, visible, moved, kind, Env)  BY <1>1, <1>2, <1>5 DEF Scopes
<1>7. Env' = t.env /\ Env' \in Nat /\ Env' # 0  BY <1>4, <1>6 DEF Around
<1>8. ASSUME NEW i \in 1..(m - 1)
      PROVE  Around(control[i], visible', moved', kind, Env') /\ Labelled(control[i], Len(label))
  <2>1. PICK c : c = control[i]  OBVIOUS
  <2>2. i \in 1..m /\ i < m  BY <1>4
  <2>3. Around(c, visible, moved, kind, Env) /\ Labelled(c, Len(label)) /\ Pair(c, t)
    BY <1>1, <1>2, <1>3, <1>5, <2>1, <2>2 DEF Scopes, Nested
  <2>4. DOMAIN c.visible \subseteq DOMAIN visible' /\ EnvIn(c) <= Env'
    BY <1>4, <1>7, <2>3 DEF Pair
  <2>5. \A s \in DOMAIN visible' : s \in DOMAIN visible /\ visible'[s] = visible[s]
    BY <1>4, <1>6 DEF Around
  <2>6. c.kind # "block" => c.moved \subseteq moved'
    <3>1. CASE t.moved \subseteq moved'  BY <2>3, <3>1 DEF Pair
    <3>2. CASE moved \cap DOMAIN t.visible \subseteq moved'
      BY <1>4, <2>3, <2>4, <3>2 DEF Around
    <3> QED  BY <1>4, <3>1, <3>2
  <2>7. \A s \in DOMAIN c.visible : c.visible[s] = visible'[s] /\ visible'[s] <= c.env
    BY <2>3, <2>4, <2>5 DEF Around
  <2>8. \A s \in DOMAIN visible' \ DOMAIN c.visible : kind[s] # "str" => visible'[s] > c.env
    BY <2>3, <2>5 DEF Around
  <2> QED  BY <2>1, <2>3, <2>4, <2>6, <2>7, <2>8 DEF Around
<1>9. Nested(control', Env')
  <2>1. ASSUME NEW i \in 1..(m - 1), NEW j \in 1..(m - 1), i < j
        PROVE  Pair(control'[i], control'[j])
    <3>1. i \in 1..m /\ j \in 1..m  BY <1>4
    <3> QED  BY <1>1, <1>3, <1>4, <2>1, <3>1 DEF Nested
  <2>2. ASSUME NEW i \in 1..(m - 1)
        PROVE  EnvIn(control'[i]) = IF i = m - 1 THEN Env' ELSE control'[i + 1].env
    <3>1. i \in 1..m /\ i # m  BY <1>4
    <3>2. EnvIn(control[i]) = control[i + 1].env  BY <1>1, <1>3, <3>1 DEF Nested
    <3>3. CASE i = m - 1
      <4>1. i + 1 = m  BY <1>4, <3>3
      <4> QED  BY <1>2, <1>4, <1>7, <3>2, <3>3, <4>1
    <3>4. CASE i # m - 1
      <4>1. i + 1 \in 1..(m - 1)  BY <1>4, <3>4
      <4> QED  BY <1>4, <3>2, <3>4, <4>1
    <3> QED  BY <3>3, <3>4
  <2> QED  BY <1>4, <2>1, <2>2 DEF Nested
<1>10. Names(visible', Env')
  <2>1. ASSUME NEW s \in DOMAIN visible' PROVE visible'[s] \in 1..Env'
    <3>1. s \in DOMAIN t.visible /\ s \in DOMAIN visible /\ visible'[s] = visible[s]
      BY <1>4, <1>6 DEF Around
    <3>2. visible[s] <= t.env /\ visible[s] \in 1..Env
      BY <1>6, <3>1 DEF Around, Scopes, Names
    <3> QED  BY <1>7, <3>1, <3>2
  <2> QED  BY <2>1 DEF Names
<1>11. moved' \subseteq DOMAIN visible'  OBVIOUS
<1>12. \A i \in 1..(m - 1) : /\ Around(control'[i], visible', moved', kind, Env')
                             /\ Labelled(control'[i], Len(label))
  BY <1>4, <1>8
<1>13. kind' = kind /\ Len(label') = Len(label) /\ Len(control') = m - 1  BY <1>4
<1> QED  BY <1>7, <1>9, <1>10, <1>11, <1>12, <1>13 DEF Scopes

(* The else part: as it was in front of the branch.                        *)
LEMMA ScopesElse ==
    ASSUME Scopes, control # <<>>, Top.kind = "then",
           control' = [control EXCEPT ![Len(control)].kind = "else",
                                      ![Len(control)].ends = PathEnd(Top)],
           visible' = Top.visible, moved' = Top.moved, UNCHANGED <<kind, cleanups>>,
           IsSeq(label'), Len(label') = Len(label)
    PROVE  Scopes'
<1>1. PICK m : m = Len(control)  OBVIOUS
<1>2. PICK t : t = control[m]  OBVIOUS
<1>3. /\ Env \in Nat /\ Env # 0 /\ IsSeq(label) /\ Nested(control, Env)
      /\ Env' = Env
  BY DEF Scopes, Env
<1>4. /\ m \in Nat /\ m # 0 /\ DOMAIN control = 1..m /\ m \in 1..m /\ Top = t
  BY <1>1, <1>2, <1>3, FrontSeq DEF Nested, Top
<1>5. Around(t, visible, moved, kind, Env) /\ Labelled(t, Len(label))
  BY <1>1, <1>2, <1>4 DEF Scopes
<1>6. PICK d : d = [[t EXCEPT !.kind = "else"] EXCEPT !.ends = PathEnd(Top)]  OBVIOUS
<1>7. control' = [control EXCEPT ![m] = d]  BY <1>1, <1>2, <1>6
<1>8. /\ IsConstruct(d) /\ d.kind = "else" /\ d.env = t.env /\ d.visible = t.visible
      /\ d.moved = t.moved /\ d.ends = PathEnd(t) /\ d.other = t.other /\ d.end = t.end
  BY <1>4, <1>5, <1>6 DEF Around, IsConstruct
<1>9. EnvIn(t) = t.env /\ EnvIn(d) = t.env /\ t.env = Env /\ t.kind = "then"
  BY <1>1, <1>2, <1>3, <1>4, <1>8 DEF EnvIn, Nested
<1>10. /\ IsSeq(control') /\ Len(control') = m /\ control'[m] = d
       /\ \A i \in 1..m : i # m => control'[i] = control[i]
  <2>1. PICK S : control \in Seq(S)  BY <1>3 DEF Nested, IsSeq
  <2>2. control \in Seq(S \cup {d})  BY <2>1
  <2>3. control' \in Seq(S \cup {d}) /\ Len(control') = m  BY <1>1, <1>4, <1>7, <2>2
  <2> QED  BY <1>4, <1>7, <2>3 DEF IsSeq
<1>11. Around(d, visible', moved', kind, Env)
  <2>1. \A M \in d.ends : t.moved \subseteq M /\ M \subseteq DOMAIN t.visible
    BY <1>5, <1>8, <1>9 DEF PathEnd, InScope, Around
  <2>2. visible' = t.visible /\ moved' = t.moved  BY <1>4
  <2> QED  BY <1>3, <1>5, <1>8, <1>9, <2>1, <2>2 DEF Around
<1>12. ASSUME NEW i \in 1..m, i # m
       PROVE  Around(control[i], visible', moved', kind, Env)
  <2>1. PICK c : c = control[i]  OBVIOUS
  <2>2. i < m  BY <1>4, <1>12
  <2>3. Around(c, visible, moved, kind, Env) /\ Pair(c, t)
    BY <1>1, <1>2, <1>3, <1>4, <2>1, <2>2 DEF Scopes, Nested
  <2>4. DOMAIN c.visible \subseteq DOMAIN visible' BY <1>4, <2>3 DEF Pair
  <2>5. \A s \in DOMAIN visible' : s \in DOMAIN visible /\ visible'[s] = visible[s]
    BY <1>4, <1>5 DEF Around
  <2>6. c.kind # "block" => c.moved \subseteq moved'  BY <1>4, <2>3 DEF Pair
  <2>7. \A s \in DOMAIN c.visible : c.visible[s] = visible'[s] /\ visible'[s] <= c.env
    BY <2>3, <2>4, <2>5 DEF Around
  <2>8. \A s \in DOMAIN visible' \ DOMAIN c.visible : kind[s] # "str" => visible'[s] > c.env
    BY <2>3, <2>5 DEF Around
  <2> QED  BY <2>1, <2>3, <2>4, <2>6, <2>7, <2>8 DEF Around
<1>13. Nested(control', Env)
  <2>1. ASSUME NEW i \in 1..m, NEW j \in 1..m, i < j PROVE Pair(control'[i], control'[j])
    <3>1. Pair(control[i], control[j])  BY <1>1, <1>3, <2>1 DEF Nested
    <3>2. i # m  BY <1>4, <2>1
    <3>3. CASE j = m  BY <1>2, <1>8, <1>9, <1>10, <3>1, <3>2, <3>3 DEF Pair
    <3>4. CASE j # m  BY <1>10, <3>1, <3>2, <3>4
    <3> QED  BY <3>3, <3>4
  <2>2. ASSUME NEW i \in 1..m
        PROVE  EnvIn(control'[i]) = IF i = m THEN Env ELSE control'[i + 1].env
    <3>1. EnvIn(control[i]) = IF i = m THEN Env ELSE control[i + 1].env
      BY <1>1, <1>3 DEF Nested
    <3>2. CASE i = m  BY <1>8, <1>9, <1>10, <3>2
    <3>3. CASE i # m
      <4>1. i + 1 \in 1..m  BY <1>4, <3>3
      <4>2. control'[i + 1].env = control[i + 1].env  BY <1>2, <1>8, <1>10, <4>1
      <4> QED  BY <1>10, <3>1, <3>3, <4>2
    <3> QED  BY <3>2, <3>3
  <2> QED  BY <1>10, <2>1, <2>2 DEF Nested
<1>14. Names(visible', Env) /\ moved' \subseteq DOMAIN visible'
  BY <1>4, <1>5, <1>9 DEF Names, Around, Scopes
<1>15. Placed(cleanups', visible', kind')
  <2>1. Placed(cleanups, visible, kind)  BY DEF Scopes
  <2>2. ASSUME NEW k \in DOMAIN cleanups, NEW i \in DOMAIN cleanups[k]
        PROVE  /\ cleanups[k][i].slot \in DOMAIN visible'
               /\ visible'[cleanups[k][i].slot] = k
               /\ kind[cleanups[k][i].slot] # "str"
    <3>1. PICK s : s = cleanups[k][i].slot  OBVIOUS
    <3>2. s \in DOMAIN visible /\ visible[s] = k /\ kind[s] # "str"
      BY <2>1, <3>1 DEF Placed
    <3>3. visible[s] \in 1..Env  BY <3>2 DEF Scopes, Names
    <3>4. s \in DOMAIN t.visible  BY <1>3, <1>5, <1>9, <3>2, <3>3 DEF Around
    <3> QED  BY <1>4, <1>5, <3>1, <3>2, <3>4 DEF Around
  <2> QED  BY <2>2 DEF Placed
<1>16. \A i \in 1..m : Around(control'[i], visible', moved', kind, Env)
  BY <1>10, <1>11, <1>12
<1>17. \A i \in 1..m : Labelled(control'[i], Len(label))
  <2>1. Labelled(d, Len(label))  BY <1>5, <1>8, <1>9 DEF Labelled
  <2>2. \A i \in 1..m : i # m => Labelled(control[i], Len(label))
    BY <1>1 DEF Scopes
  <2> QED  BY <1>10, <2>1, <2>2
<1> QED  BY <1>3, <1>10, <1>13, <1>14, <1>15, <1>16, <1>17 DEF Scopes

(* What a program may do without making the emitter free anything early.   *)
LeakFeatures == {"branch move", "early return", "untyped list"}
Careful == features \subseteq LeakFeatures

LEMMA PlacedMore ==
    ASSUME NEW c, NEW vis, NEW knd, Placed(c, vis, knd),
           NEW vis2, DOMAIN vis \subseteq DOMAIN vis2, \A s \in DOMAIN vis : vis2[s] = vis[s],
           NEW knd2, \A s \in DOMAIN vis : knd2[s] = knd[s]
    PROVE  Placed(c, vis2, knd2)
BY DEF Placed

(* The current environment is further in than the one a construct is in,   *)
(* but for the part of a branch.                                           *)
LEMMA InnerEnv ==
    ASSUME Scopes, ~DirectlyInBranch, NEW i \in 1..Len(control)
    PROVE  Env > control[i].env
<1>1. PICK m : m = Len(control)  OBVIOUS
<1>2. Nested(control, Env) /\ Env \in Nat  BY DEF Scopes
<1>3. m \in Nat /\ m # 0 /\ DOMAIN control = 1..m
  BY <1>1, <1>2, FrontSeq DEF Nested, IsSeq
<1>4. control[m].kind = "block"
  BY <1>1, <1>3 DEF DirectlyInBranch, InBranch, Branches
<1>5. m \in 1..m /\ control[m].env \in Nat /\ control[i].env \in Nat
  BY <1>1, <1>3 DEF Scopes, Around
<1>6. Env = control[m].env + 1  BY <1>1, <1>2, <1>4, <1>5 DEF Nested, EnvIn
<1>7. CASE i = m  BY <1>5, <1>6, <1>7
<1>8. CASE i # m
  <2>1. Pair(control[i], control[m])  BY <1>1, <1>2, <1>3, <1>5, <1>8 DEF Nested
  <2>2. control[i].env <= control[m].env  BY <1>5, <2>1 DEF Pair, EnvIn
  <2> QED  BY <1>5, <1>6, <2>2
<1> QED  BY <1>7, <1>8

(* Some of the lists' entries are cancelled.                               *)
LEMMA MarkLen ==
    ASSUME NEW n \in Nat, NEW c \in Lists(n), NEW S
    PROVE  Len(Mark(c, S)) = Len(c)
<1>1. Mark(c, S) \in Lists(n) /\ DOMAIN Mark(c, S) = DOMAIN c  BY MarkLists, MarkEntry
<1> QED  BY <1>1 DEF Lists

LEMMA AddLen ==
    ASSUME NEW n \in Nat, NEW c \in Lists(n), NEW s
    PROVE  Len(add_cleanup(c, s)) = Len(c)
BY DEF add_cleanup, Lists

(* A statement that leaves the names and constructs as they are.           *)
LEMMA ScopesStatement ==
    ASSUME Scopes, UNCHANGED <<control, label, kind, visible>>,
           Len(cleanups') = Len(cleanups), Placed(cleanups', visible, kind),
           moved' \subseteq DOMAIN visible,
           \A i \in Branches : moved' \cap control[i].moved = control[i].moved
    PROVE  Scopes'
<1>1. IsSeq(control) /\ DOMAIN control = 1..Len(control)  BY DEF Scopes, Nested, IsSeq
<1>2. ASSUME NEW i \in 1..Len(control)
      PROVE  /\ control'[i] = [control[i] EXCEPT !.ends = control'[i].ends]
             /\ control[i].kind # "block" =>
                  /\ control[i].moved \subseteq moved'
                  /\ \A M \in control'[i].ends :
                        control[i].moved \subseteq M /\ M \subseteq DOMAIN control[i].visible
             /\ \A s \in DOMAIN visible' \ DOMAIN visible :
                        kind'[s] # "str" => visible'[s] > control[i].env
  <2>1. Around(control[i], visible, moved, kind, Env)  BY DEF Scopes
  <2>2. control[i] = [control[i] EXCEPT !.ends = control[i].ends]
    BY <2>1 DEF Around, IsConstruct
  <2>3. control[i].kind # "block" => i \in Branches  BY <1>1 DEF Branches
  <2> QED  BY <2>1, <2>2, <2>3 DEF Around
<1>3. Names(visible', Env) /\ Len(control') = Len(control) /\ IsSeq(control')
  BY <1>1 DEF Scopes
<1>4. Placed(cleanups', visible', kind')  OBVIOUS
<1>5. \A s \in DOMAIN visible : visible'[s] = visible[s] /\ kind'[s] = kind[s]  OBVIOUS
<1>6. moved' \subseteq DOMAIN visible' /\ DOMAIN visible \subseteq DOMAIN visible'  OBVIOUS
<1>7. label' = label  OBVIOUS
<1> QED  BY <1>2, <1>3, <1>4, <1>5, <1>6, <1>7, ScopesMore

(* The new variable of a let.                                              *)
LEMMA Declared ==
    ASSUME Inv, NEW k, NEW typed, Declares(k, typed)
    PROVE  LET x == Len(kind) + 1 IN
           /\ Len(kind) \in Nat /\ IsSeq(kind) /\ x \notin Slot /\ x \notin DOMAIN visible
           /\ DOMAIN kind = Slot /\ DOMAIN kind' = Slot \cup {x}
           /\ kind' = Append(kind, k) /\ kind'[x] = k /\ \A s \in Slot : kind'[s] = kind[s]
           /\ DOMAIN visible' = DOMAIN visible \cup {x} /\ visible'[x] = Env
           /\ DOMAIN visible \subseteq Slot
           /\ \A s \in DOMAIN visible : visible'[s] = visible[s] /\ kind'[s] = kind[s]
<1>1. IsSeq(kind) /\ DOMAIN visible \subseteq Slot  BY DEF Inv, IsSeq
<1>2. kind' = Append(kind, k)  BY DEF Declares
<1>3. /\ Len(kind) \in Nat /\ DOMAIN kind = 1..Len(kind) /\ Len(kind') = Len(kind) + 1
      /\ kind'[Len(kind) + 1] = k /\ \A s \in 1..Len(kind) : kind'[s] = kind[s]
      /\ IsSeq(kind')
  BY <1>1, <1>2, AppendSeq
<1>4. DOMAIN kind' = 1..(Len(kind) + 1)  BY <1>3 DEF IsSeq
<1>5. DOMAIN kind' = Slot \cup {Len(kind) + 1} /\ Len(kind) + 1 \notin Slot
  BY <1>3, <1>4 DEF Slot
<1>6. visible' = [s \in DOMAIN visible \cup {Len(kind) + 1} |->
                      IF s \in DOMAIN visible THEN visible[s] ELSE Env]
  BY DEF Declares
<1>7. Len(kind) + 1 \notin DOMAIN visible  BY <1>1, <1>5
<1> QED  BY <1>1, <1>2, <1>3, <1>5, <1>6, <1>7 DEF Slot

LEMMA ScopesDeclare ==
    ASSUME Inv, Scopes, Careful, NEW k, NEW typed, Declares(k, typed),
           UNCHANGED <<control, label>>,
           moved \subseteq moved', moved' \subseteq DOMAIN visible,
           Len(cleanups') = Len(cleanups), Placed(cleanups', visible', kind')
    PROVE  Scopes'
<1>1. IsSeq(control)  BY DEF Scopes, Nested
<1>2. PICK x : x = Len(kind) + 1  OBVIOUS
<1>3. /\ DOMAIN visible' = DOMAIN visible \cup {x} /\ visible'[x] = Env
      /\ kind'[x] = k
      /\ \A s \in DOMAIN visible : visible'[s] = visible[s] /\ kind'[s] = kind[s]
  BY <1>2, Declared
<1>4. k # "str" => ~DirectlyInBranch  BY DEF Declares, Gate, Careful, LeakFeatures
<1>5. ASSUME NEW i \in 1..Len(control)
      PROVE  /\ control'[i] = [control[i] EXCEPT !.ends = control'[i].ends]
             /\ control[i].kind # "block" =>
                  /\ control[i].moved \subseteq moved'
                  /\ \A M \in control'[i].ends :
                        control[i].moved \subseteq M /\ M \subseteq DOMAIN control[i].visible
             /\ \A s \in DOMAIN visible' \ DOMAIN visible :
                        kind'[s] # "str" => visible'[s] > control[i].env
  <2>1. Around(control[i], visible, moved, kind, Env)  BY DEF Scopes
  <2>2. control[i] = [control[i] EXCEPT !.ends = control[i].ends]
    BY <2>1 DEF Around, IsConstruct
  <2>3. k # "str" => Env > control[i].env  BY <1>4, InnerEnv
  <2> QED  BY <1>3, <2>1, <2>2, <2>3 DEF Around
<1>6. Names(visible', Env)
  <2>1. Env \in 1..Env  BY DEF Scopes
  <2> QED  BY <1>3, <2>1 DEF Scopes, Names
<1>7. moved' \subseteq DOMAIN visible' /\ DOMAIN visible \subseteq DOMAIN visible'  BY <1>3
<1>8. IsSeq(control') /\ Len(control') = Len(control) /\ label' = label  BY <1>1
<1> QED  BY <1>3, <1>5, <1>6, <1>7, <1>8, ScopesMore

(* What every statement may do with the value of y.                        *)
LEMMA MovesAway ==
    ASSUME Scopes, Inv, NEW y, MayMove(y), Careful
    PROVE  /\ y \in DOMAIN visible /\ y \notin moved /\ y \in Slot
           /\ ~Reassigned(y) /\ Once(cleanups, y)
           /\ \A i \in Branches : y \notin control[i].moved
           /\ Exact => \A i \in Branches : y \notin DOMAIN control[i].visible
<1>1. y \in DOMAIN visible /\ y \notin moved /\ y \in Slot
  BY DEF MayMove, Readable, Inv
<1>2. ~Reassigned(y)  BY DEF MayMove, Gate, Careful, LeakFeatures
<1>3. Once(cleanups, y)
  <2>1. Len(kind) \in Nat /\ cleanups \in Lists(Len(kind))  BY DEF Inv
  <2> QED  BY <1>2, <2>1, NotReassigned
<1>4. ASSUME NEW i \in Branches PROVE y \notin control[i].moved
  <2>1. i \in 1..Len(control) /\ control[i].kind # "block"
    BY DEF Branches, Scopes, Nested, IsSeq
  <2>2. control[i].moved \subseteq moved  BY <2>1 DEF Scopes, Around
  <2> QED  BY <1>1, <2>2
<1>5. Exact => \A i \in Branches : y \notin DOMAIN control[i].visible
  BY DEF MayMove, Gate, Exact
<1> QED  BY <1>1, <1>2, <1>3, <1>4, <1>5

LEMMA Assigns ==
    ASSUME Scopes, Inv, NEW t, Assignable(t), Careful
    PROVE  /\ t \in DOMAIN visible /\ visible[t] = Len(cleanups) /\ kind[t] # "str"
           /\ t \in Slot
           /\ \A i \in Branches : t \notin control[i].moved \cup UNION control[i].ends
<1>1. t \in DOMAIN visible /\ visible[t] = Env /\ kind[t] # "str"
  BY DEF Assignable, Gate, Careful, LeakFeatures
<1>2. \A i \in Branches : t \notin control[i].moved \cup UNION control[i].ends
  BY DEF Assignable, Gate, Careful, LeakFeatures
<1> QED  BY <1>1, <1>2 DEF Env, Inv

(* The lists behind a statement: their entries stay where they belong.     *)
LEMMA CancelKeeps ==
    ASSUME NEW n \in Nat, NEW c \in Lists(n), NEW s, NEW vis, NEW knd, Placed(c, vis, knd)
    PROVE  /\ Placed(cancel_cleanup(c, s), vis, knd) /\ Len(cancel_cleanup(c, s)) = Len(c)
           /\ cancel_cleanup(c, s) \in Lists(n)
           /\ Placed(CancelFrom(c, s), vis, knd) /\ Len(CancelFrom(c, s)) = Len(c)
BY MarkPlaced, MarkLen, MarkLists DEF cancel_cleanup, CancelFrom

LEMMA ScopesLet ==
    ASSUME Inv, Scopes, Careful,
           \/ \E k \in Kinds, typed \in BOOLEAN : LetFresh(k, typed)
           \/ \E y \in DOMAIN visible, typed \in BOOLEAN : LetFrom(y, typed)
    PROVE  Scopes'
<1>1. PICK n, x : n = Len(kind) /\ x = Len(kind) + 1  OBVIOUS
<1>2. /\ n \in Nat /\ cleanups \in Lists(n) /\ cleanups \in Lists(n + 1) /\ n + 1 \in Nat
      /\ Placed(cleanups, visible, kind) /\ Len(cleanups) # 0 /\ moved \subseteq DOMAIN visible
  BY <1>1, NewVariable DEF Inv, Scopes, Env
<1>3. cleanups # <<>>  BY <1>2
<1>4. ASSUME NEW k, NEW typed, Declares(k, typed)
      PROVE  /\ Placed(cleanups, visible', kind')
             /\ k # "str" => Placed(add_cleanup(cleanups, x), visible', kind')
             /\ Len(add_cleanup(cleanups, x)) = Len(cleanups)
             /\ add_cleanup(cleanups, x) \in Lists(n + 1)
  <2>1. /\ DOMAIN visible' = DOMAIN visible \cup {x} /\ visible'[x] = Env /\ kind'[x] = k
        /\ \A s \in DOMAIN visible : visible'[s] = visible[s] /\ kind'[s] = kind[s]
    BY <1>1, <1>4, Declared
  <2>2. Placed(cleanups, visible', kind')
    <3>1. DOMAIN visible \subseteq DOMAIN visible'  BY <2>1
    <3>2. \A s \in DOMAIN visible : visible'[s] = visible[s]  BY <2>1
    <3>3. \A s \in DOMAIN visible : kind'[s] = kind[s]  BY <2>1
    <3> QED  BY <1>2, <3>1, <3>2, <3>3, PlacedMore
  <2>3. k # "str" => Placed(add_cleanup(cleanups, x), visible', kind')
    <3>1. x \in DOMAIN visible' /\ visible'[x] = Len(cleanups) /\ kind'[x] = k
      BY <2>1 DEF Env
    <3> QED  BY <1>2, <1>3, <2>2, <3>1, AddPlaced
  <2>4. Good(add_cleanup(cleanups, x), n + 1)
    <3>1. Good(cleanups, n)  BY <1>1 DEF Inv, Good
    <3> QED  BY <1>1, <1>2, <3>1, AddGood
  <2> QED  BY <1>2, <2>2, <2>3, <2>4, AddLen DEF Good
<1>5. ASSUME NEW k \in Kinds, NEW typed \in BOOLEAN, LetFresh(k, typed) PROVE Scopes'
  <2>1. /\ Declares(k, typed) /\ UNCHANGED <<control, label, moved>>
        /\ cleanups' = IF k = "struct" \/ (k = "list" /\ typed)
                       THEN add_cleanup(cleanups, x) ELSE cleanups
    BY <1>1, <1>5 DEF LetFresh, Straight, Registered
  <2>2. Placed(cleanups', visible', kind') /\ Len(cleanups') = Len(cleanups)
    BY <1>4, <2>1
  <2>3. moved \subseteq moved' /\ moved' \subseteq DOMAIN visible  BY <1>2, <2>1
  <2>4. UNCHANGED <<control, label>>  BY <2>1
  <2> QED  BY <2>1, <2>2, <2>3, <2>4, ScopesDeclare
<1>6. ASSUME NEW y \in DOMAIN visible, NEW typed \in BOOLEAN, LetFrom(y, typed) PROVE Scopes'
  <2>1. Declares(kind[y], typed) /\ UNCHANGED <<control, label>> /\ moved' = moved \cup {y}
    BY <1>6 DEF LetFrom, Straight
  <2>5. PICK with : with = IF Registered(kind[y], typed)
                           THEN add_cleanup(cleanups, x) ELSE cleanups
    OBVIOUS
  <2>6. cleanups' = cancel_cleanup(with, y) \/ cleanups' = with
    BY <1>1, <1>6, <2>5 DEF LetFrom
  <2>7. Registered(kind[y], typed) => kind[y] # "str"  BY DEF Registered
  <2>8. Placed(with, visible', kind') /\ Len(with) = Len(cleanups) /\ with \in Lists(n + 1)
    BY <1>2, <1>4, <2>1, <2>5, <2>7
  <2>2. Placed(cleanups', visible', kind') /\ Len(cleanups') = Len(cleanups)
    BY <1>2, <2>6, <2>8, CancelKeeps
  <2>3. moved \subseteq moved' /\ moved' \subseteq DOMAIN visible  BY <1>2, <2>1
  <2>4. UNCHANGED <<control, label>>  BY <2>1
  <2> QED  BY <2>1, <2>2, <2>3, <2>4, ScopesDeclare
<1> QED  BY <1>5, <1>6

LEMMA ScopesPlain ==
    ASSUME Inv, Scopes, Careful,
           \/ \E y \in DOMAIN visible :
                \/ Use(y) \/ Push(y) \/ CallDirect(y) \/ AssignFresh(y) \/ ReturnVar(y)
                \/ \E lambda \in BOOLEAN : CallIndirect(y, lambda)
           \/ \E t, y \in DOMAIN visible : AssignFrom(t, y)
           \/ ReturnFresh
    PROVE  Scopes' /\ UNCHANGED <<control, loops>> /\ Len(cleanups') = Len(cleanups)
<1>1. PICK n : n = Len(kind)  OBVIOUS
<1>2. /\ n \in Nat /\ cleanups \in Lists(n)
      /\ Placed(cleanups, visible, kind) /\ Len(cleanups) # 0 /\ moved \subseteq DOMAIN visible
  BY <1>1 DEF Inv, Scopes, Env
<1>3. cleanups # <<>>  BY <1>2
<1>4. \A i \in Branches : moved \cap control[i].moved = control[i].moved
  <2>1. \A i \in Branches : i \in 1..Len(control) /\ control[i].kind # "block"
    BY DEF Branches, Scopes, Nested, IsSeq
  <2> QED  BY <2>1 DEF Scopes, Around
<1>5. ASSUME NEW y, cleanups' \in {cleanups, cancel_cleanup(cleanups, y),
                           CancelFrom(cleanups, 1), CancelFrom(cancel_cleanup(cleanups, y), 1)}
      PROVE  Len(cleanups') = Len(cleanups) /\ Placed(cleanups', visible, kind)
  BY <1>2, <1>5, CancelKeeps
<1>6. ASSUME NEW y \in DOMAIN visible, UNCHANGED <<control, label, kind, visible>>,
             cleanups' \in {cleanups, cancel_cleanup(cleanups, y),
                            CancelFrom(cleanups, 1), CancelFrom(cancel_cleanup(cleanups, y), 1)},
             moved' = moved \/ moved' = moved \cup {y}
      PROVE  Scopes' /\ Len(cleanups') = Len(cleanups)
  <2>1. Len(cleanups') = Len(cleanups) /\ Placed(cleanups', visible, kind)  BY <1>5, <1>6
  <2>2. moved' \subseteq DOMAIN visible  BY <1>2, <1>6
  <2>3. \A i \in Branches : moved' \cap control[i].moved = control[i].moved  BY <1>4, <1>6
  <2> QED  BY <1>6, <2>1, <2>2, <2>3, ScopesStatement
<1>7. ASSUME NEW t, Assignable(t), UNCHANGED <<control, label, kind, visible>>,
             NEW y \in DOMAIN visible,
             cleanups' \in {Replace(t), cancel_cleanup(Replace(t), y)},
             moved' \in {moved \ {t}, (moved \ {t}) \cup {y}}
      PROVE  Scopes' /\ Len(cleanups') = Len(cleanups)
  <2>1. /\ t \in DOMAIN visible /\ visible[t] = Len(cleanups) /\ kind[t] # "str" /\ t \in Slot
        /\ \A i \in Branches : t \notin control[i].moved \cup UNION control[i].ends
    BY <1>7, Assigns
  <2>2. Replace(t) \in Lists(n)
    <3>1. Good(cleanups, n) /\ t \in 1..n  BY <1>1, <2>1 DEF Inv, Good, Slot
    <3> QED  BY <1>2, <3>1, ReplaceGood DEF Good
  <2>3. Placed(Replace(t), visible, kind) /\ Len(Replace(t)) = Len(cleanups)
    BY <1>2, <1>3, <2>1, ReplacePlaced
  <2>4. Len(cleanups') = Len(cleanups) /\ Placed(cleanups', visible, kind)
    BY <1>2, <1>7, <2>2, <2>3, CancelKeeps
  <2>5. moved' \subseteq DOMAIN visible  BY <1>2, <1>7
  <2>6. \A i \in Branches : moved' \cap control[i].moved = control[i].moved
    BY <1>4, <1>7, <2>1
  <2> QED  BY <1>7, <2>4, <2>5, <2>6, ScopesStatement
<1>8. ASSUME NEW y \in DOMAIN visible, Use(y) \/ Push(y)
      PROVE  Scopes' /\ UNCHANGED <<control, loops>> /\ Len(cleanups') = Len(cleanups)
  <2>1. UNCHANGED <<control, label, kind, visible, cleanups, moved, loops>>
    BY <1>8 DEF Use, Push, Straight
  <2> QED  BY <1>6, <2>1
<1>9. ASSUME NEW y \in DOMAIN visible, CallDirect(y)
      PROVE  Scopes' /\ UNCHANGED <<control, loops>> /\ Len(cleanups') = Len(cleanups)
  <2>1. /\ UNCHANGED <<control, label, kind, visible, loops>> /\ moved' = moved \cup {y}
        /\ cleanups' = cancel_cleanup(cleanups, y)
    BY <1>9 DEF CallDirect, Straight
  <2> QED  BY <1>6, <2>1
<1>10. ASSUME NEW y \in DOMAIN visible, NEW lambda, CallIndirect(y, lambda)
       PROVE  Scopes' /\ UNCHANGED <<control, loops>> /\ Len(cleanups') = Len(cleanups)
  <2>1. /\ UNCHANGED <<control, label, kind, visible, loops, cleanups>>
        /\ moved' = moved \cup {y}
    BY <1>10 DEF CallIndirect, Straight
  <2> QED  BY <1>6, <2>1
<1>11. ASSUME NEW t \in DOMAIN visible, AssignFresh(t)
       PROVE  Scopes' /\ UNCHANGED <<control, loops>> /\ Len(cleanups') = Len(cleanups)
  <2>1. /\ UNCHANGED <<control, label, kind, visible, loops>> /\ cleanups' = Replace(t)
        /\ moved' = moved \ {t} /\ Assignable(t)
    BY <1>11 DEF AssignFresh, Straight
  <2> QED  BY <1>7, <2>1
<1>12. ASSUME NEW t \in DOMAIN visible, NEW y \in DOMAIN visible, AssignFrom(t, y)
       PROVE  Scopes' /\ UNCHANGED <<control, loops>> /\ Len(cleanups') = Len(cleanups)
  <2>1. /\ UNCHANGED <<control, label, kind, visible, loops>>
        /\ cleanups' = Replace(t) \/ cleanups' = cancel_cleanup(Replace(t), y)
        /\ moved' = (moved \ {t}) \cup {y} /\ Assignable(t)
    BY <1>12 DEF AssignFrom, Straight
  <2> QED  BY <1>7, <2>1
<1>13. ASSUME NEW y \in DOMAIN visible, ReturnVar(y)
       PROVE  Scopes' /\ UNCHANGED <<control, loops>> /\ Len(cleanups') = Len(cleanups)
  <2>1. /\ UNCHANGED <<control, label, kind, visible, loops, moved>>
        /\ \/ cleanups' = CancelFrom(cleanups, 1)
           \/ cleanups' = CancelFrom(cancel_cleanup(cleanups, y), 1)
    BY <1>13 DEF ReturnVar
  <2> QED  BY <1>6, <2>1
<1>14. ASSUME ReturnFresh
       PROVE  Scopes' /\ UNCHANGED <<control, loops>> /\ Len(cleanups') = Len(cleanups)
  <2>1. /\ UNCHANGED <<control, label, kind, visible, loops, moved>>
        /\ cleanups' = CancelFrom(cleanups, 1)
    BY <1>14 DEF ReturnFresh
  <2>2. Len(cleanups') = Len(cleanups) /\ Placed(cleanups', visible, kind)  BY <1>5, <2>1
  <2>3. moved' \subseteq DOMAIN visible
        /\ \A i \in Branches : moved' \cap control[i].moved = control[i].moved
    BY <1>2, <1>4, <2>1
  <2> QED  BY <2>1, <2>2, <2>3, ScopesStatement
<1> QED  BY <1>8, <1>9, <1>10, <1>11, <1>12, <1>13, <1>14

----------------------------------------------------------------------------
(* The scopes behind the constructs' ends.                                 *)
LEMMA PlacedInside ==
    ASSUME NEW c, NEW vis, NEW knd, Placed(c, vis, knd), NEW t, NEW mv, NEW e,
           Around(t, vis, mv, knd, e), DOMAIN c \subseteq 1..t.env,
           NEW vis2, DOMAIN vis2 = DOMAIN t.visible,
           \A s \in DOMAIN vis2 : vis2[s] = t.visible[s]
    PROVE  Placed(c, vis2, knd)
<1>1. ASSUME NEW k \in DOMAIN c, NEW i \in DOMAIN c[k]
      PROVE  /\ c[k][i].slot \in DOMAIN vis2
             /\ vis2[c[k][i].slot] = k
             /\ knd[c[k][i].slot] # "str"
  <2>1. PICK s : s = c[k][i].slot  OBVIOUS
  <2>2. s \in DOMAIN vis /\ vis[s] = k /\ knd[s] # "str"  BY <2>1 DEF Placed
  <2>3. k \in 1..t.env /\ t.env \in Nat  BY DEF Around
  <2>4. ~(k > t.env)  BY <2>3
  <2>5. s \in DOMAIN t.visible  BY <2>2, <2>4 DEF Around
  <2> QED  BY <2>1, <2>2, <2>5 DEF Around
<1> QED  BY <1>1 DEF Placed

LEMMA LabelsMore ==
    ASSUME NEW q, IsSeq(q), NEW a, NEW b, NEW c
    PROVE  /\ IsSeq(q \o <<a, b, c>>) /\ Len(q) \in Nat /\ DOMAIN q = 1..Len(q)
           /\ Len(q \o <<a, b, c>>) = Len(q) + 3
           /\ DOMAIN (q \o <<a, b, c>>) = 1..(Len(q) + 3)
           /\ \A i \in 1..Len(q) : (q \o <<a, b, c>>)[i] = q[i]
           /\ (q \o <<a, b, c>>)[Len(q) + 1] = a
           /\ (q \o <<a, b, c>>)[Len(q) + 2] = b
           /\ (q \o <<a, b, c>>)[Len(q) + 3] = c
<1>1. PICK S : q \in Seq(S)  BY DEF IsSeq
<1>2. PICK T : T = S \cup {a, b, c}  OBVIOUS
<1>3. PICK r : r = <<a, b, c>>  OBVIOUS
<1>4. q \in Seq(T) /\ r \in Seq(T) /\ Len(r) = 3 /\ r[1] = a /\ r[2] = b /\ r[3] = c
  BY <1>1, <1>2, <1>3
<1>5. PICK w : w = q \o r  OBVIOUS
<1>a. PICK n : n = Len(q)  OBVIOUS
<1>b. n \in Nat  BY <1>4, <1>a
<1>e. /\ q \o r \in Seq(T) /\ Len(q \o r) = Len(q) + Len(r)
      /\ \A i \in 1..Len(q) + Len(r) :
            (q \o r)[i] = IF i <= Len(q) THEN q[i] ELSE r[i - Len(q)]
  <2>1. q \in Seq(T) /\ r \in Seq(T)  BY <1>4
  <2> QED  BY <2>1, ConcatProperties
<1>c. w \in Seq(T) /\ Len(w) = n + 3  BY <1>4, <1>5, <1>a, <1>e
<1>6. w \in Seq(T) /\ Len(w) = Len(q) + 3 /\ Len(q) \in Nat  BY <1>a, <1>b, <1>c
<1>7. \A i \in 1..Len(q) : w[i] = q[i]  BY <1>4, <1>5
<1>d. ASSUME NEW i \in 1..3 PROVE w[n + i] = r[i]
  <2>1. n + i \in 1..(n + 3) /\ n + i > n /\ n + i - n = i  BY <1>b
  <2>2. n + i \in 1..Len(q) + Len(r) /\ ~(n + i <= n)  BY <1>4, <1>a, <1>b, <2>1
  <2>3. (q \o r)[n + i] = r[n + i - Len(q)]  BY <1>a, <1>e, <2>2
  <2> QED  BY <1>5, <1>a, <2>1, <2>3
<1>8. \A i \in 1..3 : w[Len(q) + i] = r[i]  BY <1>a, <1>d
<1>9. 1 \in 1..3 /\ 2 \in 1..3 /\ 3 \in 1..3  OBVIOUS
<1>10. w[Len(q) + 1] = a /\ w[Len(q) + 2] = b /\ w[Len(q) + 3] = c  BY <1>4, <1>8, <1>9
<1>11. DOMAIN w = 1..(Len(q) + 3) /\ DOMAIN q = 1..Len(q)  BY <1>4, <1>6
<1> QED  BY <1>3, <1>5, <1>6, <1>7, <1>10, <1>11 DEF IsSeq

LEMMA SeqExcept ==
    ASSUME NEW q, IsSeq(q), NEW i, NEW v
    PROVE  /\ IsSeq([q EXCEPT ![i] = v]) /\ Len([q EXCEPT ![i] = v]) = Len(q)
           /\ Len(q) \in Nat /\ DOMAIN q = 1..Len(q)
           /\ i \in 1..Len(q) => [q EXCEPT ![i] = v][i] = v
           /\ \A j \in 1..Len(q) : j # i => [q EXCEPT ![i] = v][j] = q[j]
<1>1. PICK S : q \in Seq(S)  BY DEF IsSeq
<1>2. PICK T : T = S \cup {v}  OBVIOUS
<1>3. q \in Seq(T) /\ v \in T /\ DOMAIN q = 1..Len(q) /\ Len(q) \in Nat  BY <1>1, <1>2
<1>4. PICK r : r = [q EXCEPT ![i] = v]  OBVIOUS
<1>5. r \in Seq(T) /\ Len(r) = Len(q)
  <2>1. CASE i \in DOMAIN q
    <3>1. q \in Seq(T) /\ i \in 1..Len(q) /\ v \in T  BY <1>3, <2>1
    <3> QED  BY <1>4, <3>1, ExceptSeq
  <2>2. CASE i \notin DOMAIN q
    <3>1. r = q  BY <1>3, <1>4, <2>2
    <3> QED  BY <1>3, <3>1
  <2> QED  BY <2>1, <2>2
<1>6. i \in 1..Len(q) => r[i] = v  BY <1>3, <1>4
<1>7. \A j \in 1..Len(q) : j # i => r[j] = q[j]  BY <1>3, <1>4
<1> QED  BY <1>3, <1>4, <1>5, <1>6, <1>7 DEF IsSeq

(* The innermost construct.                                                *)
LEMMA Innermost1 ==
    ASSUME Scopes, control # <<>>
    PROVE  /\ Len(control) \in Nat /\ Len(control) # 0 /\ Len(control) \in 1..Len(control)
           /\ DOMAIN control = 1..Len(control)
           /\ Around(Top, visible, moved, kind, Env) /\ Labelled(Top, Len(label))
           /\ EnvIn(Top) = Env /\ Env \in Nat
           /\ \A i \in 1..Len(control) : i # Len(control) => Pair(control[i], Top)
<1>1. Nested(control, Env) /\ Env \in Nat  BY DEF Scopes
<1>2. /\ Len(control) \in Nat /\ Len(control) # 0 /\ DOMAIN control = 1..Len(control)
      /\ Len(control) \in 1..Len(control)
  BY <1>1, FrontSeq DEF Nested
<1>3. Around(Top, visible, moved, kind, Env) /\ Labelled(Top, Len(label))
  BY <1>2 DEF Scopes, Top
<1>4. EnvIn(Top) = Env  BY <1>1, <1>2 DEF Nested, Top
<1>5. ASSUME NEW i \in 1..Len(control), i # Len(control) PROVE Pair(control[i], Top)
  <2>1. PICK m : m = Len(control)  OBVIOUS
  <2>2. m \in Nat /\ i \in 1..m /\ i # m  BY <1>2, <1>5, <2>1
  <2>3. i < m  BY <2>2
  <2> QED  BY <1>1, <1>2, <2>1, <2>3 DEF Nested, Top
<1> QED  BY <1>1, <1>2, <1>3, <1>4, <1>5

LEMMA ScopesOpen ==
    ASSUME Inv, Scopes, OpenBlock \/ OpenIf \/ OpenLoop
    PROVE  Scopes'
<1>1. PICK n, l : n = Len(kind) /\ l = Len(label)  OBVIOUS
<1>2. /\ n \in Nat /\ cleanups \in Lists(n) /\ IsSeq(label) /\ l \in Nat
      /\ Placed(cleanups, visible, kind)
  BY <1>1 DEF Inv, Scopes, IsSeq
<1>3. UNCHANGED <<visible, moved, kind>>  BY DEF OpenBlock, OpenIf, OpenLoop, Opens
<1>4. ASSUME NEW k, NEW o, NEW e PROVE
        LET c == Construct(k, o, e) IN
        /\ c.kind = k /\ c.other = o /\ c.end = e /\ c.env = Env /\ c.visible = visible
        /\ c.moved = moved /\ c.ends = {} /\ c.saved = lookup_loop
        /\ k \in {"block", "then", "loop"} => IsConstruct(c)
        /\ EnvIn(c) = IF k = "block" THEN Env + 1 ELSE Env
  BY DEF Construct, IsConstruct, EnvIn
<1>5. CASE OpenBlock
  <2>1. PICK c : c = Construct("block", 0, 0)  OBVIOUS
  <2>2. /\ control' = Append(control, c) /\ label' = label
        /\ cleanups' = Append(cleanups, <<>>)
    BY <1>5, <2>1 DEF OpenBlock, Opens
  <2>3. /\ c.kind = "block" /\ c.env = Env /\ c.visible = visible /\ c.moved = moved
        /\ c.ends = {} /\ IsConstruct(c) /\ EnvIn(c) = Env + 1
    BY <1>4, <2>1
  <2>4. Env' = EnvIn(c) /\ Placed(cleanups', visible, kind)
    BY <1>2, <2>2, <2>3, EnterDue DEF Env
  <2>5. Labelled(c, Len(label'))  BY <2>3 DEF Labelled
  <2>6. Len(label) <= Len(label')  BY <1>1, <1>2, <2>2
  <2>7. IsSeq(label')  BY <1>2, <2>2
  <2>8. c.kind # "block" => c.other > Len(label)  BY <2>3
  <2> QED  BY <1>3, <2>2, <2>3, <2>4, <2>5, <2>6, <2>7, <2>8, ScopesPush
<1>6. CASE OpenIf
  <2>1. PICK c : c = Construct("then", l + 2, l + 3)  OBVIOUS
  <2>2. /\ control' = Append(control, c) /\ cleanups' = cleanups
        /\ label' = label \o <<Len(code) + 2, 0, 0>>
    BY <1>1, <1>6, <2>1 DEF OpenIf, Opens
  <2>3. /\ c.kind = "then" /\ c.env = Env /\ c.visible = visible /\ c.moved = moved
        /\ c.ends = {} /\ IsConstruct(c) /\ EnvIn(c) = Env /\ c.other = l + 2 /\ c.end = l + 3
    BY <1>4, <2>1
  <2>4. Env' = EnvIn(c) /\ Placed(cleanups', visible, kind)
    BY <1>2, <2>2, <2>3 DEF Env
  <2>5. IsSeq(label') /\ Len(label') = l + 3  BY <1>1, <1>2, <2>2, LabelsMore
  <2>6. Labelled(c, Len(label')) /\ Len(label) <= Len(label') /\ c.other > Len(label)
    BY <1>1, <1>2, <2>3, <2>5 DEF Labelled
  <2> QED  BY <1>3, <2>2, <2>3, <2>4, <2>5, <2>6, ScopesPush
<1>7. CASE OpenLoop
  <2>1. PICK c : c = Construct("loop", l + 1, l + 3)  OBVIOUS
  <2>2. /\ control' = Append(control, c) /\ cleanups' = cleanups
        /\ label' = label \o <<Len(code) + 1, Len(code) + 2, 0>>
    BY <1>1, <1>7, <2>1 DEF OpenLoop, Opens
  <2>3. /\ c.kind = "loop" /\ c.env = Env /\ c.visible = visible /\ c.moved = moved
        /\ c.ends = {} /\ IsConstruct(c) /\ EnvIn(c) = Env /\ c.other = l + 1 /\ c.end = l + 3
    BY <1>4, <2>1
  <2>4. Env' = EnvIn(c) /\ Placed(cleanups', visible, kind)
    BY <1>2, <2>2, <2>3 DEF Env
  <2>5. IsSeq(label') /\ Len(label') = l + 3  BY <1>1, <1>2, <2>2, LabelsMore
  <2>6. Labelled(c, Len(label')) /\ Len(label) <= Len(label') /\ c.other > Len(label)
    BY <1>1, <1>2, <2>3, <2>5 DEF Labelled
  <2> QED  BY <1>3, <2>2, <2>3, <2>4, <2>5, <2>6, ScopesPush
<1> QED  BY <1>5, <1>6, <1>7

(* What is moved where the paths of a construct come together.             *)
LEMMA Joined ==
    ASSUME Scopes, control # <<>>, Top.kind # "block", NEW P,
           P \subseteq Top.ends \cup PathEnd(Top) \cup {Top.moved}, Join(Top, P)
    PROVE  /\ Top.moved \subseteq moved' /\ moved' \subseteq DOMAIN Top.visible
           /\ P # {} => moved' = UNION P
           /\ control' = Front(control) /\ visible' = Top.visible /\ terminated' = FALSE
<1>1. PICK t : t = Top  OBVIOUS
<1>2. Around(t, visible, moved, kind, Env)  BY <1>1, Innermost1
<1>3. ASSUME NEW M \in P PROVE t.moved \subseteq M /\ M \subseteq DOMAIN t.visible
  <2>1. M \in t.ends \/ M \in PathEnd(t) \/ M = t.moved  BY <1>1
  <2>2. CASE M \in t.ends  BY <1>1, <1>2, <2>2 DEF Around
  <2>3. CASE M \in PathEnd(t)
    <3>1. M = moved \cap DOMAIN t.visible  BY <2>3 DEF PathEnd, InScope
    <3> QED  BY <1>1, <1>2, <3>1 DEF Around
  <2>4. CASE M = t.moved  BY <1>2, <2>4 DEF Around
  <2> QED  BY <2>1, <2>2, <2>3, <2>4
<1>4. moved' = (IF P = {} THEN t.moved ELSE UNION P)  BY <1>1 DEF Join
<1>5. t.moved \subseteq DOMAIN t.visible  BY <1>2 DEF Around
<1>6. CASE P = {}  BY <1>1, <1>4, <1>5, <1>6 DEF Join
<1>7. CASE P # {}
  <2>1. PICK M \in P : TRUE  BY <1>7
  <2>2. moved' = UNION P  BY <1>4, <1>7
  <2>3. t.moved \subseteq moved' /\ moved' \subseteq DOMAIN t.visible
    BY <1>3, <2>1, <2>2
  <2> QED  BY <1>1, <2>2, <2>3 DEF Join
<1> QED  BY <1>6, <1>7

LEMMA ScopesClose ==
    ASSUME Inv, Scopes, CloseBlock \/ EndIf \/ CloseLoop
    PROVE  Scopes'
<1>1. control # <<>> /\ UNCHANGED kind  BY DEF CloseBlock, EndIf, CloseLoop, Closes
<1>2. PICK n, t : n = Len(kind) /\ t = Top  OBVIOUS
<1>3. /\ Around(t, visible, moved, kind, Env) /\ Labelled(t, Len(label))
      /\ EnvIn(t) = Env /\ Env \in Nat
  BY <1>1, <1>2, Innermost1
<1>4. /\ n \in Nat /\ cleanups \in Lists(n) /\ IsSeq(label)
      /\ Placed(cleanups, visible, kind) /\ Len(cleanups) = Env /\ Env # 0
  BY <1>2 DEF Inv, Scopes, Env
<1>5. CASE CloseBlock
  <2>1. /\ t.kind = "block" /\ cleanups' = LeaveEnv(cleanups) /\ visible' = t.visible
        /\ moved' = InScope(t, moved) /\ control' = Front(control) /\ label' = label
    BY <1>2, <1>5 DEF CloseBlock
  <2>2. cleanups # <<>>  BY <1>4
  <2>3. Placed(cleanups', visible, kind) /\ Len(cleanups') = Env - 1
    BY <1>4, <2>1, <2>2, LeaveDue
  <2>4. t.env = Env - 1 /\ t.env \in Nat  BY <1>3, <2>1 DEF EnvIn, Around
  <2>5. Env' = t.env  BY <2>3, <2>4 DEF Env
  <2>6. DOMAIN cleanups' \subseteq 1..t.env
    <3>1. cleanups' \in Lists(n)
      <4>1. Good(cleanups, n)  BY <1>2 DEF Inv, Good
      <4> QED  BY <1>4, <2>1, <4>1, LeaveLists DEF Good
    <3> QED  BY <2>3, <2>4, <3>1 DEF Lists
  <2>7. Placed(cleanups', visible', kind)
    BY <1>3, <2>1, <2>3, <2>6, PlacedInside
  <2>8. moved' = moved \cap DOMAIN t.visible  BY <2>1 DEF InScope
  <2>9. /\ DOMAIN visible' = DOMAIN Top.visible
        /\ \A s \in DOMAIN visible' : visible'[s] = Top.visible[s]
        /\ moved' \subseteq DOMAIN Top.visible
        /\ moved \cap DOMAIN Top.visible \subseteq moved'
        /\ Env' = Top.env
    BY <1>2, <2>1, <2>5, <2>8
  <2>10. IsSeq(label') /\ Len(label') = Len(label) /\ control' = Front(control)
    BY <1>4, <2>1
  <2> QED  BY <1>1, <2>7, <2>9, <2>10, ScopesPop
<1>6. ASSUME t.kind # "block", NEW P, P \subseteq Top.ends \cup PathEnd(Top) \cup {Top.moved},
             Join(Top, P), UNCHANGED cleanups, IsSeq(label'), Len(label') = Len(label)
      PROVE  Scopes'
  <2>1. /\ Top.moved \subseteq moved' /\ moved' \subseteq DOMAIN Top.visible
        /\ control' = Front(control) /\ visible' = Top.visible
    BY <1>1, <1>2, <1>6, Joined
  <2>2. t.env = Env /\ Env' = Env  BY <1>3, <1>6 DEF EnvIn, Env
  <2>3. DOMAIN cleanups' \subseteq 1..t.env  BY <1>4, <1>6, <2>2 DEF Lists
  <2>4. Placed(cleanups', visible', kind)
    BY <1>2, <1>3, <1>4, <1>6, <2>1, <2>3, PlacedInside
  <2>5. /\ DOMAIN visible' = DOMAIN Top.visible
        /\ \A s \in DOMAIN visible' : visible'[s] = Top.visible[s]
        /\ Env' = Top.env /\ Top.kind # "block"
    BY <1>2, <1>6, <2>1, <2>2
  <2> QED  BY <1>1, <1>6, <2>1, <2>4, <2>5, ScopesPop
<1>7. CASE EndIf
  <2>1. PICK P : P = Top.ends \cup PathEnd(Top)
                       \cup (IF Top.kind = "then" THEN {Top.moved} ELSE {})
    OBVIOUS
  <2>2. PICK a, b : label' = [[label EXCEPT ![Top.end] = a] EXCEPT ![Top.other] = b]
    BY <1>7 DEF EndIf
  <2>3. /\ Top.kind \in {"then", "else"} /\ Join(Top, P) /\ UNCHANGED cleanups
    BY <1>7, <2>1 DEF EndIf
  <2>4. PICK lb : lb = [label EXCEPT ![Top.end] = a]  OBVIOUS
  <2>5. IsSeq(lb) /\ Len(lb) = Len(label)  BY <1>4, <2>4, SeqExcept
  <2>6. IsSeq(label') /\ Len(label') = Len(label)
    <3>1. label' = [lb EXCEPT ![Top.other] = b]  BY <2>2, <2>4
    <3>2. IsSeq([lb EXCEPT ![Top.other] = b]) /\ Len([lb EXCEPT ![Top.other] = b]) = Len(lb)
      BY <2>5, SeqExcept
    <3> QED  BY <2>5, <3>1, <3>2
  <2>7. P \subseteq Top.ends \cup PathEnd(Top) \cup {Top.moved}  BY <2>1
  <2>8. t.kind # "block"  BY <1>2, <2>3
  <2> QED  BY <1>6, <2>3, <2>6, <2>7, <2>8
<1>8. CASE CloseLoop
  <2>1. PICK P : P = Top.ends \cup {Top.moved}  OBVIOUS
  <2>2. PICK a : label' = [label EXCEPT ![Top.end] = a]
    BY <1>8 DEF CloseLoop
  <2>3. /\ Top.kind = "loop" /\ Join(Top, P) /\ UNCHANGED cleanups
    BY <1>8, <2>1 DEF CloseLoop
  <2>4. IsSeq(label') /\ Len(label') = Len(label)  BY <1>4, <2>2, SeqExcept
  <2>5. P \subseteq Top.ends \cup PathEnd(Top) \cup {Top.moved}  BY <2>1
  <2>6. t.kind # "block"  BY <1>2, <2>3
  <2> QED  BY <1>6, <2>3, <2>4, <2>5, <2>6
<1> QED  BY <1>5, <1>7, <1>8

(* A break: the loop has one end more.                                     *)
LEMMA BreakShape ==
    ASSUME Scopes, NEW i \in Innermost(Loops),
           control' = [control EXCEPT ![i].ends = @ \cup {InScope(control[i], moved)}]
    PROVE  /\ i \in 1..Len(control) /\ control[i].kind = "loop" /\ i \in Branches
           /\ \A j \in 1..Len(control) : j > i => control[j].kind # "loop"
           /\ IsSeq(control') /\ Len(control') = Len(control)
           /\ \A j \in 1..Len(control) : j # i => control'[j] = control[j]
           /\ control'[i] = [control[i] EXCEPT !.ends =
                                control[i].ends \cup {moved \cap DOMAIN control[i].visible}]
<1>1. PICK m : m = Len(control)  OBVIOUS
<1>2. IsSeq(control) /\ m \in Nat /\ DOMAIN control = 1..m
  BY <1>1 DEF Scopes, Nested, IsSeq
<1>3. i \in 1..m /\ control[i].kind = "loop" /\ i \in Branches
      /\ \A j \in 1..m : control[j].kind = "loop" => j <= i
  BY <1>2 DEF Innermost, Loops, Branches
<1>4. PICK d : d = [control[i] EXCEPT !.ends = @ \cup {InScope(control[i], moved)}]  OBVIOUS
<1>5. control' = [control EXCEPT ![i] = d]  BY <1>4
<1>6. /\ IsSeq(control') /\ Len(control') = m /\ control'[i] = d
      /\ \A j \in 1..m : j # i => control'[j] = control[j]
  <2>1. i \in 1..Len(control)  BY <1>1, <1>3
  <2>2. LET q == [control EXCEPT ![i] = d] IN
        /\ IsSeq(q) /\ Len(q) = Len(control) /\ q[i] = d
        /\ \A j \in 1..Len(control) : j # i => q[j] = control[j]
    BY <1>2, <2>1, SeqExcept
  <2> QED  BY <1>1, <1>5, <2>2
<1>7. \A j \in 1..m : j > i => control[j].kind # "loop"  BY <1>2, <1>3
<1>8. d = [control[i] EXCEPT !.ends =
              control[i].ends \cup {moved \cap DOMAIN control[i].visible}]
  BY <1>4 DEF InScope
<1> QED  BY <1>1, <1>3, <1>6, <1>7, <1>8

LEMMA ScopesLeave ==
    ASSUME Inv, Scopes, Else \/ Break \/ Continue
    PROVE  Scopes'
<1>1. PICK n : n = Len(kind)  OBVIOUS
<1>2. /\ n \in Nat /\ cleanups \in Lists(n) /\ IsSeq(label) /\ IsSeq(control)
      /\ Placed(cleanups, visible, kind)
  BY <1>1 DEF Inv, Scopes, Nested
<1>3. CASE Else
  <2>1. PICK a : label' = [label EXCEPT ![Top.other] = a]  BY <1>3 DEF Else
  <2>2. IsSeq(label') /\ Len(label') = Len(label)  BY <1>2, <2>1, SeqExcept
  <2>3. /\ control # <<>> /\ Top.kind = "then"
        /\ control' = [control EXCEPT ![Len(control)].kind = "else",
                                      ![Len(control)].ends = PathEnd(Top)]
        /\ visible' = Top.visible /\ moved' = Top.moved /\ UNCHANGED <<kind, cleanups>>
    BY <1>3 DEF Else, Closes
  <2> QED  BY <2>2, <2>3, ScopesElse
<1>4. ASSUME NEW to, LeavesIteration(to)
      PROVE  /\ UNCHANGED <<kind, loops, label, visible, moved>>
             /\ Placed(cleanups', visible, kind) /\ Len(cleanups') = Len(cleanups)
  <2>1. /\ UNCHANGED <<kind, loops, label, visible, moved>>
        /\ \E k : cleanups' = CancelFrom(cleanups, k)
    BY <1>4 DEF LeavesIteration
  <2> QED  BY <1>2, <2>1, CancelKeeps
<1>5. CASE Break
  <2>1. PICK i \in Innermost(Loops) :
            control' = [control EXCEPT ![i].ends = @ \cup {InScope(control[i], moved)}]
    BY <1>5 DEF Break
  <2>2. /\ UNCHANGED <<kind, label, visible, moved>>
        /\ Placed(cleanups', visible, kind) /\ Len(cleanups') = Len(cleanups)
    BY <1>4, <1>5 DEF Break
  <2>3. PICK d : d = control'[i]  OBVIOUS
  <2>4. /\ i \in 1..Len(control) /\ control[i].kind = "loop"
        /\ IsSeq(control') /\ Len(control') = Len(control)
        /\ \A j \in 1..Len(control) : j # i => control'[j] = control[j]
        /\ d = [control[i] EXCEPT !.ends =
                    control[i].ends \cup {moved \cap DOMAIN control[i].visible}]
    BY <2>1, <2>3, BreakShape
  <2>5. ASSUME NEW j \in 1..Len(control)
        PROVE  /\ control'[j] = [control[j] EXCEPT !.ends = control'[j].ends]
               /\ control[j].kind # "block" =>
                    /\ control[j].moved \subseteq moved'
                    /\ \A M \in control'[j].ends :
                          control[j].moved \subseteq M /\ M \subseteq DOMAIN control[j].visible
               /\ \A s \in DOMAIN visible' \ DOMAIN visible :
                          kind'[s] # "str" => visible'[s] > control[j].env
    <3>1. PICK c : c = control[j]  OBVIOUS
    <3>2. Around(c, visible, moved, kind, Env)  BY <3>1 DEF Scopes
    <3>3. c = [c EXCEPT !.ends = c.ends]  BY <3>2 DEF Around, IsConstruct
    <3>4. CASE j # i  BY <2>2, <2>4, <3>1, <3>2, <3>3, <3>4 DEF Around
    <3>5. CASE j = i
      <4>1. d.ends = c.ends \cup {moved \cap DOMAIN c.visible} /\ d = [c EXCEPT !.ends = d.ends]
        BY <2>4, <3>1, <3>2, <3>5 DEF Around, IsConstruct
      <4>2. c.kind # "block" /\ c.moved \subseteq moved /\ c.moved \subseteq DOMAIN c.visible
        BY <2>4, <3>1, <3>2, <3>5 DEF Around
      <4>3. \A M \in d.ends : c.moved \subseteq M /\ M \subseteq DOMAIN c.visible
        BY <3>2, <4>1, <4>2 DEF Around
      <4> QED  BY <2>2, <2>3, <3>1, <3>5, <4>1, <4>2, <4>3
    <3> QED  BY <3>4, <3>5
  <2>6. Names(visible', Env) /\ moved' \subseteq DOMAIN visible'
        /\ DOMAIN visible \subseteq DOMAIN visible'
    BY <2>2 DEF Scopes
  <2>7. \A s \in DOMAIN visible : visible'[s] = visible[s] /\ kind'[s] = kind[s]  BY <2>2
  <2>8. label' = label /\ Placed(cleanups', visible', kind')  BY <2>2
  <2>9. IsSeq(control') /\ Len(control') = Len(control) /\ Len(cleanups') = Len(cleanups)
    BY <2>2, <2>4
  <2> QED  BY <2>5, <2>6, <2>7, <2>8, <2>9, ScopesMore
<1>6. CASE Continue
  <2>1. /\ UNCHANGED <<kind, label, visible, moved, control>>
        /\ Placed(cleanups', visible, kind) /\ Len(cleanups') = Len(cleanups)
    BY <1>4, <1>6 DEF Continue
  <2>2. moved' \subseteq DOMAIN visible  BY <2>1 DEF Scopes
  <2>3. \A i \in Branches : moved' \cap control[i].moved = control[i].moved
    <3>1. \A i \in Branches : i \in 1..Len(control) /\ control[i].kind # "block"
      BY <1>2 DEF Branches, IsSeq
    <3> QED  BY <2>1, <3>1 DEF Scopes, Around
  <2> QED  BY <2>1, <2>2, <2>3, ScopesStatement
<1> QED  BY <1>3, <1>5, <1>6

LEMMA ScopesStep ==
    ASSUME Inv, Scopes, Careful, Compile, ~EndFunction
    PROVE  Scopes'
BY ScopesLet, ScopesPlain, ScopesOpen, ScopesClose, ScopesLeave DEF Compile

----------------------------------------------------------------------------
(* The jumps out of loops.  l[1..e] find the loop_info i.                  *)
Finds(l, e, i) ==
    \/ i = NoLoop /\ \A k \in 1..e : l[k] = NoLoop
    \/ \E k \in 1..e : /\ l[k] = i /\ i # NoLoop
                       /\ \A j \in 1..e : j > k => l[j] = NoLoop

(* i is that of the innermost loop of the constructs 1..m.                 *)
TargetOf(ctl, m, i) ==
    \/ i = NoLoop /\ \A k \in 1..m : ctl[k].kind # "loop"
    \/ \E k \in 1..m : /\ ctl[k].kind = "loop"
                       /\ i = [cond |-> ctl[k].other, exit |-> ctl[k].end]
                       /\ \A j \in 1..m : j > k => ctl[j].kind # "loop"

Restores(ctl, l, j) ==
    /\ TargetOf(ctl, j - 1, ctl[j].saved)
    /\ ctl[j].kind = "block" => Finds(l, ctl[j].env, ctl[j].saved)
    /\ ctl[j].kind = "loop" =>
         /\ l[ctl[j].env] # NoLoop
         /\ ctl[j].saved = NoLoop => \A k \in 1..(ctl[j].env - 1) : l[k] = NoLoop

Targets ==
    /\ IsSeq(loops) /\ Len(loops) = Len(cleanups)
    /\ \E i : Finds(loops, Env, i) /\ TargetOf(control, Len(control), i)
    /\ \A j \in 1..Len(control) : Restores(control, loops, j)

LEMMA Lookup ==
    ASSUME IsSeq(loops), NEW i, Finds(loops, Len(loops), i)
    PROVE  lookup_loop = i
<1>1. PICK n : n = Len(loops)  OBVIOUS
<1>2. n \in Nat /\ DOMAIN loops = 1..n  BY <1>1 DEF IsSeq
<1>3. LoopEnvs = {k \in 1..n : loops[k] # NoLoop}  BY <1>2 DEF LoopEnvs
<1>4. CASE \A k \in 1..n : loops[k] = NoLoop
  <2>1. LoopEnvs = {}  BY <1>3, <1>4
  <2>2. i = NoLoop  BY <1>1, <1>4 DEF Finds
  <2> QED  BY <2>1, <2>2 DEF lookup_loop
<1>5. CASE ~\A k \in 1..n : loops[k] = NoLoop
  <2>1. PICK k \in 1..n : /\ loops[k] = i /\ i # NoLoop
                          /\ \A j \in 1..n : j > k => loops[j] = NoLoop
    BY <1>1, <1>5 DEF Finds
  <2>2. k \in LoopEnvs  BY <1>3, <2>1
  <2>3. \A j \in LoopEnvs : j <= k  BY <1>2, <1>3, <2>1
  <2>4. Innermost(LoopEnvs) = {k}
    <3>1. \A j \in Innermost(LoopEnvs) : j = k
      BY <1>2, <1>3, <2>2, <2>3 DEF Innermost
    <3>2. k \in Innermost(LoopEnvs)  BY <2>2, <2>3 DEF Innermost
    <3> QED  BY <3>1, <3>2
  <2>5. (CHOOSE e \in Innermost(LoopEnvs) : TRUE) = k  BY <2>4
  <2> QED  BY <2>1, <2>2, <2>5 DEF lookup_loop
<1> QED  BY <1>4, <1>5

LEMMA TargetSame ==
    ASSUME NEW ctl, NEW ctl2, NEW m,
           \A k \in 1..m : /\ ctl2[k].kind = "loop" <=> ctl[k].kind = "loop"
                           /\ ctl2[k].other = ctl[k].other /\ ctl2[k].end = ctl[k].end,
           NEW i, TargetOf(ctl, m, i)
    PROVE  TargetOf(ctl2, m, i)
BY DEF TargetOf

LEMMA TargetsSame ==
    ASSUME Targets, Scopes, UNCHANGED loops, Len(cleanups') = Len(cleanups),
           Len(control') = Len(control),
           \A j \in 1..Len(control) :
                /\ control'[j].kind = "loop" <=> control[j].kind = "loop"
                /\ control'[j].kind = "block" <=> control[j].kind = "block"
                /\ control'[j].other = control[j].other /\ control'[j].end = control[j].end
                /\ control'[j].saved = control[j].saved /\ control'[j].env = control[j].env
    PROVE  Targets'
<1>1. PICK m : m = Len(control)  OBVIOUS
<1>2. m \in Nat  BY <1>1 DEF Scopes, Nested, IsSeq
<1>3. PICK i : Finds(loops, Env, i) /\ TargetOf(control, m, i)  BY <1>1 DEF Targets
<1>4. TargetOf(control', m, i)  BY <1>1, <1>3, TargetSame
<1>5. Env' = Env  BY DEF Env
<1>6. ASSUME NEW j \in 1..m PROVE Restores(control', loops, j)
  <2>1. Restores(control, loops, j)  BY <1>1 DEF Targets
  <2>2. \A k \in 1..(j - 1) : k \in 1..m  BY <1>2
  <2>3. TargetOf(control, j - 1, control[j].saved)  BY <2>1 DEF Restores
  <2>4. TargetOf(control', j - 1, control[j].saved)  BY <1>1, <2>2, <2>3, TargetSame
  <2> QED  BY <1>1, <2>1, <2>4 DEF Restores
<1> QED  BY <1>1, <1>3, <1>4, <1>5, <1>6 DEF Targets

(* The loop_info of environments further out than e is as it was.          *)
LEMMA RestoresKept ==
    ASSUME NEW ctl, NEW l, NEW j \in Nat, Restores(ctl, l, j),
           NEW ctl2, \A k \in 1..j : ctl2[k] = ctl[k], j # 0,
           NEW e \in Nat, NEW l2,
           ctl[j].env \in Nat, ctl[j].env <= e, ctl[j].kind = "block" => ctl[j].env # e,
           \A k \in 1..e : k # e => l2[k] = l[k],
           ctl[j].kind = "loop" /\ ctl[j].env = e => l2[e] # NoLoop,
           ctl[j].env # 0
    PROVE  Restores(ctl2, l2, j)
<1>1. \A k \in 1..(j - 1) : k \in 1..j  OBVIOUS
<1>2. ctl2[j] = ctl[j]  OBVIOUS
<1>3. TargetOf(ctl2, j - 1, ctl2[j].saved)
  <2>1. TargetOf(ctl, j - 1, ctl[j].saved)  BY DEF Restores
  <2>2. TargetOf(ctl2, j - 1, ctl[j].saved)  BY <1>1, <2>1, TargetSame
  <2> QED  BY <1>2, <2>2
<1>4. PICK c : c = ctl[j]  OBVIOUS
<1>5. ASSUME c.kind = "block" PROVE Finds(l2, c.env, c.saved)
  <2>1. Finds(l, c.env, c.saved)  BY <1>4, <1>5 DEF Restores
  <2>2. \A k \in 1..c.env : l2[k] = l[k]  BY <1>4, <1>5
  <2> QED  BY <2>1, <2>2 DEF Finds
<1>6. ASSUME c.kind = "loop"
      PROVE  /\ l2[c.env] # NoLoop
             /\ c.saved = NoLoop => \A k \in 1..(c.env - 1) : l2[k] = NoLoop
  <2>1. l[c.env] # NoLoop /\ (c.saved = NoLoop => \A k \in 1..(c.env - 1) : l[k] = NoLoop)
    BY <1>4, <1>6 DEF Restores
  <2>2. c.env # e => l2[c.env] = l[c.env]  BY <1>4
  <2>3. \A k \in 1..(c.env - 1) : l2[k] = l[k]  BY <1>4
  <2> QED  BY <1>4, <1>6, <2>1, <2>2, <2>3
<1> QED  BY <1>2, <1>3, <1>4, <1>5, <1>6 DEF Restores

LEMMA TargetsLookup ==
    ASSUME Targets
    PROVE  Finds(loops, Env, lookup_loop) /\ TargetOf(control, Len(control), lookup_loop)
<1>1. PICK i : Finds(loops, Env, i) /\ TargetOf(control, Len(control), i)  BY DEF Targets
<1>2. lookup_loop = i  BY <1>1, Lookup DEF Targets, Env
<1> QED  BY <1>1, <1>2

LEMMA TargetsOpen ==
    ASSUME Scopes, Targets, OpenBlock \/ OpenIf \/ OpenLoop
    PROVE  Targets'
<1>1. PICK m, l, e : m = Len(control) /\ l = Len(label) /\ e = Len(cleanups)  OBVIOUS
<1>2. /\ m \in Nat /\ l \in Nat /\ e \in Nat /\ e # 0 /\ Env = e
      /\ IsSeq(loops) /\ Len(loops) = e /\ IsSeq(control)
  BY <1>1 DEF Scopes, Nested, IsSeq, Env, Targets
<1>3. PICK c : control' = Append(control, c) /\ c.saved = lookup_loop /\ c.env = e
               /\ \/ OpenBlock /\ c.kind = "block"
                  \/ OpenIf /\ c.kind = "then"
                  \/ OpenLoop /\ c.kind = "loop" /\ c.other = l + 1 /\ c.end = l + 3
  <2>1. ASSUME NEW k, NEW o, NEW x
        PROVE  LET c == Construct(k, o, x) IN
               c.saved = lookup_loop /\ c.env = e /\ c.kind = k /\ c.other = o /\ c.end = x
    BY <1>1 DEF Construct, Env
  <2>2. CASE OpenBlock
    <3>1. control' = Append(control, Construct("block", 0, 0))  BY <2>2 DEF OpenBlock
    <3> QED  BY <2>1, <2>2, <3>1
  <2>3. CASE OpenIf
    <3>1. control' = Append(control, Construct("then", l + 2, l + 3))
      BY <1>1, <2>3 DEF OpenIf
    <3> QED  BY <2>1, <2>3, <3>1
  <2>4. CASE OpenLoop
    <3>1. control' = Append(control, Construct("loop", l + 1, l + 3))
      BY <1>1, <2>4 DEF OpenLoop
    <3> QED  BY <2>1, <2>4, <3>1
  <2> QED  BY <2>2, <2>3, <2>4
<1>4. /\ Len(control') = m + 1 /\ control'[m + 1] = c
      /\ \A i \in 1..m : control'[i] = control[i]
  BY <1>1, <1>2, <1>3, AppendSeq
<1>5. Finds(loops, e, lookup_loop) /\ TargetOf(control, m, lookup_loop)
  BY <1>1, <1>2, TargetsLookup
<1>6. TargetOf(control', m, lookup_loop)  BY <1>4, <1>5, TargetSame
<1>7. \A j \in 1..m : /\ control[j].env \in Nat /\ control[j].env <= e /\ control[j].env # 0
                      /\ control[j].kind = "block" => control[j].env < e
                      /\ Restores(control, loops, j)
  <2> TAKE j \in 1..m
  <2>1. Around(control[j], visible, moved, kind, Env) /\ Restores(control, loops, j)
    BY <1>1 DEF Scopes, Targets
  <2> QED  BY <1>2, <2>1 DEF Around, EnvIn
<1>8. m + 1 - 1 = m /\ \A j \in 1..(m + 1) : j \in 1..m \/ j = m + 1  BY <1>2
<1>9. ASSUME NEW l2, \A k \in 1..e : k # e => l2[k] = loops[k],
             c.kind = "loop" => l2[e] # NoLoop /\ l2[e] = [cond |-> c.other, exit |-> c.end],
             c.kind # "loop" => l2[e] = loops[e]
      PROVE  \A j \in 1..(m + 1) : Restores(control', l2, j)
  <2>1. ASSUME NEW j \in 1..m PROVE Restores(control', l2, j)
    <3>1. j \in Nat /\ j # 0 /\ \A k \in 1..j : control'[k] = control[k]
      BY <1>2, <1>4
    <3>2. control[j].kind = "loop" /\ control[j].env = e => l2[e] # NoLoop
      BY <1>7, <1>9 DEF Restores
    <3>3. control[j].kind = "block" => control[j].env # e  BY <1>2, <1>7
    <3>4. /\ control[j].env \in Nat /\ control[j].env <= e /\ control[j].env # 0
          /\ Restores(control, loops, j) /\ e \in Nat
      BY <1>2, <1>7
    <3>5. \A k \in 1..e : k # e => l2[k] = loops[k]  BY <1>9
    <3>6. PICK ctl : ctl = control'  OBVIOUS
    <3>7. \A k \in 1..j : ctl[k] = control[k]  BY <3>1, <3>6
    <3>8. j \in Nat /\ j # 0  BY <3>1
    <3>9. Restores(ctl, l2, j)
      BY <3>2, <3>3, <3>4, <3>5, <3>7, <3>8, RestoresKept
    <3> QED  BY <3>6, <3>9
  <2>2. Restores(control', l2, m + 1)
    <3>1. TargetOf(control', m + 1 - 1, c.saved)  BY <1>3, <1>6, <1>8
    <3>2. c.kind = "block" => Finds(l2, c.env, c.saved)
      <4>1. c.kind = "block" => \A k \in 1..e : l2[k] = loops[k]  BY <1>9
      <4> QED  BY <1>3, <1>5, <4>1 DEF Finds
    <3>3. c.kind = "loop" => l2[c.env] # NoLoop
      BY <1>3, <1>9
    <3>4. c.saved = NoLoop => \A k \in 1..(c.env - 1) : l2[k] = NoLoop
      <4>1. c.saved = NoLoop => \A k \in 1..e : loops[k] = NoLoop
        BY <1>3, <1>5 DEF Finds
      <4>2. \A k \in 1..(e - 1) : k \in 1..e /\ k # e  BY <1>2
      <4> QED  BY <1>3, <1>9, <4>1, <4>2
    <3>5. PICK ctl : ctl = control'  OBVIOUS
    <3>6. ctl[m + 1] = c /\ TargetOf(ctl, m + 1 - 1, c.saved)  BY <1>4, <3>1, <3>5
    <3>7. PICK j : j = m + 1  OBVIOUS
    <3>8. ctl[j] = c /\ TargetOf(ctl, j - 1, c.saved)
      <4>1. j - 1 = m  BY <1>2, <3>7
      <4>2. TargetOf(ctl, m, c.saved)  BY <1>3, <1>6, <3>5
      <4> QED  BY <3>6, <3>7, <4>1, <4>2
    <3>9. c.kind = "loop" =>
            /\ l2[c.env] # NoLoop
            /\ c.saved = NoLoop => \A k \in 1..(c.env - 1) : l2[k] = NoLoop
      BY <3>3, <3>4
    <3> HIDE DEF NoLoop, TargetOf, Finds
    <3>10. Restores(ctl, l2, j)  BY <3>2, <3>8, <3>9, Zenon DEF Restores
    <3> QED  BY <3>5, <3>7, <3>10
  <2> QED  BY <1>8, <2>1, <2>2
<1>10. CASE c.kind = "block"
  <2>1. loops' = Append(loops, NoLoop) /\ cleanups' = Append(cleanups, <<>>)
    BY <1>3, <1>10 DEF OpenBlock
  <2>2. /\ IsSeq(loops') /\ Len(loops') = e + 1 /\ loops'[e + 1] = NoLoop
        /\ \A k \in 1..e : loops'[k] = loops[k]
    BY <1>2, <2>1, AppendSeq
  <2>3. Env' = e + 1 /\ Len(cleanups') = e + 1
    <3>1. Len(Append(cleanups, <<>>)) = e + 1  BY <1>1
    <3> QED  BY <2>1, <3>1 DEF Env
  <2>4. Finds(loops', e + 1, lookup_loop)
    <3>1. \A k \in 1..(e + 1) : k \in 1..e \/ k = e + 1  BY <1>2
    <3>2. \A k \in 1..e : k \in 1..(e + 1)  BY <1>2
    <3> QED  BY <1>5, <2>2, <3>1, <3>2 DEF Finds
  <2>5. TargetOf(control', m + 1, lookup_loop)
    <3>1. \A k \in 1..m : k \in 1..(m + 1)  BY <1>2
    <3>2. control'[m + 1].kind # "loop"  BY <1>4, <1>10
    <3> QED  BY <1>6, <1>8, <3>1, <3>2 DEF TargetOf
  <2>6. \A j \in 1..(m + 1) : Restores(control', loops', j)
    <3>1. e \in 1..e  BY <1>2
    <3> QED  BY <1>9, <1>10, <2>2, <3>1
  <2> QED  BY <1>4, <2>2, <2>3, <2>4, <2>5, <2>6 DEF Targets
<1>11. CASE c.kind = "then"
  <2>1. loops' = loops /\ cleanups' = cleanups  BY <1>3, <1>11 DEF OpenIf
  <2>2. TargetOf(control', m + 1, lookup_loop)
    <3>1. \A k \in 1..m : k \in 1..(m + 1)  BY <1>2
    <3>2. control'[m + 1].kind # "loop"  BY <1>4, <1>11
    <3> QED  BY <1>6, <1>8, <3>1, <3>2 DEF TargetOf
  <2>3. \A j \in 1..(m + 1) : Restores(control', loops', j)  BY <1>9, <1>11, <2>1
  <2>4. Env' = e  BY <1>1, <2>1 DEF Env
  <2> QED  BY <1>1, <1>2, <1>4, <1>5, <2>1, <2>2, <2>3, <2>4 DEF Targets
<1>12. CASE c.kind = "loop"
  <2>1. PICK i : i = [cond |-> l + 1, exit |-> l + 3]  OBVIOUS
  <2>2. /\ loops' = [loops EXCEPT ![e] = i] /\ cleanups' = cleanups
        /\ c.other = l + 1 /\ c.end = l + 3
    BY <1>1, <1>3, <1>12, <2>1 DEF OpenLoop, Env
  <2>3. i # NoLoop
    <3>1. i.cond = l + 1 /\ NoLoop.cond = 0  BY <2>1 DEF NoLoop
    <3> QED  BY <1>2, <3>1
  <2>4. e \in 1..Len(loops)  BY <1>2
  <2>5. /\ IsSeq(loops') /\ Len(loops') = e /\ loops'[e] = i
        /\ \A k \in 1..e : k # e => loops'[k] = loops[k]
    <3>1. LET q == [loops EXCEPT ![e] = i] IN
          /\ IsSeq(q) /\ Len(q) = Len(loops) /\ q[e] = i
          /\ \A k \in 1..Len(loops) : k # e => q[k] = loops[k]
      BY <1>2, <2>4, SeqExcept
    <3> QED  BY <1>2, <2>2, <3>1
  <2>6. Finds(loops', e, i)
    <3>1. \A j \in 1..e : ~(j > e)  BY <1>2
    <3> QED  BY <1>2, <2>3, <2>4, <2>5, <3>1 DEF Finds
  <2>7. TargetOf(control', m + 1, i)
    <3>1. m + 1 \in 1..(m + 1) /\ \A j \in 1..(m + 1) : ~(j > m + 1)  BY <1>2
    <3> QED  BY <1>4, <1>12, <2>1, <2>2, <3>1 DEF TargetOf
  <2>8. \A j \in 1..(m + 1) : Restores(control', loops', j)
    BY <1>9, <1>12, <2>1, <2>2, <2>3, <2>5
  <2>9. Env' = e  BY <1>1, <2>2 DEF Env
  <2> QED  BY <1>1, <1>2, <1>4, <2>2, <2>5, <2>6, <2>7, <2>8, <2>9 DEF Targets
<1> QED  BY <1>3, <1>10, <1>11, <1>12

LEMMA TargetsClose ==
    ASSUME Inv, Scopes, Targets, CloseBlock \/ EndIf \/ CloseLoop
    PROVE  Targets'
<1>1. PICK m, e, t : m = Len(control) /\ e = Len(cleanups) /\ t = Top  OBVIOUS
<1>2. control # <<>> /\ control' = Front(control)
  BY DEF CloseBlock, EndIf, CloseLoop, Closes, Join
<1>3. /\ m \in Nat /\ m # 0 /\ m \in 1..m /\ t = control[m]
      /\ e \in Nat /\ e # 0 /\ Env = e /\ e \in 1..e
      /\ IsSeq(loops) /\ Len(loops) = e /\ IsSeq(control)
      /\ t.env \in Nat /\ EnvIn(t) = e /\ Labelled(t, Len(label))
  BY <1>1, <1>2, Innermost1 DEF Scopes, Nested, Env, Targets, Top, Around
<1>4. Len(control') = m - 1 /\ \A i \in 1..(m - 1) : control'[i] = control[i]
  BY <1>1, <1>2, <1>3, FrontSeq
<1>5. Finds(loops, e, lookup_loop) /\ TargetOf(control, m, lookup_loop)
  BY <1>1, <1>3, TargetsLookup
<1>6. Restores(control, loops, m)  BY <1>1, <1>3 DEF Targets
<1>7. TargetOf(control, m - 1, t.saved)  BY <1>3, <1>6 DEF Restores
<1>8. \A j \in 1..(m - 1) :
            /\ control[j].env \in Nat /\ control[j].env # 0 /\ EnvIn(control[j]) <= t.env
            /\ Restores(control, loops, j) /\ Labelled(control[j], Len(label))
  <2> TAKE j \in 1..(m - 1)
  <2>1. j \in 1..m /\ j # m  BY <1>3
  <2>2. Around(control[j], visible, moved, kind, Env) /\ Restores(control, loops, j)
        /\ Labelled(control[j], Len(label))
    BY <1>1, <2>1 DEF Scopes, Targets
  <2>3. Pair(control[j], t)  BY <1>1, <1>2, <2>1, Innermost1
  <2> QED  BY <2>2, <2>3 DEF Around, Pair
<1>9. ASSUME NEW l2, \A k \in 1..e : k # e => l2[k] = loops[k],
             \A j \in 1..(m - 1) : control[j].kind = "loop" /\ control[j].env = e
                                     => l2[e] # NoLoop,
             \A j \in 1..(m - 1) : control[j].kind = "block" => control[j].env # e
      PROVE  \A j \in 1..(m - 1) : Restores(control', l2, j)
  <2> TAKE j \in 1..(m - 1)
  <2>1. PICK ctl : ctl = control'  OBVIOUS
  <2>2. j \in Nat /\ j # 0 /\ \A k \in 1..j : ctl[k] = control[k]  BY <1>3, <1>4, <2>1
  <2>3. control[j].env <= e  BY <1>3, <1>8 DEF EnvIn
  <2>4. control[j].kind = "loop" /\ control[j].env = e => l2[e] # NoLoop  BY <1>9
  <2>5. control[j].kind = "block" => control[j].env # e  BY <1>9
  <2>6. control[j].env \in Nat /\ control[j].env # 0 /\ Restores(control, loops, j) /\ e \in Nat
    BY <1>3, <1>8
  <2>7. \A k \in 1..e : k # e => l2[k] = loops[k]  BY <1>9
  <2>8. j \in Nat /\ j # 0 /\ \A k \in 1..j : ctl[k] = control[k]  BY <2>2
  <2>9. Restores(ctl, l2, j)
    BY <2>3, <2>4, <2>5, <2>6, <2>7, <2>8, RestoresKept
  <2> QED  BY <2>1, <2>9
<1>10. ASSUME NEW i, TargetOf(control, m - 1, i) PROVE TargetOf(control', m - 1, i)
  BY <1>4, <1>10, TargetSame
<1>11. CASE CloseBlock
  <2>1. t.kind = "block" /\ loops' = Front(loops) /\ cleanups' = LeaveEnv(cleanups)
    BY <1>1, <1>11 DEF CloseBlock
  <2>2. t.env = e - 1  BY <1>3, <2>1 DEF EnvIn
  <2>3. loops # <<>>  BY <1>3
  <2>4. /\ IsSeq(loops') /\ Len(loops') = e - 1
        /\ \A k \in 1..(e - 1) : loops'[k] = loops[k]
    BY <1>3, <2>1, <2>3, FrontSeq
  <2>5. Len(cleanups') = e - 1
    <3>1. IsSeq(cleanups) /\ cleanups # <<>>  BY <1>1, <1>3 DEF Inv, Lists, IsSeq
    <3> QED  BY <1>1, <2>1, <3>1, FrontSeq DEF LeaveEnv
  <2>6. Env' = e - 1  BY <2>5 DEF Env
  <2>7. Finds(loops', e - 1, t.saved)
    <3>1. Finds(loops, e - 1, t.saved)  BY <1>3, <1>6, <2>1, <2>2 DEF Restores
    <3> QED  BY <2>4, <3>1 DEF Finds
  <2>8. TargetOf(control', m - 1, t.saved)  BY <1>7, <1>10
  <2>9. \A k \in 1..e : k # e => loops'[k] = loops[k]
    <3>1. \A k \in 1..e : k # e => k \in 1..(e - 1)  BY <1>3
    <3> QED  BY <2>4, <3>1
  <2>10. \A j \in 1..(m - 1) : control[j].env # e
    BY <1>3, <1>8, <2>2 DEF EnvIn
  <2>11. \A j \in 1..(m - 1) : Restores(control', loops', j)  BY <1>9, <2>9, <2>10
  <2> QED  BY <1>4, <2>4, <2>5, <2>6, <2>7, <2>8, <2>11 DEF Targets
<1>12. ASSUME t.kind # "block", NEW j \in 1..(m - 1), control[j].kind = "block"
       PROVE  control[j].env # e
  BY <1>3, <1>8, <1>12 DEF EnvIn
<1>13. CASE EndIf
  <2>1. t.kind \in {"then", "else"} /\ UNCHANGED <<cleanups, loops>>
    BY <1>1, <1>13 DEF EndIf
  <2>2. TargetOf(control, m - 1, lookup_loop)
    <3>1. \A k \in 1..m : k \in 1..(m - 1) \/ k = m  BY <1>3
    <3>2. \A k \in 1..(m - 1) : k \in 1..m  BY <1>3
    <3>3. control[m].kind # "loop"  BY <1>3, <2>1
    <3> QED  BY <1>5, <3>1, <3>2, <3>3 DEF TargetOf
  <2>3. TargetOf(control', m - 1, lookup_loop)  BY <1>10, <2>2
  <2>4. \A j \in 1..(m - 1) : control[j].kind = "loop" /\ control[j].env = e
                                 => loops[e] # NoLoop
    BY <1>8 DEF Restores
  <2>5. \A j \in 1..(m - 1) : Restores(control', loops', j)
    <3>1. \A k \in 1..e : k # e => loops'[k] = loops[k]  BY <2>1
    <3>2. \A j \in 1..(m - 1) : control[j].kind = "loop" /\ control[j].env = e
                                 => loops'[e] # NoLoop
      BY <2>1, <2>4
    <3>3. \A j \in 1..(m - 1) : control[j].kind = "block" => control[j].env # e
      BY <1>12, <2>1
    <3> QED  BY <1>9, <3>1, <3>2, <3>3
  <2>6. Env' = e  BY <1>3, <2>1 DEF Env
  <2> QED  BY <1>1, <1>3, <1>4, <1>5, <2>1, <2>3, <2>5, <2>6 DEF Targets
<1>14. CASE CloseLoop
  <2>1. t.kind = "loop" /\ UNCHANGED cleanups /\ loops' = [loops EXCEPT ![e] = t.saved]
    BY <1>1, <1>3, <1>14 DEF CloseLoop
  <2>2. t.env = e  BY <1>3, <2>1 DEF EnvIn
  <2>3. /\ IsSeq(loops') /\ Len(loops') = e /\ loops'[e] = t.saved
        /\ \A k \in 1..e : k # e => loops'[k] = loops[k]
    <3>1. LET q == [loops EXCEPT ![e] = t.saved] IN
          /\ IsSeq(q) /\ Len(q) = Len(loops) /\ q[e] = t.saved
          /\ \A k \in 1..Len(loops) : k # e => q[k] = loops[k]
      <4>1. e \in 1..Len(loops)  BY <1>3
      <4> QED  BY <1>3, <4>1, SeqExcept
    <3> QED  BY <1>3, <2>1, <3>1
  <2>4. Finds(loops', e, t.saved)
    <3>1. CASE t.saved = NoLoop
      <4>1. \A k \in 1..(e - 1) : loops[k] = NoLoop
        BY <1>3, <1>6, <2>1, <2>2, <3>1 DEF Restores
      <4>2. \A k \in 1..e : k \in 1..(e - 1) \/ k = e  BY <1>3
      <4>3. \A k \in 1..(e - 1) : k \in 1..e /\ k # e  BY <1>3
      <4> QED  BY <2>3, <3>1, <4>1, <4>2, <4>3 DEF Finds
    <3>2. CASE t.saved # NoLoop
      <4>1. \A j \in 1..e : ~(j > e)  BY <1>3
      <4> QED  BY <1>3, <2>3, <3>2, <4>1 DEF Finds
    <3> QED  BY <3>1, <3>2
  <2>5. TargetOf(control', m - 1, t.saved)  BY <1>7, <1>10
  <2>6. ASSUME NEW j \in 1..(m - 1), control[j].kind = "loop" PROVE t.saved # NoLoop
    <3>1. PICK k \in 1..(m - 1) :
                /\ control[k].kind = "loop"
                /\ t.saved = [cond |-> control[k].other, exit |-> control[k].end]
      BY <1>7, <2>6 DEF TargetOf
    <3>2. control[k].other \in 1..Len(label)  BY <1>8, <3>1 DEF Labelled
    <3>3. control[k].other # 0  BY <3>2
    <3>4. t.saved.cond = control[k].other /\ NoLoop.cond = 0  BY <3>1 DEF NoLoop
    <3> QED  BY <3>3, <3>4
  <2>7. \A j \in 1..(m - 1) : Restores(control', loops', j)
    <3>1. \A j \in 1..(m - 1) : control[j].kind = "loop" /\ control[j].env = e
                                 => loops'[e] # NoLoop
      BY <2>3, <2>6
    <3>2. \A j \in 1..(m - 1) : control[j].kind = "block" => control[j].env # e
      BY <1>12, <2>1
    <3> QED  BY <1>9, <2>3, <3>1, <3>2
  <2>8. Env' = e  BY <1>3, <2>1 DEF Env
  <2> QED  BY <1>1, <1>3, <1>4, <2>1, <2>3, <2>4, <2>5, <2>7, <2>8 DEF Targets
<1> QED  BY <1>11, <1>13, <1>14

LEMMA TargetsStep ==
    ASSUME Inv, Scopes, Targets, Careful, Compile, ~EndFunction
    PROVE  Targets'
<1>1. ASSUME UNCHANGED <<control, loops>>, Len(cleanups') = Len(cleanups) PROVE Targets'
  <2>1. control' = control /\ UNCHANGED loops  BY <1>1
  <2> QED  BY <1>1, <2>1, TargetsSame
<1>2. PICK n : n = Len(kind)  OBVIOUS
<1>3. n \in Nat /\ cleanups \in Lists(n) /\ cleanups \in Lists(n + 1) /\ n + 1 \in Nat
  BY <1>2, NewVariable DEF Inv
<1>4. ASSUME \/ \E k \in Kinds, typed \in BOOLEAN : LetFresh(k, typed)
             \/ \E y \in DOMAIN visible, typed \in BOOLEAN : LetFrom(y, typed)
      PROVE  Targets'
  <2>1. PICK y : /\ UNCHANGED <<control, loops>>
                 /\ cleanups' \in {cleanups, add_cleanup(cleanups, n + 1),
                                   cancel_cleanup(cleanups, y),
                                   cancel_cleanup(add_cleanup(cleanups, n + 1), y)}
    BY <1>2, <1>4 DEF LetFresh, LetFrom, Straight
  <2>2. Len(add_cleanup(cleanups, n + 1)) = Len(cleanups)  BY <1>3, AddLen
  <2>3. add_cleanup(cleanups, n + 1) \in Lists(n + 1)
    <3>1. Good(cleanups, n)  BY <1>2 DEF Inv, Good
    <3> QED  BY <1>3, <3>1, AddGood DEF Good
  <2>4. /\ Len(cancel_cleanup(add_cleanup(cleanups, n + 1), y)) = Len(cleanups)
        /\ Len(cancel_cleanup(cleanups, y)) = Len(cleanups)
    BY <1>3, <2>2, <2>3, MarkLen DEF cancel_cleanup
  <2> QED  BY <1>1, <2>1, <2>2, <2>4
<1>5. ASSUME Else \/ Break \/ Continue PROVE Targets'
  <2>1. UNCHANGED loops /\ Len(cleanups') = Len(cleanups)
    <3>1. CASE Else  BY <3>1 DEF Else
    <3>2. CASE ~Else
      <4>1. PICK k : cleanups' = CancelFrom(cleanups, k) /\ UNCHANGED loops
        BY <1>5, <3>2 DEF Break, Continue, LeavesIteration
      <4> QED  BY <1>3, <4>1, MarkLen DEF CancelFrom
    <3> QED  BY <3>1, <3>2
  <2>2. CASE Else
    <3>1. PICK d : /\ control' = [control EXCEPT ![Len(control)] = d]
                   /\ d = [[Top EXCEPT !.kind = "else"] EXCEPT !.ends = PathEnd(Top)]
      BY <2>2 DEF Else, Top
    <3>2. control # <<>> /\ Top.kind = "then"  BY <2>2 DEF Else, Closes
    <3>3. IsConstruct(Top) /\ Len(control) \in 1..Len(control)
      BY <3>2, Innermost1 DEF Around
    <3>4. /\ d.kind = "else" /\ d.other = Top.other /\ d.end = Top.end
          /\ d.saved = Top.saved /\ d.env = Top.env
      BY <3>1, <3>3 DEF IsConstruct
    <3>5. IsSeq(control)  BY DEF Scopes, Nested
    <3>6. LET q == [control EXCEPT ![Len(control)] = d] IN
          /\ Len(q) = Len(control) /\ q[Len(control)] = d
          /\ \A j \in 1..Len(control) : j # Len(control) => q[j] = control[j]
      BY <3>3, <3>5, SeqExcept
    <3>7. /\ Len(control') = Len(control) /\ control'[Len(control)] = d
          /\ \A j \in 1..Len(control) : j # Len(control) => control'[j] = control[j]
      BY <3>1, <3>6
    <3> QED  BY <2>1, <3>2, <3>4, <3>7, TargetsSame DEF Top
  <2>3. CASE Break
    <3>1. PICK i \in Innermost(Loops) :
              control' = [control EXCEPT ![i].ends = @ \cup {InScope(control[i], moved)}]
      BY <2>3 DEF Break
    <3>2. /\ i \in 1..Len(control) /\ Len(control') = Len(control)
          /\ \A j \in 1..Len(control) : j # i => control'[j] = control[j]
          /\ control'[i] = [control[i] EXCEPT !.ends =
                                control[i].ends \cup {moved \cap DOMAIN control[i].visible}]
      BY <3>1, BreakShape
    <3>3. IsConstruct(control[i])  BY <3>2 DEF Scopes, Around
    <3>4. /\ control'[i].kind = control[i].kind /\ control'[i].other = control[i].other
          /\ control'[i].end = control[i].end /\ control'[i].saved = control[i].saved
          /\ control'[i].env = control[i].env
      BY <3>2, <3>3 DEF IsConstruct
    <3> QED  BY <2>1, <3>2, <3>4, TargetsSame
  <2>4. CASE Continue
    <3>1. control' = control  BY <2>4 DEF Continue
    <3> QED  BY <1>1, <2>1, <3>1
  <2> QED  BY <1>5, <2>2, <2>3, <2>4
<1>6. ASSUME \/ \E y \in DOMAIN visible :
                  \/ Use(y) \/ Push(y) \/ CallDirect(y) \/ AssignFresh(y) \/ ReturnVar(y)
                  \/ \E lambda \in BOOLEAN : CallIndirect(y, lambda)
             \/ \E t, y \in DOMAIN visible : AssignFrom(t, y)
             \/ ReturnFresh
      PROVE  Targets'
  BY <1>1, <1>6, ScopesPlain
<1> QED  BY <1>4, <1>5, <1>6, TargetsOpen, TargetsClose DEF Compile

----------------------------------------------------------------------------
(* Who owns what where the emitter is, and at the joins it has yet to      *)
(* place.  held[i] owned their values where construct i began.             *)
AllEnds(c) == (UNION c.ends) \cup (IF c.kind = "loop" THEN c.moved ELSE {})
Jumps(cd, l) == {p \in 1..Len(cd) : cd[p].op = "br" /\ l \in cd[p].to}

(* What was moved on some path, and is owned on this one, is owned on      *)
(* every one since: it is not assigned to.                                 *)
Kept(ctl, held, m) ==
    UNION {held[j] \cap ctl[j].moved : j \in {k \in 1..m : ctl[k].kind # "block"}}

(* The construct began with W, D are due now.                              *)
Entered(c, W, D, K, knd, exact) ==
    /\ W \subseteq DOMAIN c.visible /\ DOMAIN c.visible \ c.moved \subseteq W
    /\ D \cap DOMAIN c.visible \subseteq W /\ K \subseteq W
    /\ exact => W \cap Heap(knd) \subseteq D

(* Its end is jumped to with W.                                            *)
Reached(c, W, D, K, knd, exact) ==
    /\ D \cap DOMAIN c.visible \subseteq W /\ DOMAIN c.visible \ AllEnds(c) \subseteq W
    /\ K \subseteq W
    /\ exact => W \cap Heap(knd) \subseteq D \cap DOMAIN c.visible

Opened(c, h, D, K, knd, cd, own, lb, exact) == c.kind # "block" =>
    /\ Entered(c, h, D, K, knd, exact)
    /\ lb[c.end] = 0
    /\ \A p \in Jumps(cd, c.end) : Reached(c, own[p], D, K, knd, exact)
    /\ c.kind = "then" => lb[c.other] = 0 /\ \A p \in Jumps(cd, c.other) : own[p] = h
    /\ c.kind # "then" => lb[c.other] # 0
    /\ c.kind = "loop" => lb[c.other] \in 1..Len(cd) /\ own[lb[c.other]] = h

(* Here W own their values.                                                *)
Here(W, vis, mv, D, K, knd, exact) ==
    /\ D \subseteq W /\ DOMAIN vis \ mv \subseteq W /\ W \subseteq DOMAIN vis
    /\ K \subseteq W
    /\ exact => W \cap Heap(knd) \subseteq D

Pending(lb, ctl) == \A l \in DOMAIN lb : lb[l] = 0 =>
    \E i \in 1..Len(ctl) : /\ ctl[i].kind # "block"
                           /\ \/ l = ctl[i].end
                              \/ ctl[i].kind = "then" /\ l = ctl[i].other

Owned(own, held) ==
    /\ terminated \in BOOLEAN
    /\ Flow(kind, code, own, label, terminated, Exact)
    /\ Pending(label, control)
    /\ ~terminated => Here(own[Len(code) + 1], visible, moved, Due(cleanups),
                           Kept(control, held, Len(control)), kind, Exact)
    /\ \A i \in 1..Len(control) :
            Opened(control[i], held[i], Due(cleanups), Kept(control, held, i),
                   kind, code, own, label, Exact)

LEMMA EndsMore ==
    ASSUME NEW c, NEW d, c.ends \subseteq d.ends, d.kind = c.kind, d.moved = c.moved
    PROVE  AllEnds(c) \subseteq AllEnds(d) /\ AllEnds(c) \subseteq c.moved \cup UNION c.ends
<1>1. ASSUME NEW x \in AllEnds(c) PROVE x \in AllEnds(d)
  <2>1. CASE x \in UNION c.ends
    <3>1. PICK E \in c.ends : x \in E  BY <2>1
    <3>2. x \in UNION d.ends  BY <3>1
    <3> QED  BY <3>2 DEF AllEnds
  <2>2. CASE x \notin UNION c.ends
    <3>1. c.kind = "loop" /\ x \in c.moved  BY <1>1, <2>2 DEF AllEnds
    <3>2. d.kind = "loop" /\ x \in d.moved  BY <3>1
    <3> QED  BY <3>2 DEF AllEnds
  <2> QED  BY <2>1, <2>2
<1>2. ASSUME NEW x \in AllEnds(c) PROVE x \in c.moved \cup UNION c.ends
  BY <1>2 DEF AllEnds
<1> QED  BY <1>1, <1>2

(* A construct stays open.                                                 *)
LEMMA StillOpen ==
    ASSUME NEW c, IsConstruct(c), NEW d, d = [c EXCEPT !.ends = d.ends], c.ends \subseteq d.ends,
           NEW h, NEW D, NEW D2, NEW K, NEW knd, NEW knd2, NEW cd, NEW cd2,
           NEW own, NEW own2, NEW lb, NEW lb2, NEW exact,
           Opened(c, h, D, K, knd, cd, own, lb, exact),
           c.kind # "block" =>
             /\ h \cap Heap(knd2) = h \cap Heap(knd)
             /\ D2 \cap DOMAIN c.visible
                    \subseteq D \cup (DOMAIN c.visible \ (c.moved \cup UNION c.ends))
             /\ exact => D \cap DOMAIN c.visible \subseteq D2
             /\ lb2[c.end] = lb[c.end] /\ lb2[c.other] = lb[c.other],
           \A p \in 1..Len(cd) : own[p] \cap Heap(knd2) = own[p] \cap Heap(knd),
           Len(cd) \in Nat, Len(cd2) \in Nat, Len(cd) <= Len(cd2),
           \A p \in 1..Len(cd) : cd2[p] = cd[p] /\ own2[p] = own[p],
           \A p \in (Len(cd) + 1)..Len(cd2) : c.kind # "block" /\ cd2[p].op = "br" =>
             /\ c.end \in cd2[p].to => Reached(d, own2[p], D2, K, knd2, exact)
             /\ c.kind = "then" => c.other \notin cd2[p].to
    PROVE  Opened(d, h, D2, K, knd2, cd2, own2, lb2, exact)
<1>1. /\ d.kind = c.kind /\ d.other = c.other /\ d.end = c.end
      /\ d.visible = c.visible /\ d.moved = c.moved
  BY DEF IsConstruct
<1> SUFFICES ASSUME c.kind # "block" PROVE Opened(d, h, D2, K, knd2, cd2, own2, lb2, exact)
  BY <1>1 DEF Opened
<1>2. PICK V : V = DOMAIN c.visible  OBVIOUS
<1>3. PICK n : n = Len(cd)  OBVIOUS
<1>4. Entered(c, h, D, K, knd, exact)  BY DEF Opened
<1>5. Entered(d, h, D2, K, knd2, exact)
  BY <1>1, <1>2, <1>4 DEF Entered
<1>6. AllEnds(c) \subseteq AllEnds(d) /\ AllEnds(c) \subseteq c.moved \cup UNION c.ends
  BY <1>1, EndsMore
<1>7. ASSUME NEW p \in 1..n, Reached(c, own[p], D, K, knd, exact)
      PROVE  Reached(d, own[p], D2, K, knd2, exact)
  <2>1. own[p] \cap Heap(knd2) = own[p] \cap Heap(knd)  BY <1>3
  <2>2. V \ AllEnds(c) \subseteq own[p] /\ D \cap V \subseteq own[p] /\ K \subseteq own[p]
    BY <1>2, <1>7 DEF Reached
  <2>3. D2 \cap V \subseteq own[p]  BY <1>2, <1>6, <2>2
  <2>4. exact => own[p] \cap Heap(knd2) \subseteq D2 \cap V
    BY <1>2, <1>7, <2>1 DEF Reached
  <2> QED  BY <1>1, <1>2, <1>6, <2>2, <2>3, <2>4 DEF Reached
<1>8. \A p \in 1..Len(cd2) : p \in 1..n \/ p \in (n + 1)..Len(cd2)  BY <1>3
<1>9. ASSUME NEW p \in Jumps(cd2, c.end) PROVE Reached(d, own2[p], D2, K, knd2, exact)
  <2>1. p \in 1..Len(cd2) /\ cd2[p].op = "br" /\ c.end \in cd2[p].to  BY DEF Jumps
  <2>2. CASE p \in 1..n
    <3>1. p \in Jumps(cd, c.end) /\ own2[p] = own[p]  BY <1>3, <2>1, <2>2 DEF Jumps
    <3>2. Reached(c, own[p], D, K, knd, exact)  BY <3>1 DEF Opened
    <3> QED  BY <1>7, <2>2, <3>1, <3>2
  <2>3. CASE p \in (n + 1)..Len(cd2)  BY <1>3, <2>1, <2>3
  <2> QED  BY <1>8, <2>1, <2>2, <2>3
<1>10. ASSUME c.kind = "then"
       PROVE  lb2[c.other] = 0 /\ \A p \in Jumps(cd2, c.other) : own2[p] = h
  <2>1. lb[c.other] = 0 /\ \A p \in Jumps(cd, c.other) : own[p] = h  BY <1>10 DEF Opened
  <2>2. ASSUME NEW p \in Jumps(cd2, c.other) PROVE own2[p] = h
    <3>1. p \in 1..Len(cd2) /\ cd2[p].op = "br" /\ c.other \in cd2[p].to  BY DEF Jumps
    <3>2. p \in 1..n  BY <1>3, <1>8, <1>10, <3>1
    <3>3. p \in Jumps(cd, c.other) /\ own2[p] = own[p]  BY <1>3, <3>1, <3>2 DEF Jumps
    <3> QED  BY <2>1, <3>3
  <2> QED  BY <2>1, <2>2
<1>11. ASSUME c.kind = "loop" PROVE lb2[c.other] \in 1..Len(cd2) /\ own2[lb2[c.other]] = h
  <2>1. lb[c.other] \in 1..n /\ own[lb[c.other]] = h  BY <1>3, <1>11 DEF Opened
  <2> QED  BY <1>3, <2>1
<1>12. lb2[c.end] = 0 /\ (c.kind # "then" => lb2[c.other] # 0)  BY DEF Opened
<1> QED  BY <1>1, <1>5, <1>9, <1>10, <1>11, <1>12 DEF Opened

LEMMA KeptSame ==
    ASSUME NEW ctl, NEW ctl2, NEW held, NEW held2, NEW m,
           \A j \in 1..m : /\ ctl2[j].kind = "block" <=> ctl[j].kind = "block"
                           /\ ctl2[j].moved = ctl[j].moved
                           /\ held2[j] = held[j]
    PROVE  Kept(ctl2, held2, m) = Kept(ctl, held, m)
<1>1. ASSUME NEW x PROVE x \in Kept(ctl2, held2, m) <=> x \in Kept(ctl, held, m)
  BY DEF Kept
<1> QED  BY <1>1

(* What a statement has to do.                                             *)
LEMMA OwnedStatement ==
    ASSUME Inv, Scopes, NEW own, NEW held, Owned(own, held), UNCHANGED <<features, label>>,
           IsSeq(control'), Len(control') = Len(control),
           \A i \in 1..Len(control) :
              /\ control'[i] = [control[i] EXCEPT !.ends = control'[i].ends]
              /\ control[i].ends \subseteq control'[i].ends,
           DOMAIN kind \subseteq DOMAIN kind', \A s \in DOMAIN kind : kind'[s] = kind[s],
           NEW own2, Flow(kind', code', own2, label, terminated', Exact),
           terminated' \in BOOLEAN,
           Len(code) <= Len(code'),
           \A p \in 1..Len(code) : code'[p] = code[p] /\ own2[p] = own[p],
           \A i \in Branches :
              /\ \A p \in (Len(code) + 1)..Len(code') : code'[p].op = "br" =>
                   /\ control[i].end \in code'[p].to =>
                        Reached(control'[i], own2[p], Due(cleanups'), Kept(control, held, i),
                                kind', Exact)
                   /\ control[i].kind = "then" => control[i].other \notin code'[p].to
              /\ Due(cleanups') \cap DOMAIN control[i].visible
                    \subseteq Due(cleanups) \cup (DOMAIN control[i].visible
                                \ (control[i].moved \cup UNION control[i].ends))
              /\ Exact => Due(cleanups) \cap DOMAIN control[i].visible \subseteq Due(cleanups'),
           ~terminated' => Here(own2[Len(code') + 1], visible', moved', Due(cleanups'),
                                Kept(control, held, Len(control)), kind', Exact)
    PROVE  Owned(own2, held)'
<1>1. PICK m : m = Len(control)  OBVIOUS
<1>2. m \in Nat /\ DOMAIN control = 1..m  BY <1>1 DEF Scopes, Nested, IsSeq
<1>3. ASSUME NEW i \in 1..m
      PROVE  /\ IsConstruct(control[i])
             /\ control'[i].kind = control[i].kind /\ control'[i].moved = control[i].moved
             /\ control'[i].end = control[i].end /\ control'[i].other = control[i].other
  <2>1. IsConstruct(control[i])  BY <1>1 DEF Scopes, Around
  <2>2. control'[i] = [control[i] EXCEPT !.ends = control'[i].ends]  BY <1>1
  <2> QED  BY <2>1, <2>2 DEF IsConstruct
<1>4. ASSUME NEW i \in 1..m PROVE Kept(control', held, i) = Kept(control, held, i)
  <2>1. \A j \in 1..i : j \in 1..m  BY <1>2
  <2> QED  BY <1>3, <2>1, KeptSame
<1>5. Kept(control', held, m) = Kept(control, held, m)  BY <1>3, KeptSame
<1>6. /\ Flow(kind, code, own, label, terminated, Exact) /\ Pending(label, control)
      /\ \A i \in 1..m : Opened(control[i], held[i], Due(cleanups), Kept(control, held, i),
                                kind, code, own, label, Exact)
  BY <1>1 DEF Owned
<1>7. Len(code) \in Nat /\ Len(code') \in Nat  BY <1>6 DEF Flow, IsSeq
<1>8. \A W \in SUBSET DOMAIN kind : W \cap Heap(kind') = W \cap Heap(kind)  BY DEF Heap
<1>9. \A p \in 1..Len(code) : own[p] \in SUBSET DOMAIN kind
  <2>1. \A p \in 1..Len(code) : p \in 1..(Len(code) + 1)  BY <1>7
  <2> QED  BY <1>6, <2>1 DEF Flow
<1>10. ASSUME NEW i \in 1..m
       PROVE  Opened(control'[i], held[i], Due(cleanups'), Kept(control, held, i),
                     kind', code', own2, label, Exact)
  <2>1. PICK c, d : c = control[i] /\ d = control'[i]  OBVIOUS
  <2>2. IsConstruct(c) /\ d = [c EXCEPT !.ends = d.ends] /\ c.ends \subseteq d.ends
    BY <1>1, <1>3, <2>1
  <2>3. Opened(c, held[i], Due(cleanups), Kept(control, held, i), kind, code, own, label, Exact)
    BY <1>6, <2>1
  <2>4. c.kind # "block" => i \in Branches  BY <1>2, <2>1 DEF Branches
  <2>5. c.kind # "block" => held[i] \cap Heap(kind') = held[i] \cap Heap(kind)
    <3>1. c.kind # "block" => held[i] \subseteq DOMAIN c.visible  BY <2>3 DEF Opened, Entered
    <3>2. DOMAIN c.visible \subseteq DOMAIN visible  BY <1>1, <2>1 DEF Scopes, Around
    <3>3. DOMAIN visible \subseteq DOMAIN kind  BY DEF Inv, Slot
    <3> QED  BY <1>8, <3>1, <3>2, <3>3
  <2>6. \A p \in 1..Len(code) : own[p] \cap Heap(kind') = own[p] \cap Heap(kind)
    BY <1>8, <1>9
  <2>7. \A p \in (Len(code) + 1)..Len(code') : c.kind # "block" /\ code'[p].op = "br" =>
             /\ c.end \in code'[p].to =>
                    Reached(d, own2[p], Due(cleanups'), Kept(control, held, i), kind', Exact)
             /\ c.kind = "then" => c.other \notin code'[p].to
    BY <2>1, <2>4
  <2>8. c.kind # "block" =>
             /\ Due(cleanups') \cap DOMAIN c.visible
                    \subseteq Due(cleanups) \cup (DOMAIN c.visible \ (c.moved \cup UNION c.ends))
             /\ Exact => Due(cleanups) \cap DOMAIN c.visible \subseteq Due(cleanups')
    BY <2>1, <2>4
  <2>9. PICK D, D2, K, knd2, cd2, h :
            /\ D = Due(cleanups) /\ D2 = Due(cleanups') /\ K = Kept(control, held, i)
            /\ knd2 = kind' /\ cd2 = code' /\ h = held[i]
    OBVIOUS
  <2>10. Opened(d, h, D2, K, knd2, cd2, own2, label, Exact)
    <3>1. Opened(c, h, D, K, kind, code, own, label, Exact)  BY <2>3, <2>9
    <3>2. c.kind # "block" =>
             /\ h \cap Heap(knd2) = h \cap Heap(kind)
             /\ D2 \cap DOMAIN c.visible
                    \subseteq D \cup (DOMAIN c.visible \ (c.moved \cup UNION c.ends))
             /\ Exact => D \cap DOMAIN c.visible \subseteq D2
             /\ label[c.end] = label[c.end] /\ label[c.other] = label[c.other]
      BY <2>5, <2>8, <2>9
    <3>3. \A p \in 1..Len(code) : own[p] \cap Heap(knd2) = own[p] \cap Heap(kind)
      BY <2>6, <2>9
    <3>4. Len(code) \in Nat /\ Len(cd2) \in Nat /\ Len(code) <= Len(cd2)  BY <1>7, <2>9
    <3>5. \A p \in 1..Len(code) : cd2[p] = code[p] /\ own2[p] = own[p]  BY <2>9
    <3>6. \A p \in (Len(code) + 1)..Len(cd2) : c.kind # "block" /\ cd2[p].op = "br" =>
             /\ c.end \in cd2[p].to => Reached(d, own2[p], D2, K, knd2, Exact)
             /\ c.kind = "then" => c.other \notin cd2[p].to
      BY <2>7, <2>9
    <3> QED  BY <2>2, <3>1, <3>2, <3>3, <3>4, <3>5, <3>6, StillOpen
  <2> QED  BY <2>1, <2>9, <2>10
<1>11. Pending(label, control')
  BY <1>1, <1>3, <1>6 DEF Pending
<1>12. Exact' = Exact  BY DEF Exact
<1>13. /\ terminated' \in BOOLEAN
       /\ Flow(kind', code', own2, label', terminated', Exact')
       /\ Pending(label', control')
  BY <1>11, <1>12
<1>14. ~terminated' => Here(own2[Len(code') + 1], visible', moved', Due(cleanups'),
                           Kept(control', held, Len(control')), kind', Exact')
  BY <1>1, <1>5, <1>12
<1>15. \A i \in 1..Len(control') :
            Opened(control'[i], held[i], Due(cleanups'), Kept(control', held, i),
                   kind', code', own2, label', Exact')
  BY <1>1, <1>4, <1>10, <1>12
<1> QED  BY <1>13, <1>14, <1>15 DEF Owned

(* Where the emitter is.                                                   *)
AtHand(own, held, O, D, K) ==
    /\ Emitted(kind, code, own, code, own, O, label, Exact)
    /\ D = Due(cleanups) /\ D \subseteq O \cap Heap(kind)
    /\ Readable \subseteq O /\ O \subseteq DOMAIN visible
    /\ Exact => O \cap Heap(kind) \subseteq D
    /\ K = Kept(control, held, Len(control)) /\ K \subseteq O
    /\ \A s \in K : \E i \in Branches : s \in control[i].moved

LEMMA Now ==
    ASSUME Inv, Scopes, NEW own, NEW held, Owned(own, held), ~terminated
    PROVE  /\ \E O, D, K : AtHand(own, held, O, D, K)
           /\ IsSeq(code) /\ DOMAIN visible \subseteq DOMAIN kind /\ terminated = FALSE
           /\ Len(code) \in Nat /\ cleanups # <<>> /\ Len(kind) \in Nat
           /\ cleanups \in Lists(Len(kind)) /\ One(cleanups)
<1>1. PICK O, D, K : /\ O = own[Len(code) + 1] /\ D = Due(cleanups)
                     /\ K = Kept(control, held, Len(control))
  OBVIOUS
<1>2. terminated = FALSE /\ Flow(kind, code, own, label, FALSE, Exact)
  <2>1. terminated = FALSE  BY DEF Owned
  <2> QED  BY <2>1 DEF Owned
<1>3. Emitted(kind, code, own, code, own, O, label, Exact)  BY <1>1, <1>2, EmitNothing
<1>4. Here(O, visible, moved, D, K, kind, Exact)  BY <1>1 DEF Owned
<1>5. DOMAIN visible \subseteq DOMAIN kind  BY DEF Inv, Slot
<1>6. D \subseteq Heap(kind)
  <2>1. ASSUME NEW s \in D PROVE s \in DOMAIN visible /\ kind[s] # "str"
    BY <1>1, DueArePlaced DEF Scopes
  <2> QED  BY <1>5, <2>1 DEF Heap
<1>7. DOMAIN control = 1..Len(control)  BY DEF Scopes, Nested, IsSeq
<1>8. \A s \in K : \E i \in Branches : s \in control[i].moved
  BY <1>1, <1>7 DEF Kept, Branches
<1>9. IsSeq(code) /\ Len(code) \in Nat  BY <1>2 DEF Flow, IsSeq
<1>10. cleanups # <<>> /\ cleanups \in Lists(Len(kind)) /\ One(cleanups) /\ Len(kind) \in Nat
  BY DEF Scopes, Env, Inv
<1> QED  BY <1>1, <1>2, <1>3, <1>4, <1>5, <1>6, <1>8, <1>9, <1>10 DEF AtHand, Here, Readable

(* Behind a statement that is no jump.                                     *)
LEMMA OwnedPlain ==
    ASSUME Inv, Scopes, NEW own, NEW held, Owned(own, held), ~terminated,
           UNCHANGED <<features, label, control, terminated>>,
           DOMAIN kind \subseteq DOMAIN kind', \A s \in DOMAIN kind : kind'[s] = kind[s],
           NEW O, NEW D, NEW K, AtHand(own, held, O, D, K),
           NEW own2, NEW V, Emitted(kind', code, own, code', own2, V, label, Exact),
           NEW D2, D2 = Due(cleanups'),
           \A i \in Branches :
              /\ D2 \cap DOMAIN control[i].visible \subseteq D \cup (DOMAIN control[i].visible
                                \ (control[i].moved \cup UNION control[i].ends))
              /\ Exact => D \cap DOMAIN control[i].visible \subseteq D2,
           Here(V, visible', moved', D2, K, kind', Exact)
    PROVE  Owned(own2, held)'
<1>1. /\ Flow(kind', code', own2, label, FALSE, Exact) /\ own2[Len(code') + 1] = V
      /\ Len(code) <= Len(code')
      /\ \A p \in 1..Len(code) : code'[p] = code[p] /\ own2[p] = own[p]
      /\ \A p \in (Len(code) + 1)..Len(code') : code'[p].op # "br"
  BY DEF Emitted, Leaves
<1>2. terminated = FALSE  BY DEF Owned
<1>3. IsSeq(control) /\ DOMAIN control = 1..Len(control)  BY DEF Scopes, Nested, IsSeq
<1>4. ASSUME NEW i \in 1..Len(control)
      PROVE  control'[i] = [control[i] EXCEPT !.ends = control'[i].ends]
             /\ control[i].ends \subseteq control'[i].ends
  <2>1. IsConstruct(control[i])  BY <1>3 DEF Scopes, Around
  <2> QED  BY <2>1 DEF IsConstruct
<1>5. D = Due(cleanups) /\ K = Kept(control, held, Len(control))  BY DEF AtHand
<1>6. ASSUME NEW i \in Branches
      PROVE  /\ Due(cleanups') \cap DOMAIN control[i].visible
                    \subseteq Due(cleanups) \cup (DOMAIN control[i].visible
                                \ (control[i].moved \cup UNION control[i].ends))
             /\ Exact => Due(cleanups) \cap DOMAIN control[i].visible \subseteq Due(cleanups')
  BY <1>5
<1>7. \A i \in Branches :
        \A p \in (Len(code) + 1)..Len(code') : code'[p].op = "br" =>
                   /\ control[i].end \in code'[p].to =>
                        Reached(control'[i], own2[p], Due(cleanups'), Kept(control, held, i),
                                kind', Exact)
                   /\ control[i].kind = "then" => control[i].other \notin code'[p].to
  BY <1>1
<1>8. Here(own2[Len(code') + 1], visible', moved', Due(cleanups'),
           Kept(control, held, Len(control)), kind', Exact)
  BY <1>1, <1>5
<1>9. Flow(kind', code', own2, label, terminated', Exact) /\ terminated' \in BOOLEAN
  BY <1>1, <1>2
<1>10. IsSeq(control') /\ Len(control') = Len(control)  BY <1>3
<1> QED  BY <1>1, <1>4, <1>6, <1>7, <1>8, <1>9, <1>10, OwnedStatement

LEMMA Tuples3 ==
    ASSUME NEW a, NEW b, NEW c
    PROVE  /\ <<>> \o <<a>> = <<a>> /\ <<a>> \o <<b>> = <<a, b>>
           /\ <<>> \o <<a, b>> = <<a, b>> /\ <<a>> \o <<b, c>> = <<a, b, c>>
<1>1. <<>> \o <<a>> = <<a>> /\ <<>> \o <<a, b>> = <<a, b>>  OBVIOUS
<1>2. <<a>> \o <<b>> = <<a, b>>
  <2>1. <<a>> \in Seq({a, b}) /\ <<b>> \in Seq({a, b})  OBVIOUS
  <2>2. /\ Len(<<a>> \o <<b>>) = 2 /\ <<a>> \o <<b>> \in Seq({a, b})
        /\ \A i \in 1..2 : (<<a>> \o <<b>>)[i] = IF i = 1 THEN a ELSE <<b>>[i - 1]
    BY <2>1, ConcatProperties
  <2>3. Len(<<a, b>>) = 2 /\ <<a, b>> \in Seq({a, b})  OBVIOUS
  <2>4. \A i \in 1..2 : (<<a>> \o <<b>>)[i] = <<a, b>>[i]
    <3> SUFFICES ASSUME NEW i \in 1..2 PROVE (<<a>> \o <<b>>)[i] = <<a, b>>[i]
      OBVIOUS
    <3>1. i = 1 \/ i = 2  OBVIOUS
    <3> QED  BY <2>2, <3>1
  <2> QED  BY <2>2, <2>3, <2>4, SeqEqual
<1>3. <<a>> \o <<b, c>> = <<a, b, c>>
  <2>1. <<a>> \in Seq({a, b, c}) /\ <<b, c>> \in Seq({a, b, c})  OBVIOUS
  <2>2. /\ Len(<<a>> \o <<b, c>>) = 3 /\ <<a>> \o <<b, c>> \in Seq({a, b, c})
        /\ \A i \in 1..3 : (<<a>> \o <<b, c>>)[i] = IF i = 1 THEN a ELSE <<b, c>>[i - 1]
    BY <2>1, ConcatProperties
  <2>3. Len(<<a, b, c>>) = 3 /\ <<a, b, c>> \in Seq({a, b, c})  OBVIOUS
  <2>4. \A i \in 1..3 : (<<a>> \o <<b, c>>)[i] = <<a, b, c>>[i]
    <3> SUFFICES ASSUME NEW i \in 1..3 PROVE (<<a>> \o <<b, c>>)[i] = <<a, b, c>>[i]
      OBVIOUS
    <3>1. i = 1 \/ i = 2 \/ i = 3  OBVIOUS
    <3> QED  BY <2>2, <3>1
  <2> QED  BY <2>2, <2>3, <2>4, SeqEqual
<1> QED  BY <1>1, <1>2, <1>3

LEMMA Tuples ==
    /\ \A a : <<>> \o <<a>> = <<a>>
    /\ \A a, b : <<a>> \o <<b>> = <<a, b>> /\ <<>> \o <<a, b>> = <<a, b>>
    /\ \A a, b, c : <<a>> \o <<b, c>> = <<a, b, c>>
BY Tuples3

LEMMA Appended ==
    ASSUME NEW q, IsSeq(q)
    PROVE  /\ \A a : q \o <<a>> = Append(q, a)
           /\ \A a, b : q \o <<a, b>> = Append(Append(q, a), b)
           /\ \A a, b, c : q \o <<a, b, c>> = Append(Append(Append(q, a), b), c)
<1>1. ASSUME NEW a, NEW b, NEW c
      PROVE  /\ q \o <<a>> = Append(q, a)
             /\ q \o <<a, b>> = Append(Append(q, a), b)
             /\ q \o <<a, b, c>> = Append(Append(Append(q, a), b), c)
  <2>1. PICK S : q \in Seq(S)  BY DEF IsSeq
  <2>2. q \in Seq(S \cup {a, b, c})  BY <2>1
  <2> QED  BY <2>2
<1> QED  BY <1>1

(* A variable is read.                                                     *)
LEMMA OwnedUse ==
    ASSUME Inv, Scopes, Careful, UNCHANGED features,
           NEW own, NEW held, Owned(own, held), NEW y,
           Use(y) \/ Push(y) \/ \E lambda \in BOOLEAN : CallIndirect(y, lambda)
    PROVE  \E own2 : Owned(own2, held)'
<1>1. ~terminated  BY DEF Use, Push, CallIndirect, Statement
<1>2. PICK O, D, K : AtHand(own, held, O, D, K)  BY <1>1, Now
<1>3. PICK i : /\ code' = code \o <<i>>
               /\ i = Load(y) \/ (i = Grow(y) /\ kind[y] = "list")
  <2>1. ASSUME NEW lambda \in BOOLEAN, CallIndirect(y, lambda) PROVE code' = code \o <<Load(y)>>
    <3>1. lambda
      BY <2>1 DEF CallIndirect, Gate, Careful, LeakFeatures
    <3> QED  BY <2>1, <3>1 DEF CallIndirect, Emit
  <2>2. Use(y) => code' = code \o <<Load(y)>>  BY DEF Use, Emit
  <2>3. Push(y) => code' = code \o <<Grow(y)>> /\ kind[y] = "list"  BY DEF Push, Emit
  <2>4. code' = code \o <<Load(y)>> \/ (code' = code \o <<Grow(y)>> /\ kind[y] = "list")
    BY <2>1, <2>2, <2>3
  <2>5. CASE code' = code \o <<Load(y)>>  BY <2>5
  <2>6. CASE code' = code \o <<Grow(y)>> /\ kind[y] = "list"  BY <2>6
  <2> QED  BY <2>4, <2>5, <2>6
<1>4. /\ UNCHANGED <<label, control, terminated, kind, cleanups, visible>>
      /\ y \in Readable /\ moved \subseteq moved'
  BY DEF Use, Push, CallIndirect, Straight
<1>5. /\ IsSeq(code) /\ DOMAIN visible \subseteq DOMAIN kind
      /\ y \in O /\ y \in DOMAIN visible /\ O \subseteq DOMAIN visible
  BY <1>1, <1>2, <1>4, Now DEF AtHand
<1>14. i.slot = y /\ i.op \in {"load", "grow"} /\ (i.op = "grow" => kind[y] = "list")
  BY <1>3 DEF Load, Grow
<1>6. i.op \notin Leaves /\ Owners(kind, O, i) = O  BY <1>14 DEF Leaves, Owners
<1>7. Operands(kind, O, i, Exact)  BY <1>5, <1>14 DEF Leaves, Operands, Heap
<1>8. code' = Append(code, i)  BY <1>3, <1>5, Appended
<1>9. \E own2 : Emitted(kind, code, own, Append(code, i), own2, O, label, Exact)
  <2>1. Passes(Owners(kind, O, i), O, kind, Exact)  BY <1>6 DEF Passes
  <2>2. O \subseteq DOMAIN kind  BY <1>5
  <2> QED  BY <1>2, <1>5, <1>6, <1>7, <2>1, <2>2, EmitOne DEF AtHand
<1>10. PICK own2 : Emitted(kind', code, own, code', own2, O, label, Exact)
  BY <1>4, <1>8, <1>9
<1>11. Here(O, visible', moved', D, K, kind', Exact)
  BY <1>2, <1>4 DEF AtHand, Here, Readable
<1>12. D = Due(cleanups')  BY <1>2, <1>4 DEF AtHand
<1> QED  BY <1>1, <1>2, <1>4, <1>10, <1>11, <1>12, OwnedPlain

(* A value is copied to x and its source y left alone or invalidated.      *)
LEMMA EmitMove ==
    ASSUME NEW knd, NEW cd0, NEW own0, NEW cd, NEW own, NEW W, NEW lb, NEW exact,
           IsSeq(cd0), Emitted(knd, cd0, own0, cd, own, W, lb, exact), W \subseteq DOMAIN knd,
           NEW x \in DOMAIN knd, NEW y \in W, y # x, knd[x] = "str" <=> knd[y] = "str",
           exact => x \notin W \cap Heap(knd),
           NEW V, V = (W \cup {x}) \ {y}, NEW i, i = Copy(x, y), NEW j, j = Undef(y)
    PROVE  /\ \E own2 : Emitted(knd, cd0, own0, Append(cd, i), own2, V, lb, exact)
           /\ \E own2 : Emitted(knd, cd0, own0, Append(Append(cd, i), j), own2, V, lb, exact)
<1>1. V = (W \cup {x}) \ {y}  OBVIOUS
<1>2. i.op = "copy" /\ i.slot = x /\ i.from = y /\ j.op = "undef" /\ j.slot = y
  BY DEF Copy, Undef
<1>3. i.op \notin Leaves /\ j.op \notin Leaves  BY <1>2 DEF Leaves
<1>4. Operands(knd, W, i, exact)  BY <1>2 DEF Operands, Leaves
<1>5. Passes(Owners(knd, W, i), V, knd, exact)
  <2>1. knd[x] # "str" => Owners(knd, W, i) = V  BY <1>1, <1>2 DEF Owners
  <2>2. knd[x] = "str" => Owners(knd, W, i) = W \cup {x} /\ y \notin Heap(knd)
    BY <1>2 DEF Owners, Heap
  <2> QED  BY <1>1, <2>1, <2>2 DEF Passes
<1>6. V \subseteq DOMAIN knd  BY <1>1
<1>8. PICK own1 : Emitted(knd, cd0, own0, Append(cd, i), own1, V, lb, exact)
  BY <1>3, <1>4, <1>5, <1>6, EmitOne
<1>9. Operands(knd, V, j, exact)  BY <1>1, <1>2 DEF Operands, Leaves
<1>10. Owners(knd, V, j) = V  BY <1>1, <1>2 DEF Owners
<1>11. Passes(Owners(knd, V, j), V, knd, exact)  BY <1>10 DEF Passes
<1>12. \E own2 : Emitted(knd, cd0, own0, Append(Append(cd, i), j), own2, V, lb, exact)
  BY <1>3, <1>6, <1>8, <1>9, <1>11, EmitOne
<1> QED  BY <1>1, <1>8, <1>12

(* What an assignment to t frees.                                          *)
Freed(own, O, t, cd1, own1, W1) ==
    /\ Emitted(kind, code, own, cd1, own1, W1, label, Exact)
    /\ O \ {t} \subseteq W1 /\ W1 \subseteq O
    /\ Exact => t \notin W1 \cap Heap(kind)
    /\ \A a : code \o (emit_var_free(cleanups, t) \o <<a>>) = Append(cd1, a)
    /\ \A a, b : code \o (emit_var_free(cleanups, t) \o <<a, b>>) = Append(Append(cd1, a), b)

LEMMA EmitOld ==
    ASSUME NEW own, NEW held, NEW O, NEW D, NEW K, AtHand(own, held, O, D, K), IsSeq(code),
           DOMAIN visible \subseteq DOMAIN kind, NEW t
    PROVE  \E cd1, own1, W1 : Freed(own, O, t, cd1, own1, W1)
<1>1. CASE t \notin D
  <2>1. emit_var_free(cleanups, t) = <<>>
    BY <1>1, ActiveDue DEF emit_var_free, AtHand
  <2>2. ASSUME NEW a PROVE code \o (emit_var_free(cleanups, t) \o <<a>>) = Append(code, a)
    <3>1. emit_var_free(cleanups, t) \o <<a>> = <<a>>  BY <2>1, Tuples
    <3>2. code \o <<a>> = Append(code, a)  BY Appended
    <3> QED  BY <3>1, <3>2
  <2>3. ASSUME NEW a, NEW b
        PROVE  code \o (emit_var_free(cleanups, t) \o <<a, b>>) = Append(Append(code, a), b)
    <3>1. emit_var_free(cleanups, t) \o <<a, b>> = <<a, b>>  BY <2>1, Tuples
    <3>2. code \o <<a, b>> = Append(Append(code, a), b)  BY Appended
    <3> QED  BY <3>1, <3>2
  <2>4. Exact => t \notin O \cap Heap(kind)  BY <1>1 DEF AtHand
  <2>5. Freed(own, O, t, code, own, O)  BY <2>2, <2>3, <2>4 DEF AtHand, Freed
  <2> QED  BY <2>5
<1>2. CASE t \in D
  <2>1. emit_var_free(cleanups, t) = <<Free(t)>>
    BY <1>2, ActiveDue DEF emit_var_free, AtHand
  <2>2. PICK i : i = Free(t)  OBVIOUS
  <2>3. i.op = "free" /\ i.slot = t  BY <2>2 DEF Free
  <2>4. ASSUME NEW a
        PROVE  code \o (emit_var_free(cleanups, t) \o <<a>>) = Append(Append(code, i), a)
    <3>1. emit_var_free(cleanups, t) \o <<a>> = <<i, a>>  BY <2>1, <2>2, Tuples
    <3>2. code \o <<i, a>> = Append(Append(code, i), a)  BY Appended
    <3> QED  BY <3>1, <3>2
  <2>5. ASSUME NEW a, NEW b
        PROVE  code \o (emit_var_free(cleanups, t) \o <<a, b>>)
                    = Append(Append(Append(code, i), a), b)
    <3>1. emit_var_free(cleanups, t) \o <<a, b>> = <<i, a, b>>  BY <2>1, <2>2, Tuples
    <3>2. code \o <<i, a, b>> = Append(Append(Append(code, i), a), b)  BY Appended
    <3> QED  BY <3>1, <3>2
  <2>6. i.op \notin Leaves /\ Operands(kind, O, i, Exact)
    <3>1. t \in O \cap Heap(kind)  BY <1>2 DEF AtHand
    <3> QED  BY <2>3, <3>1 DEF Leaves, Operands
  <2>7. Owners(kind, O, i) = O \ {t}  BY <2>3 DEF Owners
  <2>8. Passes(Owners(kind, O, i), O \ {t}, kind, Exact)  BY <2>7 DEF Passes
  <2>9. O \ {t} \subseteq DOMAIN kind /\ Emitted(kind, code, own, code, own, O, label, Exact)
    BY DEF AtHand
  <2>10. \E own1 : Emitted(kind, code, own, Append(code, i), own1, O \ {t}, label, Exact)
    BY <2>6, <2>8, <2>9, EmitOne
  <2>11. PICK cd1, W1 : cd1 = Append(code, i) /\ W1 = O \ {t}  OBVIOUS
  <2>12. PICK own1 : Emitted(kind, code, own, cd1, own1, W1, label, Exact)  BY <2>10, <2>11
  <2>13. O \ {t} \subseteq W1 /\ W1 \subseteq O /\ (Exact => t \notin W1 \cap Heap(kind))
    BY <2>11
  <2>14. /\ \A a : code \o (emit_var_free(cleanups, t) \o <<a>>) = Append(cd1, a)
         /\ \A a, b : code \o (emit_var_free(cleanups, t) \o <<a, b>>)
                            = Append(Append(cd1, a), b)
    BY <2>4, <2>5, <2>11
  <2>15. Freed(own, O, t, cd1, own1, W1)  BY <2>12, <2>13, <2>14 DEF Freed
  <2> QED  BY <2>15
<1> QED  BY <1>1, <1>2

(* A value is passed on.                                                   *)
LEMMA OwnedCall ==
    ASSUME Inv, Scopes, Careful, UNCHANGED features,
           NEW own, NEW held, Owned(own, held), NEW y, CallDirect(y)
    PROVE  \E own2 : Owned(own2, held)'
<1>1. ~terminated /\ MayMove(y)  BY DEF CallDirect, Statement
<1>2. PICK O, D, K : AtHand(own, held, O, D, K)  BY <1>1, Now
<1>3. PICK i, j, V : i = Consume(y) /\ j = Undef(y) /\ V = O \ {y}  OBVIOUS
<1>4. i.op = "consume" /\ i.slot = y /\ j.op = "undef" /\ j.slot = y
  BY <1>3 DEF Consume, Undef
<1>5. /\ y \notin moved /\ y \in DOMAIN visible /\ Once(cleanups, y)
      /\ \A k \in Branches : y \notin control[k].moved
      /\ Exact => \A k \in Branches : y \notin DOMAIN control[k].visible
  BY <1>1, MovesAway
<1>6. /\ IsSeq(code) /\ DOMAIN visible \subseteq DOMAIN kind
      /\ y \in O /\ O \subseteq DOMAIN visible /\ y \notin K
  BY <1>1, <1>2, <1>5, Now DEF AtHand, Readable
<1>7. /\ UNCHANGED <<label, control, terminated, kind, visible>>
      /\ moved' = moved \cup {y} /\ cleanups' = cancel_cleanup(cleanups, y)
      /\ code' = code \o <<i, j>>
  BY <1>3 DEF CallDirect, Straight, Emit
<1>8. i.op \notin Leaves /\ j.op \notin Leaves  BY <1>4 DEF Leaves
<1>9. Operands(kind, O, i, Exact) /\ Operands(kind, V, j, Exact)
  BY <1>3, <1>4, <1>6 DEF Operands, Leaves
<1>10. Owners(kind, O, i) = V /\ Owners(kind, V, j) = V  BY <1>3, <1>4 DEF Owners
<1>11. Passes(Owners(kind, O, i), V, kind, Exact) /\ Passes(Owners(kind, V, j), V, kind, Exact)
  BY <1>10 DEF Passes
<1>12. V \subseteq DOMAIN kind /\ Emitted(kind, code, own, code, own, O, label, Exact)
  BY <1>2, <1>3, <1>6 DEF AtHand
<1>13. PICK own1 : Emitted(kind, code, own, Append(code, i), own1, V, label, Exact)
  BY <1>6, <1>8, <1>9, <1>11, <1>12, EmitOne
<1>14. \E own2 : Emitted(kind, code, own, Append(Append(code, i), j), own2, V, label, Exact)
  BY <1>6, <1>8, <1>9, <1>11, <1>12, <1>13, EmitOne
<1>15. code' = Append(Append(code, i), j)  BY <1>6, <1>7, Appended
<1>16. PICK own2 : Emitted(kind', code, own, code', own2, V, label, Exact)
  BY <1>7, <1>14, <1>15
<1>17. PICK D2 : D2 = D \ {y}  OBVIOUS
<1>18. D2 = Due(cleanups')  BY <1>2, <1>5, <1>7, <1>17, CancelOnce DEF AtHand
<1>19. Here(V, visible', moved', D2, K, kind', Exact)
  BY <1>2, <1>3, <1>6, <1>7, <1>17 DEF AtHand, Here, Readable
<1>20. \A k \in Branches :
              /\ D2 \cap DOMAIN control[k].visible \subseteq D \cup (DOMAIN control[k].visible
                                \ (control[k].moved \cup UNION control[k].ends))
              /\ Exact => D \cap DOMAIN control[k].visible \subseteq D2
  BY <1>5, <1>17
<1>21. /\ UNCHANGED <<features, label, control, terminated>> /\ DOMAIN kind \subseteq DOMAIN kind'
       /\ \A s \in DOMAIN kind : kind'[s] = kind[s]
  BY <1>7
<1>22. ~terminated  BY <1>1
<1> QED  BY <1>2, <1>16, <1>18, <1>19, <1>20, <1>21, <1>22, OwnedPlain

LEMMA OwnedAssign ==
    ASSUME Inv, Scopes, Careful, UNCHANGED features,
           NEW own, NEW held, Owned(own, held), NEW t, AssignFresh(t)
    PROVE  \E own2 : Owned(own2, held)'
<1>1. ~terminated /\ Assignable(t)  BY DEF AssignFresh, Statement
<1>2. PICK O, D, K : AtHand(own, held, O, D, K)  BY <1>1, Now
<1>3. PICK i, V, D2 : i = New(t) /\ V = O \cup {t} /\ D2 = D \cup {t}  OBVIOUS
<1>4. i.op = "new" /\ i.slot = t  BY <1>3 DEF New
<1>5. /\ t \in DOMAIN visible
      /\ \A k \in Branches : t \notin control[k].moved \cup UNION control[k].ends
  BY <1>1, Assigns
<1>6. /\ IsSeq(code) /\ DOMAIN visible \subseteq DOMAIN kind
      /\ cleanups # <<>> /\ cleanups \in Lists(Len(kind)) /\ One(cleanups) /\ Len(kind) \in Nat
  BY <1>1, Now
<1>7. /\ UNCHANGED <<label, control, terminated, kind, visible>>
      /\ moved' = moved \ {t} /\ cleanups' = Replace(t)
      /\ code' = code \o (emit_var_free(cleanups, t) \o <<i>>)
  BY <1>3 DEF AssignFresh, Straight, Emit
<1>8. PICK cd1, own1, W1 : Freed(own, O, t, cd1, own1, W1)
  BY <1>2, <1>6, EmitOld
<1>20. /\ Emitted(kind, code, own, cd1, own1, W1, label, Exact)
       /\ O \ {t} \subseteq W1 /\ W1 \subseteq O
       /\ Exact => t \notin W1 \cap Heap(kind)
       /\ \A a : code \o (emit_var_free(cleanups, t) \o <<a>>) = Append(cd1, a)
       /\ \A a, b : code \o (emit_var_free(cleanups, t) \o <<a, b>>) = Append(Append(cd1, a), b)
  BY <1>8 DEF Freed
<1>9. i.op \notin Leaves /\ Operands(kind, W1, i, Exact)
  BY <1>4, <1>5, <1>6, <1>20 DEF Leaves, Operands
<1>10. V \subseteq DOMAIN kind /\ Owners(kind, W1, i) = V
  <2>1. Owners(kind, W1, i) = W1 \cup {t}  BY <1>4 DEF Owners
  <2>2. W1 \cup {t} = V  BY <1>3, <1>20
  <2> QED  BY <1>2, <1>3, <1>5, <1>6, <2>1, <2>2 DEF AtHand
<1>11. Passes(Owners(kind, W1, i), V, kind, Exact)  BY <1>10 DEF Passes
<1>12. \E own2 : Emitted(kind, code, own, Append(cd1, i), own2, V, label, Exact)
  BY <1>6, <1>20, <1>9, <1>10, <1>11, EmitOne
<1>13. code' = Append(cd1, i)  BY <1>7, <1>20
<1>14. PICK own2 : Emitted(kind', code, own, code', own2, V, label, Exact)
  BY <1>7, <1>12, <1>13
<1>15. D2 = Due(cleanups')  BY <1>2, <1>3, <1>6, <1>7, ReplaceDue DEF AtHand
<1>16. Here(V, visible', moved', D2, K, kind', Exact)
  BY <1>2, <1>3, <1>5, <1>7 DEF AtHand, Here, Readable
<1>17. \A k \in Branches :
              /\ D2 \cap DOMAIN control[k].visible \subseteq D \cup (DOMAIN control[k].visible
                                \ (control[k].moved \cup UNION control[k].ends))
              /\ Exact => D \cap DOMAIN control[k].visible \subseteq D2
  BY <1>3, <1>5
<1>18. /\ UNCHANGED <<features, label, control, terminated>> /\ DOMAIN kind \subseteq DOMAIN kind'
       /\ \A s \in DOMAIN kind : kind'[s] = kind[s]
  BY <1>7
<1>19. ~terminated  BY <1>1
<1> QED  BY <1>2, <1>14, <1>15, <1>16, <1>17, <1>18, <1>19, OwnedPlain

(* A careful program moves no value past a cleanup that stays.             *)
LEMMA NoCleanupKept ==
    ASSUME Careful, NEW y, NEW invalidated, ~invalidated,
           \/ Gate("list copy", KeepsCleanup(y, invalidated))
           \/ Gate("list return", KeepsCleanup(y, invalidated))
    PROVE  y \notin Due(cleanups)
<1>1. Active(cleanups, y) = {}  BY DEF Gate, Careful, LeakFeatures, KeepsCleanup
<1> QED  BY <1>1 DEF Active, Due, Uncancelled

LEMMA OwnedAssignFrom ==
    ASSUME Inv, Scopes, Careful, UNCHANGED features,
           NEW own, NEW held, Owned(own, held), NEW t, NEW y, AssignFrom(t, y)
    PROVE  \E own2 : Owned(own2, held)'
<1>1. ~terminated /\ Assignable(t) /\ MayMove(y) /\ t # y /\ kind[t] = kind[y]
  BY DEF AssignFrom, Statement
<1>2. PICK O, D, K : AtHand(own, held, O, D, K)  BY <1>1, Now
<1>3. PICK i, j, V, D2 : /\ i = Copy(t, y) /\ j = Undef(y)
                         /\ V = (O \cup {t}) \ {y} /\ D2 = (D \cup {t}) \ {y}
  OBVIOUS
<1>4. /\ y \notin moved /\ y \in DOMAIN visible /\ Once(cleanups, y)
      /\ \A k \in Branches : y \notin control[k].moved
      /\ Exact => \A k \in Branches : y \notin DOMAIN control[k].visible
  BY <1>1, MovesAway
<1>5. /\ t \in DOMAIN visible /\ kind[t] # "str"
      /\ \A k \in Branches : t \notin control[k].moved \cup UNION control[k].ends
  BY <1>1, Assigns
<1>6. /\ IsSeq(code) /\ DOMAIN visible \subseteq DOMAIN kind
      /\ cleanups # <<>> /\ cleanups \in Lists(Len(kind)) /\ One(cleanups) /\ Len(kind) \in Nat
      /\ y \in O /\ O \subseteq DOMAIN visible /\ y \notin K
  BY <1>1, <1>2, <1>4, Now DEF AtHand, Readable
<1>7. \/ /\ cleanups' = cancel_cleanup(Replace(t), y)
         /\ code' = code \o (emit_var_free(cleanups, t) \o <<i, j>>)
      \/ /\ cleanups' = Replace(t) /\ y \notin Due(cleanups)
         /\ code' = code \o (emit_var_free(cleanups, t) \o <<i>>)
  <2>1. CASE borrow_kind[t] = "Own"  BY <1>3, <2>1 DEF AssignFrom, Emit
  <2>2. CASE borrow_kind[t] # "Own"
    <3>1. y \notin Due(cleanups)  BY <2>2, NoCleanupKept DEF AssignFrom
    <3> QED  BY <1>3, <2>2, <3>1 DEF AssignFrom, Emit
  <2> QED  BY <2>1, <2>2
<1>8. /\ UNCHANGED <<label, control, terminated, kind, visible>>
      /\ moved' = (moved \ {t}) \cup {y}
  BY DEF AssignFrom, Straight
<1>9. PICK cd1, own1, W1 : Freed(own, O, t, cd1, own1, W1)
  BY <1>2, <1>6, EmitOld
<1>20. /\ Emitted(kind, code, own, cd1, own1, W1, label, Exact)
       /\ O \ {t} \subseteq W1 /\ W1 \subseteq O
       /\ Exact => t \notin W1 \cap Heap(kind)
       /\ \A a : code \o (emit_var_free(cleanups, t) \o <<a>>) = Append(cd1, a)
       /\ \A a, b : code \o (emit_var_free(cleanups, t) \o <<a, b>>) = Append(Append(cd1, a), b)
  BY <1>9 DEF Freed
<1>10. V \subseteq DOMAIN kind /\ (W1 \cup {t}) \ {y} = V /\ W1 \subseteq DOMAIN kind
       /\ y \in W1 /\ t \in DOMAIN kind
  BY <1>1, <1>2, <1>3, <1>5, <1>6, <1>20 DEF AtHand
<1>11. /\ \E own2 : Emitted(kind, code, own, Append(cd1, i), own2, V, label, Exact)
       /\ \E own2 : Emitted(kind, code, own, Append(Append(cd1, i), j), own2, V, label, Exact)
  <2>1. /\ IsSeq(code) /\ Emitted(kind, code, own, cd1, own1, W1, label, Exact)
        /\ W1 \subseteq DOMAIN kind /\ t \in DOMAIN kind /\ y \in W1 /\ y # t
        /\ kind[t] = "str" <=> kind[y] = "str"
        /\ Exact => t \notin W1 \cap Heap(kind)
        /\ V = (W1 \cup {t}) \ {y} /\ i = Copy(t, y) /\ j = Undef(y)
    BY <1>1, <1>3, <1>6, <1>20, <1>10
  <2> QED  BY <2>1, EmitMove
<1>12. code' = Append(Append(cd1, i), j) \/ code' = Append(cd1, i)  BY <1>7, <1>20
<1>13. PICK own2 : Emitted(kind', code, own, code', own2, V, label, Exact)
  BY <1>8, <1>11, <1>12
<1>14. D2 = Due(cleanups')
  <2>1. Once(Replace(t), y)  BY <1>1, <1>4, <1>6, ReplaceOnce
  <2>2. Due(cancel_cleanup(Replace(t), y)) = Due(Replace(t)) \ {y}  BY <2>1, CancelOnce
  <2>3. Due(Replace(t)) = Due(cleanups) \cup {t}  BY <1>6, ReplaceDue
  <2> QED  BY <1>1, <1>2, <1>3, <1>7, <2>2, <2>3 DEF AtHand
<1>15. Here(V, visible', moved', D2, K, kind', Exact)
  BY <1>2, <1>3, <1>5, <1>6, <1>8 DEF AtHand, Here, Readable
<1>16. \A k \in Branches :
              /\ D2 \cap DOMAIN control[k].visible \subseteq D \cup (DOMAIN control[k].visible
                                \ (control[k].moved \cup UNION control[k].ends))
              /\ Exact => D \cap DOMAIN control[k].visible \subseteq D2
  BY <1>3, <1>4, <1>5
<1>17. /\ UNCHANGED <<features, label, control, terminated>> /\ DOMAIN kind \subseteq DOMAIN kind'
       /\ \A s \in DOMAIN kind : kind'[s] = kind[s]
  BY <1>8
<1>18. ~terminated  BY <1>1
<1> QED  BY <1>2, <1>13, <1>14, <1>15, <1>16, <1>17, <1>18, OwnedPlain

(* A variable more: what is emitted so far stays as it is.                 *)
LEMMA EmitWider ==
    ASSUME Inv, NEW k, NEW typed, Declares(k, typed), NEW own, NEW O,
           Emitted(kind, code, own, code, own, O, label, Exact)
    PROVE  Emitted(kind', code, own, code, own, O, label, Exact)
<1>1. IsSeq(kind) /\ kind' = Append(kind, k)  BY Declared
<1>2. Flow(kind, code, own, label, FALSE, Exact)  BY DEF Emitted
<1>3. Flow(kind', code, own, label, FALSE, Exact)  BY <1>1, <1>2, MoreVariables
<1> QED  BY <1>3 DEF Emitted

LEMMA OwnedLet ==
    ASSUME Inv, Scopes, Careful, UNCHANGED features, NEW own, NEW held, Owned(own, held),
           NEW k \in Kinds, NEW typed \in BOOLEAN, LetFresh(k, typed)
    PROVE  \E own2 : Owned(own2, held)'
<1>1. ~terminated /\ Declares(k, typed)  BY DEF LetFresh, Statement
<1>2. PICK O, D, K : AtHand(own, held, O, D, K)  BY <1>1, Now
<1>3. PICK x, i, V : x = Len(kind) + 1 /\ i = New(x) /\ V = O \cup {x}  OBVIOUS
<1>4. i.op = "new" /\ i.slot = x  BY <1>3 DEF New
<1>5. /\ x \notin DOMAIN visible /\ x \in DOMAIN kind' /\ kind'[x] = k
      /\ DOMAIN kind \subseteq DOMAIN kind' /\ \A s \in DOMAIN kind : kind'[s] = kind[s]
      /\ DOMAIN visible' = DOMAIN visible \cup {x}
  BY <1>1, <1>3, Declared
<1>6. /\ IsSeq(code) /\ DOMAIN visible \subseteq DOMAIN kind
      /\ cleanups # <<>> /\ cleanups \in Lists(Len(kind)) /\ One(cleanups) /\ Len(kind) \in Nat
      /\ O \subseteq DOMAIN visible
  BY <1>1, <1>2, Now DEF AtHand
<1>7. /\ UNCHANGED <<label, control, terminated, moved>> /\ code' = code \o <<i>>
  BY <1>3 DEF LetFresh, Straight, Emit
<1>8. i.op \notin Leaves /\ Operands(kind', O, i, Exact)
  BY <1>4, <1>5, <1>6 DEF Leaves, Operands
<1>9. V \subseteq DOMAIN kind' /\ Owners(kind', O, i) = V
  BY <1>3, <1>4, <1>5, <1>6 DEF Owners
<1>10. Passes(Owners(kind', O, i), V, kind', Exact)  BY <1>9 DEF Passes
<1>11. Emitted(kind', code, own, code, own, O, label, Exact)
  BY <1>1, <1>2, EmitWider DEF AtHand
<1>12. \E own2 : Emitted(kind', code, own, Append(code, i), own2, V, label, Exact)
  BY <1>6, <1>8, <1>9, <1>10, <1>11, EmitOne
<1>13. code' = Append(code, i)  BY <1>6, <1>7, Appended
<1>14. PICK own2 : Emitted(kind', code, own, code', own2, V, label, Exact)
  BY <1>12, <1>13
<1>15. PICK D2 : D2 = Due(cleanups')  OBVIOUS
<1>16. D \subseteq D2 /\ D2 \subseteq D \cup {x} /\ (Exact /\ x \in Heap(kind') => x \in D2)
  <2>1. cleanups' = cleanups => D2 = D  BY <1>2, <1>15 DEF AtHand
  <2>2. cleanups' = add_cleanup(cleanups, x) => D2 = D \cup {x}
    BY <1>2, <1>6, <1>15, AddDue DEF AtHand
  <2>3. cleanups' = cleanups \/ cleanups' = add_cleanup(cleanups, x)
    BY <1>3 DEF LetFresh
  <2>4. ASSUME Exact, x \in Heap(kind') PROVE cleanups' = add_cleanup(cleanups, x)
    <3>1. k \in {"struct", "list"}
      BY <1>5, <2>4, BoundsAssumption DEF Heap
    <3>2. k = "list" => typed  BY <1>1, <2>4 DEF Declares, Gate, Exact
    <3> QED  BY <1>3, <3>1, <3>2 DEF LetFresh, Registered
  <2> QED  BY <2>1, <2>2, <2>3, <2>4
<1>17. Here(V, visible', moved', D2, K, kind', Exact)
  <2>1. \A s \in O : s \in Heap(kind') <=> s \in Heap(kind)  BY <1>5, <1>6 DEF Heap
  <2> QED  BY <1>2, <1>3, <1>5, <1>6, <1>7, <1>16, <2>1 DEF AtHand, Here, Readable
<1>18. \A j \in Branches :
              /\ D2 \cap DOMAIN control[j].visible \subseteq D \cup (DOMAIN control[j].visible
                                \ (control[j].moved \cup UNION control[j].ends))
              /\ Exact => D \cap DOMAIN control[j].visible \subseteq D2
  <2>1. ASSUME NEW j \in Branches PROVE x \notin DOMAIN control[j].visible
    <3>1. j \in 1..Len(control)  BY DEF Branches, Scopes, Nested, IsSeq
    <3>2. DOMAIN control[j].visible \subseteq DOMAIN visible  BY <3>1 DEF Scopes, Around
    <3> QED  BY <1>5, <3>2
  <2> QED  BY <1>16, <2>1
<1>19. UNCHANGED <<features, label, control, terminated>> /\ ~terminated  BY <1>1, <1>7
<1> QED  BY <1>2, <1>5, <1>14, <1>15, <1>17, <1>18, <1>19, OwnedPlain

LEMMA OwnedLetFrom ==
    ASSUME Inv, Scopes, Careful, UNCHANGED features, NEW own, NEW held, Owned(own, held),
           NEW y \in DOMAIN visible, NEW typed \in BOOLEAN, LetFrom(y, typed)
    PROVE  \E own2 : Owned(own2, held)'
<1>1. ~terminated /\ Declares(kind[y], typed) /\ MayMove(y)  BY DEF LetFrom, Statement
<1>2. PICK O, D, K : AtHand(own, held, O, D, K)  BY <1>1, Now
<1>3. PICK x, i, j : x = Len(kind) + 1 /\ i = Copy(x, y) /\ j = Undef(y)  OBVIOUS
<1>4. /\ y \notin moved /\ Once(cleanups, y)
      /\ \A k \in Branches : y \notin control[k].moved
      /\ Exact => \A k \in Branches : y \notin DOMAIN control[k].visible
  BY <1>1, MovesAway
<1>5. /\ x \notin DOMAIN visible /\ x \in DOMAIN kind' /\ kind'[x] = kind[y]
      /\ DOMAIN kind \subseteq DOMAIN kind' /\ \A s \in DOMAIN kind : kind'[s] = kind[s]
      /\ DOMAIN visible' = DOMAIN visible \cup {x}
  BY <1>1, <1>3, Declared
<1>6. /\ IsSeq(code) /\ DOMAIN visible \subseteq DOMAIN kind
      /\ cleanups # <<>> /\ cleanups \in Lists(Len(kind)) /\ One(cleanups) /\ Len(kind) \in Nat
      /\ O \subseteq DOMAIN visible /\ y \in O /\ y \notin K
  BY <1>1, <1>2, <1>4, Now DEF AtHand, Readable
<1>7. UNCHANGED <<label, control, terminated>> /\ moved' = moved \cup {y}
  BY DEF LetFrom, Straight
<1>8. Emitted(kind', code, own, code, own, O, label, Exact)
  BY <1>1, <1>2, EmitWider DEF AtHand
<1>9. \A s \in O : s \in Heap(kind') <=> s \in Heap(kind)  BY <1>5, <1>6 DEF Heap
<1>10. y # x /\ y \in DOMAIN kind /\ kind'[y] = kind[y] /\ O \subseteq DOMAIN kind' /\ x \notin O
  BY <1>5, <1>6
<1>11. PICK kept, with, V :
             /\ kept = BorrowKind(kind[y], typed) /\ V = (O \cup {x}) \ {y}
             /\ with = IF Registered(kind[y], typed) THEN add_cleanup(cleanups, x) ELSE cleanups
  <2>1. PICK V : V = (O \cup {x}) \ {y}  OBVIOUS
  <2>2. PICK with : with = IF Registered(kind[y], typed)
                           THEN add_cleanup(cleanups, x) ELSE cleanups
    OBVIOUS
  <2>3. PICK kept : kept = BorrowKind(kind[y], typed)  OBVIOUS
  <2> QED  BY <2>1, <2>2, <2>3
<1>12. ASSUME NEW k \in Branches PROVE x \notin DOMAIN control[k].visible
  <2>1. k \in 1..Len(control)  BY DEF Branches, Scopes, Nested, IsSeq
  <2>2. DOMAIN control[k].visible \subseteq DOMAIN visible  BY <2>1 DEF Scopes, Around
  <2> QED  BY <1>5, <2>2
<1>13. PICK own2 : Emitted(kind', code, own, code', own2, V, label, Exact)
  <2>1. PICK knd2 : knd2 = kind'  OBVIOUS
  <2>2. /\ Emitted(knd2, code, own, code, own, O, label, Exact) /\ O \subseteq DOMAIN knd2
        /\ x \in DOMAIN knd2 /\ (knd2[x] = "str" <=> knd2[y] = "str")
        /\ (Exact => x \notin O \cap Heap(knd2))
    BY <1>5, <1>8, <1>10, <2>1
  <2>3. /\ \E own2 : Emitted(knd2, code, own, Append(code, i), own2, V, label, Exact)
        /\ \E own2 : Emitted(knd2, code, own, Append(Append(code, i), j), own2, V, label, Exact)
    BY <1>3, <1>6, <1>10, <1>11, <2>2, EmitMove
  <2>4. code' = code \o <<i, j>> \/ code' = code \o <<i>>  BY <1>3 DEF LetFrom, Emit
  <2>5. code' = Append(Append(code, i), j) \/ code' = Append(code, i)
    BY <1>6, <2>4, Appended
  <2> QED  BY <2>1, <2>3, <2>5
<1>14. PICK D2 : D2 = Due(cleanups')  OBVIOUS
<1>15. /\ D \ {y} \subseteq D2 /\ D2 \subseteq D \cup {x} /\ y \notin D2
       /\ Exact /\ x \in Heap(kind') => x \in D2
  <2>1. Registered(kind[y], typed) => kept = "Own"  BY <1>11 DEF Registered, BorrowKind
  <2>2. Due(with) \ {y} \subseteq D \cup {x} /\ D \subseteq Due(with)
        /\ (Registered(kind[y], typed) => x \in Due(with))
    BY <1>2, <1>6, <1>11, AddDue DEF AtHand
  <2>3. CASE kept = "Own"
    <3>1. cleanups' = cancel_cleanup(with, y)  BY <1>3, <1>11, <2>3 DEF LetFrom
    <3>2. Once(with, y)  BY <1>4, <1>6, <1>10, <1>11, OnceAdd
    <3>3. D2 = Due(with) \ {y}  BY <1>14, <3>1, <3>2, CancelOnce
    <3>4. ASSUME Exact, x \in Heap(kind') PROVE Registered(kind[y], typed)
      <4>1. kind[y] \in {"struct", "list"}
        <5>1. kind[y] \in Kinds  BY TypesOfVariables
        <5> QED  BY <1>5, <3>4, <5>1, BoundsAssumption DEF Heap
      <4>2. kind[y] = "list" => typed  BY <1>1, <3>4 DEF Declares, Gate, Exact
      <4> QED  BY <4>1, <4>2 DEF Registered
    <3> QED  BY <1>10, <2>2, <3>3, <3>4
  <2>4. CASE kept # "Own"
    <3>1. cleanups' = cleanups  BY <1>3, <1>11, <2>1, <2>4 DEF LetFrom
    <3>2. y \notin Due(cleanups)
      <4>1. Gate("list copy", KeepsCleanup(y, BorrowKind(kind[y], typed) = "Own"))
        BY DEF LetFrom
      <4>2. ~(BorrowKind(kind[y], typed) = "Own")  BY <1>11, <2>4
      <4> QED  BY <4>1, <4>2, NoCleanupKept
    <3>3. ASSUME Exact, x \in Heap(kind') PROVE FALSE
      <4>1. kind[y] \in {"struct", "list"}
        <5>1. kind[y] \in Kinds  BY TypesOfVariables
        <5> QED  BY <1>5, <3>3, <5>1, BoundsAssumption DEF Heap
      <4>2. kind[y] = "list" => typed  BY <1>1, <3>3 DEF Declares, Gate, Exact
      <4> QED  BY <1>11, <2>4, <4>1, <4>2 DEF BorrowKind
    <3> QED  BY <1>2, <1>14, <3>1, <3>2, <3>3 DEF AtHand
  <2> QED  BY <2>3, <2>4
<1>16. Here(V, visible', moved', D2, K, kind', Exact)
  BY <1>2, <1>5, <1>6, <1>7, <1>9, <1>11, <1>15 DEF AtHand, Here, Readable
<1>17. \A k \in Branches :
              /\ D2 \cap DOMAIN control[k].visible \subseteq D \cup (DOMAIN control[k].visible
                                \ (control[k].moved \cup UNION control[k].ends))
              /\ Exact => D \cap DOMAIN control[k].visible \subseteq D2
  BY <1>4, <1>12, <1>15
<1>18. UNCHANGED <<features, label, control, terminated>> /\ ~terminated  BY <1>1, <1>7
<1> QED  BY <1>2, <1>5, <1>13, <1>14, <1>16, <1>17, <1>18, OwnedPlain

(* Nothing is opened or closed.                                            *)
StaysOpen ==
    /\ IsSeq(control') /\ Len(control') = Len(control)
    /\ \A j \in 1..Len(control) :
            /\ control'[j] = [control[j] EXCEPT !.ends = control'[j].ends]
            /\ control[j].ends \subseteq control'[j].ends

(* The joins that i jumps to allow for W; D2 is due then.                  *)
JumpsOut(held, i, W, D, D2) ==
    \A j \in Branches :
        /\ i.op = "br" /\ control[j].end \in i.to =>
                Reached(control'[j], W, D2, Kept(control, held, j), kind, Exact)
        /\ i.op = "br" /\ control[j].kind = "then" => control[j].other \notin i.to
        /\ D2 \cap DOMAIN control[j].visible \subseteq D
        /\ Exact => D \cap DOMAIN control[j].visible \subseteq D2

(* Behind a statement that ends the block, with instruction i.             *)
LEMMA OwnedLeft ==
    ASSUME Inv, Scopes, NEW own, NEW held, Owned(own, held), ~terminated,
           UNCHANGED <<features, label, kind, visible>>, terminated' = TRUE,
           StaysOpen,
           NEW O, NEW D, NEW K, AtHand(own, held, O, D, K),
           NEW own2, NEW i, NEW W, Left(kind, code, own, code', own2, i, W, label, Exact),
           NEW D2, D2 = Due(cleanups'), JumpsOut(held, i, W, D, D2)
    PROVE  Owned(own2, held)'
<1>1. /\ Flow(kind, code', own2, label, TRUE, Exact) /\ Len(code) < Len(code')
      /\ \A p \in 1..Len(code) : code'[p] = code[p] /\ own2[p] = own[p]
      /\ \A p \in (Len(code) + 1)..(Len(code') - 1) : code'[p].op \notin Leaves
      /\ code'[Len(code')] = i /\ own2[Len(code')] = W
  BY DEF Left
<1>2. Len(code) \in Nat /\ Len(code') \in Nat  BY <1>1, Now DEF Flow, IsSeq
<1>3. D = Due(cleanups)  BY DEF AtHand
<1>4. ASSUME NEW j \in Branches, NEW p \in (Len(code) + 1)..Len(code'), code'[p].op = "br"
      PROVE  /\ control[j].end \in code'[p].to =>
                    Reached(control'[j], own2[p], Due(cleanups'), Kept(control, held, j),
                            kind', Exact)
             /\ control[j].kind = "then" => control[j].other \notin code'[p].to
  <2>1. p = Len(code')
    <3>1. CASE p \in (Len(code) + 1)..(Len(code') - 1)  BY <1>1, <1>4, <3>1 DEF Leaves
    <3> QED  BY <1>2, <3>1
  <2>2. code'[p] = i /\ own2[p] = W  BY <1>1, <2>1
  <2>3. i.op = "br" /\ kind' = kind /\ D2 = Due(cleanups')  BY <1>4, <2>2
  <2> QED  BY <2>2, <2>3 DEF JumpsOut
<1>5. ASSUME NEW j \in Branches
      PROVE  /\ Due(cleanups') \cap DOMAIN control[j].visible
                    \subseteq Due(cleanups) \cup (DOMAIN control[j].visible
                                \ (control[j].moved \cup UNION control[j].ends))
             /\ Exact => Due(cleanups) \cap DOMAIN control[j].visible \subseteq Due(cleanups')
  BY <1>3 DEF JumpsOut
<1>6. Flow(kind', code', own2, label, terminated', Exact)
  <2>1. kind' = kind /\ terminated' = TRUE  OBVIOUS
  <2> QED  BY ONLY <1>1, <2>1
<1>8. Len(code) <= Len(code')  BY <1>1, <1>2
<1>9. terminated' \in BOOLEAN  OBVIOUS
<1>10. ~terminated' => Here(own2[Len(code') + 1], visible', moved', Due(cleanups'),
                            Kept(control, held, Len(control)), kind', Exact)
  OBVIOUS
<1>7. DOMAIN kind \subseteq DOMAIN kind' /\ \A s \in DOMAIN kind : kind'[s] = kind[s]
  OBVIOUS
<1>11. \A j \in Branches :
              /\ \A p \in (Len(code) + 1)..Len(code') : code'[p].op = "br" =>
                   /\ control[j].end \in code'[p].to =>
                        Reached(control'[j], own2[p], Due(cleanups'), Kept(control, held, j),
                                kind', Exact)
                   /\ control[j].kind = "then" => control[j].other \notin code'[p].to
              /\ Due(cleanups') \cap DOMAIN control[j].visible
                    \subseteq Due(cleanups) \cup (DOMAIN control[j].visible
                                \ (control[j].moved \cup UNION control[j].ends))
              /\ Exact => Due(cleanups) \cap DOMAIN control[j].visible \subseteq Due(cleanups')
  BY <1>4, <1>5
<1>12. \A p \in 1..Len(code) : code'[p] = code[p] /\ own2[p] = own[p]  BY <1>1
<1>13. IsSeq(control') /\ Len(control') = Len(control)  BY DEF StaysOpen
<1>14. \A j \in 1..Len(control) :
              /\ control'[j] = [control[j] EXCEPT !.ends = control'[j].ends]
              /\ control[j].ends \subseteq control'[j].ends
  BY DEF StaysOpen
<1>15. UNCHANGED <<features, label>>  OBVIOUS
<1>16. Inv /\ Scopes /\ Owned(own, held)  OBVIOUS
<1> QED  BY ONLY <1>6, <1>7, <1>8, <1>9, <1>10, <1>11, <1>12, <1>13, <1>14, <1>15, <1>16,
           OwnedStatement

LEMMA FreesSeq ==
    ASSUME NEW n \in Nat, NEW c \in Lists(n), One(c), NEW k
    PROVE  IsSeq(Frees(c, k))
<1>0. PICK D : D = DueFrom(c, k)  OBVIOUS
<1>1. PICK m \in Nat : \E f \in [1..m -> D] :
             /\ Frees(c, k) = [i \in 1..m |-> Free(f[i])]
             /\ \A i, j \in 1..m : f[i] = f[j] => i = j
             /\ \A s \in D : \E i \in 1..m : f[i] = s
  BY <1>0, FreesAre
<1>2. PICK f \in [1..m -> D] : Frees(c, k) = [i \in 1..m |-> Free(f[i])]
  BY <1>1
<1>3. PICK T : T = {Free(f[i]) : i \in 1..m}  OBVIOUS
<1>4. Frees(c, k) \in [1..m -> T]  BY <1>2, <1>3
<1>5. Frees(c, k) \in Seq(T)  BY <1>4
<1> QED  BY <1>5 DEF IsSeq

LEMMA Cleaned ==
    ASSUME NEW q, IsSeq(q), NEW f, IsSeq(f)
    PROVE  \A a : q \o (f \o <<a>>) = Append(q \o f, a)
<1>1. PICK S, T : q \in Seq(S) /\ f \in Seq(T)  BY DEF IsSeq
<1>2. ASSUME NEW a PROVE q \o (f \o <<a>>) = Append(q \o f, a)
  <2>1. PICK U : U = S \cup T \cup {a}  OBVIOUS
  <2>2. q \in Seq(U) /\ f \in Seq(U) /\ <<a>> \in Seq(U) /\ a \in U  BY <1>1, <2>1
  <2>3. (q \o f) \o <<a>> = q \o (f \o <<a>>)  BY <2>2, ConcatAssociative
  <2>4. q \o f \in Seq(U)  BY <2>2
  <2>5. (q \o f) \o <<a>> = Append(q \o f, a)  BY <2>2, <2>4
  <2> QED  BY <2>3, <2>5
<1> QED  BY <1>2

LEMMA AllDue ==
    ASSUME Scopes, NEW c, Placed(c, visible, kind)
    PROVE  DueFrom(c, 1) = Due(c)
<1>1. \A s \in Due(c) : visible[s] >= 1  BY DueArePlaced DEF Scopes, Names
<1> QED  BY <1>1, DueFromPlaced

(* A return: the lists c are cleaned up, and i is the instruction.         *)
Returning(c, i) ==
    /\ code' = code \o (Frees(c, 1) \o <<i>>)
    /\ cleanups' = CancelFrom(c, 1)
    /\ c \in Lists(Len(kind)) /\ One(c) /\ Placed(c, visible, kind)
    /\ i.op \in {"ret", "ret value"}

LEMMA OwnedReturning ==
    ASSUME Inv, Scopes, Careful, NEW own, NEW held, Owned(own, held), ~terminated,
           UNCHANGED <<features, label, kind, visible, control>>, terminated' = TRUE,
           NEW O, NEW D, NEW K, AtHand(own, held, O, D, K),
           NEW c, NEW i, Returning(c, i), Due(c) \subseteq D,
           Operands(kind, O \ Due(c), i, Exact),
           Exact /\ Branches # {} => D = {}
    PROVE  \E own2 : Owned(own2, held)'
<1>1. PICK n : n = Len(kind)  OBVIOUS
<1>2. n \in Nat /\ IsSeq(code) /\ DOMAIN visible \subseteq DOMAIN kind  BY <1>1, Now
<1>3. c \in Lists(n) /\ One(c) /\ Placed(c, visible, kind)  BY <1>1 DEF Returning
<1>4. DueFrom(c, 1) = Due(c)  BY <1>3, AllDue
<1>5. PICK f, W : f = Frees(c, 1) /\ W = O \ Due(c)  OBVIOUS
<1>6. \E own1 : Emitted(kind, code, own, code \o f, own1, W, label, Exact)
  <2>1. DueFrom(c, 1) \subseteq O \cap Heap(kind)  BY <1>4 DEF AtHand
  <2>2. Emitted(kind, code, own, code, own, O, label, Exact)  BY DEF AtHand
  <2>3. \E own1 : Emitted(kind, code, own, code \o Frees(c, 1), own1, O \ DueFrom(c, 1),
                          label, Exact)
    BY <1>2, <1>3, <2>1, <2>2, EmitFrees
  <2> QED  BY <1>4, <1>5, <2>3
<1>7. PICK own1 : Emitted(kind, code, own, code \o f, own1, W, label, Exact)  BY <1>6
<1>8. i.op \in Leaves /\ i.op # "br"  BY DEF Returning, Leaves
<1>9. PICK own2 : Left(kind, code, own, Append(code \o f, i), own2, i, W, label, Exact)
  <2>1. Operands(kind, W, i, Exact)  BY <1>5
  <2> QED  BY <1>2, <1>7, <1>8, <2>1, EmitLast
<1>10. code' = Append(code \o f, i)
  <2>1. IsSeq(f)  BY <1>2, <1>3, <1>5, FreesSeq
  <2>2. code' = code \o (f \o <<i>>)  BY <1>5 DEF Returning
  <2> QED  BY <1>2, <2>1, <2>2, Cleaned
<1>11. Left(kind, code, own, code', own2, i, W, label, Exact)  BY <1>9, <1>10
<1>12. PICK D2 : D2 = Due(cleanups')  OBVIOUS
<1>13. D2 = {}
  <2>1. Due(CancelFrom(c, 1)) = Due(c) \ DueFrom(c, 1)  BY <1>2, <1>3, CancelFromDue
  <2> QED  BY <1>4, <1>12, <2>1 DEF Returning
<1>14. ASSUME NEW j \in Branches
       PROVE  /\ i.op = "br" /\ control[j].end \in i.to =>
                    Reached(control'[j], W, D2, Kept(control, held, j), kind, Exact)
              /\ i.op = "br" /\ control[j].kind = "then" => control[j].other \notin i.to
              /\ D2 \cap DOMAIN control[j].visible \subseteq D
              /\ Exact => D \cap DOMAIN control[j].visible \subseteq D2
  BY <1>8, <1>13
<1>15. JumpsOut(held, i, W, D, D2)  BY <1>14 DEF JumpsOut
<1>16. StaysOpen
  <2>1. ASSUME NEW j \in 1..Len(control)
        PROVE  control[j] = [control[j] EXCEPT !.ends = control[j].ends]
    <3>1. IsConstruct(control[j])  BY DEF Scopes, Around
    <3> QED  BY <3>1 DEF IsConstruct
  <2>2. control' = control /\ IsSeq(control)  BY DEF Scopes, Nested
  <2> QED  BY <2>1, <2>2 DEF StaysOpen
<1>17. Owned(own2, held)'  BY <1>11, <1>12, <1>15, <1>16, OwnedLeft
<1> QED  BY <1>17

LEMMA OwnedReturn ==
    ASSUME Inv, Scopes, Careful, UNCHANGED features,
           NEW own, NEW held, Owned(own, held), ReturnFresh \/ \E y : ReturnVar(y)
    PROVE  \E own2 : Owned(own2, held)'
<1>1. /\ ~terminated /\ UNCHANGED <<label, kind, visible, control>> /\ terminated' = TRUE
      /\ Gate("early return", InBranch /\ Frees(cleanups, 1) # <<>>)
  BY DEF ReturnFresh, ReturnVar, Statement
<1>2. PICK O, D, K : AtHand(own, held, O, D, K)  BY <1>1, Now
<1>3. PICK n : n = Len(kind)  OBVIOUS
<1>4. n \in Nat /\ cleanups \in Lists(n) /\ One(cleanups) /\ Placed(cleanups, visible, kind)
      /\ DOMAIN visible \subseteq DOMAIN kind
  BY <1>1, <1>3, Now DEF Scopes
<1>5. ASSUME Exact, Branches # {} PROVE D = {}
  <2>1. Frees(cleanups, 1) = <<>>  BY <1>1, <1>5 DEF Gate, InBranch, Exact
  <2>2. DueFrom(cleanups, 1) = {}  BY <1>4, <2>1, NoFrees
  <2>3. DueFrom(cleanups, 1) = Due(cleanups)  BY <1>4, AllDue
  <2> QED  BY <1>2, <2>2, <2>3 DEF AtHand
<1>6. D = Due(cleanups) /\ (Exact => O \cap Heap(kind) \subseteq D) /\ Readable \subseteq O
  BY <1>2 DEF AtHand
<1>7. CASE ReturnFresh
  <2>1. PICK i : i = Ret  OBVIOUS
  <2>2. i.op = "ret"  BY <2>1 DEF Ret
  <2>3. Returning(cleanups, i)
    BY <1>3, <1>4, <1>7, <2>1, <2>2 DEF Returning, ReturnFresh, Emit
  <2>4. Operands(kind, O \ Due(cleanups), i, Exact)
    BY <1>6, <2>2 DEF Operands, Leaves
  <2> QED  BY <1>1, <1>2, <1>5, <1>6, <2>3, <2>4, OwnedReturning
<1>8. ASSUME NEW y, ReturnVar(y) PROVE \E own2 : Owned(own2, held)'
  <2>1. PICK c, i : /\ c = IF borrow_kind[y] = "Own" THEN cancel_cleanup(cleanups, y)
                           ELSE cleanups
                    /\ i = RetSlot(y)
    OBVIOUS
  <2>2. i.op = "ret value" /\ i.slot = y  BY <2>1 DEF RetSlot
  <2>3. /\ MayMove(y)
        /\ code' = code \o (Frees(c, 1) \o <<i>>) /\ cleanups' = CancelFrom(c, 1)
    BY <1>8, <2>1 DEF ReturnVar, Emit
  <2>4. y \in DOMAIN visible /\ Once(cleanups, y) /\ y \in Readable /\ y \in Slot
    BY <2>3, MovesAway DEF Readable
  <2>5. c \in Lists(n) /\ One(c) /\ Placed(c, visible, kind)
    <3>1. Good(cancel_cleanup(cleanups, y), n)  BY <1>4, CancelGood DEF Good
    <3>2. Placed(cancel_cleanup(cleanups, y), visible, kind)
      BY <1>4, MarkPlaced DEF cancel_cleanup
    <3> QED  BY <1>4, <2>1, <3>1, <3>2 DEF Good
  <2>6. Returning(c, i)  BY <1>3, <2>2, <2>3, <2>5 DEF Returning
  <2>7. Due(c) = D \ {y}
    <3>1. CASE borrow_kind[y] = "Own"  BY <1>6, <2>1, <2>4, <3>1, CancelOnce
    <3>2. CASE borrow_kind[y] # "Own"
      <4>1. y \notin D  BY <1>6, <1>8, <3>2, NoCleanupKept DEF ReturnVar
      <4> QED  BY <1>6, <2>1, <3>2, <4>1
    <3> QED  BY <3>1, <3>2
  <2>8. Operands(kind, O \ Due(c), i, Exact)
    BY <1>6, <2>2, <2>4, <2>7 DEF Operands, Leaves
  <2>9. Due(c) \subseteq D  BY <2>7
  <2> QED  BY <1>1, <1>2, <1>5, <2>6, <2>8, <2>9, OwnedReturning
<1> QED  BY <1>7, <1>8

(* The labels of constructs inside each other differ.                      *)
LEMMA Distinct ==
    ASSUME Scopes, NEW i \in Branches, NEW j \in Branches
    PROVE  /\ control[i].end # control[j].other
           /\ i # j => control[i].end # control[j].end /\ control[i].other # control[j].other
           /\ control[i].end \in DOMAIN label /\ control[i].other \in DOMAIN label
           /\ control[i].end \in Nat /\ control[i].other \in Nat
<1>1. PICK n, c, d : n = Len(label) /\ c = control[i] /\ d = control[j]  OBVIOUS
<1>2. /\ n \in Nat /\ DOMAIN label = 1..n /\ Len(control) \in Nat
      /\ DOMAIN control = 1..Len(control)
  BY <1>1 DEF Scopes, IsSeq, Nested
<1>3. i \in 1..Len(control) /\ j \in 1..Len(control) /\ c.kind # "block" /\ d.kind # "block"
  BY <1>1, <1>2 DEF Branches
<1>4. /\ c.other \in 1..n /\ c.end \in 1..n /\ c.other < c.end
      /\ d.other \in 1..n /\ d.end \in 1..n /\ d.other < d.end
  BY <1>1, <1>3 DEF Scopes, Labelled
<1>5. i < j => c.end < d.other
  BY <1>1, <1>3 DEF Scopes, Nested, Pair
<1>6. j < i => d.end < c.other
  BY <1>1, <1>3 DEF Scopes, Nested, Pair
<1>7. i < j \/ j < i \/ i = j  BY <1>2, <1>3
<1>8. /\ c.end # d.other
      /\ i # j => c.end # d.end /\ c.other # d.other
  <2>1. CASE i < j  BY <1>2, <1>4, <1>5, <2>1
  <2>2. CASE j < i  BY <1>2, <1>4, <1>6, <2>2
  <2>3. CASE i = j  BY <1>1, <1>2, <1>4, <2>3
  <2> QED  BY <1>7, <2>1, <2>2, <2>3
<1> QED  BY <1>1, <1>2, <1>4, <1>8

LEMMA KeptLess ==
    ASSUME NEW ctl, NEW held, NEW m \in Nat, NEW i \in 1..m
    PROVE  Kept(ctl, held, i) \subseteq Kept(ctl, held, m)
<1>1. \A j \in 1..i : j \in 1..m  OBVIOUS
<1> QED  BY <1>1 DEF Kept

(* break and continue find the innermost loop, and free nothing.           *)
LEMMA TheLoop ==
    ASSUME Scopes, Targets, NEW i \in Innermost(Loops)
    PROVE  /\ i \in Branches /\ i \in 1..Len(control) /\ control[i].kind = "loop"
           /\ lookup_loop = [cond |-> control[i].other, exit |-> control[i].end]
           /\ \A k : k = (CHOOSE e \in Innermost(LoopEnvs) : TRUE) =>
                        k \in Nat /\ control[i].env <= k
<1>1. PICK m, n, c : m = Len(control) /\ n = Len(loops) /\ c = control[i]  OBVIOUS
<1>2. m \in Nat /\ DOMAIN control = 1..m  BY <1>1 DEF Scopes, Nested, IsSeq
<1>3. i \in 1..m /\ c.kind = "loop" /\ i \in Branches
      /\ \A j \in 1..m : control[j].kind = "loop" => j <= i
  BY <1>1, <1>2 DEF Innermost, Loops, Branches
<1>4. n \in Nat /\ DOMAIN loops = 1..n /\ n = Env  BY <1>1 DEF Targets, IsSeq, Env
<1>5. TargetOf(control, m, lookup_loop)  BY <1>1, TargetsLookup
<1>6. lookup_loop = [cond |-> c.other, exit |-> c.end]
  <2>1. PICK k \in 1..m : /\ control[k].kind = "loop"
                          /\ lookup_loop = [cond |-> control[k].other, exit |-> control[k].end]
                          /\ \A j \in 1..m : j > k => control[j].kind # "loop"
    BY <1>1, <1>3, <1>5 DEF TargetOf
  <2>2. k = i  BY <1>1, <1>2, <1>3, <2>1
  <2> QED  BY <1>1, <2>1, <2>2
<1>7. c.env \in 1..n
  <2>1. Around(c, visible, moved, kind, Env)  BY <1>1, <1>3 DEF Scopes
  <2> QED  BY <1>3, <1>4, <2>1 DEF Around, EnvIn
<1>8. loops[c.env] # NoLoop
  <2>1. Restores(control, loops, i)  BY <1>1, <1>3 DEF Targets
  <2> QED  BY <1>1, <1>3, <2>1 DEF Restores
<1>9. c.env \in LoopEnvs /\ LoopEnvs \subseteq 1..n  BY <1>4, <1>7, <1>8 DEF LoopEnvs
<1>10. PICK k \in 1..n : loops[k] # NoLoop /\ \A j \in 1..n : j > k => loops[j] = NoLoop
  <2>1. Finds(loops, n, lookup_loop)  BY <1>4, TargetsLookup
  <2> QED  BY <1>7, <1>8, <2>1 DEF Finds
<1>11. k \in LoopEnvs /\ \A j \in LoopEnvs : j <= k  BY <1>4, <1>10 DEF LoopEnvs
<1>12. k \in Innermost(LoopEnvs)  BY <1>11 DEF Innermost
<1>13. ASSUME NEW e, e = (CHOOSE x \in Innermost(LoopEnvs) : TRUE) PROVE e \in Nat /\ c.env <= e
  <2>1. e \in Innermost(LoopEnvs)  BY <1>12, <1>13
  <2>2. e \in LoopEnvs /\ \A j \in LoopEnvs : j <= e  BY <2>1 DEF Innermost
  <2>3. e \in 1..n /\ c.env <= e  BY <1>9, <2>2
  <2> QED  BY <1>4, <2>3
<1> QED  BY <1>1, <1>3, <1>6, <1>13

LEMMA LoopIsClean ==
    ASSUME Inv, Scopes, Targets, Careful, NEW to, LeavesIteration(to), NEW i \in Innermost(Loops)
    PROVE  /\ Due(cleanups) \subseteq DOMAIN control[i].visible
           /\ Due(cleanups') = Due(cleanups)
           /\ \E k : code' = code \o (Frees(cleanups, k) \o <<Br({to})>>)
                     /\ DueFrom(cleanups, k) = {}
<1>1. PICK n, c, e : n = Len(kind) /\ c = control[i] /\ e = control[i].env  OBVIOUS
<1>2. n \in Nat /\ cleanups \in Lists(n) /\ One(cleanups) /\ Placed(cleanups, visible, kind)
  BY <1>1 DEF Inv, Scopes
<1>3. i \in 1..Len(control) /\ i \in Loops  BY TheLoop DEF Innermost
<1>4. Around(c, visible, moved, kind, Env)  BY <1>1, <1>3 DEF Scopes
<1>5. PICK k : k = (CHOOSE x \in Innermost(LoopEnvs) : TRUE)  OBVIOUS
<1>6. k \in Nat /\ e <= k  BY <1>1, <1>5, TheLoop
<1>7. code' = code \o (Frees(cleanups, k) \o <<Br({to})>>) /\ cleanups' = CancelFrom(cleanups, k)
  BY <1>5 DEF LeavesIteration, Emit
<1>8. DueFrom(cleanups, e) = {}
  <2>1. /\ \E j \in Innermost(Loops) : Frees(cleanups, control[j].env) = <<>>
        /\ \A j \in Innermost(Loops) : j = i
    <3>1. "break" \notin features  BY DEF Careful, LeakFeatures
    <3>2. \A j \in Innermost(Loops) : Frees(cleanups, control[j].env) = <<>>
      BY <3>1 DEF LeavesIteration, Gate
    <3>3. Len(control) \in Nat /\ DOMAIN control = 1..Len(control)
      BY DEF Scopes, Nested, IsSeq
    <3>4. ASSUME NEW j \in Innermost(Loops) PROVE j = i
      <4>1. j <= i /\ i <= j  BY <1>3, <3>4 DEF Innermost
      <4>2. i \in Nat /\ j \in Nat  BY <3>3, <3>4 DEF Innermost, Loops
      <4> QED  BY <4>1, <4>2
    <3> QED  BY <3>2, <3>4
  <2>2. Frees(cleanups, e) = <<>>  BY <1>1, <2>1
  <2> QED  BY <1>2, <2>2, NoFrees
<1>9. \A s \in Due(cleanups) : s \in DOMAIN visible /\ visible[s] \in Nat /\ kind[s] # "str"
  <2>1. \A s \in Due(cleanups) : s \in DOMAIN visible /\ kind[s] # "str"
    BY <1>2, DueArePlaced
  <2>2. \A s \in DOMAIN visible : visible[s] \in Nat  BY DEF Scopes, Names
  <2> QED  BY <2>1, <2>2
<1>10. \A s \in Due(cleanups) : ~(visible[s] >= e)
  BY <1>2, <1>8, DueFromPlaced
<1>11. e \in Nat  BY <1>1, <1>4 DEF Around
<1>12. Due(cleanups) \subseteq DOMAIN c.visible
  BY <1>1, <1>4, <1>9, <1>10, <1>11 DEF Around
<1>13. DueFrom(cleanups, k) = {}
  <2>1. DueFrom(cleanups, k) = {s \in Due(cleanups) : visible[s] >= k}
    BY <1>2, DueFromPlaced
  <2> QED  BY <1>6, <1>9, <1>10, <1>11, <2>1
<1>14. Due(cleanups') = Due(cleanups)
  <2>1. Due(CancelFrom(cleanups, k)) = Due(cleanups) \ DueFrom(cleanups, k)
    BY <1>2, CancelFromDue
  <2> QED  BY <1>7, <1>13, <2>1
<1> QED  BY <1>1, <1>7, <1>12, <1>13, <1>14

(* The jump: it is emitted where O own their values.                       *)
LEMMA LoopJump ==
    ASSUME Inv, Scopes, Targets, Careful, NEW to, LeavesIteration(to), NEW i \in Innermost(Loops),
           NEW own, NEW held, Owned(own, held), NEW O, NEW D, NEW K, AtHand(own, held, O, D, K),
           to \in DOMAIN label,
           label[to] # 0 => label[to] \in 1..Len(code) /\ Passes(O, own[label[to]], kind, Exact)
    PROVE  \E own2 : Left(kind, code, own, code', own2, Br({to}), O, label, Exact)
<1>1. PICK n, j : n = Len(kind) /\ j = Br({to})  OBVIOUS
<1>2. ~terminated  BY DEF LeavesIteration, Statement
<1>3. /\ IsSeq(code) /\ Len(code) \in Nat
      /\ n \in Nat /\ cleanups \in Lists(n) /\ One(cleanups)
  BY <1>1, <1>2, Now
<1>4. PICK k : code' = code \o (Frees(cleanups, k) \o <<j>>) /\ DueFrom(cleanups, k) = {}
  BY <1>1, LoopIsClean
<1>5. PICK f : f = Frees(cleanups, k)  OBVIOUS
<1>6. \E own1 : Emitted(kind, code, own, code \o f, own1, O, label, Exact)
  <2>1. DueFrom(cleanups, k) \subseteq O \cap Heap(kind)  BY <1>4
  <2>2. Emitted(kind, code, own, code, own, O, label, Exact)  BY DEF AtHand
  <2>3. \E own1 : Emitted(kind, code, own, code \o Frees(cleanups, k), own1,
                          O \ DueFrom(cleanups, k), label, Exact)
    BY <1>3, <2>1, <2>2, EmitFrees
  <2>4. O \ DueFrom(cleanups, k) = O  BY <1>4
  <2> QED  BY <1>5, <2>3, <2>4
<1>7. PICK cd, own1 : cd = code \o f /\ Emitted(kind, code, own, cd, own1, O, label, Exact)
  BY <1>6
<1>8. code' = Append(cd, j)
  <2>1. IsSeq(f)  BY <1>3, <1>5, FreesSeq
  <2>2. code' = code \o (f \o <<j>>)  BY <1>4, <1>5
  <2> QED  BY <1>3, <1>7, <2>1, <2>2, Cleaned
<1>9. j.op = "br" /\ j.to = {to} /\ j.op \in Leaves  BY <1>1 DEF Br, Leaves
<1>10. Operands(kind, O, j, Exact)  BY <1>9 DEF Operands, Leaves
<1>11. ASSUME NEW l \in j.to
       PROVE  /\ l \in DOMAIN label
              /\ label[l] # 0 => /\ label[l] \in 1..(Len(cd) + 1)
                                 /\ Passes(O, own1[label[l]], kind, Exact)
  <2>1. l = to  BY <1>9, <1>11
  <2>2. Len(cd) \in Nat /\ Len(code) <= Len(cd) /\ \A p \in 1..Len(code) : own1[p] = own[p]
    BY <1>7 DEF Emitted, Flow, IsSeq
  <2> QED  BY <1>3, <2>1, <2>2
<1>12. \E own2 : Left(kind, code, own, Append(cd, j), own2, j, O, label, Exact)
  BY <1>3, <1>7, <1>9, <1>10, <1>11, EmitLast
<1> QED  BY <1>1, <1>8, <1>12

LEMMA OwnedLeaves ==
    ASSUME Inv, Scopes, Targets, Careful, UNCHANGED features,
           NEW own, NEW held, Owned(own, held), Break \/ Continue
    PROVE  \E own2 : Owned(own2, held)'
<1>1. PICK to : /\ LeavesIteration(to)
                /\ (Break /\ to = lookup_loop.exit) \/ (Continue /\ to = lookup_loop.cond)
  BY DEF Break, Continue
<1>2. PICK i \in Innermost(Loops) :
        \/ /\ Break /\ to = lookup_loop.exit
           /\ control' = [control EXCEPT ![i].ends = @ \cup {InScope(control[i], moved)}]
        \/ /\ Continue /\ to = lookup_loop.cond /\ control' = control
           /\ BackEdge(control[i], {InScope(control[i], moved)})
  <2>1. CASE Break /\ to = lookup_loop.exit
    <3>1. \E i \in Innermost(Loops) :
             control' = [control EXCEPT ![i].ends = @ \cup {InScope(control[i], moved)}]
      BY <2>1 DEF Break
    <3> QED  BY <2>1, <3>1
  <2>2. CASE Continue /\ to = lookup_loop.cond
    <3>1. control' = control
          /\ \E i \in Innermost(Loops) : BackEdge(control[i], {InScope(control[i], moved)})
      BY <2>2 DEF Continue
    <3> QED  BY <2>2, <3>1
  <2> QED  BY <1>1, <2>1, <2>2
<1>3. PICK m, c, d : m = Len(control) /\ c = control[i] /\ d = control'[i]  OBVIOUS
<1>4. /\ ~terminated /\ terminated' = TRUE /\ UNCHANGED <<features, label, kind, visible, moved>>
  BY <1>1 DEF LeavesIteration, Statement
<1>5. PICK O, D, K : AtHand(own, held, O, D, K)  BY <1>4, Now
<1>6. /\ D = Due(cleanups) /\ D \subseteq O /\ Readable \subseteq O /\ O \subseteq DOMAIN visible
      /\ Exact => O \cap Heap(kind) \subseteq D
      /\ K = Kept(control, held, m) /\ K \subseteq O
  BY <1>3, <1>5 DEF AtHand
<1>7. i \in Branches /\ i \in 1..m /\ c.kind = "loop"
      /\ lookup_loop = [cond |-> c.other, exit |-> c.end]
  BY <1>3, TheLoop
<1>8. D \subseteq DOMAIN c.visible /\ Due(cleanups') = D  BY <1>1, <1>3, <1>6, LoopIsClean
<1>9. IsSeq(control) /\ m \in Nat /\ DOMAIN control = 1..m  BY <1>3 DEF Scopes, Nested, IsSeq
<1>16. PICK D2 : D2 = Due(cleanups') /\ D2 = D  BY <1>8
<1>17. Inv /\ Scopes /\ Owned(own, held)  OBVIOUS
<1>18. ~terminated /\ terminated' = TRUE /\ UNCHANGED <<features, label, kind, visible>>
  BY <1>4
<1>10. PICK Ki : Ki = Kept(control, held, i) /\ Ki \subseteq K  BY <1>6, <1>7, <1>9, KeptLess
<1>11. Opened(c, held[i], D, Ki, kind, code, own, label, Exact)
  BY <1>3, <1>6, <1>7, <1>10 DEF Owned
<1>12. Around(c, visible, moved, kind, Env)  BY <1>3, <1>7 DEF Scopes
<1>13. to \in DOMAIN label /\ to \in {c.end, c.other}
  <2>1. to \in {c.end, c.other}  BY <1>1, <1>7
  <2> QED  BY <1>3, <1>7, <2>1, Distinct
<1>14. CASE /\ Break /\ to = lookup_loop.exit
            /\ control' = [control EXCEPT ![i].ends = @ \cup {InScope(control[i], moved)}]
  <2>1. to = c.end  BY <1>7, <1>14
  <2>2. label[to] = 0  BY <1>7, <1>11, <2>1 DEF Opened
  <2>3. PICK b, own2 : b = Br({to}) /\ Left(kind, code, own, code', own2, b, O, label, Exact)
    BY <1>1, <1>5, <1>13, <2>2, LoopJump
  <2>4. b.op = "br" /\ b.to = {to}  BY <2>3 DEF Br
  <2>5. /\ IsSeq(control') /\ Len(control') = m
        /\ \A j \in 1..m : j # i => control'[j] = control[j]
        /\ d = [c EXCEPT !.ends = c.ends \cup {moved \cap DOMAIN c.visible}]
    BY <1>3, <1>14, BreakShape
  <2>6. IsConstruct(c)  BY <1>12 DEF Around
  <2>7. /\ d.ends = c.ends \cup {moved \cap DOMAIN c.visible} /\ d.kind = "loop"
        /\ d.visible = c.visible /\ d.moved = c.moved
    BY <1>7, <2>5, <2>6 DEF IsConstruct
  <2>8. Reached(d, O, D, Ki, kind, Exact)
    <3>1. DOMAIN c.visible \cap moved \subseteq AllEnds(d)
      <4>1. moved \cap DOMAIN c.visible \in d.ends  BY <2>7
      <4>2. moved \cap DOMAIN c.visible \subseteq UNION d.ends  BY <4>1
      <4> QED  BY <4>2 DEF AllEnds
    <3>2. DOMAIN c.visible \subseteq DOMAIN visible  BY <1>12 DEF Around
    <3>3. DOMAIN d.visible \ AllEnds(d) \subseteq O  BY <1>6, <2>7, <3>1, <3>2 DEF Readable
    <3>4. Exact => O \cap Heap(kind) \subseteq D \cap DOMAIN d.visible  BY <1>6, <1>8, <2>7
    <3> QED  BY <1>6, <1>10, <3>3, <3>4 DEF Reached
  <2>9. ASSUME NEW j \in Branches
        PROVE  /\ b.op = "br" /\ control[j].end \in b.to =>
                      Reached(control'[j], O, D2, Kept(control, held, j), kind, Exact)
               /\ b.op = "br" /\ control[j].kind = "then" => control[j].other \notin b.to
               /\ D2 \cap DOMAIN control[j].visible \subseteq D
               /\ Exact => D \cap DOMAIN control[j].visible \subseteq D2
    <3>1. control[j].other # to  BY <1>3, <1>7, <2>1, Distinct
    <3>2. j # i => control[j].end # to  BY <1>3, <1>7, <2>1, Distinct
    <3>3. j = i => Reached(control'[j], O, D2, Kept(control, held, j), kind, Exact)
      BY <1>3, <1>10, <1>16, <2>8
    <3> QED  BY <1>16, <2>4, <3>1, <3>2, <3>3
  <2>10. ASSUME NEW j \in 1..m
         PROVE  /\ control'[j] = [control[j] EXCEPT !.ends = control'[j].ends]
                /\ control[j].ends \subseteq control'[j].ends
    <3>1. CASE j = i  BY <1>3, <2>5, <2>6, <2>7, <3>1
    <3>2. CASE j # i
      <4>1. control'[j] = control[j]  BY <2>5, <3>2
      <4>2. IsConstruct(control[j])  BY <1>3 DEF Scopes, Around
      <4> QED  BY <4>1, <4>2 DEF IsConstruct
    <3> QED  BY <3>1, <3>2
  <2>11. D2 = Due(cleanups') /\ IsSeq(control') /\ Len(control') = Len(control)
    BY <1>3, <1>16, <2>5
  <2>12. \A j \in 1..Len(control) :
                /\ control'[j] = [control[j] EXCEPT !.ends = control'[j].ends]
                /\ control[j].ends \subseteq control'[j].ends
    BY <1>3, <2>10
  <2>13. StaysOpen  BY <2>11, <2>12 DEF StaysOpen
  <2>14. JumpsOut(held, b, O, D, D2)  BY <2>9 DEF JumpsOut
  <2>15. Owned(own2, held)'  BY <1>5, <1>17, <1>18, <2>3, <2>11, <2>13, <2>14, OwnedLeft
  <2> QED  BY <2>15
<1>15. CASE /\ Continue /\ to = lookup_loop.cond /\ control' = control
            /\ BackEdge(control[i], {InScope(control[i], moved)})
  <2>1. to = c.other  BY <1>7, <1>15
  <2>2. label[to] \in 1..Len(code) /\ own[label[to]] = held[i]
    BY <1>7, <1>11, <2>1 DEF Opened
  <2>3. Passes(O, held[i], kind, Exact)
    <3>1. Entered(c, held[i], D, Ki, kind, Exact)  BY <1>7, <1>11 DEF Opened
    <3>2. moved \cap DOMAIN c.visible \subseteq c.moved
      BY <1>3, <1>15 DEF BackEdge, InScope
    <3>3. held[i] \cap c.moved \subseteq Ki  BY <1>3, <1>7, <1>9, <1>10 DEF Kept
    <3>4. DOMAIN c.visible \subseteq DOMAIN visible  BY <1>12 DEF Around
    <3>5. held[i] \subseteq O
      BY <1>6, <1>10, <3>1, <3>2, <3>3, <3>4 DEF Entered, Readable
    <3>6. Exact => O \cap Heap(kind) \subseteq held[i]  BY <1>6, <1>8, <3>1 DEF Entered
    <3> QED  BY <3>5, <3>6 DEF Passes
  <2>4. PICK b, own2 : b = Br({to}) /\ Left(kind, code, own, code', own2, b, O, label, Exact)
    BY <1>1, <1>5, <1>13, <2>2, <2>3, LoopJump
  <2>5. b.op = "br" /\ b.to = {to}  BY <2>4 DEF Br
  <2>6. ASSUME NEW j \in Branches
        PROVE  /\ b.op = "br" /\ control[j].end \in b.to =>
                      Reached(control'[j], O, D2, Kept(control, held, j), kind, Exact)
               /\ b.op = "br" /\ control[j].kind = "then" => control[j].other \notin b.to
               /\ D2 \cap DOMAIN control[j].visible \subseteq D
               /\ Exact => D \cap DOMAIN control[j].visible \subseteq D2
    <3>1. control[j].end # to  BY <1>3, <1>7, <2>1, Distinct
    <3>2. j # i => control[j].other # to  BY <1>3, <1>7, <2>1, Distinct
    <3>3. j = i => control[j].kind # "then"  BY <1>3, <1>7
    <3> QED  BY <1>16, <2>5, <3>1, <3>2, <3>3
  <2>7. \A j \in 1..Len(control) :
                /\ control'[j] = [control[j] EXCEPT !.ends = control'[j].ends]
                /\ control[j].ends \subseteq control'[j].ends
    <3>1. ASSUME NEW j \in 1..Len(control)
          PROVE  control[j] = [control[j] EXCEPT !.ends = control[j].ends]
      <4>1. IsConstruct(control[j])  BY DEF Scopes, Around
      <4> QED  BY <4>1 DEF IsConstruct
    <3> QED  BY <1>15, <3>1
  <2>8. D2 = Due(cleanups') /\ IsSeq(control') /\ Len(control') = Len(control)
    BY <1>9, <1>15, <1>16
  <2>10. StaysOpen  BY <2>7, <2>8 DEF StaysOpen
  <2>11. JumpsOut(held, b, O, D, D2)  BY <2>6 DEF JumpsOut
  <2>12. Owned(own2, held)'  BY <1>5, <1>17, <1>18, <2>4, <2>8, <2>10, <2>11, OwnedLeft
  <2> QED  BY <2>12
<1> QED  BY <1>2, <1>14, <1>15

(* The first branch of an if has come to no end yet.                       *)
NoEnds == \A i \in 1..Len(control) : control[i].kind = "then" => control[i].ends = {}

LEMMA NoEndsStep ==
    ASSUME Scopes, NoEnds, Compile
    PROVE  NoEnds'
<1>1. PICK m : m = Len(control)  OBVIOUS
<1>2. IsSeq(control) /\ m \in Nat /\ DOMAIN control = 1..m  BY <1>1 DEF Scopes, Nested, IsSeq
<1>3. ASSUME UNCHANGED control PROVE NoEnds'  BY <1>3 DEF NoEnds
<1>4. ASSUME NEW c, control' = Append(control, c), c.ends = {} PROVE NoEnds'
  <2>1. /\ Len(control') = m + 1 /\ control'[m + 1] = c
        /\ \A i \in 1..m : control'[i] = control[i]
    BY <1>1, <1>2, <1>4, AppendSeq
  <2>2. ASSUME NEW i \in 1..(m + 1), control'[i].kind = "then" PROVE control'[i].ends = {}
    <3>1. CASE i \in 1..m  BY <1>1, <2>1, <2>2, <3>1 DEF NoEnds
    <3>2. CASE i = m + 1  BY <1>4, <2>1, <3>2
    <3> QED  BY <1>2, <3>1, <3>2
  <2> QED  BY <2>1, <2>2 DEF NoEnds
<1>5. ASSUME control # <<>>, control' = Front(control) PROVE NoEnds'
  <2>1. PICK q : q = Front(control)  OBVIOUS
  <2>2. Len(q) = m - 1 /\ \A i \in 1..(m - 1) : q[i] = control[i]
    BY <1>1, <1>2, <1>5, <2>1, FrontSeq
  <2>3. \A i \in 1..(m - 1) : i \in 1..m  BY <1>2
  <2>4. control' = q  BY <1>5, <2>1
  <2> QED  BY <1>1, <2>2, <2>3, <2>4 DEF NoEnds
<1>6. CASE Else
  <2>1. PICK d : control' = [control EXCEPT ![m] = d] /\ d.kind = "else"
    <3>1. control' = [control EXCEPT ![m].kind = "else", ![m].ends = PathEnd(Top)]
          /\ control # <<>>
      BY <1>1, <1>6 DEF Else, Closes
    <3>2. PICK d : d = [Top EXCEPT !.kind = "else", !.ends = PathEnd(Top)]  OBVIOUS
    <3>3. IsConstruct(Top)  BY <3>1, Innermost1 DEF Around
    <3>4. d.kind = "else"  BY <3>2, <3>3 DEF IsConstruct
    <3>5. control' = [control EXCEPT ![m] = d]  BY <1>1, <3>1, <3>2 DEF Top
    <3> QED  BY <3>4, <3>5
  <2>2. m \in 1..Len(control)
    <3>1. control # <<>>  BY <1>6 DEF Else, Closes
    <3> QED  BY <1>1, <3>1, Innermost1
  <2>3. LET q == [control EXCEPT ![m] = d] IN
        /\ IsSeq(q) /\ Len(q) = Len(control) /\ q[m] = d
        /\ \A j \in 1..Len(control) : j # m => q[j] = control[j]
    BY <1>2, <2>2, SeqExcept
  <2>4. Len(control') = m /\ control'[m] = d
        /\ \A j \in 1..m : j # m => control'[j] = control[j]
    BY <1>1, <2>1, <2>3
  <2>5. ASSUME NEW i \in 1..m, control'[i].kind = "then" PROVE control'[i].ends = {}
    <3>1. i # m  BY <2>1, <2>4, <2>5
    <3> QED  BY <1>1, <2>4, <2>5, <3>1 DEF NoEnds
  <2> QED  BY <2>4, <2>5 DEF NoEnds
<1>7. CASE Break
  <2>1. PICK i \in Innermost(Loops) :
            control' = [control EXCEPT ![i].ends = @ \cup {InScope(control[i], moved)}]
    BY <1>7 DEF Break
  <2>2. /\ i \in 1..Len(control) /\ control[i].kind = "loop"
        /\ Len(control') = Len(control)
        /\ \A j \in 1..Len(control) : j # i => control'[j] = control[j]
        /\ control'[i] = [control[i] EXCEPT !.ends =
                                control[i].ends \cup {moved \cap DOMAIN control[i].visible}]
    BY <2>1, BreakShape
  <2>3. control'[i].kind = "loop"
    <3>1. IsConstruct(control[i])  BY <2>2 DEF Scopes, Around
    <3> QED  BY <2>2, <3>1 DEF IsConstruct
  <2> QED  BY <2>2, <2>3 DEF NoEnds
<1>8. CASE OpenBlock \/ OpenIf \/ OpenLoop
  <2>1. \E k, other, end : control' = Append(control, Construct(k, other, end))
    BY <1>8 DEF OpenBlock, OpenIf, OpenLoop
  <2> QED  BY <1>4, <2>1 DEF Construct
<1>9. CASE CloseBlock \/ EndIf \/ CloseLoop
  BY <1>5, <1>9 DEF CloseBlock, EndIf, CloseLoop, Closes, Join
<1>10. CASE Continue  BY <1>3, <1>10 DEF Continue
<1>11. CASE ReturnFresh \/ EndFunction \/ \E y : ReturnVar(y)
  BY <1>3, <1>11 DEF ReturnFresh, ReturnVar, EndFunction
<1>12. CASE \/ \E k, typed : LetFresh(k, typed) \/ LetFrom(k, typed) \/ CallIndirect(k, typed)
            \/ \E y : Use(y) \/ Push(y) \/ CallDirect(y) \/ AssignFresh(y)
            \/ \E t, y : AssignFrom(t, y)
  BY <1>3, <1>12 DEF LetFresh, LetFrom, CallIndirect, Use, Push, CallDirect, AssignFresh,
                     AssignFrom, Straight
<1> QED  BY <1>6, <1>7, <1>8, <1>9, <1>10, <1>11, <1>12 DEF Compile

(* The code goes on, without a jump to the labels there are.               *)
GoesOn(own, own2) ==
    /\ Len(code) <= Len(code')
    /\ \A p \in 1..Len(code) : code'[p] = code[p] /\ own2[p] = own[p]
    /\ \A p \in (Len(code) + 1)..Len(code') : code'[p].op = "br" =>
            code'[p].to \cap DOMAIN label = {}

(* The labels of c are new.                                                *)
NewLabels(c) ==
    /\ \A l \in DOMAIN label : l \in DOMAIN label' /\ label'[l] = label[l]
    /\ \A l \in DOMAIN label' \ DOMAIN label : label'[l] = 0 =>
            c.kind # "block" /\ (l = c.end \/ (c.kind = "then" /\ l = c.other))

Opening(c, O, D, own2) ==
    \A K : Entered(c, O, D, K, kind, Exact) =>
        Opened(c, O, D, K, kind, code', own2, label', Exact)

(* A construct more, c, and nothing else for the ones that are open.       *)
LEMMA OwnedPush ==
    ASSUME Inv, Scopes, NEW own, NEW held, Owned(own, held), ~terminated,
           UNCHANGED <<features, kind, visible, moved, terminated>>,
           NEW O, NEW D, NEW K, AtHand(own, held, O, D, K), Due(cleanups') = D,
           NEW c, control' = Append(control, c), c.visible = visible, c.moved = moved,
           NEW m, m = Len(control), NEW held2, \A i \in 1..m : held2[i] = held[i],
           held2[m + 1] = O,
           NEW own2, Flow(kind, code', own2, label', FALSE, Exact), own2[Len(code') + 1] = O,
           GoesOn(own, own2), NewLabels(c), Opening(c, O, D, own2)
    PROVE  Owned(own2, held2)'
<1>1. m \in Nat /\ IsSeq(control) /\ DOMAIN control = 1..m  BY DEF Scopes, Nested, IsSeq
<1>2. /\ Len(control') = m + 1 /\ control'[m + 1] = c
      /\ \A i \in 1..m : control'[i] = control[i]
  BY <1>1, AppendSeq
<1>3. /\ D = Due(cleanups) /\ D \subseteq O /\ O \subseteq DOMAIN visible /\ Readable \subseteq O
      /\ Exact => O \cap Heap(kind) \subseteq D
      /\ K = Kept(control, held, m) /\ K \subseteq O
  BY DEF AtHand
<1>4. PICK K2 : K2 = Kept(control', held2, m + 1)  OBVIOUS
<1>5. K2 \subseteq O
  <2>1. ASSUME NEW s \in K2 PROVE s \in O
    <3>1. PICK j \in 1..(m + 1) : /\ control'[j].kind # "block"
                                  /\ s \in held2[j] \cap control'[j].moved
      BY <1>4, <2>1 DEF Kept
    <3>2. CASE j = m + 1  BY <3>1, <3>2
    <3>3. CASE j \in 1..m
      <4>1. s \in Kept(control, held, m)  BY <1>2, <3>1, <3>3 DEF Kept
      <4> QED  BY <1>3, <4>1
    <3> QED  BY <1>1, <3>2, <3>3
  <2> QED  BY <2>1
<1>6. Here(O, visible, moved, D, K2, kind, Exact)  BY <1>3, <1>5 DEF Here, Readable
<1>7. Entered(c, O, D, K2, kind, Exact)  BY <1>3, <1>5 DEF Entered, Readable
<1>8. Opened(c, O, D, K2, kind, code', own2, label', Exact)  BY <1>7 DEF Opening
<1>15. /\ Len(code) <= Len(code')
       /\ \A p \in 1..Len(code) : code'[p] = code[p] /\ own2[p] = own[p]
       /\ \A p \in (Len(code) + 1)..Len(code') : code'[p].op = "br" =>
            code'[p].to \cap DOMAIN label = {}
  BY DEF GoesOn
<1>16. /\ \A l \in DOMAIN label : l \in DOMAIN label' /\ label'[l] = label[l]
       /\ \A l \in DOMAIN label' \ DOMAIN label : label'[l] = 0 =>
            c.kind # "block" /\ (l = c.end \/ (c.kind = "then" /\ l = c.other))
  BY DEF NewLabels
<1>9. ASSUME NEW i \in 1..m
      PROVE  Opened(control[i], held[i], D, Kept(control', held2, i), kind, code', own2,
                    label', Exact)
  <2>1. PICK b, h, K3 : b = control[i] /\ h = held[i] /\ K3 = Kept(control, held, i)  OBVIOUS
  <2>2. Kept(control', held2, i) = K3
    <3>1. \A j \in 1..i : j \in 1..m  BY <1>1
    <3>2. PICK ctl2 : ctl2 = control'  OBVIOUS
    <3>3. \A j \in 1..i : /\ ctl2[j].kind = "block" <=> control[j].kind = "block"
                          /\ ctl2[j].moved = control[j].moved
                          /\ held2[j] = held[j]
      BY <1>2, <3>1, <3>2
    <3>4. Kept(ctl2, held2, i) = Kept(control, held, i)  BY <3>3, KeptSame
    <3> QED  BY <2>1, <3>2, <3>4
  <2>3. Opened(b, h, D, K3, kind, code, own, label, Exact)  BY <1>3, <2>1 DEF Owned
  <2>4. IsConstruct(b) /\ b = [b EXCEPT !.ends = b.ends]
    BY <2>1 DEF Scopes, Around, IsConstruct
  <2>5. b.kind # "block" => b.end \in DOMAIN label /\ b.other \in DOMAIN label
    <3>1. b.kind # "block" => i \in Branches  BY <1>1, <2>1 DEF Branches
    <3> QED  BY <2>1, <3>1, Distinct
  <2>6. Len(code) \in Nat /\ Len(code') \in Nat  BY Now DEF Flow, IsSeq
  <2>7. b.kind # "block" =>
             /\ h \cap Heap(kind) = h \cap Heap(kind)
             /\ D \cap DOMAIN b.visible
                    \subseteq D \cup (DOMAIN b.visible \ (b.moved \cup UNION b.ends))
             /\ Exact => D \cap DOMAIN b.visible \subseteq D
             /\ label'[b.end] = label[b.end] /\ label'[b.other] = label[b.other]
    BY <1>16, <2>5
  <2>8. \A p \in (Len(code) + 1)..Len(code') : b.kind # "block" /\ code'[p].op = "br" =>
             /\ b.end \in code'[p].to => Reached(b, own2[p], D, K3, kind, Exact)
             /\ b.kind = "then" => b.other \notin code'[p].to
    BY <1>15, <2>5
  <2>9. PICK cd2, lb2 : cd2 = code' /\ lb2 = label'  OBVIOUS
  <2>10. Opened(b, h, D, K3, kind, cd2, own2, lb2, Exact)
    <3>1. b.kind # "block" =>
             /\ h \cap Heap(kind) = h \cap Heap(kind)
             /\ D \cap DOMAIN b.visible
                    \subseteq D \cup (DOMAIN b.visible \ (b.moved \cup UNION b.ends))
             /\ Exact => D \cap DOMAIN b.visible \subseteq D
             /\ lb2[b.end] = label[b.end] /\ lb2[b.other] = label[b.other]
      BY <2>7, <2>9
    <3>2. \A p \in 1..Len(code) : own[p] \cap Heap(kind) = own[p] \cap Heap(kind)  OBVIOUS
    <3>3. Len(code) \in Nat /\ Len(cd2) \in Nat /\ Len(code) <= Len(cd2)
      BY <1>15, <2>6, <2>9
    <3>4. \A p \in 1..Len(code) : cd2[p] = code[p] /\ own2[p] = own[p]  BY <1>15, <2>9
    <3>5. \A p \in (Len(code) + 1)..Len(cd2) : b.kind # "block" /\ cd2[p].op = "br" =>
             /\ b.end \in cd2[p].to => Reached(b, own2[p], D, K3, kind, Exact)
             /\ b.kind = "then" => b.other \notin cd2[p].to
      BY <2>8, <2>9
    <3>6. b.ends \subseteq b.ends  OBVIOUS
    <3> QED  BY ONLY <2>3, <2>4, <3>1, <3>2, <3>3, <3>4, <3>5, <3>6, StillOpen
  <2> QED  BY <2>1, <2>2, <2>9, <2>10
<1>10. Pending(label', control')
  <2>1. ASSUME NEW l \in DOMAIN label', label'[l] = 0
        PROVE  \E i \in 1..(m + 1) : /\ control'[i].kind # "block"
                           /\ \/ l = control'[i].end
                              \/ control'[i].kind = "then" /\ l = control'[i].other
    <3>1. CASE l \in DOMAIN label
      <4>1. label[l] = 0  BY <1>16, <2>1, <3>1
      <4>2. PICK i \in 1..m : /\ control[i].kind # "block"
                              /\ \/ l = control[i].end
                                 \/ control[i].kind = "then" /\ l = control[i].other
        BY <3>1, <4>1 DEF Owned, Pending
      <4>3. i \in 1..(m + 1)  BY <1>1
      <4> QED  BY <1>2, <4>2, <4>3
    <3>2. CASE l \notin DOMAIN label
      <4>1. m + 1 \in 1..(m + 1)  BY <1>1
      <4> QED  BY <1>2, <1>16, <2>1, <3>2, <4>1
    <3> QED  BY <3>1, <3>2
  <2> QED  BY <1>2, <2>1 DEF Pending
<1>11. (Exact' <=> Exact) /\ terminated = FALSE  BY Now DEF Exact
<1>12. terminated' \in BOOLEAN /\ Flow(kind', code', own2, label', terminated', Exact')
  <2>1. terminated' = FALSE /\ kind' = kind /\ Exact' = Exact  BY <1>11 DEF Exact
  <2> QED  BY <2>1
<1>13. Here(own2[Len(code') + 1], visible', moved', Due(cleanups'),
            Kept(control', held2, Len(control')), kind', Exact')
  <2>1. Exact' = Exact /\ Len(control') = m + 1  BY <1>2 DEF Exact
  <2> QED  BY <1>4, <1>6, <2>1
<1>14. ASSUME NEW i \in 1..Len(control')
       PROVE  Opened(control'[i], held2[i], Due(cleanups'), Kept(control', held2, i),
                     kind', code', own2, label', Exact')
  <2>1. Exact' = Exact /\ kind' = kind  BY DEF Exact
  <2>2. CASE i \in 1..m  BY <1>2, <1>9, <2>1, <2>2
  <2>3. CASE i = m + 1  BY <1>2, <1>4, <1>8, <2>1, <2>3
  <2> QED  BY <1>1, <1>2, <2>2, <2>3
<1> QED  BY <1>10, <1>12, <1>13, <1>14 DEF Owned

(* A construct begins with a jump to the last two of three new labels; the *)
(* first of the two is placed behind it, the first of the three where the  *)
(* emitter has been.                                                       *)
JumpsToNew(i, l) ==
    /\ i.op = "br" /\ i.to \subseteq {l + 1, l + 2, l + 3}
    /\ IsSeq(label') /\ DOMAIN label' = 1..(l + 3)
    /\ \A x \in 1..l : label'[x] = label[x]
    /\ \A x \in i.to : label'[x] \in {0, Len(code) + 2}

Began(own, own2, O, i) ==
    /\ Len(code') = Len(code) + 1 /\ code'[Len(code) + 1] = i
    /\ \A p \in 1..Len(code) : code'[p] = code[p]
    /\ Flow(kind, code', own2, label', FALSE, Exact)
    /\ own2[Len(code') + 1] = O /\ own2[Len(code) + 1] = O
    /\ \A p \in 1..Len(code) : own2[p] = own[p]

LEMMA EmitOpening ==
    ASSUME Inv, Scopes, NEW own, NEW held, Owned(own, held), ~terminated,
           NEW O, NEW D, NEW K, AtHand(own, held, O, D, K),
           NEW l, l = Len(label), NEW i, JumpsToNew(i, l), code' = code \o <<i>>
    PROVE  \E own2 : Began(own, own2, O, i)
<1>1. PICK n : n = Len(code)  OBVIOUS
<1>20. /\ i.op = "br" /\ i.to \subseteq {l + 1, l + 2, l + 3}
       /\ IsSeq(label') /\ DOMAIN label' = 1..(l + 3)
       /\ \A x \in 1..l : label'[x] = label[x]
       /\ \A x \in i.to : label'[x] \in {0, Len(code) + 2}
  BY DEF JumpsToNew
<1>2. IsSeq(code) /\ n \in Nat /\ DOMAIN visible \subseteq DOMAIN kind  BY <1>1, Now
<1>3. DOMAIN label = 1..l /\ l \in Nat  BY DEF Scopes, IsSeq
<1>4. code' = Append(code, i)  BY <1>2, Appended
<1>5. /\ Len(code') = n + 1 /\ code'[n + 1] = i
      /\ \A p \in 1..n : code'[p] = code[p]
  BY <1>1, <1>2, <1>4, AppendSeq
<1>6. PICK lb : lb = [x \in 1..(l + 3) |-> IF x \in i.to THEN 0 ELSE label'[x]]  OBVIOUS
<1>7. /\ DOMAIN lb = 1..(l + 3)
      /\ \A x \in DOMAIN label : x \in DOMAIN lb /\ lb[x] = label[x]
      /\ \A x \in i.to : x \in DOMAIN lb /\ lb[x] = 0
  <2>1. \A x \in DOMAIN label : x \in 1..(l + 3) /\ x \notin {l + 1, l + 2, l + 3}
    BY <1>3
  <2>2. {l + 1, l + 2, l + 3} \subseteq 1..(l + 3)  BY <1>3
  <2> QED  BY <1>3, <1>6, <1>20, <2>1, <2>2
<1>8. Emitted(kind, code, own, code, own, O, lb, Exact)
  <2>1. Emitted(kind, code, own, code, own, O, label, Exact)  BY DEF AtHand
  <2>2. Flow(kind, code, own, label, FALSE, Exact)  BY <2>1 DEF Emitted
  <2>3. Flow(kind, code, own, lb, FALSE, Exact)  BY <1>7, <2>2, MoreLabels
  <2> QED  BY <2>1, <2>3 DEF Emitted
<1>9. i.op \in Leaves /\ Operands(kind, O, i, Exact)  BY <1>20 DEF Leaves, Operands
<1>10. \E own1 : Left(kind, code, own, Append(code, i), own1, i, O, lb, Exact)
  BY <1>2, <1>7, <1>8, <1>9, <1>20, EmitLast
<1>11. PICK own1 : Left(kind, code, own, code', own1, i, O, lb, Exact)  BY <1>4, <1>10
<1>12. /\ Flow(kind, code', own1, lb, TRUE, Exact) /\ own1[n + 1] = O
       /\ \A p \in 1..n : own1[p] = own[p]
  BY <1>1, <1>5, <1>11 DEF Left
<1>13. O \in SUBSET DOMAIN kind  BY <1>2 DEF AtHand
<1>14. ASSUME NEW p \in 1..Len(code'), code'[p].op = "br", NEW x \in code'[p].to
       PROVE  \/ label'[x] = lb[x]
              \/ label'[x] = Len(code') + 1 /\ Passes(own1[p], O, kind, Exact)
  <2>1. CASE p \in 1..n
    <3>1. Flow(kind, code, own, label, FALSE, Exact)  BY DEF AtHand, Emitted
    <3>2. code[p].op = "br" /\ x \in code[p].to  BY <1>5, <1>14, <2>1
    <3>3. x \in DOMAIN label  BY <1>1, <2>1, <3>1, <3>2 DEF Flow, Continuing
    <3> QED  BY <1>3, <1>7, <1>20, <3>3
  <2>2. CASE p = n + 1
    <3>1. x \in i.to /\ lb[x] = 0  BY <1>5, <1>7, <1>14, <2>2
    <3>2. label'[x] = 0 \/ label'[x] = n + 2  BY <1>1, <1>20, <3>1
    <3>3. Passes(own1[p], O, kind, Exact)  BY <1>12, <2>2 DEF Passes
    <3> QED  BY <1>2, <1>5, <3>1, <3>2, <3>3
  <2> QED  BY <1>2, <1>5, <2>1, <2>2
<1>15. PICK own2 : own2 = [own1 EXCEPT ![Len(code') + 1] = O]  OBVIOUS
<1>16. Flow(kind, code', own2, label', FALSE, Exact)
  <2>1. PICK cd, lb2 : cd = code' /\ lb2 = label'  OBVIOUS
  <2>2. Flow(kind, cd, own1, lb, TRUE, Exact) /\ DOMAIN lb2 = DOMAIN lb
    BY <1>7, <1>12, <1>20, <2>1
  <2>3. \A p \in 1..Len(cd) : cd[p].op = "br" => \A x \in cd[p].to :
            \/ lb2[x] = lb[x]
            \/ lb2[x] = Len(cd) + 1 /\ Passes(own1[p], O, kind, Exact)
    BY <1>14, <2>1
  <2>4. Flow(kind, cd, [own1 EXCEPT ![Len(cd) + 1] = O], lb2, FALSE, Exact)
    BY <1>13, <2>2, <2>3, PlaceLabels
  <2> QED  BY <1>15, <2>1, <2>4
<1>17. /\ own2[n + 2] = O /\ own2[n + 1] = O
       /\ \A p \in 1..n : own2[p] = own[p]
  <2>1. DOMAIN own1 = 1..(n + 2)  BY <1>2, <1>5, <1>12 DEF Flow
  <2> QED  BY <1>2, <1>5, <1>12, <1>15, <2>1
<1>18. /\ Len(code') = Len(code) + 1 /\ code'[Len(code) + 1] = i
       /\ \A p \in 1..Len(code) : code'[p] = code[p]
  BY <1>1, <1>5
<1>19. own2[Len(code') + 1] = O  BY <1>2, <1>5, <1>17
<1>21. Began(own, own2, O, i)  BY <1>1, <1>16, <1>17, <1>18, <1>19 DEF Began
<1> QED  BY <1>21

(* What the code in front of the emitter jumps to.                         *)
LEMMA OldJumps ==
    ASSUME NEW knd, NEW cd, NEW own, NEW lb, NEW tm, NEW exact, Flow(knd, cd, own, lb, tm, exact),
           NEW p \in 1..Len(cd), cd[p].op = "br"
    PROVE  cd[p].to \subseteq DOMAIN lb
BY DEF Flow, Continuing

LEMMA OwnedOpen ==
    ASSUME Inv, Scopes, UNCHANGED features,
           NEW own, NEW held, Owned(own, held), OpenBlock \/ OpenIf \/ OpenLoop
    PROVE  \E own2, held2 : Owned(own2, held2)'
<1>1. ~terminated /\ UNCHANGED <<features, kind, visible, moved, terminated>>
  BY DEF OpenBlock, OpenIf, OpenLoop, Opens
<1>2. PICK O, D, K : AtHand(own, held, O, D, K)  BY <1>1, Now
<1>3. PICK m, n, l : m = Len(control) /\ n = Len(code) /\ l = Len(label)  OBVIOUS
<1>4. /\ IsSeq(code) /\ n \in Nat /\ cleanups \in Lists(Len(kind)) /\ Len(kind) \in Nat
      /\ D = Due(cleanups) /\ terminated = FALSE
      /\ Flow(kind, code, own, label, FALSE, Exact) /\ own[n + 1] = O
  BY <1>1, <1>2, <1>3, Now DEF AtHand, Emitted
<1>5. /\ IsSeq(label) /\ DOMAIN label = 1..l /\ l \in Nat /\ m \in Nat
  BY <1>3 DEF Scopes, IsSeq, Nested
<1>6. PICK held2 : held2 = [i \in 1..(m + 1) |-> IF i = m + 1 THEN O ELSE held[i]]  OBVIOUS
<1>7. held2[m + 1] = O /\ \A i \in 1..m : held2[i] = held[i]
  BY <1>5, <1>6
<1>8. Due(cleanups') = D
  <2>1. CASE OpenBlock
    <3>1. cleanups' = Append(cleanups, <<>>)  BY <2>1 DEF OpenBlock
    <3> QED  BY <1>4, <3>1, EnterDue
  <2>2. CASE OpenIf \/ OpenLoop
    <3>1. cleanups' = cleanups  BY <2>2 DEF OpenIf, OpenLoop
    <3> QED  BY <1>4, <3>1
  <2> QED  BY <2>1, <2>2
<1>9. O \subseteq DOMAIN visible /\ Readable \subseteq O /\ D \subseteq O
      /\ (Exact => O \cap Heap(kind) \subseteq D)
  BY <1>2 DEF AtHand
<1>10. CASE OpenBlock
  <2>1. PICK c : c = Construct("block", 0, 0)  OBVIOUS
  <2>2. c.kind = "block" /\ c.visible = visible /\ c.moved = moved  BY <2>1 DEF Construct
  <2>3. control' = Append(control, c) /\ code' = code /\ label' = label
    BY <1>10, <2>1 DEF OpenBlock
  <2>4. \A K2 : Entered(c, O, D, K2, kind, Exact) =>
                Opened(c, O, D, K2, kind, code', own, label', Exact)
    BY <2>2 DEF Opened
  <2>5. Flow(kind, code', own, label', FALSE, Exact) /\ own[Len(code') + 1] = O
    BY <1>3, <1>4, <2>3
  <2>6. /\ Len(code) <= Len(code')
        /\ \A p \in 1..Len(code) : code'[p] = code[p] /\ own[p] = own[p]
    BY <1>3, <1>4, <2>3
  <2>7. \A p \in (Len(code) + 1)..Len(code') : code'[p].op = "br" =>
                code'[p].to \cap DOMAIN label = {}
    BY <1>3, <1>4, <2>3
  <2>8. /\ \A x \in DOMAIN label : x \in DOMAIN label' /\ label'[x] = label[x]
        /\ \A x \in DOMAIN label' \ DOMAIN label : label'[x] = 0 =>
                c.kind # "block" /\ (x = c.end \/ (c.kind = "then" /\ x = c.other))
    BY <2>3
  <2>9. GoesOn(own, own)  BY <2>6, <2>7 DEF GoesOn
  <2>10. NewLabels(c)  BY <2>8 DEF NewLabels
  <2>11. Opening(c, O, D, own)  BY <2>4 DEF Opening
  <2>12. Owned(own, held2)'
    BY <1>1, <1>2, <1>3, <1>7, <1>8, <2>2, <2>3, <2>5, <2>9, <2>10, <2>11, OwnedPush
  <2> QED  BY <2>12
<1>11. CASE OpenIf \/ OpenLoop
  <2>1. PICK c, i : \/ /\ OpenIf /\ c = Construct("then", l + 2, l + 3)
                       /\ i = Br({l + 1, l + 2})
                       /\ label' = label \o <<n + 2, 0, 0>>
                    \/ /\ OpenLoop /\ c = Construct("loop", l + 1, l + 3)
                       /\ i = Br({l + 2, l + 3})
                       /\ label' = label \o <<n + 1, n + 2, 0>>
    BY <1>3, <1>11 DEF OpenIf, OpenLoop
  <2>2. control' = Append(control, c) /\ code' = code \o <<i>>
    BY <1>3, <2>1 DEF OpenIf, OpenLoop, Emit
  <2>3. /\ c.visible = visible /\ c.moved = moved /\ c.ends = {} /\ c.end = l + 3
        /\ \/ c.kind = "then" /\ c.other = l + 2 /\ i.to = {l + 1, l + 2}
           \/ c.kind = "loop" /\ c.other = l + 1 /\ i.to = {l + 2, l + 3}
        /\ i.op = "br"
    BY <2>1 DEF Construct, Br
  <2>4. /\ IsSeq(label') /\ DOMAIN label' = 1..(l + 3)
        /\ \A x \in 1..l : label'[x] = label[x]
        /\ label'[l + 3] = 0
        /\ c.kind = "then" => label'[l + 1] = n + 2 /\ label'[l + 2] = 0
        /\ c.kind = "loop" => label'[l + 1] = n + 1 /\ label'[l + 2] = n + 2
    <3>1. PICK a, b : label' = label \o <<a, b, 0>>
                      /\ (c.kind = "then" => a = n + 2 /\ b = 0)
                      /\ (c.kind = "loop" => a = n + 1 /\ b = n + 2)
      <4>1. CASE c = Construct("then", l + 2, l + 3) /\ label' = label \o <<n + 2, 0, 0>>
        <5>1. c.kind = "then"  BY <4>1 DEF Construct
        <5> QED  BY <4>1, <5>1
      <4>2. CASE c = Construct("loop", l + 1, l + 3) /\ label' = label \o <<n + 1, n + 2, 0>>
        <5>1. c.kind = "loop"  BY <4>2 DEF Construct
        <5> QED  BY <4>2, <5>1
      <4> QED  BY <2>1, <4>1, <4>2
    <3>2. LET q == label \o <<a, b, 0>> IN
          /\ IsSeq(q) /\ DOMAIN q = 1..(Len(label) + 3)
          /\ \A x \in 1..Len(label) : q[x] = label[x]
          /\ q[Len(label) + 1] = a /\ q[Len(label) + 2] = b /\ q[Len(label) + 3] = 0
      BY <1>5, LabelsMore
    <3> QED  BY <1>3, <3>1, <3>2
  <2>5. \A x \in {l + 1, l + 2, l + 3} : x \in i.to => label'[x] \in {0, Len(code) + 2}
    <3>1. l + 1 # l + 2 /\ l + 1 # l + 3 /\ l + 2 # l + 3  BY <1>5
    <3> QED  BY <1>3, <2>3, <2>4, <3>1
  <2>6. i.to \subseteq {l + 1, l + 2, l + 3}  BY <2>3
  <2>22. PICK own2 : Began(own, own2, O, i)
    <3>1. Inv /\ Scopes /\ Owned(own, held) /\ ~terminated  BY <1>1
    <3>2. code' = code \o <<i>> /\ l = Len(label)  BY <1>3, <2>2
    <3>3. JumpsToNew(i, l)  BY <2>3, <2>4, <2>5, <2>6 DEF JumpsToNew
    <3> QED  BY <1>2, <3>1, <3>2, <3>3, EmitOpening
  <2>7. /\ Len(code') = Len(code) + 1 /\ code'[Len(code) + 1] = i
        /\ \A p \in 1..Len(code) : code'[p] = code[p]
    BY <2>22 DEF Began
  <2>8. /\ Flow(kind, code', own2, label', FALSE, Exact)
        /\ own2[Len(code') + 1] = O /\ own2[Len(code) + 1] = O
        /\ \A p \in 1..Len(code) : own2[p] = own[p]
    BY <2>22 DEF Began
  <2>9. /\ Len(code) <= Len(code')
        /\ \A p \in 1..Len(code) : code'[p] = code[p] /\ own2[p] = own[p]
    BY <1>3, <1>4, <2>7, <2>8
  <2>10. \A p \in (Len(code) + 1)..Len(code') : p = Len(code) + 1
    BY <1>3, <1>4, <2>7
  <2>11. l + 1 \notin 1..l /\ l + 2 \notin 1..l /\ l + 3 \notin 1..l  BY <1>5
  <2>12. \A p \in (Len(code) + 1)..Len(code') : code'[p].op = "br" =>
                code'[p].to \cap DOMAIN label = {}
    BY <1>5, <2>6, <2>7, <2>10, <2>11
  <2>13. \A x \in DOMAIN label : x \in DOMAIN label' /\ label'[x] = label[x]
    <3>1. \A x \in 1..l : x \in 1..(l + 3)  BY <1>5
    <3> QED  BY <1>5, <2>4, <3>1
  <2>14. \A x \in DOMAIN label' \ DOMAIN label : label'[x] = 0 =>
                c.kind # "block" /\ (x = c.end \/ (c.kind = "then" /\ x = c.other))
    <3>1. \A x \in DOMAIN label' \ DOMAIN label : x = l + 1 \/ x = l + 2 \/ x = l + 3
      BY <1>5, <2>4
    <3>2. n + 1 # 0 /\ n + 2 # 0  BY <1>4
    <3> QED  BY <2>3, <2>4, <3>1, <3>2
  <2>15. ASSUME NEW K2, Entered(c, O, D, K2, kind, Exact)
         PROVE  Opened(c, O, D, K2, kind, code', own2, label', Exact)
    <3>1. ASSUME NEW x \in {l + 1, l + 2, l + 3}, NEW p \in Jumps(code', x)
          PROVE  p = n + 1 /\ x \in i.to /\ own2[p] = O
      <4>1. p \in 1..Len(code') /\ code'[p].op = "br" /\ x \in code'[p].to
        BY <3>1 DEF Jumps
      <4>2. ~(p \in 1..n)
        <5>1. ASSUME p \in 1..Len(code) PROVE x \in DOMAIN label
          <6>1. code[p].op = "br" /\ x \in code[p].to  BY <2>7, <4>1, <5>1
          <6>2. code[p].to \subseteq DOMAIN label  BY <1>4, <5>1, <6>1, OldJumps
          <6> QED  BY <6>1, <6>2
        <5> QED  BY <1>3, <1>5, <2>11, <3>1, <5>1
      <4>3. p = n + 1  BY <1>3, <1>4, <2>7, <4>1, <4>2
      <4> QED  BY <1>3, <2>7, <2>8, <4>1, <4>3
    <3>2. c.end \in {l + 1, l + 2, l + 3} /\ c.other \in {l + 1, l + 2, l + 3}
          /\ label'[c.end] = 0
      BY <2>3, <2>4
    <3>3. K2 \subseteq O  BY <2>15 DEF Entered
    <3>4. ASSUME c.kind = "loop" PROVE Reached(c, O, D, K2, kind, Exact)
      <4>1. DOMAIN c.visible \ AllEnds(c) \subseteq O
        BY <1>9, <2>3, <3>4 DEF AllEnds, Readable
      <4> QED  BY <1>9, <2>3, <3>3, <4>1 DEF Reached
    <3>5. ASSUME NEW p \in Jumps(code', c.end) PROVE Reached(c, own2[p], D, K2, kind, Exact)
      <4>1. l + 3 \in i.to /\ own2[p] = O  BY <2>3, <3>1, <3>2, <3>5
      <4>2. c.kind = "loop"
        <5>1. l + 3 # l + 1 /\ l + 3 # l + 2  BY <1>5
        <5> QED  BY <2>3, <4>1, <5>1
      <4> QED  BY <3>4, <4>1, <4>2
    <3>6. ASSUME c.kind = "then"
          PROVE  label'[c.other] = 0 /\ \A p \in Jumps(code', c.other) : own2[p] = O
      BY <2>3, <2>4, <3>1, <3>2, <3>6
    <3>7. ASSUME c.kind # "then"
          PROVE  /\ label'[c.other] # 0 /\ label'[c.other] \in 1..Len(code')
                 /\ own2[label'[c.other]] = O
      <4>1. c.kind = "loop" /\ label'[c.other] = n + 1  BY <2>3, <2>4, <3>7
      <4> QED  BY <1>3, <1>4, <2>7, <2>8, <4>1
    <3> QED  BY <2>15, <3>2, <3>5, <3>6, <3>7 DEF Opened
  <2>16. Flow(kind, code', own2, label', FALSE, Exact) /\ own2[Len(code') + 1] = O
    BY <2>8
  <2>17. c.visible = visible /\ c.moved = moved /\ control' = Append(control, c)
    BY <2>2, <2>3
  <2>18. GoesOn(own, own2)  BY <2>9, <2>12 DEF GoesOn
  <2>19. NewLabels(c)  BY <2>13, <2>14 DEF NewLabels
  <2>20. Opening(c, O, D, own2)  BY <2>15 DEF Opening
  <2>21. Owned(own2, held2)'
    BY <1>1, <1>2, <1>3, <1>7, <1>8, <2>16, <2>17, <2>18, <2>19, <2>20, OwnedPush
  <2> QED  BY <2>21
<1> QED  BY <1>10, <1>11

(* The innermost construct ends.  Its labels are placed,                   *)
EndLabels ==
    /\ DOMAIN label' = DOMAIN label
    /\ \A l \in DOMAIN label : \/ label'[l] = label[l]
                               \/ /\ label'[l] # 0 /\ Top.kind # "block"
                                  /\ l \in {Top.end, Top.other}
    /\ Top.kind # "block" => label'[Top.end] # 0 /\ label'[Top.other] # 0

(* the code goes on, with jumps to them at most,                           *)
EndCode(own, own2) ==
    /\ Len(code) <= Len(code')
    /\ \A p \in 1..Len(code) : code'[p] = code[p] /\ own2[p] = own[p]
    /\ \A p \in (Len(code) + 1)..Len(code') : code'[p].op = "br" =>
            Top.kind # "block" /\ code'[p].to \subseteq {Top.end, Top.other}

(* and what was in scope in front of the others is due if it was.          *)
EndDue ==
    \A j \in Branches : j # Len(control) =>
        /\ Due(cleanups') \cap DOMAIN control[j].visible \subseteq Due(cleanups)
        /\ Exact => Due(cleanups) \cap DOMAIN control[j].visible \subseteq Due(cleanups')

LEMMA OwnedPop ==
    ASSUME Inv, Scopes, NEW own, NEW held, Owned(own, held), UNCHANGED <<features, kind>>,
           control # <<>>, control' = Front(control), EndLabels, EndDue,
           NEW own2, EndCode(own, own2), terminated' \in BOOLEAN,
           Flow(kind, code', own2, label', terminated', Exact),
           ~terminated' => Here(own2[Len(code') + 1], visible', moved', Due(cleanups'),
                                Kept(control, held, Len(control) - 1), kind, Exact)
    PROVE  Owned(own2, held)'
<1>1. PICK m : m = Len(control)  OBVIOUS
<1>2. m \in Nat /\ m # 0 /\ m \in 1..m /\ DOMAIN control = 1..m  BY <1>1, Innermost1
<1>3. Len(control') = m - 1 /\ \A i \in 1..(m - 1) : control'[i] = control[i]
  <2>1. PICK q : q = Front(control)  OBVIOUS
  <2>2. IsSeq(control)  BY DEF Scopes, Nested
  <2>3. Len(q) = m - 1 /\ \A i \in 1..(m - 1) : q[i] = control[i]
    BY <1>1, <2>1, <2>2, FrontSeq
  <2> QED  BY <2>1, <2>3
<1>4. /\ Len(code) <= Len(code')
      /\ \A p \in 1..Len(code) : code'[p] = code[p] /\ own2[p] = own[p]
      /\ \A p \in (Len(code) + 1)..Len(code') : code'[p].op = "br" =>
            Top.kind # "block" /\ code'[p].to \subseteq {Top.end, Top.other}
  BY DEF EndCode
<1>5. Len(code) \in Nat /\ Len(code') \in Nat  BY DEF Owned, Flow, IsSeq
<1>6. \A i \in 1..(m - 1) : i \in 1..m /\ i # m  BY <1>2
<1>7. ASSUME NEW i \in 1..(m - 1), control[i].kind # "block"
      PROVE  /\ i \in Branches
             /\ control[i].end \in DOMAIN label /\ control[i].other \in DOMAIN label
             /\ Top.kind # "block" => /\ control[i].end \notin {Top.end, Top.other}
                                      /\ control[i].other \notin {Top.end, Top.other}
  <2>1. i \in Branches  BY <1>2, <1>6, <1>7 DEF Branches
  <2>2. control[i].end \in DOMAIN label /\ control[i].other \in DOMAIN label
    BY <2>1, Distinct
  <2>3. ASSUME Top.kind # "block"
        PROVE  /\ control[i].end \notin {Top.end, Top.other}
               /\ control[i].other \notin {Top.end, Top.other}
    <3>1. m \in Branches /\ control[m] = Top  BY <1>1, <1>2, <2>3 DEF Branches, Top
    <3>2. i # m  BY <1>6
    <3>3. /\ control[i].end # control[m].other /\ control[m].end # control[i].other
          /\ control[i].end # control[m].end /\ control[i].other # control[m].other
      BY <2>1, <3>1, <3>2, Distinct
    <3> QED  BY <3>1, <3>3
  <2> QED  BY <2>1, <2>2, <2>3
<1>8. ASSUME NEW i \in 1..(m - 1)
      PROVE  Opened(control[i], held[i], Due(cleanups'), Kept(control, held, i), kind, code',
                    own2, label', Exact)
  <2>1. PICK c, h, K : c = control[i] /\ h = held[i] /\ K = Kept(control, held, i)  OBVIOUS
  <2>2. PICK D, D2, cd2, lb2 : /\ D = Due(cleanups) /\ D2 = Due(cleanups')
                               /\ cd2 = code' /\ lb2 = label'
    OBVIOUS
  <2>3. Opened(c, h, D, K, kind, code, own, label, Exact)
    BY <1>1, <1>6, <2>1, <2>2 DEF Owned
  <2>4. IsConstruct(c) /\ c = [c EXCEPT !.ends = c.ends] /\ c.ends \subseteq c.ends
    BY <1>1, <1>6, <2>1 DEF Scopes, Around, IsConstruct
  <2>5. c.kind # "block" =>
             /\ h \cap Heap(kind) = h \cap Heap(kind)
             /\ D2 \cap DOMAIN c.visible
                    \subseteq D \cup (DOMAIN c.visible \ (c.moved \cup UNION c.ends))
             /\ Exact => D \cap DOMAIN c.visible \subseteq D2
             /\ lb2[c.end] = label[c.end] /\ lb2[c.other] = label[c.other]
    <3> SUFFICES ASSUME c.kind # "block"
                 PROVE  /\ D2 \cap DOMAIN c.visible \subseteq D
                        /\ Exact => D \cap DOMAIN c.visible \subseteq D2
                        /\ lb2[c.end] = label[c.end] /\ lb2[c.other] = label[c.other]
      OBVIOUS
    <3>1. i \in Branches /\ i # Len(control)  BY <1>1, <1>6, <1>7, <2>1
    <3>2. D2 \cap DOMAIN c.visible \subseteq D /\ (Exact => D \cap DOMAIN c.visible \subseteq D2)
      BY <2>1, <2>2, <3>1 DEF EndDue
    <3>3. label'[c.end] = label[c.end] /\ label'[c.other] = label[c.other]
      BY <1>7, <2>1 DEF EndLabels
    <3> QED  BY <2>2, <3>2, <3>3
  <2>6. \A p \in (Len(code) + 1)..Len(cd2) : c.kind # "block" /\ cd2[p].op = "br" =>
             /\ c.end \in cd2[p].to => Reached(c, own2[p], D2, K, kind, Exact)
             /\ c.kind = "then" => c.other \notin cd2[p].to
    BY <1>4, <1>7, <2>1, <2>2
  <2>7. \A p \in 1..Len(code) : own[p] \cap Heap(kind) = own[p] \cap Heap(kind)  OBVIOUS
  <2>8. Len(code) \in Nat /\ Len(cd2) \in Nat /\ Len(code) <= Len(cd2)  BY <1>4, <1>5, <2>2
  <2>9. \A p \in 1..Len(code) : cd2[p] = code[p] /\ own2[p] = own[p]  BY <1>4, <2>2
  <2>10. Opened(c, h, D2, K, kind, cd2, own2, lb2, Exact)
    BY ONLY <2>3, <2>4, <2>5, <2>6, <2>7, <2>8, <2>9, StillOpen
  <2> QED  BY <2>1, <2>2, <2>10
<1>9. ASSUME NEW i \in 0..(m - 1) PROVE Kept(control', held, i) = Kept(control, held, i)
  <2>1. PICK ctl2 : ctl2 = control'  OBVIOUS
  <2>2. \A j \in 1..i : j \in 1..(m - 1)  BY <1>2
  <2>3. \A j \in 1..i : ctl2[j].kind = control[j].kind /\ ctl2[j].moved = control[j].moved
    BY <1>3, <2>1, <2>2
  <2>4. Kept(ctl2, held, i) = Kept(control, held, i)  BY <2>3, KeptSame
  <2> QED  BY <2>1, <2>4
<1>10. ASSUME NEW l \in DOMAIN label', label'[l] = 0
       PROVE  \E i \in 1..(m - 1) : /\ control'[i].kind # "block"
                           /\ \/ l = control'[i].end
                              \/ control'[i].kind = "then" /\ l = control'[i].other
  <2>1. l \in DOMAIN label /\ label[l] = 0 /\ (Top.kind # "block" => l \notin {Top.end, Top.other})
    BY <1>10 DEF EndLabels
  <2>2. PICK i \in 1..m : /\ control[i].kind # "block"
                          /\ \/ l = control[i].end
                             \/ control[i].kind = "then" /\ l = control[i].other
    BY <1>1, <2>1 DEF Owned, Pending
  <2>3. i # m  BY <1>1, <2>1, <2>2 DEF Top
  <2>4. i \in 1..(m - 1)  BY <1>2, <2>3
  <2> QED  BY <1>3, <2>2, <2>4
<1>11. Pending(label', control')  BY <1>3, <1>10 DEF Pending
<1>12. Exact' = Exact /\ kind' = kind  BY DEF Exact
<1>13. terminated' \in BOOLEAN /\ Flow(kind', code', own2, label', terminated', Exact')
  BY <1>12
<1>14. ~terminated' => Here(own2[Len(code') + 1], visible', moved', Due(cleanups'),
            Kept(control', held, Len(control')), kind', Exact')
  <2>1. m - 1 \in 0..(m - 1)  BY <1>2
  <2>2. Kept(control', held, m - 1) = Kept(control, held, m - 1)  BY <1>9, <2>1
  <2>3. Kept(control', held, Len(control')) = Kept(control, held, Len(control) - 1)
    BY <1>1, <1>3, <2>2
  <2> QED  BY <1>12, <2>3
<1>15. ASSUME NEW i \in 1..Len(control')
       PROVE  Opened(control'[i], held[i], Due(cleanups'), Kept(control', held, i),
                     kind', code', own2, label', Exact')
  <2>1. i \in 1..(m - 1) /\ i \in 0..(m - 1)  BY <1>2, <1>3
  <2>2. Kept(control', held, i) = Kept(control, held, i)  BY <1>9, <2>1
  <2>3. control'[i] = control[i]  BY <1>3, <2>1
  <2> QED  BY <1>8, <1>12, <2>1, <2>2, <2>3
<1> QED  BY <1>11, <1>13, <1>14, <1>15 DEF Owned

(* The end of a block: its environment is cleaned up.                      *)
LEMMA OwnedCloseBlock ==
    ASSUME Inv, Scopes, UNCHANGED features, NEW own, NEW held, Owned(own, held), CloseBlock
    PROVE  \E own2 : Owned(own2, held)'
<1>1. PICK m, n, c, e : m = Len(control) /\ n = Len(kind) /\ c = Top /\ e = Env  OBVIOUS
<1>2. /\ control # <<>> /\ c.kind = "block" /\ control' = Front(control)
      /\ cleanups' = LeaveEnv(cleanups)
      /\ visible' = c.visible /\ moved' = moved \cap DOMAIN c.visible
      /\ UNCHANGED <<features, kind, label, terminated>>
      /\ terminated => code' = code
      /\ ~terminated => code' = code \o Frees(cleanups, e)
  BY <1>1 DEF CloseBlock, Closes, InScope, Emit
<1>3. /\ Around(c, visible, moved, kind, e) /\ c.env + 1 = e /\ e \in Nat
      /\ m \in Nat /\ m # 0 /\ m \in 1..m /\ DOMAIN control = 1..m /\ control[m] = c
      /\ \A i \in 1..m : i # m => Pair(control[i], c)
  BY <1>1, <1>2, Innermost1 DEF EnvIn, Top
<1>4. n \in Nat /\ cleanups \in Lists(n) /\ One(cleanups) /\ Placed(cleanups, visible, kind)
      /\ cleanups # <<>> /\ e = Len(cleanups)
  BY <1>1 DEF Inv, Scopes, Env
<1>5. PICK D, D2 : D = Due(cleanups) /\ D2 = Due(cleanups')  OBVIOUS
<1>6. PICK F : F = DueFrom(cleanups, e)  OBVIOUS
<1>7. F = {s \in D : visible[s] >= e} /\ D2 = D \ F
  BY <1>2, <1>4, <1>5, <1>6, LeaveDue, DueFromPlaced
<1>8. \A s \in D : s \in DOMAIN visible /\ kind[s] # "str"  BY <1>4, <1>5, DueArePlaced
<1>9. \A s \in DOMAIN visible : visible[s] \in Nat  BY DEF Scopes, Names
<1>10. /\ \A s \in DOMAIN c.visible : s \in DOMAIN visible /\ visible[s] <= c.env
       /\ \A s \in DOMAIN visible \ DOMAIN c.visible : kind[s] # "str" => visible[s] > c.env
       /\ c.env \in Nat
  BY <1>3 DEF Around
<1>11. DOMAIN c.visible \cap F = {}
  <2>1. ASSUME NEW s \in DOMAIN c.visible, s \in F PROVE FALSE
    <3>1. visible[s] >= e /\ visible[s] <= c.env /\ visible[s] \in Nat
      BY <1>7, <1>9, <1>10, <2>1
    <3> QED  BY <1>3, <1>10, <3>1
  <2> QED  BY <2>1
<1>12. D2 \subseteq DOMAIN c.visible
  <2>1. ASSUME NEW s \in D2, s \notin DOMAIN c.visible PROVE FALSE
    <3>1. s \in D /\ ~(visible[s] >= e)  BY <1>7, <2>1
    <3>2. visible[s] > c.env /\ visible[s] \in Nat  BY <1>8, <1>9, <1>10, <2>1, <3>1
    <3> QED  BY <1>3, <1>10, <3>1, <3>2
  <2> QED  BY <2>1
<1>13. ASSUME NEW j \in 1..m, j # m
       PROVE  /\ DOMAIN control[j].visible \subseteq DOMAIN c.visible
              /\ control[j].kind # "block" => control[j].moved \subseteq DOMAIN control[j].visible
  <2>1. Pair(control[j], c)  BY <1>3, <1>13
  <2>2. Around(control[j], visible, moved, kind, Env)  BY <1>1 DEF Scopes
  <2> QED  BY <2>1, <2>2 DEF Pair, Around
<1>14. EndDue
  <2>1. ASSUME NEW j \in Branches, j # Len(control)
        PROVE  /\ D2 \cap DOMAIN control[j].visible \subseteq D
               /\ Exact => D \cap DOMAIN control[j].visible \subseteq D2
    <3>1. j \in 1..m /\ j # m  BY <1>1, <1>3, <2>1 DEF Branches
    <3>2. DOMAIN control[j].visible \cap F = {}  BY <1>11, <1>13, <3>1
    <3> QED  BY <1>7, <3>2
  <2> QED  BY <1>5, <2>1 DEF EndDue
<1>15. EndLabels  BY <1>1, <1>2 DEF EndLabels
<1>16. Exact' = Exact /\ terminated \in BOOLEAN  BY <1>2 DEF Exact, Owned
<1>17. CASE terminated
  <2>1. Flow(kind, code', own, label', terminated', Exact)
    BY <1>2, <1>17 DEF Owned
  <2>2. EndCode(own, own)
    <3>1. Len(code) \in Nat  BY DEF Owned, Flow, IsSeq
    <3> QED  BY <1>2, <1>17, <3>1 DEF EndCode
  <2>3. ~terminated' => Here(own[Len(code') + 1], visible', moved', Due(cleanups'),
                             Kept(control, held, Len(control) - 1), kind, Exact)
    BY <1>2, <1>17
  <2>4. Owned(own, held)'
    BY <1>2, <1>14, <1>15, <1>16, <2>1, <2>2, <2>3, OwnedPop
  <2> QED  BY <2>4
<1>18. CASE ~terminated
  <2>1. PICK O, K : AtHand(own, held, O, D, K)
    <3>1. PICK O, DD, K : AtHand(own, held, O, DD, K)  BY <1>18, Now
    <3>2. DD = D  BY <1>5, <3>1 DEF AtHand
    <3> QED  BY <3>1, <3>2
  <2>2. /\ Emitted(kind, code, own, code, own, O, label, Exact)
        /\ D \subseteq O \cap Heap(kind) /\ Readable \subseteq O /\ O \subseteq DOMAIN visible
        /\ Exact => O \cap Heap(kind) \subseteq D
        /\ K = Kept(control, held, m) /\ K \subseteq O
    BY <1>1, <2>1 DEF AtHand
  <2>3. IsSeq(code) /\ DOMAIN visible \subseteq DOMAIN kind  BY <1>18, Now
  <2>4. PICK cd : cd = code \o Frees(cleanups, e)  OBVIOUS
  <2>5. PICK own1 : Emitted(kind, code, own, cd, own1, O \ F, label, Exact)
    <3>1. DueFrom(cleanups, e) \subseteq O \cap Heap(kind)  BY <1>6, <1>7, <2>2
    <3>2. \E own1 : Emitted(kind, code, own, code \o Frees(cleanups, e), own1,
                            O \ DueFrom(cleanups, e), label, Exact)
      BY <1>4, <2>2, <2>3, <3>1, EmitFrees
    <3> QED  BY <1>6, <2>4, <3>2
  <2>6. PICK V : V = (O \ F) \cap DOMAIN c.visible  OBVIOUS
  <2>7. Passes(O \ F, V, kind, Exact)  BY <1>7, <1>12, <2>2, <2>6 DEF Passes
  <2>8. PICK own2 : Emitted(kind, code, own, cd, own2, V, label, Exact)
    BY <2>3, <2>5, <2>7, EmitLess
  <2>9. cd = code'  BY <1>2, <1>18, <2>4
  <2>10. /\ Flow(kind, code', own2, label, FALSE, Exact) /\ own2[Len(code') + 1] = V
         /\ EndCode(own, own2)
    BY <2>8, <2>9 DEF Emitted, EndCode, Leaves
  <2>11. Flow(kind, code', own2, label', terminated', Exact)
    <3>1. terminated' = FALSE /\ label' = label  BY <1>2, <1>16, <1>18
    <3> QED  BY <2>10, <3>1
  <2>12. PICK K2 : K2 = Kept(control, held, m - 1)  OBVIOUS
  <2>13. K2 \subseteq V
    <3>1. ASSUME NEW s \in K2 PROVE s \in V
      <4>1. PICK j \in 1..(m - 1) : /\ control[j].kind # "block"
                                    /\ s \in held[j] \cap control[j].moved
        BY <2>12, <3>1 DEF Kept
      <4>2. j \in 1..m /\ j # m  BY <1>3
      <4>3. s \in K  BY <2>2, <4>1, <4>2 DEF Kept
      <4>4. s \in DOMAIN c.visible  BY <1>13, <4>1, <4>2
      <4> QED  BY <1>11, <2>2, <2>6, <4>3, <4>4
    <3> QED  BY <3>1
  <2>14. Here(V, c.visible, moved', D2, K2, kind, Exact)
    <3>1. D2 \subseteq V  BY <1>7, <1>12, <2>2, <2>6
    <3>2. DOMAIN c.visible \ moved' \subseteq V
      BY <1>2, <1>10, <1>11, <2>2, <2>6 DEF Readable
    <3>3. Exact => V \cap Heap(kind) \subseteq D2  BY <1>7, <2>2, <2>6
    <3> QED  BY <2>6, <2>13, <3>1, <3>2, <3>3 DEF Here
  <2>15. Here(own2[Len(code') + 1], visible', moved', Due(cleanups'),
              Kept(control, held, Len(control) - 1), kind, Exact)
    BY <1>1, <1>2, <1>5, <2>10, <2>12, <2>14
  <2>16. Owned(own2, held)'
    BY <1>2, <1>14, <1>15, <1>16, <2>10, <2>11, <2>15, OwnedPop
  <2> QED  BY <2>16
<1> QED  BY <1>17, <1>18

(* A branch or an iteration ends with a jump to l, unless something ended  *)
(* it before.                                                              *)
EndJump(own, own1, l) ==
    /\ Flow(kind, code', own1, label, TRUE, Exact)
    /\ Len(code) <= Len(code')
    /\ \A p \in 1..Len(code) : code'[p] = code[p] /\ own1[p] = own[p]
    /\ \A p \in (Len(code) + 1)..Len(code') :
            /\ ~terminated /\ code'[p].op = "br" /\ code'[p].to = {l}
            /\ own1[p] = own[Len(code) + 1]

LEMMA EmitEnd ==
    ASSUME Inv, Scopes, NEW own, NEW held, Owned(own, held), NEW l \in DOMAIN label,
           ~terminated => \/ label[l] = 0
                          \/ /\ label[l] \in 1..Len(code)
                             /\ Passes(own[Len(code) + 1], own[label[l]], kind, Exact),
           code' = code \o JumpUnlessTerminated(l)
    PROVE  \E own1 : EndJump(own, own1, l)
<1>1. /\ terminated \in BOOLEAN /\ Flow(kind, code, own, label, terminated, Exact)
      /\ IsSeq(code) /\ Len(code) \in Nat
  BY DEF Owned, Flow, IsSeq
<1>2. CASE terminated
  <2>1. code' = code
    <3>1. PICK S : code \in Seq(S)  BY <1>1 DEF IsSeq
    <3>2. code' = code \o <<>>  BY <1>2 DEF JumpUnlessTerminated
    <3> QED  BY <3>1, <3>2, ConcatEmptySeq
  <2>2. terminated = TRUE  BY <1>1, <1>2
  <2>3. Flow(kind, code, own, label, TRUE, Exact)  BY <1>1, <2>2
  <2>4. Len(code') = Len(code)  BY <2>1
  <2>5. \A p \in 1..Len(code) : code'[p] = code[p] /\ own[p] = own[p]  BY <2>1
  <2>6. \A p \in (Len(code) + 1)..Len(code') : FALSE  BY <1>1, <2>4
  <2>7. Flow(kind, code', own, label, TRUE, Exact)  BY <2>1, <2>3
  <2>8. Len(code) <= Len(code')  BY <1>1, <2>4
  <2>9. EndJump(own, own, l)  BY <2>5, <2>6, <2>7, <2>8 DEF EndJump
  <2> QED  BY <2>9
<1>3. CASE ~terminated
  <2>1. PICK O, D, K : AtHand(own, held, O, D, K)  BY <1>3, Now
  <2>2. Emitted(kind, code, own, code, own, O, label, Exact) /\ own[Len(code) + 1] = O
    BY <2>1 DEF AtHand, Emitted
  <2>3. PICK i : i = Br({l})  OBVIOUS
  <2>4. i.op = "br" /\ i.to = {l} /\ i.op \in Leaves  BY <2>3 DEF Br, Leaves
  <2>5. code' = Append(code, i)
    <3>1. code' = code \o <<i>>  BY <1>3, <2>3 DEF JumpUnlessTerminated
    <3> QED  BY <1>1, <3>1, Appended
  <2>6. Operands(kind, O, i, Exact)  BY <2>4 DEF Operands, Leaves
  <2>7. ASSUME NEW x \in i.to
        PROVE  /\ x \in DOMAIN label
               /\ label[x] # 0 => /\ label[x] \in 1..(Len(code) + 1)
                                  /\ Passes(O, own[label[x]], kind, Exact)
    <3>1. x = l  BY <2>4, <2>7
    <3> QED  BY <1>1, <1>3, <2>2, <3>1
  <2>8. \E own1 : Left(kind, code, own, Append(code, i), own1, i, O, label, Exact)
    BY <1>1, <2>2, <2>4, <2>6, <2>7, EmitLast
  <2>9. PICK own1 : Left(kind, code, own, code', own1, i, O, label, Exact)  BY <2>5, <2>8
  <2>10. Len(code') = Len(code) + 1  BY <1>1, <2>5, AppendSeq
  <2>11. \A p \in (Len(code) + 1)..Len(code') : p = Len(code')  BY <1>1, <2>10
  <2>12. /\ Flow(kind, code', own1, label, TRUE, Exact)
         /\ \A p \in 1..Len(code) : code'[p] = code[p] /\ own1[p] = own[p]
         /\ code'[Len(code')] = i /\ own1[Len(code')] = O
    BY <2>9 DEF Left
  <2>13. Len(code) <= Len(code')  BY <1>1, <2>10
  <2>14. ASSUME NEW p \in (Len(code) + 1)..Len(code')
         PROVE  /\ ~terminated /\ code'[p].op = "br" /\ code'[p].to = {l}
                /\ own1[p] = own[Len(code) + 1]
    <3>1. p = Len(code')  BY <2>11
    <3>2. code'[p] = i /\ own1[p] = O  BY <2>12, <3>1
    <3> QED  BY <1>3, <2>2, <2>4, <3>2
  <2>15. EndJump(own, own1, l)  BY <2>12, <2>13, <2>14 DEF EndJump
  <2> QED  BY <2>15
<1> QED  BY <1>2, <1>3

(* In a branch that has no block open inside nothing is due but what was   *)
(* in scope in front of it.                                                *)
LEMMA TopDue ==
    ASSUME Inv, Scopes, control # <<>>, Top.kind # "block"
    PROVE  Due(cleanups) \subseteq DOMAIN Top.visible
<1>1. Around(Top, visible, moved, kind, Env) /\ EnvIn(Top) = Env  BY Innermost1
<1>2. Placed(cleanups, visible, kind) /\ Names(visible, Env) /\ Env \in Nat  BY DEF Scopes
<1>3. ASSUME NEW s \in Due(cleanups), s \notin DOMAIN Top.visible PROVE FALSE
  <2>1. s \in DOMAIN visible /\ kind[s] # "str"  BY <1>2, <1>3, DueArePlaced
  <2>2. visible[s] > Top.env  BY <1>1, <1>3, <2>1 DEF Around
  <2>3. visible[s] \in 1..Env /\ Top.env = Env  BY <1>1, <1>2, <2>1 DEF Names, EnvIn
  <2> QED  BY <1>2, <2>2, <2>3
<1> QED  BY <1>3

(* The labels of c are placed where the emitter is.                        *)
JoinLabels(c) ==
    /\ DOMAIN label' = DOMAIN label
    /\ \A l \in DOMAIN label : l \notin {c.end, c.other} => label'[l] = label[l]
    /\ label'[c.end] = Len(code') + 1
    /\ label'[c.other] = IF label[c.other] = 0 THEN Len(code') + 1 ELSE label[c.other]

LEMMA OwnedJoin ==
    ASSUME Inv, Scopes, NEW own, NEW held, Owned(own, held), control # <<>>,
           NEW c, c = Top, c.kind # "block", control' = Front(control),
           UNCHANGED <<features, kind, cleanups>>, terminated' = FALSE,
           visible' = c.visible, c.moved \subseteq moved', AllEnds(c) \subseteq moved',
           NEW to \in {c.end, c.other}, NEW own1, EndJump(own, own1, to),
           to = c.other => c.kind = "loop",
           to = c.end /\ ~terminated => moved \cap DOMAIN c.visible \subseteq moved',
           JoinLabels(c)
    PROVE  \E own2 : Owned(own2, held)'
<1>1. PICK m, h, n : m = Len(control) /\ h = held[m] /\ n = Len(code)  OBVIOUS
<1>2. /\ m \in Nat /\ m \in 1..m /\ control[m] = c /\ m # 0 /\ DOMAIN control = 1..m
      /\ Around(c, visible, moved, kind, Env) /\ Labelled(c, Len(label))
  BY <1>1, Innermost1 DEF Top
<1>3. PICK D, K : D = Due(cleanups) /\ K = Kept(control, held, m)  OBVIOUS
<1>4. D \subseteq DOMAIN c.visible  BY <1>3, TopDue
<1>5. /\ Opened(c, h, D, K, kind, code, own, label, Exact)
      /\ Entered(c, h, D, K, kind, Exact)
      /\ Flow(kind, code, own, label, terminated, Exact)
  BY <1>1, <1>2, <1>3 DEF Owned, Opened
<1>6. /\ Flow(kind, code', own1, label, TRUE, Exact)
      /\ Len(code) <= Len(code')
      /\ \A p \in 1..Len(code) : code'[p] = code[p] /\ own1[p] = own[p]
      /\ \A p \in (Len(code) + 1)..Len(code') :
            /\ ~terminated /\ code'[p].op = "br" /\ code'[p].to = {to}
            /\ own1[p] = own[Len(code) + 1]
  BY DEF EndJump
<1>7. n \in Nat /\ Len(code') \in Nat  BY <1>1, <1>5, <1>6 DEF Flow, IsSeq
<1>8. PICK O : O = own[Len(code) + 1]  OBVIOUS
<1>9. ~terminated => Here(O, visible, moved, D, K, kind, Exact)
  BY <1>1, <1>3, <1>8 DEF Owned
<1>10. h \subseteq DOMAIN c.visible /\ DOMAIN c.visible \subseteq DOMAIN visible
       /\ DOMAIN visible \subseteq DOMAIN kind
  BY <1>2, <1>5 DEF Entered, Around, Inv, Slot
<1>11. c.end # c.other
  <2>1. m \in Branches  BY <1>2 DEF Branches
  <2> QED  BY <1>2, <2>1, Distinct
<1>12. PICK W : W = DOMAIN c.visible \ moved'  OBVIOUS
<1>13. PICK K2 : K2 = Kept(control, held, m - 1)  OBVIOUS
<1>14. K2 \subseteq K
  <2>1. \A j \in 1..(m - 1) : j \in 1..m  BY <1>2
  <2> QED  BY <1>3, <1>13, <2>1 DEF Kept
<1>15. PICK V : V = {s \in h : \A p \in Jumps(code', c.end) : s \in own1[p]}  OBVIOUS
<1>16. ASSUME NEW p \in Jumps(code', c.end)
       PROVE  /\ D \subseteq own1[p] /\ W \subseteq own1[p] /\ K2 \subseteq own1[p]
              /\ Exact => own1[p] \cap Heap(kind) \subseteq D
  <2>1. p \in 1..Len(code') /\ code'[p].op = "br" /\ c.end \in code'[p].to
    BY <1>16 DEF Jumps
  <2>2. CASE p \in 1..n
    <3>1. p \in Jumps(code, c.end) /\ own1[p] = own[p]
      BY <1>1, <1>6, <2>1, <2>2 DEF Jumps
    <3>2. Reached(c, own[p], D, K, kind, Exact)  BY <1>5, <3>1 DEF Opened
    <3> QED  BY <1>4, <1>12, <1>14, <3>1, <3>2 DEF Reached
  <2>3. CASE p \in (n + 1)..Len(code')
    <3>1. ~terminated /\ to = c.end /\ own1[p] = O  BY <1>1, <1>6, <1>8, <2>1, <2>3
    <3>2. Here(O, visible, moved, D, K, kind, Exact)  BY <1>9, <3>1
    <3>3. moved \cap DOMAIN c.visible \subseteq moved'  BY <3>1
    <3>4. W \subseteq O  BY <1>10, <1>12, <3>2, <3>3 DEF Here
    <3> QED  BY <1>14, <3>1, <3>2, <3>4 DEF Here
  <2> QED  BY <1>7, <2>1, <2>2, <2>3
<1>17. D \subseteq h /\ W \subseteq h /\ K2 \subseteq h
  BY <1>4, <1>5, <1>12, <1>14 DEF Entered
<1>18. D \subseteq V /\ W \subseteq V /\ K2 \subseteq V /\ V \subseteq h
  BY <1>15, <1>16, <1>17
<1>19. Exact => h \cap Heap(kind) \subseteq D  BY <1>5 DEF Entered
<1>20. Here(V, visible', moved', D, K2, kind, Exact)
  BY <1>10, <1>12, <1>18, <1>19 DEF Here
<1>21. ASSUME NEW p \in 1..Len(code'), code'[p].op = "br", NEW x \in code'[p].to
       PROVE  \/ label'[x] = label[x]
              \/ label'[x] = Len(code') + 1 /\ Passes(own1[p], V, kind, Exact)
  <2>1. CASE x = c.end
    <3>1. p \in Jumps(code', c.end)  BY <1>21, <2>1 DEF Jumps
    <3>2. V \subseteq own1[p]  BY <1>15, <3>1
    <3>3. Passes(own1[p], V, kind, Exact)  BY <1>16, <1>18, <3>1, <3>2 DEF Passes
    <3> QED  BY <2>1, <3>3 DEF JoinLabels
  <2>2. CASE x = c.other /\ label[c.other] = 0
    <3>1. c.kind = "then" /\ \A q \in Jumps(code, c.other) : own[q] = h
      BY <1>5, <2>2 DEF Opened
    <3>2. p \in 1..n
      <4>1. ~(p \in (n + 1)..Len(code'))  BY <1>1, <1>6, <1>11, <1>21, <2>2, <3>1
      <4> QED  BY <1>7, <4>1
    <3>3. p \in Jumps(code, c.other) /\ own1[p] = own[p]
      BY <1>1, <1>6, <1>21, <2>2, <3>2 DEF Jumps
    <3>4. Passes(own1[p], V, kind, Exact)  BY <1>18, <1>19, <3>1, <3>3 DEF Passes
    <3> QED  BY <2>2, <3>4 DEF JoinLabels
  <2>3. CASE x = c.other /\ label[c.other] # 0  BY <2>3 DEF JoinLabels
  <2>4. CASE x \notin {c.end, c.other}
    <3>1. x \in DOMAIN label  BY <1>6, <1>21 DEF Flow, Continuing
    <3> QED  BY <2>4, <3>1 DEF JoinLabels
  <2> QED  BY <2>1, <2>2, <2>3, <2>4
<1>22. PICK own2 : own2 = [own1 EXCEPT ![Len(code') + 1] = V]  OBVIOUS
<1>23. Flow(kind, code', own2, label', FALSE, Exact)
  <2>1. PICK cd, lb2 : cd = code' /\ lb2 = label'  OBVIOUS
  <2>2. Flow(kind, cd, own1, label, TRUE, Exact) /\ DOMAIN lb2 = DOMAIN label
    BY <1>6, <2>1 DEF JoinLabels
  <2>3. \A p \in 1..Len(cd) : cd[p].op = "br" => \A x \in cd[p].to :
            \/ lb2[x] = label[x]
            \/ lb2[x] = Len(cd) + 1 /\ Passes(own1[p], V, kind, Exact)
    BY <1>21, <2>1
  <2>4. V \in SUBSET DOMAIN kind  BY <1>10, <1>18
  <2>5. Flow(kind, cd, [own1 EXCEPT ![Len(cd) + 1] = V], lb2, FALSE, Exact)
    BY <2>2, <2>3, <2>4, PlaceLabels
  <2> QED  BY <1>22, <2>1, <2>5
<1>24. own2[Len(code') + 1] = V /\ \A p \in 1..Len(code') : own2[p] = own1[p]
  <2>1. DOMAIN own1 = 1..(Len(code') + 1)  BY <1>6 DEF Flow
  <2>2. \A p \in 1..Len(code') : p # Len(code') + 1 /\ p \in 1..(Len(code') + 1)  BY <1>7
  <2>3. Len(code') + 1 \in 1..(Len(code') + 1)  BY <1>7
  <2> QED  BY <1>22, <2>1, <2>2, <2>3
<1>25. EndCode(own, own2)
  <2>1. \A p \in 1..Len(code) : p \in 1..Len(code')  BY <1>1, <1>6, <1>7
  <2> QED  BY <1>6, <1>24, <2>1 DEF EndCode
<1>26. EndLabels
  <2>1. label'[c.end] # 0 /\ label'[c.other] # 0
    <3>1. Len(code') + 1 # 0  BY <1>7
    <3> QED  BY <3>1 DEF JoinLabels
  <2> QED  BY <2>1 DEF EndLabels, JoinLabels
<1>27. EndDue  BY DEF EndDue
<1>28. Here(own2[Len(code') + 1], visible', moved', Due(cleanups'),
            Kept(control, held, Len(control) - 1), kind, Exact)
  BY <1>1, <1>3, <1>13, <1>20, <1>24
<1>29. Flow(kind, code', own2, label', terminated', Exact) /\ terminated' \in BOOLEAN
  BY <1>23
<1>30. Owned(own2, held)'  BY <1>25, <1>26, <1>27, <1>28, <1>29, OwnedPop
<1> QED  BY <1>30

(* if and else come together.                                              *)
LEMMA OwnedEndIf ==
    ASSUME Inv, Scopes, UNCHANGED features, NEW own, NEW held, Owned(own, held), EndIf
    PROVE  \E own2 : Owned(own2, held)'
<1>1. PICK c, m, x : c = Top /\ m = Len(control) /\ x = Len(code') + 1  OBVIOUS
<1>2. /\ control # <<>> /\ c.kind \in {"then", "else"}
      /\ UNCHANGED <<features, kind, cleanups>>
      /\ code' = code \o JumpUnlessTerminated(c.end)
  BY <1>1 DEF EndIf, Closes, Emit
<1>3. /\ m \in Nat /\ m # 0 /\ DOMAIN control = 1..m /\ m \in 1..m /\ control[m] = c
      /\ Around(c, visible, moved, kind, Env)
  BY <1>1, <1>2, Innermost1 DEF Top
<1>4. m \in Branches  BY <1>2, <1>3 DEF Branches
<1>5. c.end \in DOMAIN label /\ c.other \in DOMAIN label /\ c.end # c.other
  BY <1>3, <1>4, Distinct
<1>6. PICK P : /\ P = Top.ends \cup PathEnd(Top)
                      \cup (IF Top.kind = "then" THEN {Top.moved} ELSE {})
               /\ Join(Top, P)
  BY DEF EndIf
<1>7. /\ c.moved \subseteq moved' /\ (P # {} => moved' = UNION P)
      /\ control' = Front(control) /\ visible' = c.visible /\ terminated' = FALSE
  <2>1. P \subseteq Top.ends \cup PathEnd(Top) \cup {Top.moved}  BY <1>6
  <2>2. Top.kind # "block"  BY <1>1, <1>2
  <2> QED  BY <1>1, <1>2, <1>6, <2>1, <2>2, Joined
<1>8. \A M \in P : M \subseteq moved'  BY <1>7
<1>9. AllEnds(c) \subseteq moved'
  <2>1. \A M \in c.ends : M \subseteq moved'  BY <1>1, <1>6, <1>8
  <2>2. AllEnds(c) = UNION c.ends  BY <1>2 DEF AllEnds
  <2> QED  BY <2>1, <2>2
<1>10. ~terminated => moved \cap DOMAIN c.visible \subseteq moved'
  <2>1. ~terminated => moved \cap DOMAIN c.visible \in P
    BY <1>1, <1>6 DEF PathEnd, InScope
  <2> QED  BY <1>8, <2>1
<1>11. label[c.end] = 0
  BY <1>1, <1>2, <1>3 DEF Owned, Opened
<1>12. PICK own1 : EndJump(own, own1, c.end)  BY <1>2, <1>5, <1>11, EmitEnd
<1>13. JoinLabels(c)
  <2>1. label' = [label EXCEPT ![c.end] = x, ![c.other] = IF @ = 0 THEN x ELSE @]
    BY <1>1 DEF EndIf
  <2>2. DOMAIN label' = DOMAIN label  BY <2>1
  <2>3. label'[c.end] = x  BY <1>5, <2>1
  <2>4. label'[c.other] = IF label[c.other] = 0 THEN x ELSE label[c.other]  BY <1>5, <2>1
  <2>5. \A l \in DOMAIN label : l \notin {c.end, c.other} => label'[l] = label[l]
    BY <1>5, <2>1
  <2> QED  BY <1>1, <2>2, <2>3, <2>4, <2>5 DEF JoinLabels
<1>14. PICK to : to = c.end /\ to \in {c.end, c.other}  OBVIOUS
<1>15. EndJump(own, own1, to) /\ (to = c.other => c.kind = "loop")
       /\ (to = c.end /\ ~terminated => moved \cap DOMAIN c.visible \subseteq moved')
  BY <1>5, <1>10, <1>12, <1>14
<1>16. c = Top /\ c.kind # "block"  BY <1>1, <1>2
<1> QED  BY <1>2, <1>7, <1>9, <1>13, <1>14, <1>15, <1>16, OwnedJoin

(* A loop ends: its condition is come to again, and fails.                 *)
LEMMA OwnedCloseLoop ==
    ASSUME Inv, Scopes, UNCHANGED features, NEW own, NEW held, Owned(own, held), CloseLoop
    PROVE  \E own2 : Owned(own2, held)'
<1>1. PICK c, m, x : c = Top /\ m = Len(control) /\ x = Len(code') + 1  OBVIOUS
<1>2. /\ control # <<>> /\ c.kind = "loop"
      /\ UNCHANGED <<features, kind, cleanups>>
      /\ code' = code \o JumpUnlessTerminated(c.other)
      /\ UNION PathEnd(c) \subseteq c.moved
  BY <1>1 DEF CloseLoop, Closes, Emit, BackEdge
<1>3. /\ m \in Nat /\ m # 0 /\ DOMAIN control = 1..m /\ m \in 1..m /\ control[m] = c
      /\ Around(c, visible, moved, kind, Env)
  BY <1>1, <1>2, Innermost1 DEF Top
<1>4. m \in Branches  BY <1>2, <1>3 DEF Branches
<1>5. c.end \in DOMAIN label /\ c.other \in DOMAIN label /\ c.end # c.other
  BY <1>3, <1>4, Distinct
<1>6. PICK P : P = Top.ends \cup {Top.moved} /\ Join(Top, P)
  BY DEF CloseLoop
<1>7. /\ moved' = UNION P
      /\ control' = Front(control) /\ visible' = c.visible /\ terminated' = FALSE
  <2>1. P \subseteq Top.ends \cup PathEnd(Top) \cup {Top.moved} /\ P # {}  BY <1>6
  <2>2. Top.kind # "block"  BY <1>1, <1>2
  <2> QED  BY <1>1, <1>2, <1>6, <2>1, <2>2, Joined
<1>8. \A M \in P : M \subseteq moved'  BY <1>7
<1>9. c.moved \subseteq moved' /\ AllEnds(c) \subseteq moved'
  <2>1. c.moved \subseteq moved' /\ \A M \in c.ends : M \subseteq moved'
    BY <1>1, <1>6, <1>8
  <2>2. AllEnds(c) = (UNION c.ends) \cup c.moved  BY <1>2 DEF AllEnds
  <2> QED  BY <2>1, <2>2
<1>10. PICK D, K, h : D = Due(cleanups) /\ K = Kept(control, held, m) /\ h = held[m]  OBVIOUS
<1>11. Opened(c, h, D, K, kind, code, own, label, Exact)
  BY <1>1, <1>3, <1>10 DEF Owned
<1>12. /\ label[c.other] # 0 /\ label[c.other] \in 1..Len(code) /\ own[label[c.other]] = h
       /\ Entered(c, h, D, K, kind, Exact)
  BY <1>2, <1>11 DEF Opened
<1>13. D \subseteq DOMAIN c.visible  BY <1>1, <1>2, <1>10, TopDue
<1>14. ~terminated => Passes(own[Len(code) + 1], own[label[c.other]], kind, Exact)
  <2> SUFFICES ASSUME ~terminated PROVE Passes(own[Len(code) + 1], h, kind, Exact)
    BY <1>12
  <2>1. PICK O : O = own[Len(code) + 1]  OBVIOUS
  <2>2. Here(O, visible, moved, D, K, kind, Exact)  BY <1>1, <1>10, <2>1 DEF Owned
  <2>3. moved \cap DOMAIN c.visible \subseteq c.moved  BY <1>2 DEF PathEnd, InScope
  <2>4. h \cap c.moved \subseteq K  BY <1>2, <1>3, <1>10 DEF Kept
  <2>5. h \subseteq O  BY <1>3, <1>12, <2>2, <2>3, <2>4 DEF Entered, Here, Around
  <2>6. Exact => O \cap Heap(kind) \subseteq h
    BY <1>12, <1>13, <2>2 DEF Entered, Here
  <2> QED  BY <2>1, <2>5, <2>6 DEF Passes
<1>15. PICK own1 : EndJump(own, own1, c.other)  BY <1>2, <1>5, <1>12, <1>14, EmitEnd
<1>16. JoinLabels(c)
  <2>1. label' = [label EXCEPT ![c.end] = x]  BY <1>1 DEF CloseLoop
  <2>2. PICK l2 : l2 = [label EXCEPT ![c.end] = x] /\ l2 = label'  BY <2>1
  <2>3. /\ DOMAIN l2 = DOMAIN label /\ l2[c.end] = x /\ l2[c.other] = label[c.other]
        /\ \A l \in DOMAIN label : l # c.end => l2[l] = label[l]
    BY <1>5, <2>2
  <2> QED  BY <1>1, <1>12, <2>2, <2>3 DEF JoinLabels
<1>17. PICK to : to = c.other /\ to \in {c.end, c.other}  OBVIOUS
<1>18. EndJump(own, own1, to) /\ (to = c.other => c.kind = "loop")
       /\ (to = c.end /\ ~terminated => moved \cap DOMAIN c.visible \subseteq moved')
  BY <1>2, <1>5, <1>15, <1>17
<1>19. c = Top /\ c.kind # "block"  BY <1>1, <1>2
<1> QED  BY <1>2, <1>7, <1>9, <1>16, <1>17, <1>18, <1>19, OwnedJoin

(* The first branch ends, the second begins where the if began.            *)
LEMMA OwnedElse ==
    ASSUME Inv, Scopes, NoEnds, UNCHANGED features, NEW own, NEW held, Owned(own, held), Else
    PROVE  \E own2 : Owned(own2, held)'
<1>1. PICK c, m, x, V, h : /\ c = Top /\ m = Len(control) /\ x = Len(code') + 1
                           /\ V = DOMAIN c.visible /\ h = held[m]
  OBVIOUS
<1>2. /\ control # <<>> /\ c.kind = "then"
      /\ UNCHANGED <<features, kind, cleanups>>
      /\ code' = code \o JumpUnlessTerminated(c.end)
      /\ label' = [label EXCEPT ![c.other] = x]
      /\ visible' = c.visible /\ moved' = c.moved /\ terminated' = FALSE
  BY <1>1 DEF Else, Closes, Emit
<1>3. /\ m \in Nat /\ m # 0 /\ DOMAIN control = 1..m /\ m \in 1..m /\ control[m] = c
      /\ Around(c, visible, moved, kind, Env) /\ IsSeq(control)
  BY <1>1, <1>2, Innermost1 DEF Top, Scopes, Nested
<1>4. m \in Branches  BY <1>2, <1>3 DEF Branches
<1>5. c.end \in DOMAIN label /\ c.other \in DOMAIN label /\ c.end # c.other
  BY <1>3, <1>4, Distinct
<1>6. c.ends = {}  BY <1>1, <1>2, <1>3 DEF NoEnds
<1>7. PICK d : /\ control' = [control EXCEPT ![m] = d]
               /\ d.kind = "else" /\ d.end = c.end /\ d.other = c.other
               /\ d.visible = c.visible /\ d.moved = c.moved /\ d.ends = PathEnd(c)
  <2>1. PICK d : d = [c EXCEPT !.kind = "else", !.ends = PathEnd(c)]  OBVIOUS
  <2>2. control' = [control EXCEPT ![m].kind = "else", ![m].ends = PathEnd(Top)]
    BY <1>1 DEF Else
  <2>3. control' = [control EXCEPT ![m] = d]  BY <1>1, <2>1, <2>2 DEF Top
  <2>4. IsConstruct(c)  BY <1>3 DEF Around
  <2>5. /\ d.kind = "else" /\ d.end = c.end /\ d.other = c.other
        /\ d.visible = c.visible /\ d.moved = c.moved /\ d.ends = PathEnd(c)
    BY <2>1, <2>4 DEF IsConstruct
  <2> QED  BY <2>3, <2>5
<1>8. /\ Len(control') = m /\ control'[m] = d
      /\ \A j \in 1..m : j # m => control'[j] = control[j]
  <2>1. LET q == [control EXCEPT ![m] = d] IN
        /\ Len(q) = Len(control) /\ q[m] = d
        /\ \A j \in 1..Len(control) : j # m => q[j] = control[j]
    BY <1>1, <1>3, SeqExcept
  <2> QED  BY <1>1, <1>7, <2>1
<1>9. PICK D, K : D = Due(cleanups) /\ K = Kept(control, held, m)  OBVIOUS
<1>10. D \subseteq V  BY <1>1, <1>2, <1>9, TopDue
<1>11. /\ Flow(kind, code, own, label, terminated, Exact) /\ Pending(label, control)
       /\ \A i \in 1..m : Opened(control[i], held[i], D, Kept(control, held, i), kind,
                                 code, own, label, Exact)
  BY <1>1, <1>9 DEF Owned
<1>12. Opened(c, h, D, K, kind, code, own, label, Exact)  BY <1>1, <1>3, <1>9, <1>11
<1>13. /\ label[c.end] = 0 /\ Entered(c, h, D, K, kind, Exact)
       /\ \A p \in Jumps(code, c.other) : own[p] = h
       /\ \A p \in Jumps(code, c.end) : Reached(c, own[p], D, K, kind, Exact)
  BY <1>2, <1>12 DEF Opened
<1>14. PICK own1 : EndJump(own, own1, c.end)  BY <1>2, <1>5, <1>13, EmitEnd
<1>15. PICK O : O = own[Len(code) + 1]  OBVIOUS
<1>16. /\ Flow(kind, code', own1, label, TRUE, Exact)
       /\ Len(code) <= Len(code')
       /\ \A p \in 1..Len(code) : code'[p] = code[p] /\ own1[p] = own[p]
       /\ \A p \in (Len(code) + 1)..Len(code') :
            /\ ~terminated /\ code'[p].op = "br" /\ code'[p].to = {c.end}
            /\ own1[p] = O
  BY <1>14, <1>15 DEF EndJump
<1>17. Len(code) \in Nat /\ Len(code') \in Nat  BY <1>11, <1>16 DEF Flow, IsSeq
<1>18. \A p \in 1..Len(code') : p \in 1..Len(code) \/ p \in (Len(code) + 1)..Len(code')
  BY <1>17
<1>19. ~terminated => Here(O, visible, moved, D, K, kind, Exact)
  BY <1>1, <1>9, <1>15 DEF Owned
<1>20. V \subseteq DOMAIN visible /\ DOMAIN visible \subseteq DOMAIN kind
  BY <1>1, <1>3 DEF Around, Inv, Slot
<1>21. /\ h \subseteq V /\ V \ c.moved \subseteq h /\ D \subseteq h /\ K \subseteq h
       /\ Exact => h \cap Heap(kind) \subseteq D
  BY <1>1, <1>10, <1>13 DEF Entered
<1>22. Here(h, c.visible, c.moved, D, K, kind, Exact)  BY <1>1, <1>21 DEF Here
<1>23. PICK own2 : own2 = [own1 EXCEPT ![x] = h]  OBVIOUS
<1>24. /\ DOMAIN label' = DOMAIN label /\ label'[c.other] = x
       /\ \A l \in DOMAIN label : l # c.other => label'[l] = label[l]
  BY <1>2, <1>5
<1>25. ASSUME NEW p \in 1..Len(code'), code'[p].op = "br", NEW l \in code'[p].to
       PROVE  \/ label'[l] = label[l]
              \/ label'[l] = Len(code') + 1 /\ Passes(own1[p], h, kind, Exact)
  <2>1. CASE l = c.other
    <3>1. p \in 1..Len(code)  BY <1>5, <1>16, <1>18, <1>25, <2>1
    <3>2. p \in Jumps(code, c.other) /\ own1[p] = own[p]
      BY <1>16, <1>25, <2>1, <3>1 DEF Jumps
    <3>3. own1[p] = h  BY <1>13, <3>2
    <3>4. Passes(own1[p], h, kind, Exact)  BY <3>3 DEF Passes
    <3> QED  BY <1>1, <1>24, <2>1, <3>4
  <2>2. CASE l # c.other
    <3>1. l \in DOMAIN label  BY <1>16, <1>25 DEF Flow, Continuing
    <3> QED  BY <1>24, <2>2, <3>1
  <2> QED  BY <2>1, <2>2
<1>26. Flow(kind, code', own2, label', FALSE, Exact)
  <2>1. PICK cd, lb2 : cd = code' /\ lb2 = label'  OBVIOUS
  <2>2. Flow(kind, cd, own1, label, TRUE, Exact) /\ DOMAIN lb2 = DOMAIN label
    BY <1>16, <1>24, <2>1
  <2>3. \A p \in 1..Len(cd) : cd[p].op = "br" => \A l \in cd[p].to :
            \/ lb2[l] = label[l]
            \/ lb2[l] = Len(cd) + 1 /\ Passes(own1[p], h, kind, Exact)
    BY <1>25, <2>1
  <2>4. h \in SUBSET DOMAIN kind  BY <1>20, <1>21
  <2>5. Flow(kind, cd, [own1 EXCEPT ![Len(cd) + 1] = h], lb2, FALSE, Exact)
    BY <2>2, <2>3, <2>4, PlaceLabels
  <2> QED  BY <1>1, <1>23, <2>1, <2>5
<1>27. own2[x] = h /\ \A p \in 1..Len(code') : own2[p] = own1[p]
  <2>1. DOMAIN own1 = 1..(Len(code') + 1)  BY <1>16 DEF Flow
  <2>2. \A p \in 1..Len(code') : p # x /\ p \in 1..x  BY <1>1, <1>17
  <2>3. x \in 1..x  BY <1>1, <1>17
  <2> QED  BY <1>1, <1>23, <2>1, <2>2, <2>3
<1>28. \A p \in 1..Len(code) : code'[p] = code[p] /\ own2[p] = own[p]
  <2>1. \A p \in 1..Len(code) : p \in 1..Len(code')  BY <1>16, <1>17
  <2> QED  BY <1>16, <1>27, <2>1
<1>29. \A p \in (Len(code) + 1)..Len(code') : own2[p] = O
  <2>1. \A p \in (Len(code) + 1)..Len(code') : p \in 1..Len(code')  BY <1>17
  <2> QED  BY <1>16, <1>27, <2>1
<1>30. ASSUME NEW i \in 1..m PROVE Kept(control', held, i) = Kept(control, held, i)
  <2>1. PICK ctl2 : ctl2 = control'  OBVIOUS
  <2>2. \A j \in 1..i : j \in 1..m  BY <1>3
  <2>3. \A j \in 1..i : /\ ctl2[j].kind = "block" <=> control[j].kind = "block"
                        /\ ctl2[j].moved = control[j].moved
                        /\ held[j] = held[j]
    BY <1>2, <1>3, <1>7, <1>8, <2>1, <2>2
  <2>4. Kept(ctl2, held, i) = Kept(control, held, i)  BY <2>3, KeptSame
  <2> QED  BY <2>1, <2>4
<1>31. ASSUME NEW p \in Jumps(code', c.end) PROVE Reached(d, own2[p], D, K, kind, Exact)
  <2>1. p \in 1..Len(code') /\ code'[p].op = "br" /\ c.end \in code'[p].to
    BY <1>31 DEF Jumps
  <2>2. CASE p \in 1..Len(code)
    <3>1. p \in Jumps(code, c.end) /\ own2[p] = own[p]  BY <1>28, <2>1, <2>2 DEF Jumps
    <3>2. Reached(c, own[p], D, K, kind, Exact)  BY <1>13, <3>1
    <3>3. AllEnds(c) = {}  BY <1>2, <1>6 DEF AllEnds
    <3> QED  BY <1>7, <3>1, <3>2, <3>3 DEF Reached
  <2>3. CASE p \in (Len(code) + 1)..Len(code')
    <3>1. own2[p] = O /\ ~terminated  BY <1>16, <1>29, <2>3
    <3>2. moved \cap V \subseteq AllEnds(d)
      <4>1. moved \cap V \in d.ends  BY <1>1, <1>7, <3>1 DEF PathEnd, InScope
      <4> QED  BY <4>1 DEF AllEnds
    <3>3. /\ D \subseteq O /\ DOMAIN visible \ moved \subseteq O /\ K \subseteq O
          /\ Exact => O \cap Heap(kind) \subseteq D
      BY <1>19, <3>1 DEF Here
    <3>4. DOMAIN d.visible = V  BY <1>1, <1>7
    <3> QED  BY <1>10, <1>20, <3>1, <3>2, <3>3, <3>4 DEF Reached
  <2> QED  BY <1>18, <2>1, <2>2, <2>3
<1>32. Opened(d, h, D, K, kind, code', own2, label', Exact)
  <2>1. Entered(d, h, D, K, kind, Exact)  BY <1>7, <1>13 DEF Entered
  <2>2. label'[d.end] = 0  BY <1>5, <1>7, <1>13, <1>24
  <2>3. label'[d.other] # 0  BY <1>1, <1>7, <1>17, <1>24
  <2>4. \A p \in Jumps(code', d.end) : Reached(d, own2[p], D, K, kind, Exact)
    BY <1>7, <1>31
  <2> QED  BY <1>7, <2>1, <2>2, <2>3, <2>4 DEF Opened
<1>33. ASSUME NEW i \in 1..m, i # m
       PROVE  Opened(control[i], held[i], D, Kept(control, held, i), kind, code', own2,
                     label', Exact)
  <2>1. PICK b, g, K3 : b = control[i] /\ g = held[i] /\ K3 = Kept(control, held, i)  OBVIOUS
  <2>2. PICK cd2, lb2 : cd2 = code' /\ lb2 = label'  OBVIOUS
  <2>3. Opened(b, g, D, K3, kind, code, own, label, Exact)  BY <1>11, <2>1
  <2>4. IsConstruct(b) /\ b = [b EXCEPT !.ends = b.ends] /\ b.ends \subseteq b.ends
    BY <1>1, <2>1 DEF Scopes, Around, IsConstruct
  <2>5. b.kind # "block" =>
            /\ b.end \in DOMAIN label /\ b.other \in DOMAIN label
            /\ b.end # c.other /\ b.other # c.other /\ b.end # c.end /\ b.other # c.end
    <3>1. b.kind # "block" => i \in Branches  BY <1>3, <2>1 DEF Branches
    <3> QED  BY <1>3, <1>4, <1>33, <2>1, <3>1, Distinct
  <2>6. b.kind # "block" =>
             /\ g \cap Heap(kind) = g \cap Heap(kind)
             /\ D \cap DOMAIN b.visible
                    \subseteq D \cup (DOMAIN b.visible \ (b.moved \cup UNION b.ends))
             /\ Exact => D \cap DOMAIN b.visible \subseteq D
             /\ lb2[b.end] = label[b.end] /\ lb2[b.other] = label[b.other]
    BY <1>24, <2>2, <2>5
  <2>7. \A p \in 1..Len(code) : own[p] \cap Heap(kind) = own[p] \cap Heap(kind)  OBVIOUS
  <2>8. Len(code) \in Nat /\ Len(cd2) \in Nat /\ Len(code) <= Len(cd2)
    BY <1>16, <1>17, <2>2
  <2>9. \A p \in 1..Len(code) : cd2[p] = code[p] /\ own2[p] = own[p]  BY <1>28, <2>2
  <2>10. \A p \in (Len(code) + 1)..Len(cd2) : b.kind # "block" /\ cd2[p].op = "br" =>
             /\ b.end \in cd2[p].to => Reached(b, own2[p], D, K3, kind, Exact)
             /\ b.kind = "then" => b.other \notin cd2[p].to
    BY <1>16, <2>2, <2>5
  <2>11. Opened(b, g, D, K3, kind, cd2, own2, lb2, Exact)
    BY ONLY <2>3, <2>4, <2>6, <2>7, <2>8, <2>9, <2>10, StillOpen
  <2> QED  BY <2>1, <2>2, <2>11
<1>34. Pending(label', control')
  <2>1. ASSUME NEW l \in DOMAIN label', label'[l] = 0
        PROVE  \E i \in 1..m : /\ control'[i].kind # "block"
                               /\ \/ l = control'[i].end
                                  \/ control'[i].kind = "then" /\ l = control'[i].other
    <3>1. l \in DOMAIN label /\ l # c.other /\ label[l] = 0  BY <1>1, <1>17, <1>24, <2>1
    <3>2. PICK i \in 1..m : /\ control[i].kind # "block"
                            /\ \/ l = control[i].end
                               \/ control[i].kind = "then" /\ l = control[i].other
      BY <1>1, <1>11, <3>1 DEF Pending
    <3>3. CASE i = m
      <4>1. l = d.end  BY <1>3, <1>7, <3>1, <3>2, <3>3
      <4>2. control'[i] = d /\ d.kind # "block"  BY <1>7, <1>8, <3>3
      <4> QED  BY <4>1, <4>2
    <3>4. CASE i # m
      <4>1. control'[i] = control[i]  BY <1>8, <3>4
      <4> QED  BY <3>2, <4>1
    <3> QED  BY <3>3, <3>4
  <2> QED  BY <1>8, <2>1 DEF Pending
<1>35. Exact' = Exact /\ kind' = kind /\ D = Due(cleanups')  BY <1>2, <1>9 DEF Exact
<1>36. terminated' \in BOOLEAN /\ Flow(kind', code', own2, label', terminated', Exact')
  BY <1>2, <1>26, <1>35
<1>37. Here(own2[Len(code') + 1], visible', moved', Due(cleanups'),
            Kept(control', held, Len(control')), kind', Exact')
  <2>1. Kept(control', held, m) = K  BY <1>3, <1>9, <1>30
  <2> QED  BY <1>1, <1>2, <1>8, <1>22, <1>27, <1>35, <2>1
<1>38. ASSUME NEW i \in 1..Len(control')
       PROVE  Opened(control'[i], held[i], Due(cleanups'), Kept(control', held, i),
                     kind', code', own2, label', Exact')
  <2>1. i \in 1..m /\ Kept(control', held, i) = Kept(control, held, i)  BY <1>8, <1>30
  <2>2. CASE i = m  BY <1>1, <1>8, <1>9, <1>32, <1>35, <2>1, <2>2
  <2>3. CASE i # m  BY <1>8, <1>33, <1>35, <2>1, <2>3
  <2> QED  BY <2>2, <2>3
<1> QED  BY <1>34, <1>36, <1>37, <1>38 DEF Owned

----------------------------------------------------------------------------
(* The function is compiled: its code is run from the start.               *)
Idle == pc = 1 /\ live = {} /\ made = 0

LEMMA EndsInRun ==
    ASSUME Inv, Scopes, Idle, UNCHANGED features,
           NEW own, NEW held, Owned(own, held), EndFunction
    PROVE  \E own2 : RunInv(own2)'
<1>1. /\ control = <<>> /\ phase' = "run" /\ mem' = [s \in Slot |-> Unset]
      /\ UNCHANGED <<kind, label, pc, live, made>>
  BY DEF EndFunction
<1>2. /\ terminated \in BOOLEAN /\ Flow(kind, code, own, label, terminated, Exact)
      /\ Pending(label, control) /\ Exact' = Exact
  BY DEF Owned, Exact
<1>3. \A l \in DOMAIN label : label[l] # 0
  <2>1. Len(control) = 0  BY <1>1
  <2>2. \A i \in 1..Len(control) : FALSE  BY <2>1
  <2> QED  BY <1>2, <2>2 DEF Pending
<1>4. \E own2 : Flow(kind, code', own2, label, TRUE, Exact)
  <2>1. CASE terminated
    <3>1. code' = code  BY <2>1 DEF EndFunction
    <3>2. terminated = TRUE  BY <1>2, <2>1
    <3>3. Flow(kind, code, own, label, TRUE, Exact)  BY <1>2, <3>2
    <3> QED  BY <3>1, <3>3
  <2>2. CASE ~terminated
    <3>1. PICK O, D, K : AtHand(own, held, O, D, K)  BY <2>2, Now
    <3>2. PICK n : n = Len(kind)  OBVIOUS
    <3>3. n \in Nat /\ cleanups \in Lists(n) /\ One(cleanups) /\ IsSeq(code)
      BY <2>2, <3>2, Now
    <3>4. DueFrom(cleanups, 1) = D
      <4>1. DueFrom(cleanups, 1) = Due(cleanups)  BY <3>2, <3>3, AllDue DEF Scopes
      <4> QED  BY <3>1, <4>1 DEF AtHand
    <3>5. PICK f, W, i : f = Frees(cleanups, 1) /\ W = O \ D /\ i = Ret  OBVIOUS
    <3>6. \E own1 : Emitted(kind, code, own, code \o f, own1, W, label, Exact)
      <4>1. DueFrom(cleanups, 1) \subseteq O \cap Heap(kind)  BY <3>1, <3>4 DEF AtHand
      <4>2. Emitted(kind, code, own, code, own, O, label, Exact)  BY <3>1 DEF AtHand
      <4>3. \E own1 : Emitted(kind, code, own, code \o Frees(cleanups, 1), own1,
                              O \ DueFrom(cleanups, 1), label, Exact)
        BY <3>3, <4>1, <4>2, EmitFrees
      <4> QED  BY <3>4, <3>5, <4>3
    <3>7. PICK own1 : Emitted(kind, code, own, code \o f, own1, W, label, Exact)  BY <3>6
    <3>8. i.op = "ret" /\ i.op \in Leaves  BY <3>5 DEF Ret, Leaves
    <3>9. Operands(kind, W, i, Exact)
      <4>1. Exact => W \cap Heap(kind) = {}  BY <3>1, <3>5 DEF AtHand
      <4> QED  BY <3>8, <4>1 DEF Operands, Leaves
    <3>10. PICK own2 : Left(kind, code, own, Append(code \o f, i), own2, i, W, label, Exact)
      BY <3>3, <3>7, <3>8, <3>9, EmitLast
    <3>11. code' = Append(code \o f, i)
      <4>1. IsSeq(f)  BY <3>3, <3>5, FreesSeq
      <4>2. code' = code \o (f \o <<i>>)  BY <2>2, <3>5 DEF EndFunction, Emit
      <4> QED  BY <3>3, <4>1, <4>2, Cleaned
    <3> QED  BY <3>10, <3>11 DEF Left
  <2> QED  BY <1>2, <2>1, <2>2
<1>5. PICK own2 : Flow(kind, code', own2, label, TRUE, Exact)  BY <1>4
<1>6. Finished(own2)'
  <2>1. Flow(kind', code', own2, label', TRUE, Exact')  BY <1>1, <1>2, <1>5
  <2>2. \A l \in DOMAIN label' : label'[l] # 0  BY <1>1, <1>3
  <2> QED  BY <2>1, <2>2 DEF Finished
<1>7. RunTypes'
  <2>1. made' = 0 /\ live' = {} /\ kind' = kind  BY <1>1 DEF Idle
  <2>2. MaxObjects \in Nat  BY BoundsAssumption
  <2>3. DOMAIN kind = Slot  BY DEF Inv, Slot
  <2>4. mem' \in [DOMAIN kind -> 0..Constant]
    BY <1>1, <2>2, <2>3 DEF Constant, Unset
  <2> QED  BY <2>1, <2>2, <2>4 DEF RunTypes
<1>8. pc' \in 1..Len(code')
  <2>1. Len(code') \in Nat /\ Len(code') # 0  BY <1>5 DEF Flow, IsSeq
  <2> QED  BY <1>1, <2>1 DEF Idle
<1>9. Holds(kind', own2[pc'], mem', live', Exact')
  <2>1. own2[pc'] = {} /\ live' = {}  BY <1>1, <1>5 DEF Idle, Flow
  <2> QED  BY <2>1 DEF Holds
<1>10. RunInv(own2)'
  BY <1>1, <1>6, <1>7, <1>8, <1>9 DEF RunInv
<1> QED  BY <1>10

(* The invariant.                                                          *)
Compiling(own, held) == Idle /\ Scopes /\ Targets /\ NoEnds /\ Owned(own, held)

Correct == Careful =>
    \/ phase = "compile" /\ \E own, held : Compiling(own, held)
    \/ phase # "compile" /\ \E own : RunInv(own)

LEMMA InitCorrect == Init => Correct
<1> SUFFICES ASSUME Init PROVE \E own, held : Compiling(own, held)
  BY DEF Init, Correct
<1>1. PICK n : n = Len(kind)  OBVIOUS
<1>2. kind \in Seq(Kinds) /\ n \in Nat /\ (n = 0 \/ n = 1) /\ DOMAIN kind = 1..n
  <2>1. CASE kind = <<>>  BY <1>1, <2>1
  <2>2. CASE \E k \in Kinds : kind = <<k>>  BY <1>1, <2>2
  <2> QED  BY <2>1, <2>2 DEF Init
<1>3. /\ control = <<>> /\ label = <<>> /\ terminated = FALSE /\ moved = {}
      /\ visible = [s \in 1..n |-> 1] /\ code = [s \in 1..n |-> New(s)]
      /\ loops = <<NoLoop>> /\ Idle
  BY <1>1 DEF Init, Slot, Idle
<1>4. Len(cleanups) = 1 /\ DOMAIN cleanups = {1}
      /\ \/ n = 0 /\ cleanups[1] = <<>>
         \/ n = 1 /\ kind[1] = "str" /\ cleanups[1] = <<>>
         \/ n = 1 /\ kind[1] # "str" /\ cleanups[1] = <<CleanupInfo(1)>>
  <2>1. CASE kind = <<>>  BY <1>1, <2>1 DEF Init
  <2>2. CASE \E k \in Kinds : kind = <<k>>
    <3>1. PICK k \in Kinds : kind = <<k>>  BY <2>2
    <3>2. n = 1 /\ kind[1] = k /\ kind # <<>>  BY <1>1, <3>1
    <3>3. CASE k = "str"  BY <3>1, <3>2, <3>3 DEF Init
    <3>4. CASE k # "str"
      <4>1. kind # <<"str">>
        <5>1. <<"str">>[1] = "str"  OBVIOUS
        <5> QED  BY <3>2, <3>4, <5>1
      <4>2. cleanups = <<<<CleanupInfo(1)>>>>  BY <3>2, <4>1 DEF Init
      <4> QED  BY <3>2, <3>4, <4>2
    <3> QED  BY <3>3, <3>4
  <2> QED  BY <2>1, <2>2 DEF Init
<1>5. /\ \A s \in Due(cleanups) : s = 1 /\ n = 1
      /\ \A s \in Heap(kind) : s \in Due(cleanups)
  <2>1. CleanupInfo(1).slot = 1 /\ ~CleanupInfo(1).cancelled  BY DEF CleanupInfo
  <2>2. CASE cleanups[1] = <<>>
    <3>1. DOMAIN cleanups[1] = {}  BY <2>2
    <3>2. Due(cleanups) = {}  BY <1>4, <3>1, DueDef
    <3>3. Heap(kind) = {}
      <4>1. n = 0 \/ (n = 1 /\ kind[1] = "str")
        <5>1. <<CleanupInfo(1)>> # <<>>  OBVIOUS
        <5> QED  BY <1>4, <2>2, <5>1
      <4> QED  BY <1>2, <4>1 DEF Heap
    <3> QED  BY <3>2, <3>3
  <2>3. CASE cleanups[1] = <<CleanupInfo(1)>> /\ n = 1
    <3>1. DOMAIN cleanups[1] = {1} /\ cleanups[1][1] = CleanupInfo(1)  BY <2>3
    <3>2. \A s \in Due(cleanups) : s = 1  BY <1>4, <2>1, <3>1, DueDef
    <3>3. 1 \in Due(cleanups)  BY <1>4, <2>1, <3>1, DueDef
    <3>4. \A s \in Heap(kind) : s = 1  BY <1>2, <2>3 DEF Heap
    <3> QED  BY <2>3, <3>2, <3>3, <3>4
  <2> QED  BY <1>4, <2>2, <2>3
<1>6. Scopes
  <2>1. Env = 1 /\ Env \in Nat /\ Env # 0  BY <1>4 DEF Env
  <2>2. IsSeq(label) /\ IsSeq(control)
    <3>1. label \in Seq({}) /\ control \in Seq({})  BY <1>3
    <3> QED  BY <3>1 DEF IsSeq
  <2>3. Len(control) = 0 /\ \A i \in 1..Len(control) : FALSE  BY <1>3
  <2>4. Names(visible, Env)  BY <1>3, <2>1 DEF Names
  <2>5. Placed(cleanups, visible, kind)
    <3>1. CASE cleanups[1] = <<>>
      <4>1. DOMAIN cleanups[1] = {}  BY <3>1
      <4> QED  BY <1>4, <4>1 DEF Placed
    <3>2. CASE n = 1 /\ kind[1] # "str" /\ cleanups[1] = <<CleanupInfo(1)>>
      <4>1. DOMAIN cleanups[1] = {1} /\ cleanups[1][1] = CleanupInfo(1)  BY <3>2
      <4>2. CleanupInfo(1).slot = 1  BY DEF CleanupInfo
      <4>3. 1 \in DOMAIN visible /\ visible[1] = 1  BY <1>3, <3>2
      <4> QED  BY <1>4, <3>2, <4>1, <4>2, <4>3 DEF Placed
    <3> QED  BY <1>4, <3>1, <3>2
  <2>6. Nested(control, Env)  BY <2>2, <2>3 DEF Nested
  <2>7. moved \subseteq DOMAIN visible  BY <1>3
  <2> QED  BY <2>1, <2>2, <2>3, <2>4, <2>5, <2>6, <2>7 DEF Scopes
<1>7. Targets
  <2>1. IsSeq(loops) /\ Len(loops) = 1 /\ loops[1] = NoLoop
    <3>1. loops \in Seq({NoLoop})  BY <1>3
    <3> QED  BY <1>3, <3>1 DEF IsSeq
  <2>2. Env = 1 /\ Len(control) = 0  BY <1>3, <1>4 DEF Env
  <2>3. Finds(loops, Env, NoLoop)  BY <2>1, <2>2 DEF Finds
  <2>4. TargetOf(control, Len(control), NoLoop)  BY <2>2 DEF TargetOf
  <2>5. \A i \in 1..Len(control) : FALSE  BY <2>2
  <2> QED  BY <1>4, <2>1, <2>3, <2>4, <2>5 DEF Targets
<1>8. NoEnds
  <2>1. \A i \in 1..Len(control) : FALSE  BY <1>3
  <2> QED  BY <2>1 DEF NoEnds
<1>9. PICK own : own = [p \in 1..(n + 1) |-> 1..(p - 1)]  OBVIOUS
<1>10. /\ IsSeq(code) /\ Len(code) = n
       /\ \A p \in 1..n : code[p].op = "new" /\ code[p].slot = p
  <2>1. code \in Seq({New(s) : s \in 1..n}) /\ Len(code) = n  BY <1>2, <1>3
  <2>2. IsSeq(code)  BY <2>1 DEF IsSeq
  <2>3. \A p \in 1..n : code[p] = New(p)  BY <1>3
  <2> QED  BY <2>1, <2>2, <2>3 DEF New
<1>11. /\ own \in [1..(n + 1) -> SUBSET DOMAIN kind] /\ own[1] = {} /\ own[n + 1] = DOMAIN kind
       /\ \A p \in 1..n : own[p] = 1..(p - 1) /\ own[p + 1] = 1..p
  <2>1. \A p \in 1..(n + 1) : own[p] = 1..(p - 1) /\ 1..(p - 1) \subseteq 1..n
    BY <1>2, <1>9
  <2>2. 1 \in 1..(n + 1) /\ n + 1 \in 1..(n + 1) /\ 1..(1 - 1) = {} /\ n + 1 - 1 = n
    BY <1>2
  <2>3. \A p \in 1..n : p \in 1..(n + 1) /\ p + 1 \in 1..(n + 1) /\ p + 1 - 1 = p
    BY <1>2
  <2>4. own[1] = {} /\ own[n + 1] = 1..n
    <3>1. own[1] = 1..(1 - 1)  BY <2>1, <2>2
    <3>2. PICK q : q = n + 1 /\ q \in 1..(n + 1) /\ q - 1 = n  BY <1>2
    <3>3. own[q] = 1..(q - 1)  BY <2>1, <3>2
    <3> QED  BY <2>2, <3>1, <3>2, <3>3
  <2>5. \A p \in 1..n : own[p] = 1..(p - 1) /\ own[p + 1] = 1..p  BY <2>1, <2>3
  <2> QED  BY <1>2, <1>9, <2>1, <2>4, <2>5
<1>12. ASSUME NEW p \in 1..n
       PROVE  /\ Operands(kind, own[p], code[p], Exact)
              /\ Continuing(kind, code, own, label, FALSE, Exact, p)
  <2>1. code[p].op = "new" /\ code[p].slot = p  BY <1>10
  <2>2. own[p] = 1..(p - 1) /\ own[p + 1] = 1..p /\ p \in DOMAIN kind /\ p \notin 1..(p - 1)
    BY <1>2, <1>11
  <2>3. Operands(kind, own[p], code[p], Exact)  BY <2>1, <2>2 DEF Operands
  <2>4. Owners(kind, own[p], code[p]) = own[p + 1]
    <3>1. Owners(kind, own[p], code[p]) = own[p] \cup {p}  BY <2>1 DEF Owners
    <3>2. (1..(p - 1)) \cup {p} = 1..p  BY <1>2
    <3> QED  BY <2>2, <3>1, <3>2
  <2>5. Continuing(kind, code, own, label, FALSE, Exact, p)
    BY <2>1, <2>4 DEF Continuing, Passes, Leaves
  <2> QED  BY <2>3, <2>5
<1>13. Flow(kind, code, own, label, FALSE, Exact)
  BY <1>10, <1>11, <1>12 DEF Flow
<1>14. Pending(label, control)
  <2>1. DOMAIN label = {}  BY <1>3
  <2> QED  BY <2>1 DEF Pending
<1>15. Here(DOMAIN kind, visible, moved, Due(cleanups), Kept(control, own, Len(control)), kind,
            Exact)
  <2>1. DOMAIN visible = DOMAIN kind  BY <1>2, <1>3
  <2>2. Due(cleanups) \subseteq DOMAIN kind
    <3>1. n = 1 => 1 \in DOMAIN kind  BY <1>2
    <3> QED  BY <1>5, <3>1
  <2>3. Kept(control, own, Len(control)) = {}
    <3>1. Len(control) = 0  BY <1>3
    <3> QED  BY <3>1 DEF Kept
  <2> QED  BY <1>5, <2>1, <2>2, <2>3 DEF Here
<1>16. Owned(own, own)
  <2>1. \A i \in 1..Len(control) : FALSE  BY <1>3
  <2>2. own[Len(code) + 1] = DOMAIN kind  BY <1>10, <1>11
  <2> QED  BY <1>3, <1>13, <1>14, <1>15, <2>1, <2>2 DEF Owned
<1>17. Compiling(own, own)  BY <1>3, <1>6, <1>7, <1>8, <1>16 DEF Compiling
<1> QED  BY <1>17

LEMMA OwnedStep ==
    ASSUME Inv, Careful, UNCHANGED features, Compile, ~EndFunction,
           NEW own, NEW held, Compiling(own, held)
    PROVE  \E own2, held2 : Owned(own2, held2)'
<1>1. Scopes /\ Targets /\ NoEnds /\ Owned(own, held)  BY DEF Compiling
<1>2. CASE \E k \in Kinds, typed \in BOOLEAN : LetFresh(k, typed)
  BY <1>1, <1>2, OwnedLet
<1>3. CASE \E y \in DOMAIN visible, typed \in BOOLEAN : LetFrom(y, typed)
  BY <1>1, <1>3, OwnedLetFrom
<1>4. CASE \E y \in DOMAIN visible, typed \in BOOLEAN : CallIndirect(y, typed)
  BY <1>1, <1>4, OwnedUse
<1>5. CASE \E y \in DOMAIN visible : Use(y) \/ Push(y)
  BY <1>1, <1>5, OwnedUse
<1>6. CASE \E y \in DOMAIN visible : CallDirect(y)
  BY <1>1, <1>6, OwnedCall
<1>7. CASE \E y \in DOMAIN visible : AssignFresh(y)
  BY <1>1, <1>7, OwnedAssign
<1>8. CASE \E t, y \in DOMAIN visible : AssignFrom(t, y)
  BY <1>1, <1>8, OwnedAssignFrom
<1>9. CASE ReturnFresh \/ \E y \in DOMAIN visible : ReturnVar(y)
  BY <1>1, <1>9, OwnedReturn
<1>10. CASE OpenBlock \/ OpenIf \/ OpenLoop  BY <1>1, <1>10, OwnedOpen
<1>11. CASE CloseBlock  BY <1>1, <1>11, OwnedCloseBlock
<1>12. CASE Else  BY <1>1, <1>12, OwnedElse
<1>13. CASE EndIf  BY <1>1, <1>13, OwnedEndIf
<1>14. CASE CloseLoop  BY <1>1, <1>14, OwnedCloseLoop
<1>15. CASE Break \/ Continue  BY <1>1, <1>15, OwnedLeaves
<1> QED  BY <1>2, <1>3, <1>4, <1>5, <1>6, <1>7, <1>8, <1>9, <1>10, <1>11, <1>12, <1>13,
            <1>14, <1>15 DEF Compile

(* The run has not begun.                                                  *)
LEMMA CompileIsIdle ==
    ASSUME Compile, ~EndFunction, Idle
    PROVE  Idle' /\ phase' = phase
<1>1. UNCHANGED <<phase, runVars>>
  BY DEF Compile, LetFresh, LetFrom, CallIndirect, Use, Push, CallDirect, AssignFresh, ReturnVar,
         AssignFrom, ReturnFresh, OpenBlock, CloseBlock, OpenIf, Else, EndIf, OpenLoop, CloseLoop,
         Break, Continue, LeavesIteration, Statement, Opens, Closes
<1> QED  BY <1>1 DEF Idle, runVars

LEMMA CompilesFirst ==
    ASSUME Compile
    PROVE  phase = "compile" /\ (EndFunction => phase' = "run")
BY DEF Compile, LetFresh, LetFrom, CallIndirect, Use, Push, CallDirect, AssignFresh, ReturnVar,
       AssignFrom, ReturnFresh, OpenBlock, CloseBlock, OpenIf, Else, EndIf, OpenLoop, CloseLoop,
       Break, Continue, LeavesIteration, Statement, Opens, Closes, EndFunction

LEMMA Unchanged ==
    ASSUME UNCHANGED vars
    PROVE  /\ Careful' = Careful /\ phase' = phase
           /\ \A own, held : Compiling(own, held) => Compiling(own, held)'
           /\ \A own : RunInv(own) => RunInv(own)'
<1>1. UNCHANGED <<features, phase, kind, cleanups, loops, control, code, label, terminated,
                  visible, moved, stmts, pc, mem, live, made, result>>
  BY DEF vars, compileVars, runVars
<1>2. Careful' = Careful /\ phase' = phase /\ (Exact' = Exact) /\ Env' = Env
  BY <1>1 DEF Careful, Exact, Env
<1>3. Idle => Idle'  BY <1>1 DEF Idle
<1>4. Scopes => Scopes'  BY <1>1, <1>2 DEF Scopes
<1>5. Targets => Targets'  BY <1>1, <1>2 DEF Targets
<1>6. NoEnds => NoEnds'  BY <1>1 DEF NoEnds
<1>7. ASSUME NEW own, NEW held, Owned(own, held) PROVE Owned(own, held)'
  BY <1>1, <1>2, <1>7 DEF Owned
<1>8. ASSUME NEW own, RunInv(own) PROVE RunInv(own)'
  BY <1>1, <1>2, <1>8 DEF RunInv, Finished, RunTypes
<1>9. ASSUME NEW own, NEW held, Compiling(own, held) PROVE Compiling(own, held)'
  <2>1. Idle /\ Scopes /\ Targets /\ NoEnds /\ Owned(own, held)  BY <1>9 DEF Compiling
  <2>2. Idle' /\ Scopes' /\ Targets' /\ NoEnds' /\ Owned(own, held)'
    BY <1>3, <1>4, <1>5, <1>6, <1>7, <2>1
  <2> QED  BY <2>2 DEF Compiling
<1> QED  BY <1>2, <1>8, <1>9

LEMMA StepKeepsCorrect ==
    ASSUME Inv, Correct, [Next]_vars
    PROVE  Correct'
<1>1. CASE UNCHANGED vars
  <2>1. Careful' = Careful /\ phase' = phase  BY <1>1, Unchanged
  <2>2. SUFFICES ASSUME Careful
                 PROVE  \/ phase = "compile" /\ \E own, held : Compiling(own, held)'
                        \/ phase # "compile" /\ \E own : RunInv(own)'
    BY <2>1 DEF Correct
  <2>3. CASE phase = "compile"
    <3>1. PICK own, held : Compiling(own, held)  BY <2>2, <2>3 DEF Correct
    <3>2. Compiling(own, held)'  BY <1>1, <3>1, Unchanged
    <3> QED  BY <2>3, <3>2
  <2>4. CASE phase # "compile"
    <3>1. PICK own : RunInv(own)  BY <2>2, <2>4 DEF Correct
    <3>2. RunInv(own)'  BY <1>1, <3>1, Unchanged
    <3> QED  BY <2>4, <3>2
  <2> QED  BY <2>3, <2>4
<1>2. CASE Next
  <2>1. UNCHANGED features /\ Careful' = Careful  BY <1>2 DEF Next, Careful
  <2>2. CASE ~Careful  BY <2>1, <2>2 DEF Correct
  <2>3. CASE Careful /\ Compile
    <3>1. phase = "compile"  BY <2>3, CompilesFirst
    <3>2. PICK own, held : Compiling(own, held)  BY <2>3, <3>1 DEF Correct
    <3>3. Idle /\ Scopes /\ Targets /\ NoEnds /\ Owned(own, held)  BY <3>2 DEF Compiling
    <3>4. CASE EndFunction
      <4>1. PICK own2 : RunInv(own2)'  BY <2>1, <3>3, <3>4, EndsInRun
      <4>2. phase' = "run"  BY <2>3, <3>4, CompilesFirst
      <4> QED  BY <4>1, <4>2 DEF Correct
    <3>5. CASE ~EndFunction
      <4>1. PICK own2, held2 : Owned(own2, held2)'  BY <2>1, <2>3, <3>2, <3>5, OwnedStep
      <4>2. Scopes'  BY <2>3, <3>3, <3>5, ScopesStep
      <4>3. Targets'  BY <2>3, <3>3, <3>5, TargetsStep
      <4>4. NoEnds'  BY <2>3, <3>3, NoEndsStep
      <4>5. Idle' /\ phase' = "compile"  BY <2>3, <3>1, <3>3, <3>5, CompileIsIdle
      <4>6. Compiling(own2, held2)'  BY <4>1, <4>2, <4>3, <4>4, <4>5 DEF Compiling
      <4> QED  BY <4>5, <4>6 DEF Correct
    <3> QED  BY <3>4, <3>5
  <2>4. CASE Careful /\ Run
    <3>1. phase = "run" /\ phase' # "compile"
      BY <2>4 DEF Run, RunNew, RunMove, RunGrow, RunFree, RunBranch, RunReturn, Running, Continues
    <3>2. PICK own : RunInv(own)  BY <2>4, <3>1 DEF Correct
    <3>3. RunInv(own)'  BY <2>1, <2>4, <3>2, RunStep
    <3> QED  BY <3>1, <3>3 DEF Correct
  <2> QED  BY <1>2, <2>2, <2>3, <2>4 DEF Next
<1> QED  BY <1>1, <1>2

LEMMA CorrectIsSafe ==
    ASSUME Correct, Careful
    PROVE  FreesLive /\ UsesLive /\ NothingLeaks
<1>1. CASE phase = "compile"  BY <1>1 DEF FreesLive, UsesLive, NothingLeaks, Running
<1>2. CASE phase # "compile"  BY <1>2, RunIsSafe DEF Correct
<1> QED  BY <1>1, <1>2

LEMMA AlwaysCorrect == Spec => [](Inv /\ Correct)
<1>1. Init => Inv /\ Correct  BY InitInv, InitCorrect
<1>2. Inv /\ Correct /\ [Next]_vars => Inv' /\ Correct'  BY StepKeepsInv, StepKeepsCorrect
<1> QED  BY <1>1, <1>2, PTL DEF Spec

(* The programs do no more than LeakFeatures.                              *)
LEMMA AlwaysCareful ==
    ASSUME \A F \in FeatureSets : F \subseteq LeakFeatures
    PROVE  Spec => []Careful
<1>1. Init => Careful  BY DEF Init, Careful
<1>2. Careful /\ [Next]_vars => Careful'  BY DEF Next, Careful, vars
<1> QED  BY <1>1, <1>2, PTL DEF Spec

(* What the emitted code frees is an object that is there, whatever the    *)
(* branches of the function do and however many variables, blocks and      *)
(* objects it has: the cleanups of cleanup.cpp:15-64 are never emitted on  *)
(* a path on which the value is gone.  The program moves values away in    *)
(* branches and returns early at most.                                     *)
THEOREM FreesAreLive ==
    ASSUME \A F \in FeatureSets : F \subseteq LeakFeatures
    PROVE  Spec => []FreesLive
<1>1. Spec => []Careful  BY AlwaysCareful
<1>2. Correct /\ Careful => FreesLive  BY CorrectIsSafe
<1> QED  BY <1>1, <1>2, AlwaysCorrect, PTL

(* And what the program reads, passes on or returns has not been freed by  *)
(* a cleanup in front of it.                                               *)
THEOREM UsesAreLive ==
    ASSUME \A F \in FeatureSets : F \subseteq LeakFeatures
    PROVE  Spec => []UsesLive
<1>1. Spec => []Careful  BY AlwaysCareful
<1>2. Correct /\ Careful => UsesLive  BY CorrectIsSafe
<1> QED  BY <1>1, <1>2, AlwaysCorrect, PTL

(* A program that does nothing the emitter has no cleanup for loses no     *)
(* object: when the function returns, every one is freed but the one it    *)
(* returns (ir_emitter.cpp:767-801), whatever blocks, branches and loops   *)
(* it is in, and however it left them while nothing was to be cleaned up.  *)
THEOREM NeverLeaks == Spec => []NothingLeaks
<1>1. Correct => NothingLeaks
  <2>1. CASE features = {}  BY <2>1, CorrectIsSafe DEF Careful
  <2>2. CASE features # {}  BY <2>2 DEF NothingLeaks
  <2> QED  BY <2>1, <2>2
<1> QED  BY <1>1, AlwaysCorrect, PTL
=============================================================================
