---------------------------- MODULE LeakChecker ----------------------------
(***************************************************************************)
(* The leak checker (midend/ir_optimizer/passes/leak_checker.cpp): for     *)
(* each allocation site of a function, a forward analysis of what may and  *)
(* what must have become of the object, and reports at the returns.        *)
(*                                                                         *)
(* First the module is summarized, then the function that is analysed is   *)
(* chosen, instruction by instruction (nothing calls it, so no summary     *)
(* depends on it), then the analysis runs, and at last every path of the   *)
(* function is followed to see what really becomes of the objects.         *)
(***************************************************************************)
EXTENDS FuncSummaries, Dominance, SequencesExt, FiniteSetsExt

CONSTANTS
    Scopes,       \* the kinds of functions that are analysed: module, CFG,
                  \* operations and (bound) number of instructions
    MaxInstrs     \* bound: the largest of these numbers

Operations == {"malloc", "realloc", "free", "call", "external", "publish", "ret",
               "store", "load", "phi"}

ASSUME ScopesAssumption ==
    Scopes \subseteq [module : Modules, graph : CFG, ops : SUBSET Operations, size : 0..MaxInstrs]

VARIABLES
    phase,
    scope,             \* one of Scopes, or <<>> before it is chosen
    dom,               \* the dominance of its CFG
    strict_mode,
    code,              \* block -> instructions
    at,                \* the block that is being written
    resolved,          \* value -> the sites resolve_alloc_sites finds for it
    sites,             \* alloc_sites still to be analysed
    site,              \* AS of run_dataflow
    block_must, block_may, worklist,
    block_results,     \* site -> the two tables
    paths              \* what the paths followed so far have come to

flowVars == <<site, block_must, block_may, worklist>>
vars == <<func, summaryVars, phase, scope, dom, strict_mode, code, at, resolved,
          sites, flowVars, block_results, paths>>

graph == scope.graph

(* The instructions that matter to pointers.  A value is the position of   *)
(* the instruction that computes it.  All of them are addresses of objects *)
(* or null; "store" and "load" go to one alloca in the entry block.        *)
Null == <<0, 0>>
Here == <<at, Len(code[at]) + 1>>
Instr(p) == code[p[1]][p[2]]
Written == {p \in Blocks \X (1..MaxInstrs) : p[2] <= Len(code[p[1]])}

Plain(op)    == [op |-> op]
With(op, v)  == [op |-> op, arg |-> v]
CallOf(f, v) == [op |-> "call", callee |-> f, arg |-> v]
Phi(in)      == [op |-> "phi", in |-> in]

ReturnsPointer(f) == ReturnsAlloc(f)

IsValue(p) ==
    \/ Instr(p).op \in {"malloc", "realloc", "phi", "load"}
    \/ Instr(p).op = "call" /\ ReturnsPointer(Instr(p).callee)

ValuesAt(b) == {p \in Written : IsValue(p) /\ b \in dom[p[1]]}

----------------------------------------------------------------------------
(* Phase 1, collect_alloc_dealloc.                                         *)
AllocSites ==
    {p \in Written :
        \/ Instr(p).op \in {"malloc", "realloc"}
        \/ Instr(p).op = "call" /\ result[Instr(p).callee].returns_alloc}

(* Phase 2, trace_to_alloc.  A load is followed to the last store in front *)
(* of it in the alloca's block, if there is no store elsewhere.            *)
Stores == {p \in Written : Instr(p).op = "store"}
Loads  == {p \in Written : Instr(p).op = "load"}

LastStore(p) ==
    LET before == {q \in Stores : p[1] = entry => q[2] < p[2]}
    IN  IF \E q \in Stores : q[1] # entry THEN {}
        ELSE {Instr(q).arg : q \in {r \in before : \A t \in before : t[2] <= r[2]}}

Sources(v) ==
    IF v = Null THEN {}
    ELSE CASE Instr(v).op = "phi" -> {Instr(v).in[p] : p \in DOMAIN Instr(v).in}
           [] Instr(v).op = "load" -> LastStore(v)
           [] OTHER -> {}

trace_to_alloc(v) ==
    LET traced[n \in 0..MaxInstrs] ==
            IF n = 0 THEN {v} ELSE traced[n - 1] \cup UNION {Sources(w) : w \in traced[n - 1]}
    IN  traced[MaxInstrs] \cap AllocSites

(* Phase 3, is_escaping_use: of the site s by the instruction at p.        *)
CrossBlock(p) ==
    \/ \E q \in Loads : q[1] # entry
    \/ \E q \in Stores \ {p} : q[1] # entry

is_escaping_use(p, s) ==
    LET i == Instr(p) IN
    /\ i.op \in {"ret", "publish", "store", "external", "realloc"}
    /\ s \in resolved[i.arg]
    /\ i.op = "store" => CrossBlock(p)
    /\ i.op \in {"external", "realloc"} => ~strict_mode

----------------------------------------------------------------------------
(* Phase 4.                                                                *)
LeakState == {"Unknown", "Allocated", "Freed", "Escaped", "DoubleFreed", "MaybeAllocated"}

FirstIn(order, a, b) == CHOOSE x \in {a, b} : \A y \in {a, b} :
    \E i, j \in DOMAIN order : i <= j /\ order[i] = x /\ order[j] = y

(* Mutant of meet_must: a path that frees is forgotten.                    *)
meet_must_allocated(a, b) ==
    FirstIn(<<"Escaped", "DoubleFreed", "Allocated", "Freed", "MaybeAllocated", "Unknown">>, a, b)

meet_must(a, b) ==
    FirstIn(<<"Escaped", "DoubleFreed", "Freed", "MaybeAllocated", "Allocated", "Unknown">>, a, b)

(* Mutant of meet_may: a path that does not free is forgotten.             *)
meet_may_freed(a, b) ==
    FirstIn(<<"Escaped", "DoubleFreed", "Freed", "MaybeAllocated", "Allocated", "Unknown">>, a, b)

meet_may(a, b) ==
    IF {a, b} = {"Allocated", "Freed"} THEN "MaybeAllocated"
    ELSE FirstIn(<<"Escaped", "DoubleFreed", "MaybeAllocated", "Allocated", "Freed", "Unknown">>, a, b)

(* Phase 5, transfer_block.                                                *)
Live == {"Allocated", "MaybeAllocated"}

(* Mutant of FreedMay: only what is allocated on every path is freed.      *)
FreedMayAllocated(state) ==
    CASE state = "Allocated" -> "Freed"
      [] state = "Freed" -> "DoubleFreed"
      [] OTHER -> state

FreedMust(state) ==
    CASE state = "Allocated" -> "Freed"
      [] state = "Freed" -> "DoubleFreed"
      [] OTHER -> state

FreedMay(state) ==
    CASE state \in Live -> "Freed"
      [] state = "Freed" -> "DoubleFreed"
      [] OTHER -> state

EscapedState(state, live) == IF state \in live THEN "Escaped" ELSE state

Frees(p, s) ==
    LET i == Instr(p) IN
    /\ i.op \in {"free", "realloc", "call"}
    /\ i.op = "call" => result[i.callee].frees
    /\ s \in resolved[i.arg]

Transfer(st, p, s) ==
    CASE p = s -> [must |-> "Allocated", may |-> "Allocated"]
      [] p # s /\ Frees(p, s) ->
            [must |-> FreedMust(st.must), may |-> FreedMay(st.may)]
      [] p # s /\ is_escaping_use(p, s) ->
            [must |-> EscapedState(st.must, {"Allocated"}), may |-> EscapedState(st.may, Live)]
      [] OTHER -> st

transfer_block(st, b, s) ==
    FoldLeftDomain(LAMBDA acc, k : Transfer(acc, <<b, k>>, s), st, code[b])

AnyOf(S) == CHOOSE p \in S : TRUE

in_must(b) ==
    MapThenFoldSet(meet_must, "Unknown", LAMBDA p : block_must[p], AnyOf, Preds(graph, b))

in_may(b) ==
    MapThenFoldSet(meet_may, "Unknown", LAMBDA p : block_may[p], AnyOf, Preds(graph, b))

----------------------------------------------------------------------------
(* The function that is analysed.                                          *)
Init ==
    /\ SummaryInit
    /\ phase = "summaries"
    /\ scope = <<>> /\ dom = <<>> /\ strict_mode = FALSE
    /\ code = [b \in Blocks |-> <<>>]
    /\ at = entry
    /\ resolved = <<>> /\ sites = {} /\ site = Null
    /\ block_must = <<>> /\ block_may = <<>> /\ worklist = <<>>
    /\ block_results = <<>>
    /\ paths = {}

Summaries ==
    /\ phase = "summaries"
    /\ StartRound \/ Visit
    /\ UNCHANGED <<phase, scope, dom, strict_mode, code, at, resolved, sites, flowVars,
                   block_results, paths>>

(* LeakChecker::LeakChecker.                                               *)
BeginFunction ==
    /\ phase = "summaries"
    /\ Summarized
    /\ phase' = "emit"
    /\ scope' \in {c \in Scopes : c.module = func}
    /\ dom' = DominanceOf(scope'.graph)
    /\ strict_mode' \in BOOLEAN
    /\ UNCHANGED <<func, summaryVars, code, at, resolved, sites, flowVars,
                   block_results, paths>>

Size == Cardinality(Written)

Writes ==
    /\ phase = "emit"
    /\ UNCHANGED <<func, summaryVars, phase, scope, dom, strict_mode, resolved,
                   sites, flowVars, block_results, paths>>

Returned(b) == code[b] # <<>> /\ Last(code[b]).op = "ret"

Emit(i) ==
    /\ Writes
    /\ Size < scope.size
    /\ i.op \in scope.ops
    /\ ~Returned(at)
    /\ code' = [code EXCEPT ![at] = Append(@, i)]
    /\ UNCHANGED at

EmitPhi ==
    /\ Cardinality(Preds(graph, at)) > 1
    /\ \A k \in DOMAIN code[at] : code[at][k].op = "phi"
    /\ Emit(Phi(<<>>))

EmitMalloc == Emit(Plain("malloc"))

EmitLoad ==
    /\ Stores # {}
    /\ Emit(Plain("load"))

EmitUse ==
    \E v \in ValuesAt(at) :
        \/ \E op \in {"free", "realloc", "publish", "store", "external"} : Emit(With(op, v))
        \/ graph[at] = <<>> /\ Emit(With("ret", v))

(* A constructor may be given no pointer.                                  *)
EmitCall ==
    \E f \in Functions :
        \E v \in ValuesAt(at) \cup (IF ReturnsPointer(f) THEN {Null} ELSE {}) : Emit(CallOf(f, v))

EndBlock ==
    /\ Writes
    /\ at' = at + 1
    /\ UNCHANGED code

Unfilled == {p \in Written : Instr(p).op = "phi" /\ Instr(p).in = <<>>}

FillPhi ==
    /\ Writes
    /\ at \notin Blocks
    /\ Unfilled # {}
    /\ LET p == CHOOSE q \in Unfilled : TRUE IN
       \E in \in [Preds(graph, p[1]) -> UNION {ValuesAt(b) : b \in Blocks} \cup {Null}] :
            /\ \A b \in DOMAIN in : in[b] # Null => b \in dom[in[b][1]]
            /\ code' = [code EXCEPT ![p[1]][p[2]] = Phi(in)]
    /\ UNCHANGED at

(* collect_alloc_dealloc, and the worklist of the first site.              *)
Collect ==
    /\ phase = "emit"
    /\ at \notin Blocks
    /\ Unfilled = {}
    /\ phase' = "dataflow"
    /\ sites' = AllocSites
    /\ resolved' = [v \in {p \in Written : IsValue(p)} \cup {Null} |-> trace_to_alloc(v)]
    /\ UNCHANGED <<func, summaryVars, scope, dom, strict_mode, code, at, flowVars,
                   block_results, paths>>

----------------------------------------------------------------------------
(* run_dataflow.                                                           *)
InOrder == [k \in 1..N |-> k - 1]

Analyses ==
    /\ phase = "dataflow"
    /\ UNCHANGED <<func, summaryVars, scope, dom, strict_mode, code, at, resolved>>

StartSite ==
    /\ Analyses
    /\ site = Null /\ sites # {}
    /\ site' = CHOOSE s \in sites : TRUE
    /\ sites' = sites \ {site'}
    /\ block_must' = [b \in Blocks |-> "Unknown"]
    /\ block_may' = [b \in Blocks |-> "Unknown"]
    /\ worklist' = InOrder
    /\ UNCHANGED <<phase, block_results, paths>>

(* in_worklist.insert(Succ).second; a block has no successor twice.        *)
Enqueue(rest, b) ==
    rest \o SelectSeq(graph[b], LAMBDA s : ~Contains(rest, s))

(* Mutant of OutChanged: the successors are always put in again.           *)
OutAlways(b, out) == TRUE

OutChanged(b, out) == block_must[b] # out.must \/ block_may[b] # out.may

ProcessBlock ==
    LET b == Head(worklist)
        in == [must |-> in_must(b), may |-> in_may(b)]
        out == transfer_block(in, b, site)
    IN
    /\ Analyses
    /\ site # Null /\ worklist # <<>>
    /\ block_must' = [block_must EXCEPT ![b] = out.must]
    /\ block_may' = [block_may EXCEPT ![b] = out.may]
    /\ worklist' = IF OutChanged(b, out) THEN Enqueue(Tail(worklist), b)
                   ELSE Tail(worklist)
    /\ UNCHANGED <<phase, site, sites, block_results, paths>>

EndSite ==
    /\ Analyses
    /\ site # Null /\ worklist = <<>>
    /\ block_results' = [s \in DOMAIN block_results \cup {site} |->
            IF s = site THEN [must |-> block_must, may |-> block_may] ELSE block_results[s]]
    /\ site' = Null
    /\ UNCHANGED <<phase, sites, block_must, block_may, worklist, paths>>

(* collect_reports.                                                        *)
Definite(s, b) == graph[b] = <<>> /\ block_results[s].must[b] = "Allocated"

Potential(s, b) ==
    /\ graph[b] = <<>>
    /\ block_results[s].may[b] \in Live
    /\ block_results[s].must[b] # "Allocated"

----------------------------------------------------------------------------
(* What really happens.  A path is followed for one site: which values are *)
(* the address of the object the site has made last, and what has become   *)
(* of the object.                                                          *)
Cell == <<N, 0>>     \* the alloca
Fate == {"none", "live", "freed", "freed twice", "escaped"}

Dropped(fate) == CASE fate = "live" -> "freed" [] fate = "freed" -> "freed twice" [] OTHER -> fate
Leaves(fate)  == IF fate = "live" THEN "escaped" ELSE fate

Effects(i) ==
    CASE i.op \in {"free", "realloc"} -> {free}
      [] i.op = "call" -> Does(i.callee)
      [] i.op \in {"publish", "ret"} -> {keep}
      [] i.op = "external" /\ ~strict_mode -> {keep}
      [] OTHER -> {read}

After(fate, effect) ==
    CASE effect = free -> Dropped(fate) [] effect = keep -> Leaves(fate) [] OTHER -> fate

Moment(holds, fate) == [holds |-> holds, fate |-> fate]

(* The moments behind the instruction at p, from the moment m.             *)
Execute(m, p, s) ==
    LET i == Instr(p)
        has == i.op \notin {"malloc", "load", "phi"} /\ i.arg \in m.holds
        fates == IF has THEN {After(m.fate, e) : e \in Effects(i)} ELSE {m.fate}
    IN  CASE p = s -> {Moment({s}, "live")}
          [] p # s /\ i.op = "load" ->
                {Moment(IF Cell \in m.holds THEN m.holds \cup {p} ELSE m.holds \ {p}, m.fate)}
          [] p # s /\ i.op = "store" ->
                {Moment(IF has THEN m.holds \cup {Cell} ELSE m.holds \ {Cell}, m.fate)}
          [] p # s /\ i.op \in {"malloc", "phi"} -> {m}
          [] OTHER -> {Moment(m.holds, f) : f \in fates}

Enter(path) ==
    LET phis == {p \in Written : p[1] = path.block /\ Instr(p).op = "phi"}
    IN  Moment((path.holds \ phis) \cup {p \in phis : Instr(p).in[path.from] \in path.holds},
               path.fate)

Leave(path) ==
    FoldLeftDomain(LAMBDA moments, k :
                       UNION {Execute(m, <<path.block, k>>, path.site) : m \in moments},
                   {Enter(path)}, code[path.block])

Path(s, b, from, m) ==
    [site |-> s, block |-> b, from |-> from, holds |-> m.holds, fate |-> m.fate]

Follow(path) ==
    {Path(path.site, b, path.block, m) : b \in Succs(graph, path.block), m \in Leave(path)}

StartPaths ==
    /\ Analyses
    /\ site = Null /\ sites = {}
    /\ phase' = "paths"
    /\ paths' = {Path(s, entry, kInvalidBlockId, Moment({}, "none")) :
                     s \in DOMAIN block_results}
    /\ UNCHANGED <<sites, flowVars, block_results>>

FollowPaths ==
    /\ phase = "paths"
    /\ paths' = paths \cup UNION {Follow(p) : p \in paths}
    /\ phase' = IF paths' = paths THEN "done" ELSE phase
    /\ UNCHANGED <<func, summaryVars, scope, dom, strict_mode, code, at, resolved,
                   sites, flowVars, block_results>>

Emission ==
    /\ phase = "emit"
    /\ \/ at \in Blocks /\ (EmitPhi \/ EmitMalloc \/ EmitLoad \/ EmitUse \/ EmitCall \/ EndBlock)
       \/ FillPhi \/ Collect
Dataflow == StartSite \/ ProcessBlock \/ EndSite \/ StartPaths

Next == Summaries \/ BeginFunction \/ Emission \/ Dataflow \/ FollowPaths

Spec == Init /\ [][Next]_vars

(* The analysis is one call that runs by itself.                           *)
FairSpec == Spec /\ WF_vars(Next)

----------------------------------------------------------------------------
(* Properties.                                                             *)

Outcomes(s, b) == UNION {{m.fate : m \in Leave(p)} : p \in {q \in paths : q.site = s /\ q.block = b}}

Verdicts == {v \in (DOMAIN block_results) \X Blocks : graph[v[2]] = <<>>}

(* A definite leak is one on every path: wherever the object was allocated *)
(* it is there when the function returns, and nothing else can reach it.   *)
DefiniteIsReal ==
    phase = "done" => \A v \in Verdicts : Definite(v[1], v[2]) =>
        /\ Outcomes(v[1], v[2]) \subseteq {"none", "live"}
        /\ AllReachable(graph) => "live" \in Outcomes(v[1], v[2])

(* An object passed to a function that lets its argument escape is not     *)
(* reported as a leak: the summaries tell which arguments escape (param_   *)
(* effects, leak_checker.h:67).                                            *)
EscapesAreSeen ==
    phase = "done" => \A v \in Verdicts :
        Definite(v[1], v[2]) => "escaped" \notin Outcomes(v[1], v[2])

(* A potential leak is a leak on some path.                                *)
PotentialIsReal ==
    phase = "done" => \A v \in Verdicts :
        Potential(v[1], v[2]) /\ AllReachable(graph) => "live" \in Outcomes(v[1], v[2])

(* A pointer that is one of several, or a function that frees its argument *)
(* on some paths only, counts as freed.                                    *)
Ambiguous(s) ==
    \E p \in Written :
        /\ Frees(p, s)
        /\ Instr(p).arg # s \/ (Instr(p).op = "call" /\ Effects(Instr(p)) # {free})

(* A leak is reported, unless on some path the object escapes or is freed  *)
(* twice, which hides it, or what is freed is uncertain.                   *)
MissedLeaks ==
    phase = "done" => \A v \in Verdicts :
        LET s == v[1] b == v[2] IN
        "live" \in Outcomes(s, b) => \/ Definite(s, b) \/ Potential(s, b)
                                     \/ block_results[s].may[b] \in {"Escaped", "DoubleFreed"}
                                     \/ Ambiguous(s)

(* The worklists become empty: no block's states change for ever, although *)
(* neither transfer function is monotone.                                  *)
Converges == <>(phase = "done" \/ (Summarized /\ \A c \in Scopes : c.module # func))
============================================================================
