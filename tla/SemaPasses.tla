------------------------------ MODULE SemaPasses ------------------------------
(***************************************************************************)
(* The semantic passes of one compilation, in the order of main.cpp:       *)
(* PassManager runs them one after the other on the same program and the   *)
(* same context, each whatever the ones before it have reported.  A step   *)
(* is one item of one pass, or one step of the search for structs that     *)
(* contain themselves.  (The borrow checker, between flow and types, keeps *)
(* its state to itself: see BorrowChecker.)  A last step, Execute, is not  *)
(* one of the compiler: it adds the runs that the program has, which the   *)
(* properties compare with what the passes have said.                      *)
(***************************************************************************)
EXTENDS SemaChecker, FlowChecker, TypeChecker, ProgramRuns

CONSTANTS
    Programs,       \* the programs compiled
    StructNames     \* the names of types in them

VARIABLES
    program, pass, item, ctx,
    fields, visited, stack, in_stack, cycles,   \* see StructCycles
    runs            \* the functions of the program with their runs

Structs == INSTANCE StructCycles WITH Names <- StructNames

structVars == <<fields, visited, stack, in_stack, cycles>>
vars == <<program, pass, item, ctx, structVars, runs>>

(* The structs that a type mentions, behind a cref or not.                 *)
RECURSIVE Mentions(_, _)
Mentions(ty, cref) ==
    CASE ty.k = "struct" -> {[of |-> ty.name, cref |-> cref]}
      [] ty.k \in {"ptr", "ref", "own", "list"} -> Mentions(ty.of, cref)
      [] ty.k = "cref" -> Mentions(ty.of, TRUE)
      [] ty.k = "func" -> UNION {Mentions(t, cref) : t \in Range(ty.params) \cup {ty.ret}}
      [] OTHER -> {}

(* Of two structs of one name the last counts.                             *)
Layout(prog) ==
    [name \in {prog[i].name : i \in ItemsOf(prog, "struct")} |->
        LET last == Max({i \in ItemsOf(prog, "struct") : prog[i].name = name})
        IN  UNION {Mentions(f.ty, FALSE) : f \in Range(prog[last].fields)}]

NewContext ==
    [pass |-> "resolver", scopes |-> <<Scope("global")>>, subst |-> <<>>, fresh |-> 0,
     errors |-> {}, uses |-> {}, dead |-> {}, ret |-> NoType]

Init ==
    /\ program \in Programs
    /\ pass = "resolver" /\ item = 1
    /\ ctx = NewContext
    /\ fields = Layout(program)
    /\ visited = {} /\ stack = <<>> /\ in_stack = {} /\ cycles = {}
    /\ runs = {}

After == [resolver |-> "structs", structs |-> "sema", sema |-> "flow",
          flow |-> "types", types |-> "execution"]

(* A pass over the items: check is its function for one of them.           *)
OverItems(name, check(_, _, _)) ==
    /\ pass = name
    /\ item <= Len(program)
    /\ ctx' = check(ctx, <<item>>, program[item])
    /\ item' = item + 1
    /\ UNCHANGED <<program, pass, structVars, runs>>

Resolve == OverItems("resolver", declare_item)
CheckSema == OverItems("sema", check_item)
CheckFlow == OverItems("flow", check_flow)
CheckTypes == OverItems("types", check_item_types)

SearchStructs ==
    /\ pass = "structs"
    /\ Structs!Next
    /\ UNCHANGED <<program, pass, item, ctx, runs>>

NextPass ==
    /\ pass \notin {"execution", "done"}
    /\ IF pass = "structs" THEN Structs!Done ELSE item > Len(program)
    /\ pass' = After[pass]
    /\ item' = 1
    /\ ctx' = [ctx EXCEPT !.pass = pass']
    /\ UNCHANGED <<program, structVars, runs>>

Execute ==
    /\ pass = "execution"
    /\ pass' = "done"
    /\ runs' = ProgramRunsOf(program)
    /\ UNCHANGED <<program, item, ctx, structVars>>

Next ==
    Resolve \/ SearchStructs \/ CheckSema \/ CheckFlow \/ CheckTypes \/ NextPass \/ Execute

(* The compiler runs by itself.                                            *)
Spec == Init /\ [][Next]_vars /\ WF_vars(Next)

----------------------------------------------------------------------------
(* Properties.  They are about the end, where all the reports are there.   *)

Reports(what) == {e \in ctx.errors : e[3] = what}
ReportedBy(name) == {e \in ctx.errors : e[1] = name}
Uses(name) == {<<u[2], u[3], u[4]>> : u \in {v \in ctx.uses : v[1] = name}}
Accepted == ctx.errors = {} /\ cycles = {}
AllRuns == UNION {g.runs : g \in runs}
OneMeaning == Reports("defined twice") \cup Reports("declared twice") = {}

(* At every statement a run reaches, the names mean in its environment     *)
(* what they resolved to in the scopes of the semantic checker; what the   *)
(* checker reports as undeclared, or as a jump without a loop, is just     *)
(* that.  A jump out of a lambda that is made in a loop is not reported.   *)
FoundBySema(x) ==
    {<<e[2], e[4]>> : e \in {d \in ReportedBy("sema") : d[3] = "undeclared" /\ d[2] \in x.seen}}
JumpsBySema(x) ==
    {e[2] : e \in {d \in ReportedBy("sema") : d[3] = "no loop" /\ d[2] \in x.seen}}
ScopesAgree ==
    pass = "done" /\ OneMeaning =>
        \A x \in AllRuns :
            /\ x.uses \subseteq Uses("sema")
            /\ FoundBySema(x) = {<<f[1], f[3]>> : f \in {g \in x.faults : g[2] = "unbound"}}
            /\ JumpsBySema(x) = {f[1] : f \in {g \in x.faults : g[2] = "no loop"}}

(* A constant index that is reported is outside of the list on some run,   *)
(* if any run reaches it: the length that is known of a list is never one  *)
(* that a branch, a loop or a shadowed name has made stale.  (It is after  *)
(* an assignment to the list.)                                             *)
RECURSIVE Assigned(_)
Assigned(stmts) ==
    \E s \in Range(stmts) :
        \/ s.op = "expr" /\ s.e.op = "assign"
        \/ s.op \in {"block", "loop"} /\ Assigned(s.body)
        \/ s.op = "if" /\ (Assigned(s.else) \/ \E a \in Range(s.arms) : Assigned(a.body))
IndexReportsReal ==
    pass = "done" /\ OneMeaning =>
        \A g \in runs : ~ Assigned(g.f.body) =>
            \A e \in Reports("index") :
                (\E x \in g.runs : e[2] \in x.seen) /\ ~ InLambda(e[2]) =>
                    \E x \in g.runs : <<e[2], "index", "">> \in x.faults

(* A function with a result that is accepted returns on all its runs, but  *)
(* for those that leave a loop whose body the checker found to return: it  *)
(* counts on the loop being entered, and on no jump in front of the        *)
(* return.  A function that is rejected has a run that falls off its end.  *)
LeavesReturningLoop(x) == \E body \in x.left : analyze_block(<<>>, body).term = "returns"
FlowVerdicts ==
    pass = "done" /\ Reports("no loop") = {} =>
        \A g \in runs : g.f.ret # Basic("void") =>
            LET falls == {x \in g.runs : x.way = "falls"}
            IN  IF \E e \in Reports("no return") : e[2] = g.place
                THEN falls # {}
                ELSE \A x \in falls : LeavesReturningLoop(x)

(* No run reaches what is warned about as unreachable, with the same       *)
(* exception.                                                              *)
DeadIsDead ==
    pass = "done" /\ Reports("no loop") = {} =>
        \A x \in AllRuns :
            x.seen \cap ctx.dead # {} => LeavesReturningLoop(x)

(* The statement at a place in a body; 0 leads into a lambda.              *)
RECURSIVE At(_, _)
At(stmts, path) ==
    LET s == stmts[Head(path)]
        inner == CASE path[2] = 0 -> s.e.body
                   [] path[2] # 0 /\ s.op = "if" ->
                        IF path[2] \in DOMAIN s.arms THEN s.arms[path[2]].body ELSE s.else
                   [] OTHER -> s.body
    IN  IF Len(path) = 1 THEN s ELSE At(inner, SubSeq(path, 3, Len(path)))

(* The type checker walks the program with scopes of its own: outside of   *)
(* lambdas, in a program that the semantic checker accepts, it finds for   *)
(* every name the same declaration, unless it has not kept that one,       *)
(* because it has reported it, or because its initialiser is a print or    *)
(* reads an untyped global: then the name is unknown, or that of an outer  *)
(* variable.                                                               *)
UntypedGlobals ==
    {<<i>> : i \in {j \in ItemsOf(program, "global") : program[j].ty = NoType}}
IsLocal(decl) == Len(decl) > 1 /\ Last(decl) > 0
FromPrint(decl) ==
    IsLocal(decl) /\
    LET g == CHOOSE h \in FunctionsOf(program) : h.place = SubSeq(decl, 1, Len(h.place))
        s == At(g.f.body, SubSeq(decl, Len(g.place) + 1, Len(decl)))
    IN  s.init.op = "call" /\ s.init.callee.op = "name" /\ s.init.callee.name \in Standalone
NotKept(decl) ==
    \/ \E u \in Uses("sema") : u[1] = decl /\ u[3] \in UntypedGlobals
    \/ \E e \in ReportedBy("types") : e[2] = decl
    \/ FromPrint(decl)
PassesAgree ==
    pass = "done" /\ OneMeaning /\ ReportedBy("sema") = {} =>
        \A u \in Uses("sema") :
            \/ InLambda(u[1])
            \/ NotKept(u[3])
            \/ /\ <<"types", u[1], "undeclared", u[2]>> \notin ctx.errors
               /\ \A v \in Uses("types") : v[1] = u[1] /\ v[2] = u[2] => v[3] = u[3]

(* A program that passes the first passes is accepted by the last one      *)
(* exactly if no run of it applies an operation to values it is not        *)
(* defined for.  This leaves out what the checker has no type for: untyped *)
(* globals, what a print returns, a list of which no element is seen, and  *)
(* a method of such a list, where it crashes; and it does not look into    *)
(* lambdas.                                                                *)
TypesHold ==
    /\ pass = "done" /\ cycles = {}
    /\ \A e \in ctx.errors : e[1] = "types" /\ e[3] \notin {"undeduced", "crash"}
    /\ \A u \in Uses("sema") : u[3] \notin UntypedGlobals /\ ~ FromPrint(u[3])
    => (ctx.errors # {} <=>
            \E x \in AllRuns : \E f \in x.faults :
                f[2] = "type" /\ ~ InLambda(f[1]))

(* The cycles that the resolver reports are cycles of fields; a program    *)
(* that it accepts has none but through a cref.                            *)
CyclesAreReal == Structs!CyclesAreReal
NoneMissed == Structs!NoneMissed
==============================================================================
