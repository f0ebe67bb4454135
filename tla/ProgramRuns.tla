----------------------------- MODULE ProgramRuns -----------------------------
(***************************************************************************)
(* What the semantic passes are judged by: the runs of a program.  Every   *)
(* condition may be true or false, a loop makes up to MaxTurns turns, a    *)
(* call does not run the function but returns some value of its result     *)
(* type, and the body of a lambda runs where the lambda is made, without   *)
(* effect on the run around it.  A value is its type and, for a list whose *)
(* length is known, the length.  A run records                             *)
(*   seen    the statements that it reached                                *)
(*   uses    <<place, name, place of declaration>>                         *)
(*   faults  <<place, what, name>>: a name that is not bound, a jump       *)
(*           without a loop, an index outside the list, an operation on    *)
(*           values it is not defined for                                  *)
(*   left    the bodies of the loops that ended other than by a return     *)
(* and goes on behind a fault with a value that fits everything.           *)
(***************************************************************************)
EXTENDS SymbolTable

CONSTANT MaxTurns       \* bound: turns of a loop

AnyType == Basic("any")

Read(ty) == IF ty.k \in Borrows THEN ty.of ELSE ty

RECURSIVE Fits(_, _)
Fits(have, want) ==
    \/ AnyType \in {have, want}
    \/ have = want
    \/ have.k = want.k /\ have.k \in Borrows \cup {"ptr", "list"} /\ Fits(have.of, want.of)

Value(r, ty, len) == [r EXCEPT !.ty = ty, !.len = len]
Fault(r, p, what, name) ==
    [r EXCEPT !.faults = @ \cup {<<p, what, name>>}, !.ty = AnyType, !.len = Unknown]
Check(condition, r, p, ty) ==
    IF condition THEN Value(r, ty, Unknown) ELSE Fault(r, p, "type", "")

Bind(r, name, p, ty, len) ==
    [r EXCEPT !.env[Len(r.env)] = (name :> [decl |-> p, ty |-> ty, len |-> len]) @@ @]
Where(r, name) == {i \in DOMAIN r.env : name \in DOMAIN r.env[i]}
Meaning(r, name) == r.env[Max(Where(r, name))][name]
Inner(r) == [r EXCEPT !.env = Append(@, <<>>)]
Back(r, x) == [x EXCEPT !.env = SubSeq(@, 1, Len(r.env))]

SetLen(r, object, len) ==
    IF object.op = "name" /\ Where(r, object.name) # {}
    THEN [r EXCEPT !.env[Max(Where(r, object.name))][object.name].len = len] ELSE r

RECURSIVE Evaluate(_, _, _), Step(_, _, _), RunAll(_, _, _)

EvaluateAll(r, p, es) ==
    LET Each(x, i) == LET y == Evaluate(x.r, p, es[i])
                      IN  [r |-> y, tys |-> Append(x.tys, y.ty)]
    IN  FoldLeftDomain(Each, [r |-> r, tys |-> <<>>], es)

Name(r, p, name) ==
    IF Where(r, name) # {}
    THEN LET m == Meaning(r, name)
         IN  [Value(r, Read(m.ty), m.len) EXCEPT !.uses = @ \cup {<<p, name, m.decl>>}]
    ELSE IF name \in Standalone THEN Value(r, Basic("builtin"), Unknown)
         ELSE Fault(r, p, "unbound", name)

Assign(r, p, e) ==
    LET target == Evaluate(r, p, e.target)
        value == Evaluate(target, p, e.value)
        x == SetLen(value, e.target, value.len)
    IN  Check(Fits(value.ty, target.ty), x, p, target.ty)

Fitting(args, params) ==
    /\ Len(args) = Len(params)
    /\ \A i \in DOMAIN args : Fits(Read(args[i]), Read(params[i]))

Construct(x, p, maker) ==
    LET n == Len(x.tys)
    IN  Check(/\ n <= Len(maker.fields)
              /\ Fitting(x.tys, SubSeq([i \in DOMAIN maker.fields |-> maker.fields[i].ty], 1, n))
              /\ \A i \in DOMAIN maker.fields : i > n => maker.fields[i].init.op # "none",
              x.r, p, StructType(maker.name))

CallValue(r, p, e) ==
    LET callee == Evaluate(r, p, e.callee)
        x == EvaluateAll(callee, p, e.args)
    IN  CASE callee.ty.k = "func" ->
                Check(Fitting(x.tys, callee.ty.params), x.r, p, callee.ty.ret)
          [] callee.ty.k = "maker" -> Construct(x, p, callee.ty)
          [] callee.ty.k \in {"any", "builtin"} -> Value(x.r, AnyType, Unknown)
          [] OTHER -> Fault(x.r, p, "type", "")

(* The methods of a value: the built-in ones and those of its impls.       *)
Impls(r, ty) ==
    {f \in r.methods : ty.k = "struct" /\ f.struct = ty.name}
MethodsOf(r, ty) ==
    CASE ty.k = "list" -> ListMethods(ty.of)
      [] ty.k = "str" -> StrMethods
      [] ty.k = "struct" -> UniversalMethods(ty) @@
            [name \in {f.name : f \in Impls(r, ty)} |->
                LET f == CHOOSE f \in Impls(r, ty) : f.name = name
                IN  Method([j \in 1..(Len(f.params) - 1) |-> f.params[j + 1].ty], f.ret, FALSE)]
      [] OTHER -> <<>>

CallMethod(r, p, e) ==
    LET object == Evaluate(r, p, e.callee.object)
        x == EvaluateAll(object, p, e.args)
        methods == MethodsOf(r, object.ty)
        name == e.callee.field
        grown == CASE object.len = Unknown -> x.r
                   [] object.len # Unknown /\ name = "push" ->
                        SetLen(x.r, e.callee.object, object.len + 1)
                   [] object.len # Unknown /\ name = "pop" ->
                        SetLen(x.r, e.callee.object, Max({object.len - 1, 0}))
                   [] OTHER -> x.r
    IN  IF object.ty = AnyType THEN Value(x.r, AnyType, Unknown)
        ELSE IF name \notin DOMAIN methods THEN Fault(x.r, p, "type", "")
        ELSE Value(Check(Fitting(x.tys, methods[name].args), grown, p, methods[name].ret),
                   methods[name].ret, IF name = "clone" THEN object.len ELSE Unknown)

Member(r, p, e) ==
    LET object == Evaluate(r, p, e.object)
        named == IF object.ty.k = "struct" /\ object.ty.name \in DOMAIN r.structs
                 THEN {f \in Range(r.structs[object.ty.name]) : f.name = e.field} ELSE {}
    IN  IF object.ty = AnyType THEN object
        ELSE IF named = {} THEN Fault(object, p, "type", "")
        ELSE Value(object, (CHOOSE f \in named : TRUE).ty, Unknown)

ConstantIndex(e) ==
    CASE e.op = "lit" /\ e.ty = IntType -> {e.value}
      [] e.op = "neg" /\ e.e.op = "lit" /\ e.e.ty = IntType -> {-e.e.value}
      [] OTHER -> {}

Index(r, p, e) ==
    LET object == Evaluate(r, p, e.object)
        index == Evaluate(object, p, e.index)
        outside == object.len # Unknown /\ ConstantIndex(e.index) \ 0..(object.len - 1) # {}
    IN  CASE object.ty = AnyType -> Value(index, AnyType, Unknown)
          [] object.ty.k = "list" /\ outside ->
                [Fault(index, p, "index", "") EXCEPT !.ty = object.ty.of]
          [] object.ty.k = "list" /\ ~ outside ->
                Check(Fits(index.ty, IntType), index, p, object.ty.of)
          [] OTHER -> Fault(index, p, "type", "")

(* The elements have one type; an empty list is one of any type.           *)
ListOf(r, p, e) ==
    LET x == EvaluateAll(r, p, e.elements)
        of == IF x.tys = <<>> THEN AnyType
              ELSE CHOOSE t \in Range(x.tys) : \A u \in Range(x.tys) : Fits(u, t) => Fits(t, u)
        one == \A t, u \in Range(x.tys) : Fits(t, u)
    IN  Value(IF one THEN x.r ELSE Fault(x.r, p, "type", ""), Wrapped("list", of), Len(e.elements))

Lambda(r, p, e) ==
    LET Param(x, j) == Bind(x, e.params[j].name, p \o <<0, -j>>, e.params[j].ty, Unknown)
        inside == [FoldLeftDomain(Param, Inner(r), e.params)
                      EXCEPT !.loops = 0, !.outer = r.loops + r.outer, !.result = e.ret]
        runs == RunAll(inside, p \o <<0>>, e.body)
    IN  [Value(r, FuncType([j \in DOMAIN e.params |-> e.params[j].ty], e.ret), Unknown)
            EXCEPT !.seen = UNION {x.seen : x \in runs},
                   !.uses = UNION {x.uses : x \in runs},
                   !.faults = UNION {x.faults : x \in runs}]

Evaluate(r, p, e) ==
    CASE e.op = "none" -> Value(r, AnyType, Unknown)
      [] e.op = "lit" -> Value(r, e.ty, Unknown)
      [] e.op = "name" -> Name(r, p, e.name)
      [] e.op = "assign" -> Assign(r, p, e)
      [] e.op = "arith" ->
            LET x == EvaluateAll(r, p, <<e.lhs, e.rhs>>)
            IN  Check(\A t \in Range(x.tys) : Fits(t, IntType), x.r, p, IntType)
      [] e.op \in {"compare", "logic"} ->
            Value(EvaluateAll(r, p, <<e.lhs, e.rhs>>).r, Basic("bool"), Unknown)
      [] e.op = "neg" ->
            LET x == Evaluate(r, p, e.e) IN Check(Fits(x.ty, IntType), x, p, IntType)
      [] e.op = "not" -> Value(Evaluate(r, p, e.e), Basic("bool"), Unknown)
      [] e.op = "deref" ->
            LET x == Evaluate(r, p, e.e)
            IN  IF x.ty = AnyType THEN x
                ELSE IF x.ty.k \in Borrows \cup {"ptr"} THEN Value(x, x.ty.of, Unknown)
                ELSE Fault(x, p, "type", "")
      [] e.op = "addrof" ->
            LET x == Evaluate(r, p, e.e) IN Value(x, Wrapped("ptr", x.ty), Unknown)
      [] e.op = "call" /\ e.callee.op = "member" -> CallMethod(r, p, e)
      [] e.op = "call" /\ e.callee.op # "member" -> CallValue(r, p, e)
      [] e.op = "member" -> Member(r, p, e)
      [] e.op = "index" -> Index(r, p, e)
      [] e.op = "list" -> ListOf(r, p, e)
      [] e.op = "lambda" -> Lambda(r, p, e)

----------------------------------------------------------------------------
(* Statements: the runs that go on behind one, or end in it.               *)

InBlock(r, p, stmts) == {Back(r, x) : x \in RunAll(Inner(r), p, stmts)}

Condition(r, p, e) ==
    LET x == Evaluate(r, p, e) IN Check(Fits(x.ty, Basic("bool")), x, p, AnyType)

RECURSIVE Branch(_, _, _, _), Turn(_, _, _, _)

(* The conditions are asked in turn.                                       *)
Branch(r, p, s, b) ==
    IF b > Len(s.arms) THEN InBlock(r, p \o <<b>>, s.else)
    ELSE LET x == Condition(r, p, s.arms[b].cond)
         IN  InBlock(x, p \o <<b>>, s.arms[b].body) \cup Branch(x, p, s, b + 1)

Leave(r, s) == [r EXCEPT !.way = "falls", !.left = @ \cup {s.body}, !.loops = @ - 1]

Turn(r, p, s, turns) ==
    LET x == Condition(r, p, s.cond)
        After(y) ==
            CASE y.way = "returns" -> {y}
              [] y.way = "breaks" -> {Leave(y, s)}
              [] OTHER -> Turn([y EXCEPT !.way = "falls"], p, s, turns + 1)
    IN  {Leave(x, s)} \cup
        IF turns = MaxTurns THEN {}
        ELSE UNION {After(y) : y \in InBlock(x, p \o <<1>>, s.body)}

Let(x, p, s) ==
    LET y == IF s.ty = NoType \/ Fits(x.ty, Read(s.ty)) THEN x ELSE Fault(x, p, "type", "")
    IN  Bind(y, s.name, p, IF s.ty = NoType THEN x.ty ELSE s.ty, x.len)

Return(x, p, s) ==
    LET ty == IF s.e.op = "none" THEN Basic("void") ELSE x.ty
    IN  [Check(Fits(ty, x.result), x, p, AnyType) EXCEPT !.way = "returns"]

Jump(r, p, way) ==
    CASE r.loops > 0 -> [r EXCEPT !.way = way]
      [] r.loops = 0 /\ r.outer > 0 -> Fault(r, p, "out of lambda", "")
      [] r.loops = 0 /\ r.outer = 0 -> Fault(r, p, "no loop", "")

(* A statement that evaluates an expression, and no other.                 *)
Simple(r, p, s) ==
    LET x == Evaluate(r, p, IF s.op = "let" THEN s.init ELSE s.e)
    IN  CASE s.op = "let" -> Let(x, p, s)
          [] s.op = "expr" -> x
          [] s.op = "return" -> Return(x, p, s)

Step(r, p, s) ==
    LET x == [r EXCEPT !.seen = @ \cup {p}]
    IN  CASE s.op \in {"let", "expr", "return"} -> {Simple(x, p, s)}
          [] s.op = "break" -> {Jump(x, p, "breaks")}
          [] s.op = "continue" -> {Jump(x, p, "continues")}
          [] s.op = "block" -> InBlock(x, p \o <<1>>, s.body)
          [] s.op = "if" -> Branch(x, p, s, 1)
          [] s.op = "loop" -> Turn([x EXCEPT !.loops = @ + 1], p, s, 0)

RunAll(r, p, stmts) ==
    LET Each(runs, i) ==
            UNION {IF x.way = "falls" THEN Step(x, p \o <<i>>, stmts[i]) ELSE {x} : x \in runs}
    IN  FoldLeftDomain(Each, {r}, stmts)

----------------------------------------------------------------------------
(* The program: every function is run, with any arguments.                 *)

ItemsOf(program, kind) == {i \in DOMAIN program : program[i].kind = kind}

Maker(s) == [k |-> "maker", name |-> s.name, fields |-> s.fields]
Globals(program) ==
    LET Named(kinds) == {i \in DOMAIN program : program[i].kind \in kinds}
        Entry(i) == CASE program[i].kind = "fn" -> Function(program[i], <<i>>).sig
                      [] program[i].kind = "struct" -> Maker(program[i])
                      [] OTHER -> IF program[i].ty = NoType THEN AnyType ELSE program[i].ty
    IN  [name \in {program[i].name : i \in Named({"fn", "struct", "global"})} |->
            LET i == CHOOSE i \in Named({"fn", "struct", "global"}) : program[i].name = name
            IN  [decl |-> <<i>>, ty |-> Entry(i), len |-> Unknown]]

Start(program) ==
    [env |-> <<Globals(program)>>, way |-> "falls", ty |-> AnyType, len |-> Unknown,
     seen |-> {}, uses |-> {}, faults |-> {}, left |-> {},
     loops |-> 0, outer |-> 0, result |-> AnyType,
     structs |-> [name \in {program[i].name : i \in ItemsOf(program, "struct")} |->
                    program[CHOOSE i \in ItemsOf(program, "struct") :
                                program[i].name = name].fields],
     methods |-> UNION {{[struct |-> program[i].struct, name |-> f.name,
                          params |-> f.params, ret |-> f.ret]
                            : f \in Range(program[i].methods)}
                            : i \in ItemsOf(program, "impl")}]

RunsOf(program, p, f) ==
    LET Param(x, j) == Bind(x, f.params[j].name, p \o <<-j>>, f.params[j].ty, Unknown)
        start == [FoldLeftDomain(Param, Inner(Start(program)), f.params)
                     EXCEPT !.result = f.ret]
    IN  RunAll(start, p, f.body)

(* The functions and methods of a program, each with its place.            *)
FunctionsOf(program) ==
    {[place |-> <<i>>, f |-> program[i]] : i \in ItemsOf(program, "fn")} \cup
    UNION {{[place |-> <<i, j>>, f |-> program[i].methods[j]] : j \in DOMAIN program[i].methods}
            : i \in ItemsOf(program, "impl")}
ProgramRunsOf(program) ==
    {[place |-> g.place, f |-> g.f, runs |-> RunsOf(program, g.place, g.f)]
        : g \in FunctionsOf(program)}

InLambda(p) == \E i \in DOMAIN p : p[i] = 0
==============================================================================
