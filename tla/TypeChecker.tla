----------------------------- MODULE TypeChecker -----------------------------
(***************************************************************************)
(* The last semantic pass: the types of expressions and variables          *)
(* (type_checker/type_checker.cpp, inferer.cpp).  An inference returns the *)
(* type and the context behind it.  The error type fits everything: it is  *)
(* what a reported error, an untyped global and a print leave behind.      *)
(***************************************************************************)
EXTENDS Unifier, Resolver

Typed(c, ty) == [c |-> c, ty |-> ty]
IllTyped(c, p, what, name) == Typed(Report(c, p, what, name), ErrorType)

fresh_type_var(c) == Typed([c EXCEPT !.fresh = @ + 1], TypeVar(c.fresh))
Resolved(c, ty) == resolve_type(c.subst, ty)

Unify(c, t1, t2) ==
    LET r == unify(c.subst, t1, t2)
    IN  [ok |-> r.ok, ty |-> r.ty, c |-> [c EXCEPT !.subst = r.subst]]

Stripped(ty) == IF ty.k \in Borrows THEN ty.of ELSE ty

RECURSIVE infer_expr(_, _, _), check_types(_, _, _)

InferAll(c, p, es) ==
    LET Each(r, i) == LET q == infer_expr(r.c, p, es[i])
                      IN  [c |-> q.c, tys |-> Append(r.tys, q.ty)]
    IN  FoldLeftDomain(Each, [c |-> c, tys |-> <<>>], es)

infer_identifier(c, p, name) ==
    IF ~ Resolves(c, name)
    THEN Typed(ReportIf(name \notin Standalone, c, p, "undeclared", name), ErrorType)
    ELSE LET sym == resolve(c, name)
         IN  Typed(Use(c, p, name),
                   CASE sym.kind \in {"variable", "parameter"} ->
                            IF sym.ty = NoType THEN ErrorType ELSE Stripped(sym.ty)
                     [] sym.kind = "function" -> sym.sig
                     [] sym.kind = "struct" -> StructType(name)
                     [] OTHER -> ErrorType)

infer_assignment(c, p, e) ==
    LET lhs == infer_expr(c, p, e.target)
        rhs == infer_expr(lhs.c, p, e.value)
        r == Unify(rhs.c, lhs.ty, rhs.ty)
    IN  IF r.ok THEN Typed(r.c, r.ty) ELSE IllTyped(r.c, p, "mismatch", "")

(* Only numbers are computed with; comparisons and the logical operators   *)
(* unify their operands and report nothing.                                *)
infer_binary(c, p, e) ==
    LET lhs == infer_expr(c, p, e.lhs)
        rhs == infer_expr(lhs.c, p, e.rhs)
        r == Unify(rhs.c, lhs.ty, rhs.ty)
        ty == Resolved(r.c, lhs.ty)
        Bool == Basic("bool")
    IN  CASE e.op = "arith" ->
                IF r.ok /\ ty \in {IntType, ErrorType} THEN Typed(r.c, ty)
                ELSE IllTyped(r.c, p, "arithmetic", "")
          [] e.op = "compare" -> Typed(r.c, Bool)
          [] e.op = "logic" -> Typed(Unify(Unify(rhs.c, lhs.ty, Bool).c, rhs.ty, Bool).c, Bool)

infer_unary(c, p, e) ==
    LET r == infer_expr(c, p, e.e)
        ty == Resolved(r.c, r.ty)
    IN  CASE e.op = "neg" ->
                IF ty \in {IntType, ErrorType} THEN Typed(r.c, ty)
                ELSE IllTyped(r.c, p, "arithmetic", "")
          [] e.op = "not" -> Typed(Unify(r.c, r.ty, Basic("bool")).c, Basic("bool"))
          [] e.op = "deref" ->
                IF ty.k \in Borrows \cup {"ptr"} THEN Typed(r.c, ty.of)
                ELSE IllTyped(r.c, p, "dereference", "")
          [] e.op = "addrof" -> Typed(r.c, Wrapped("ptr", r.ty))

(* An argument or a parameter that is a borrow is compared by what it      *)
(* borrows.                                                                *)
CompareArg(c, arg, param) ==
    LET want == Resolved(c, param)
        have == Resolved(c, arg)
    IN  IF want.k \in Borrows THEN Unify(c, have, want.of) ELSE Unify(c, Stripped(have), want)

(* Mutant: the arguments are not compared.                                 *)
CompareArgsNever(c, args, params) == [ok |-> TRUE, c |-> c]

(* The first mismatch ends the comparison.                                 *)
CompareArgs(c, args, params) ==
    LET Each(r, i) == IF r.ok THEN CompareArg(r.c, args[i], params[i]) ELSE r
    IN  FoldLeftDomain(Each, [ok |-> TRUE, c |-> c], args)

CompareFields(c, args, fields) ==
    LET Each(r, i) == IF r.ok THEN Unify(r.c, args[i], fields[i].ty) ELSE r
    IN  FoldLeftDomain(Each, [ok |-> TRUE, c |-> c], args)

infer_construction(c, p, name, args) ==
    IF ~ IsGlobal(c, name) \/ resolve_global(c, name).kind # "struct" THEN Typed(c, ErrorType)
    ELSE LET fields == resolve_global(c, name).fields
             required == Cardinality({j \in DOMAIN fields : fields[j].init.op = "none"})
             r == CompareFields(c, args, fields)
         IN  IF Len(args) \notin required..Len(fields) THEN IllTyped(c, p, "arity", name)
             ELSE IF r.ok THEN Typed(r.c, StructType(name)) ELSE IllTyped(r.c, p, "mismatch", name)

(* A method's first parameter is the receiver.  Calling anything else is   *)
(* not reported: it is an error that has been reported, or a print.        *)
infer_call(c, p, e) ==
    LET callee == infer_expr(c, p, e.callee)
        all == InferAll(callee.c, p, e.args)
        ty == Resolved(all.c, callee.ty)
        self == IF e.callee.op = "member" THEN 1 ELSE 0
    IN  CASE ty.k = "func" ->
                LET r == CompareArgs(all.c, all.tys, SubSeq(ty.params, 1 + self, Len(ty.params)))
                IN  IF Len(ty.params) - self # Len(e.args) THEN IllTyped(all.c, p, "arity", "")
                    ELSE IF r.ok THEN Typed(r.c, ty.ret) ELSE IllTyped(r.c, p, "mismatch", "")
          [] ty.k = "struct" -> infer_construction(all.c, p, ty.name, all.tys)
          [] OTHER -> Typed(all.c, ErrorType)

MethodType(self, method) == FuncType(<<self>> \o method.args, method.ret)

(* A field of the name comes before a method of it.                        *)
infer_struct_member(c, p, ty, field) ==
    IF ~ IsGlobal(c, ty.name) THEN IllTyped(c, p, "undeclared", ty.name)
    ELSE LET sym == resolve_global(c, ty.name)
             named == IF sym.kind = "struct"
                      THEN {j \in DOMAIN sym.fields : sym.fields[j].name = field} ELSE {}
             name == mangled(ty.name, field)
         IN  CASE field \in DOMAIN UniversalMethods(ty) ->
                        Typed(c, MethodType(ty, UniversalMethods(ty)[field]))
               [] field \notin DOMAIN UniversalMethods(ty) /\ named # {} ->
                        Typed(c, sym.fields[Min(named)].ty)
               [] /\ field \notin DOMAIN UniversalMethods(ty) /\ named = {}
                  /\ IsGlobal(c, name) /\ resolve_global(c, name).kind = "function" ->
                        Typed(c, resolve_global(c, name).sig)
               [] OTHER -> IllTyped(c, p, "unknown member", field)

infer_member(c, p, e) ==
    LET r == infer_expr(c, p, e.object)
        ty == Resolved(r.c, r.ty)
        Builtin(methods) == IF e.field \in DOMAIN methods
                            THEN Typed(r.c, MethodType(ty, methods[e.field]))
                            ELSE IllTyped(r.c, p, "unknown member", e.field)
    IN  CASE ty.k = "list" -> Builtin(ListMethods(ty.of))
          [] ty.k = "str" -> Builtin(StrMethods)
          [] ty.k = "struct" -> infer_struct_member(r.c, p, ty, e.field)
          [] OTHER -> IllTyped(r.c, p, "no members", e.field)

infer_index(c, p, e) ==
    LET object == infer_expr(c, p, e.object)
        ty == Resolved(object.c, object.ty)
        index == infer_expr(object.c, p, e.index)
        r == Unify(index.c, index.ty, IntType)
    IN  IF ty.k # "list" THEN IllTyped(object.c, p, "no list", "")
        ELSE IF r.ok THEN Typed(r.c, ty.of) ELSE IllTyped(r.c, p, "mismatch", "")

infer_list_literal(c, p, e) ==
    IF e.elements = <<>>
    THEN LET r == fresh_type_var(c) IN Typed(r.c, Wrapped("list", r.ty))
    ELSE LET first == infer_expr(c, p, e.elements[1])
             Each(r, x) ==
                IF ~ r.ok THEN r ELSE LET q == infer_expr(r.c, p, x) IN Unify(q.c, first.ty, q.ty)
             r == FoldLeft(Each, [ok |-> TRUE, c |-> first.c], Tail(e.elements))
         IN  IF r.ok THEN Typed(r.c, Wrapped("list", Resolved(r.c, first.ty)))
                     ELSE IllTyped(r.c, p, "mismatch", "")

(* The body of a lambda is not looked at.                                  *)
infer_expr(c, p, e) ==
    CASE e.op = "lit" -> Typed(c, e.ty)
      [] e.op = "name" -> infer_identifier(c, p, e.name)
      [] e.op = "assign" -> infer_assignment(c, p, e)
      [] e.op \in {"arith", "compare", "logic"} -> infer_binary(c, p, e)
      [] e.op \in {"neg", "not", "deref", "addrof"} -> infer_unary(c, p, e)
      [] e.op = "call" -> infer_call(c, p, e)
      [] e.op = "member" -> infer_member(c, p, e)
      [] e.op = "index" -> infer_index(c, p, e)
      [] e.op = "list" -> infer_list_literal(c, p, e)
      [] e.op = "lambda" ->
            Typed(c, FuncType([j \in DOMAIN e.params |-> e.params[j].ty], e.ret))

----------------------------------------------------------------------------
(* Statements.                                                             *)

infer_let_binding(c, p, declared, init) ==
    LET r == IF init.op = "none" THEN fresh_type_var(c) ELSE infer_expr(c, p, init)
        q == Unify(r.c, r.ty, Stripped(declared))
    IN  CASE declared = NoType -> r
          [] declared # NoType /\ q.ok -> Typed(q.c, declared)
          [] declared # NoType /\ ~ q.ok -> IllTyped(q.c, p, "mismatch", "")

(* What has no variable and no error in it can be stored.                  *)
RECURSIVE Concrete(_)
Concrete(ty) ==
    CASE ty.k \in {"var", "error"} -> FALSE
      [] ty.k \in Borrows \cup {"ptr", "list"} -> Concrete(ty.of)
      [] OTHER -> TRUE
semantic_type_to_ast_type(ty) == IF Concrete(ty) THEN ty ELSE NoType

(* Of a function type the parameters and the result are taken to be        *)
(* concrete: if one is not, an empty optional is dereferenced.             *)
RECURSIVE DereferencesEmpty(_)
DereferencesEmpty(ty) ==
    CASE ty.k \in Borrows \cup {"ptr", "list"} -> DereferencesEmpty(ty.of)
      [] ty.k = "func" -> \E t \in Range(Append(ty.params, ty.ret)) :
                            ~ Concrete(t) \/ DereferencesEmpty(t)
      [] OTHER -> FALSE

check_let(c, p, s) ==
    LET r == infer_let_binding(c, p, s.ty, s.init)
        stored == IF s.ty # NoType THEN s.ty
                  ELSE semantic_type_to_ast_type(Resolved(r.c, r.ty))
        undefined == s.ty = NoType /\ DereferencesEmpty(Resolved(r.c, r.ty))
    IN  CASE r.ty = ErrorType -> r.c
          [] r.ty # ErrorType /\ undefined -> Report(r.c, p, "crash", s.name)
          [] r.ty # ErrorType /\ stored = NoType -> Report(r.c, p, "undeduced", s.name)
          [] r.ty # ErrorType /\ stored # NoType /\ ~ undefined ->
                declare(r.c, s.name, Variable(stored, p, Unknown))

check_condition_is_bool(c, p, e) ==
    LET r == infer_expr(c, p, e)
    IN  ReportIf(Resolved(r.c, r.ty) \notin {Basic("bool"), ErrorType}, r.c, p, "condition", "")

(* Mutant: a block declares in the scope around it.                        *)
check_typed_blockOpen(c, p, stmts) ==
    FoldLeftDomain(LAMBDA d, i : check_types(d, p \o <<i>>, stmts[i]), c, stmts)
check_typed_block(c, p, stmts) ==
    exit_scope(FoldLeftDomain(LAMBDA d, i : check_types(d, p \o <<i>>, stmts[i]),
                              enter_scope(c, "block"), stmts))

check_return(c, p, e) ==
    IF e.op = "none"
    THEN ReportIf(c.ret # Basic("void"), c, p, "no value", "")
    ELSE LET r == infer_expr(c, p, e)
             q == Unify(r.c, r.ty, c.ret)
         IN  ReportIf(~ q.ok, q.c, p, "return mismatch", "")

check_types(c, p, s) ==
    CASE s.op = "let" -> check_let(c, p, s)
      [] s.op = "expr" -> infer_expr(c, p, s.e).c
      [] s.op = "if" ->
            LET Arm(d, b) == check_typed_block(check_condition_is_bool(d, p, s.arms[b].cond),
                                               p \o <<b>>, s.arms[b].body)
            IN  check_typed_block(FoldLeftDomain(Arm, c, s.arms), p \o <<Len(s.arms) + 1>>, s.else)
      [] s.op = "loop" ->
            check_typed_block(check_condition_is_bool(c, p, s.cond), p \o <<1>>, s.body)
      [] s.op = "return" -> check_return(c, p, s.e)
      [] s.op \in {"break", "continue"} -> c
      [] s.op = "block" -> check_typed_block(c, p \o <<1>>, s.body)

check_function_types(c, p, f) ==
    LET Param(d, j) == declare(d, f.params[j].name, Parameter(f.params[j].ty, p \o <<-j>>))
        inside == FoldLeftDomain(Param, enter_scope([c EXCEPT !.ret = f.ret], "function"), f.params)
    IN  exit_scope(FoldLeftDomain(LAMBDA d, i : check_types(d, p \o <<i>>, f.body[i]),
                                  inside, f.body))

(* The type that is found for a global is not kept.                        *)
check_global_type(c, p, g) == infer_let_binding(c, p, g.ty, g.init).c

check_default_types(c, p, s) ==
    LET Field(d, j) ==
            IF s.fields[j].init.op = "none" THEN d
            ELSE LET r == infer_expr(d, p, s.fields[j].init)
                     q == Unify(r.c, r.ty, s.fields[j].ty)
                 IN  ReportIf(~ q.ok, q.c, p, "mismatch", s.fields[j].name)
    IN  FoldLeftDomain(Field, c, s.fields)

check_item_types(c, p, item) ==
    CASE item.kind = "fn"     -> check_function_types(c, p, item)
      [] item.kind = "impl"   ->
            FoldLeftDomain(LAMBDA d, j : check_function_types(d, p \o <<j>>, item.methods[j]),
                           c, item.methods)
      [] item.kind = "global" -> check_global_type(c, p, item)
      [] item.kind = "struct" -> check_default_types(c, p, item)
      [] OTHER -> c
==============================================================================
