----------------------------- MODULE SemaChecker -----------------------------
(***************************************************************************)
(* The second semantic pass: names, calls, jumps and constant indexes      *)
(* (sema_checker/sema_checker.cpp).  Each operator is the function of its  *)
(* name: it takes the context and the place of what it checks and returns  *)
(* the context behind the call.                                            *)
(***************************************************************************)
EXTENDS Resolver

RECURSIVE IsNested(_), check_stmt(_, _, _), check_expr(_, _, _)

(* validate_borrow_nesting: what a function type mentions is not looked at. *)
IsNested(ty) ==
    \/ ty.k \in Borrows /\ (ty.of.k \in Borrows \/ IsNested(ty.of))
    \/ ty.k \in {"ptr", "list"} /\ IsNested(ty.of)

validate_borrow_nesting(c, p, ty) == ReportIf(IsNested(ty), c, p, "nested borrow", "")

CheckAll(c, p, stmts) ==
    FoldLeftDomain(LAMBDA d, i : check_stmt(d, p \o <<i>>, stmts[i]), c, stmts)

check_block(c, p, stmts) ==
    exit_scope(CheckAll(enter_scope(c, "block"), p, stmts))

DeclareParams(c, p, params) ==
    FoldLeftDomain(LAMBDA d, j : declare(d, params[j].name,
                                         Parameter(params[j].ty, p \o <<-j>>)), c, params)

check_function(c, p, f) ==
    LET Nesting(d, j) == validate_borrow_nesting(d, p, f.params[j].ty)
        checked == FoldLeftDomain(Nesting, c, f.params)
        twice == ReportIf(HasDuplicate(f.params), checked, p, "declared twice", f.name)
        inside == DeclareParams(enter_scope(twice, "function"), p, f.params)
    IN  exit_scope(CheckAll(validate_borrow_nesting(inside, p, f.ret), p, f.body))

validate_trait_impl(c, p, impl) ==
    IF ~ IsGlobal(c, impl.trait) THEN Report(c, p, "undeclared", impl.trait)
    ELSE LET trait == resolve_global(c, impl.trait)
             missing == {m \in Range(trait.methods) :
                            \A j \in DOMAIN impl.methods : impl.methods[j].name # m}
         IN  ReportIf(trait.kind = "trait" /\ missing # {}, c, p, "missing method", impl.struct)

check_impl(c, p, impl) ==
    LET d == ReportIf(~ IsGlobal(c, impl.struct), c, p, "undeclared", impl.struct)
        e == IF impl.trait = "" THEN d ELSE validate_trait_impl(d, p, impl)
    IN  FoldLeftDomain(LAMBDA a, j : check_function(a, p \o <<j>>, impl.methods[j]),
                       e, impl.methods)

----------------------------------------------------------------------------
(* Statements.                                                             *)

(* The type and the length of an untyped variable, as far as its           *)
(* initialiser shows them; any other is an int until the types are checked. *)
infer_type_from_init(c, init) ==
    CASE init.op = "list" ->
            [ty |-> Wrapped("list", IntType), len |-> Len(init.elements)]
      [] /\ init.op = "call" /\ init.callee.op = "name"
         /\ Resolves(c, init.callee.name)
         /\ resolve(c, init.callee.name).kind = "struct" ->
            [ty |-> StructType(init.callee.name), len |-> Unknown]
      [] /\ init.op = "call" /\ init.callee.op = "name"
         /\ Resolves(c, init.callee.name)
         /\ resolve(c, init.callee.name).kind = "function" ->
            [ty |-> resolve(c, init.callee.name).sig.ret, len |-> Unknown]
      [] init.op = "lambda" ->
            [ty |-> FuncType([j \in DOMAIN init.params |-> init.params[j].ty], init.ret),
             len |-> Unknown]
      [] OTHER -> [ty |-> IntType, len |-> Unknown]

check_var_def(c, p, s) ==
    LET hasInit == s.init.op # "none"
        d == ReportIf(s.ty.k \in Borrows /\ ~ hasInit, c, p, "not initialized", s.name)
        e == IF hasInit THEN check_expr(d, p, s.init) ELSE d
        found == IF s.ty # NoType THEN [ty |-> s.ty, len |-> Unknown]
                                  ELSE infer_type_from_init(e, s.init)
        f == validate_borrow_nesting(e, p, s.ty)
    IN  declare(ReportIf(IsDeclared(f, s.name), f, p, "declared twice", s.name),
                s.name, Variable(found.ty, p, found.len))

check_arms(c, p, arms) ==
    FoldLeftDomain(LAMBDA d, b : check_block(check_expr(d, p, arms[b].cond),
                                             p \o <<b>>, arms[b].body), c, arms)

LoopScope(c) == enter_scope(c, "loop")

check_stmt(c, p, s) ==
    CASE s.op = "let" -> check_var_def(c, p, s)
      [] s.op = "expr" -> check_expr(c, p, s.e)
      [] s.op = "if" ->
            check_block(check_arms(c, p, s.arms), p \o <<Len(s.arms) + 1>>, s.else)
      [] s.op = "loop" ->
            exit_scope(check_block(check_expr(LoopScope(c), p, s.cond), p \o <<1>>, s.body))
      [] s.op = "return" ->
            LET d == ReportIf(~ nearest_of_kind(c, "function"), c, p, "no function", "")
            IN  IF s.e.op = "none" THEN d ELSE check_expr(d, p, s.e)
      [] s.op \in {"break", "continue"} ->
            ReportIf(~ nearest_of_kind(c, "loop"), c, p, "no loop", "")
      [] s.op = "block" -> check_block(c, p \o <<1>>, s.body)

----------------------------------------------------------------------------
(* Calls.                                                                  *)

(* The method that a call of a receiver's method reaches, by the type the  *)
(* receiver was declared with: a built-in one, a function of the mangled   *)
(* name, none at all, or what only the types will show.                    *)
resolve_method_target(c, member) ==
    IF \/ member.object.op # "name"
       \/ ~ Resolves(c, member.object.name)
    THEN [to |-> "types"]
    ELSE LET ty == resolve(c, member.object.name).ty
             Builtin(methods) ==
                IF member.field \in DOMAIN methods
                THEN [to |-> "builtin", method |-> methods[member.field]]
                ELSE [to |-> "nothing"]
         IN  CASE ty.k = "list" -> Builtin(ListMethods(ty.of))
               [] ty.k = "str" -> Builtin(StrMethods)
               [] ty.k \in {"struct", "trait"} /\ member.field \in DOMAIN UniversalMethods(ty) ->
                    Builtin(UniversalMethods(ty))
               [] ty.k = "struct" /\ member.field \notin DOMAIN UniversalMethods(ty) ->
                    [to |-> "function", name |-> mangled(ty.name, member.field)]
               [] OTHER -> [to |-> "types"]

(* Mutant: the length stays known.                                         *)
clear_list_lenNever(c, method, member) == c
clear_list_len_for_mutating_builtin(c, method, member) ==
    IF method.mutating THEN clear_known_list_len(c, member.object.name) ELSE c

Required(fields) == Cardinality({j \in DOMAIN fields : fields[j].init.op = "none"})

(* The numbers of arguments that a callable takes; of a method's           *)
(* parameters the first is the receiver.                                   *)
Arities(sym, isMethod) ==
    LET Exactly(params) == IF isMethod THEN Max({Len(params) - 1, 0}) ELSE Len(params)
    IN  CASE sym.kind = "function" -> {Exactly(sym.sig.params)}
          [] sym.kind = "struct" -> Required(sym.fields)..Len(sym.fields)
          [] OTHER -> {Len(sym.ty.params)}

(* print and println want a format string first.                           *)
check_standalone(c, p, call) ==
    ReportIf(~ (call.args[1].op = "lit" /\ call.args[1].ty.k = "str"), c, p, "format", "")

(* name is the name in the table, shown the one that is written.           *)
check_target(c, p, call, name, shown) ==
    IF ~ Resolves(c, name)
    THEN IF shown \in Standalone THEN check_standalone(c, p, call)
                                 ELSE Report(c, p, "undeclared function", shown)
    ELSE LET sym == resolve(c, name)
             untyped == sym.kind = "variable" /\ sym.ty = NoType
             isMethod == call.callee.op = "member"
         IN  IF is_callable(sym)
             THEN ReportIf(Len(call.args) \notin Arities(sym, isMethod), c, p, "arity", name)
             ELSE ReportIf(~ untyped, c, p, "not callable", name)

check_method(c, p, call) ==
    LET target == resolve_method_target(c, call.callee)
    IN  CASE target.to = "types" -> c
          [] target.to = "nothing" -> Report(c, p, "unknown method", call.callee.field)
          [] target.to = "builtin" ->
                clear_list_len_for_mutating_builtin(
                    ReportIf(Len(call.args) # Len(target.method.args), c, p, "arity",
                             call.callee.field),
                    target.method, call.callee)
          [] target.to = "function" -> check_target(c, p, call, target.name, call.callee.field)

check_call_expr(c, p, call) ==
    LET Each(d, i) == check_expr(d, p, call.args[i])
        d == FoldLeftDomain(Each, check_expr(c, p, call.callee), call.args)
    IN  CASE call.callee.op = "name" -> check_target(d, p, call, call.callee.name, call.callee.name)
          [] call.callee.op = "member" -> check_method(d, p, call)
          [] OTHER -> d

----------------------------------------------------------------------------
(* Expressions.                                                            *)

(* An index that is a literal, or a literal with a minus in front.         *)
IsConstant(e) ==
    LET lit == IF e.op = "neg" THEN e.e ELSE e IN lit.op = "lit" /\ lit.ty = IntType
eval_const_index(e) == IF e.op = "neg" THEN -e.e.value ELSE e.value

known_len(c, object) ==
    CASE object.op = "list" -> Len(object.elements)
      [] /\ object.op = "name" /\ Resolves(c, object.name)
         /\ resolve(c, object.name).kind = "variable" -> resolve(c, object.name).len
      [] OTHER -> Unknown

Outside(index, len) == index < 0 \/ index >= len

check_index(c, p, e) ==
    LET d == check_expr(check_expr(c, p, e.object), p, e.index)
        len == known_len(d, e.object)
    IN  ReportIf(IsConstant(e.index) /\ len # Unknown /\ Outside(eval_const_index(e.index), len),
                 d, p, "index", "")

check_name(c, p, name) ==
    IF Resolves(c, name) THEN Use(c, p, name)
    ELSE ReportIf(name \notin Standalone, c, p, "undeclared", name)

(* A parameter of a lambda that is named twice is not reported.            *)
check_lambda(c, p, e) ==
    LET inside == DeclareParams(enter_scope(c, "function"), p \o <<0>>, e.params)
    IN  exit_scope(CheckAll(inside, p \o <<0>>, e.body))

check_expr(c, p, e) ==
    CASE e.op = "lit" -> c
      [] e.op = "name" -> check_name(c, p, e.name)
      [] e.op = "assign" -> check_expr(check_expr(c, p, e.target), p, e.value)
      [] e.op \in {"arith", "compare", "logic"} ->
            check_expr(check_expr(c, p, e.lhs), p, e.rhs)
      [] e.op \in {"neg", "not", "deref"} -> check_expr(c, p, e.e)
      [] e.op = "addrof" ->
            ReportIf(e.e.op \notin {"name", "member", "index", "deref", "addrof"},
                     check_expr(c, p, e.e), p, "address", "")
      [] e.op = "call" -> check_call_expr(c, p, e)
      [] e.op = "member" -> check_expr(c, p, e.object)
      [] e.op = "index" -> check_index(c, p, e)
      [] e.op = "list" ->
            FoldLeftDomain(LAMBDA d, i : check_expr(d, p, e.elements[i]), c, e.elements)
      [] e.op = "lambda" -> check_lambda(c, p, e)

(* The declarations of globals and the defaults of fields.                 *)
check_global_var(c, p, g) ==
    LET d == validate_borrow_nesting(c, p, g.ty)
    IN  IF g.init.op = "none" THEN d ELSE check_expr(d, p, g.init)

check_struct_defaults(c, p, s) ==
    LET Field(d, j) ==
            LET e == validate_borrow_nesting(d, p, s.fields[j].ty)
            IN  IF s.fields[j].init.op = "none" THEN e
                ELSE check_expr(e, p, s.fields[j].init)
    IN  FoldLeftDomain(Field, c, s.fields)

check_item(c, p, item) ==
    CASE item.kind = "fn"     -> check_function(c, p, item)
      [] item.kind = "impl"   -> check_impl(c, p, item)
      [] item.kind = "global" -> check_global_var(c, p, item)
      [] item.kind = "struct" -> check_struct_defaults(c, p, item)
      [] OTHER -> c
==============================================================================
