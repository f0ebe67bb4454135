------------------------------- MODULE Unifier -------------------------------
(***************************************************************************)
(* Unification (type_checker/unifier.cpp, type_ctx.cpp).  subst gives some *)
(* of the type variables a type; a failed unification keeps what it has    *)
(* substituted up to there.                                                *)
(***************************************************************************)
EXTENDS SymbolTable

RECURSIVE ResolveFrom(_, _, _), occurs_check(_, _, _), unify(_, _, _)

(* seen are the variables on the way to t: none is followed twice.         *)
ResolveFrom(subst, t, seen) ==
    CASE t.k = "var" ->
            IF t.id \in DOMAIN subst /\ t.id \notin seen
            THEN ResolveFrom(subst, subst[t.id], seen \cup {t.id}) ELSE t
      [] t.k \in {"list", "ptr", "ref", "own"} ->
            Wrapped(t.k, ResolveFrom(subst, t.of, seen))
      [] t.k = "func" ->
            FuncType([j \in DOMAIN t.params |-> ResolveFrom(subst, t.params[j], seen)],
                     ResolveFrom(subst, t.ret, seen))
      [] OTHER -> t
resolve_type(subst, t) == ResolveFrom(subst, t, {})

occurs_check(subst, id, ty) ==
    LET t == resolve_type(subst, ty)
    IN  CASE t.k = "var" -> t.id = id
          [] t.k \in {"list", "ptr", "ref", "own"} -> occurs_check(subst, id, t.of)
          [] t.k = "func" -> \E u \in Range(t.params) \cup {t.ret} : occurs_check(subst, id, u)
          [] OTHER -> FALSE

Unified(subst, ty) == [ok |-> TRUE, subst |-> subst, ty |-> ty]
Mismatch(subst) == [ok |-> FALSE, subst |-> subst, ty |-> ErrorType]

unify_var(subst, id, ty) ==
    IF occurs_check(subst, id, ty) THEN Mismatch(subst)
    ELSE Unified((id :> ty) @@ subst, ty)

(* The parts of two types one after the other, up to the first mismatch.   *)
UnifyAll(subst, as, bs) ==
    LET Both(r, j) ==
            IF ~ r.ok THEN r
            ELSE LET q == unify(r.subst, as[j], bs[j])
                 IN  [ok |-> q.ok, subst |-> q.subst, tys |-> Append(r.tys, q.ty)]
    IN  FoldLeftDomain(Both, [ok |-> TRUE, subst |-> subst, tys |-> <<>>], as)

(* An error fits everything; a cref fits nothing, not even itself.         *)
unify(subst, t1, t2) ==
    LET a == resolve_type(subst, t1)
        b == resolve_type(subst, t2)
    IN  CASE ErrorType \in {a, b} -> Unified(subst, ErrorType)
          [] ErrorType \notin {a, b} /\ a.k = "var" ->
                IF a = b THEN Unified(subst, a) ELSE unify_var(subst, a.id, b)
          [] ErrorType \notin {a, b} /\ a.k # "var" /\ b.k = "var" ->
                unify_var(subst, b.id, a)
          [] a.k = b.k /\ a.k \in {"list", "ptr", "ref", "own"} ->
                LET r == unify(subst, a.of, b.of)
                IN  IF r.ok THEN Unified(r.subst, Wrapped(a.k, r.ty)) ELSE Mismatch(r.subst)
          [] a.k = b.k /\ a.k = "func" ->
                IF Len(a.params) # Len(b.params) THEN Mismatch(subst)
                ELSE LET r == UnifyAll(subst, Append(a.params, a.ret), Append(b.params, b.ret))
                     IN  IF r.ok THEN Unified(r.subst, FuncType(Front(r.tys), Last(r.tys)))
                                 ELSE Mismatch(r.subst)
          [] a.k = b.k /\ a.k \in {"struct", "trait"} ->
                IF a.name = b.name THEN Unified(subst, a) ELSE Mismatch(subst)
          [] a.k = b.k /\ a.k \in {"int", "bool", "str", "void"} -> Unified(subst, a)
          [] OTHER -> Mismatch(subst)
==============================================================================
