------------------------------ MODULE Resolver ------------------------------
(***************************************************************************)
(* The first semantic pass: what the items of a program declare in the     *)
(* global scope (sema_checker/resolver.cpp 1-267; the search for structs   *)
(* that contain themselves is StructCycles).  Functions, globals, structs, *)
(* traits and the methods of impls share one table of names; a method m of *)
(* a struct S is declared under S_m.                                       *)
(***************************************************************************)
EXTENDS SymbolTable

mangled(struct, method) == struct \o "_" \o method

HasDuplicate(entries) ==
    \E i, j \in DOMAIN entries : i # j /\ entries[i].name = entries[j].name

declare_top_level(c, place, name, sym) ==
    declare(ReportIf(IsDeclared(c, name), c, place, "defined twice", name), name, sym)

declare_struct(c, p, s) ==
    declare_top_level(ReportIf(HasDuplicate(s.fields), c, p, "duplicate field", s.name),
                      p, s.name, Struct(s.fields, p))

declare_trait(c, p, t) ==
    LET Params(d, j) == ReportIf(HasDuplicate(t.methods[j].params), d, p,
                                 "duplicate parameter", t.methods[j].name)
        reported == FoldLeftDomain(Params, ReportIf(HasDuplicate(t.methods), c, p,
                                                    "duplicate method", t.name), t.methods)
    IN  declare_top_level(reported, p, t.name,
                          Trait([j \in DOMAIN t.methods |-> t.methods[j].name], p))

declare_function(c, p, f) ==
    declare_top_level(ReportIf(HasDuplicate(f.params), c, p, "duplicate parameter", f.name),
                      p, f.name, Function(f, p))

(* The first parameter is self, of the type of the impl or a borrow of it. *)
HasSelf(struct, f) ==
    /\ f.params # <<>>
    /\ f.params[1].name = "self"
    /\ LET ty == f.params[1].ty
       IN  (IF ty.k \in Borrows THEN ty.of ELSE ty) = StructType(struct)

declare_method(c, p, struct, f) ==
    declare_top_level(ReportIf(~ HasSelf(struct, f), c, p, "self", f.name),
                      p, mangled(struct, f.name), Function(f, p))

validate_impl_target(c, p, impl) ==
    LET d == ReportIf(~ IsGlobal(c, impl.struct), c, p, "undeclared", impl.struct)
    IN  ReportIf(impl.trait # "" /\ ~ IsGlobal(c, impl.trait), d, p, "undeclared", impl.trait)

(* Only what was declared before the impl is found.                        *)
declare_impl(c, p, impl) ==
    LET Declare(d, j) == declare_method(d, p \o <<j>>, impl.struct, impl.methods[j])
    IN  validate_impl_target(FoldLeftDomain(Declare, c, impl.methods), p, impl)

declare_global_var(c, p, g) ==
    declare_top_level(c, p, g.name, Variable(g.ty, p, Unknown))

(* A function without a body (extern) is not declared.                     *)
declare_item(c, p, item) ==
    CASE item.kind = "struct" -> declare_struct(c, p, item)
      [] item.kind = "trait"  -> declare_trait(c, p, item)
      [] item.kind = "impl"   -> declare_impl(c, p, item)
      [] item.kind = "fn"     -> declare_function(c, p, item)
      [] item.kind = "global" -> declare_global_var(c, p, item)
      [] OTHER -> c
==============================================================================
