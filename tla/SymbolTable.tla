----------------------------- MODULE SymbolTable -----------------------------
(***************************************************************************)
(* What the semantic passes share: the types, the scopes of the symbol     *)
(* table and the reports (frontend/ast/type.h, sema_checker/symbol.cpp,    *)
(* symbol_table.cpp, scope.h, sema_ctx.h under src/src).                   *)
(*                                                                         *)
(* A place in a program is the path to it from the top: the item, the      *)
(* method of an impl, the statement, the branch, the statement in it; 0    *)
(* leads into the body of a lambda, and -j to the parameter j.  A context  *)
(* c holds what a pass reads and writes:                                   *)
(*   scopes, subst and fresh  the SemaCtxt                                 *)
(*   errors                   the reports: <<pass, place, what, name>>     *)
(*   uses                     what each name resolved to:                  *)
(*                            <<pass, place, name, place of declaration>>  *)
(*   dead                     the statements warned about as unreachable   *)
(*   ret                      current_return_type                          *)
(***************************************************************************)
EXTENDS Integers, Sequences, SequencesExt

Basic(k) == [k |-> k]           \* int, bool, str, void, and the two below
NoType == Basic("none")         \* an optional type without a value
ErrorType == Basic("error")
IntType == Basic("int")
Wrapped(k, t) == [k |-> k, of |-> t]       \* ptr, ref, cref, own and list
FuncType(params, ret) == [k |-> "func", params |-> params, ret |-> ret]
StructType(name) == [k |-> "struct", name |-> name]
TypeVar(id) == [k |-> "var", id |-> id]

Borrows == {"ref", "cref", "own"}

Unknown == -1                   \* known_list_len without a value

Variable(ty, place, len) ==
    [kind |-> "variable", ty |-> ty, decl |-> place, len |-> len]
Parameter(ty, place) == [kind |-> "parameter", ty |-> ty, decl |-> place]
Function(f, place) ==
    [kind |-> "function", ty |-> NoType, decl |-> place,
     sig |-> FuncType([j \in DOMAIN f.params |-> f.params[j].ty], f.ret)]
Struct(fields, place) ==
    [kind |-> "struct", ty |-> NoType, decl |-> place, fields |-> fields]
Trait(methods, place) ==
    [kind |-> "trait", ty |-> NoType, decl |-> place, methods |-> methods]

is_callable(sym) == sym.ty.k = "func" \/ sym.kind \in {"function", "struct"}

Scope(kind) == [kind |-> kind, symbols |-> <<>>]

enter_scope(c, kind) == [c EXCEPT !.scopes = Append(@, Scope(kind))]
exit_scope(c) == [c EXCEPT !.scopes = Front(@)]

IsDeclared(c, name) == name \in DOMAIN Last(c.scopes).symbols

(* A symbol that is there already stays.                                   *)
declare(c, name, sym) ==
    [c EXCEPT !.scopes[Len(c.scopes)].symbols = @ @@ (name :> sym)]

Holding(c, name) == {i \in DOMAIN c.scopes : name \in DOMAIN c.scopes[i].symbols}
Resolves(c, name) == Holding(c, name) # {}

(* Mutant: the outermost scope is asked first.                             *)
ScopeOfOutermost(c, name) == Min(Holding(c, name))
ScopeOf(c, name) == Max(Holding(c, name))
resolve(c, name) == c.scopes[ScopeOf(c, name)].symbols[name]

IsGlobal(c, name) == name \in DOMAIN c.scopes[1].symbols
resolve_global(c, name) == c.scopes[1].symbols[name]

nearest_of_kind(c, kind) == \E i \in DOMAIN c.scopes : c.scopes[i].kind = kind

clear_known_list_len(c, name) ==
    IF Resolves(c, name) /\ resolve(c, name).kind = "variable"
    THEN [c EXCEPT !.scopes[ScopeOf(c, name)].symbols[name].len = Unknown]
    ELSE c

(* The built-in functions, and the methods of each kind of value: the      *)
(* types of the arguments, what they return, and whether they mutate the   *)
(* receiver.                                                               *)
Standalone == {"print", "println"}

Method(args, ret, mutating) == [args |-> args, ret |-> ret, mutating |-> mutating]
ListMethods(elem) ==
    "len" :> Method(<<>>, IntType, FALSE) @@
    "push" :> Method(<<elem>>, Basic("void"), TRUE) @@
    "pop" :> Method(<<>>, elem, TRUE) @@
    "clone" :> Method(<<>>, Wrapped("list", elem), FALSE)
StrMethods ==
    "len" :> Method(<<>>, IntType, FALSE) @@
    "clone" :> Method(<<>>, Basic("str"), FALSE)
UniversalMethods(self) == "clone" :> Method(<<>>, self, FALSE)

Report(c, place, what, name) ==
    [c EXCEPT !.errors = @ \cup {<<c.pass, place, what, name>>}]
ReportIf(condition, c, place, what, name) ==
    IF condition THEN Report(c, place, what, name) ELSE c

Use(c, place, name) ==
    [c EXCEPT !.uses = @ \cup {<<c.pass, place, name, resolve(c, name).decl>>}]
==============================================================================
