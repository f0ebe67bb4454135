------------------------------ MODULE MCPasses ------------------------------
(***************************************************************************)
(* The programs of the runs of SemaPasses, a family for each concern.      *)
(***************************************************************************)
EXTENDS SemaPasses

None == [op |-> "none"]
Num(v) == [op |-> "lit", ty |-> IntType, value |-> v]
True == [op |-> "lit", ty |-> Basic("bool"), value |-> 1]
Str == [op |-> "lit", ty |-> Basic("str"), value |-> 0]
N(name) == [op |-> "name", name |-> name]
Call(callee, args) == [op |-> "call", callee |-> callee, args |-> args]
Dot(object, field) == [op |-> "member", object |-> object, field |-> field]
Elem(object, index) == [op |-> "index", object |-> object, index |-> index]
ListOfThese(elements) == [op |-> "list", elements |-> elements]
Un(op, e) == [op |-> op, e |-> e]
Bin(op, lhs, rhs) == [op |-> op, lhs |-> lhs, rhs |-> rhs]
SetTo(target, value) == [op |-> "assign", target |-> target, value |-> value]
Lam(params, ret, body) == [op |-> "lambda", params |-> params, ret |-> ret, body |-> body]

LetOf(name, ty, init) == [op |-> "let", name |-> name, ty |-> ty, init |-> init]
Do(e) == [op |-> "expr", e |-> e]
Ret(e) == [op |-> "return", e |-> e]
JumpBy(op) == [op |-> op]
Block(body) == [op |-> "block", body |-> body]
Loop(body) == [op |-> "loop", cond |-> True, body |-> body]
If(body) == [op |-> "if", arms |-> <<[cond |-> True, body |-> body]>>, else |-> <<>>]
IfElif(b1, b2, b3) ==
    [op |-> "if", arms |-> <<[cond |-> True, body |-> b1], [cond |-> True, body |-> b2]>>,
     else |-> b3]
IfElse(b1, b2) == [op |-> "if", arms |-> <<[cond |-> True, body |-> b1]>>, else |-> b2]

Param(name, ty) == [name |-> name, ty |-> ty]
Field(name, ty, init) == [name |-> name, ty |-> ty, init |-> init]
Fn(name, params, ret, body) ==
    [kind |-> "fn", name |-> name, params |-> params, ret |-> ret, body |-> body]
MethodDef(name, params, ret, body) ==
    [name |-> name, params |-> params, ret |-> ret, body |-> body]
StructOf(name, fs) == [kind |-> "struct", name |-> name, fields |-> fs]
Global(name, ty, init) == [kind |-> "global", name |-> name, ty |-> ty, init |-> init]
Signature(name, params) == [name |-> name, params |-> params]
TraitOf(name, methods) == [kind |-> "trait", name |-> name, methods |-> methods]
Impl(struct, trait, methods) ==
    [kind |-> "impl", struct |-> struct, trait |-> trait, methods |-> methods]

Void == Basic("void")
Bool == Basic("bool")

(* The bodies of at most n statements, made of leaves and of statements    *)
(* around other bodies.                                                    *)
Around(kinds, body) ==
    {CASE k = "block" -> Block(body)
       [] k = "loop" -> Loop(body)
       [] k = "if" -> If(body)
       [] k = "elif" -> IfElif(body, <<Ret(Num(1))>>, body)
       [] k = "lambda" -> Do(Lam(<<Param("x", IntType)>>, Void, body)) : k \in kinds \ {"else"}}
Bodies(leaves, kinds, n) ==
    LET b[k \in 0..n] ==
            IF k = 0 THEN {<<>>}
            ELSE {<<s>> \o rest : s \in leaves, rest \in b[k - 1]} \cup
                 UNION {{<<s>> \o rest : s \in UNION {Around(kinds, body) : body \in b[j]},
                                         rest \in b[k - 1 - j]} : j \in 1..(k - 1)} \cup
                 IF "else" \notin kinds THEN {}
                 ELSE UNION {UNION {{<<IfElse(b1, b2)>> \o rest :
                                      b1 \in b[i], b2 \in b[j], rest \in b[k - 1 - i - j]}
                                    : j \in 1..(k - 1 - i)} : i \in 1..(k - 2)}
    IN  UNION {b[k] : k \in 0..n}

(* Names: what is declared where, and what each use means.                 *)
Names ==
    {<<Fn("main", <<>>, Void, body)>> : body \in
        Bodies({LetOf("x", NoType, Num(1)), LetOf("y", NoType, N("x")),
                LetOf("x", NoType, N("y")), LetOf("x", NoType, Call(N("print"), <<Str>>)),
                Do(N("x"))},
               {"block", "loop", "else", "lambda"}, 4)}

(* Jumps and returns.                                                      *)
Flows ==
    {<<Fn("f", <<>>, IntType, body)>> : body \in
        Bodies({Ret(Num(1)), JumpBy("break"), JumpBy("continue"), Do(Num(1))},
               {"block", "loop", "if", "elif", "else"}, 4)}
    \cup
    {<<Fn("f", <<>>, Void, body)>> : body \in
        Bodies({Ret(None), JumpBy("break"), Do(Num(1))}, {"loop", "lambda"}, 3)}

(* Lists of known length.                                                  *)
A == N("a")
Lists ==
    {<<Fn("main", <<>>, Void, <<LetOf("a", NoType, ListOfThese(<<Num(1), Num(2)>>))>> \o body)>>
        : body \in
        Bodies({Do(Elem(A, Num(1))), Do(Elem(A, Num(2))), Do(Elem(A, Un("neg", Num(1)))),
                Do(Call(Dot(A, "push"), <<Num(1)>>)), Do(Call(Dot(A, "pop"), <<>>)),
                LetOf("a", NoType, ListOfThese(<<Num(1)>>)),
                Do(SetTo(A, ListOfThese(<<Num(1)>>)))},
               {"block", "loop", "if"}, 3)}

(* Types: a declaration, and a use of what it declares.                    *)
StructS ==
    StructOf("S", <<Field("a", IntType, None), Field("b", Basic("str"), Str)>>)
S == StructType("S")
ImplS ==
    Impl("S", "", <<MethodDef("m", <<Param("self", Wrapped("ref", S)), Param("n", IntType)>>,
                            IntType, <<Ret(Bin("arith", Dot(N("self"), "a"), N("n")))>>)>>)
Inits ==
    { None, Num(1), True, Str, ListOfThese(<<>>), ListOfThese(<<ListOfThese(<<>>), ListOfThese(<<Num(1)>>)>>),
      ListOfThese(<<Num(1), True>>), ListOfThese(<<Num(1), Num(2)>>),
      N("f"), Call(N("f"), <<Num(1)>>), Call(N("f"), <<True>>), Call(N("f"), <<>>),
      Dot(ListOfThese(<<>>), "push"), Call(N("S"), <<Num(1)>>), Call(N("S"), <<Num(1), Str>>), Call(N("S"), <<Str>>),
      N("g"), N("t"), N("r"), N("p"), Un("addrof", N("t")), Call(N("print"), <<Str>>),
      Lam(<<Param("n", IntType)>>, IntType, <<Ret(N("n"))>>) }
Annotations == {NoType, IntType, Bool, Wrapped("list", IntType), Wrapped("ref", S),
                Wrapped("ptr", IntType), S}
X == N("x")
Results ==
    { X, Bin("arith", X, Num(1)), Bin("arith", Num(1), X), Bin("compare", X, Num(1)),
      Un("neg", X), Un("not", X), Un("deref", X), Un("deref", Un("addrof", X)),
      Call(X, <<Num(1)>>), Call(X, <<True>>), Call(N("f"), <<X>>),
      Elem(X, Num(0)), Elem(Num(0), X), Elem(ListOfThese(<<Num(1), Num(2)>>), X),
      Dot(X, "a"), Dot(X, "c"), Call(Dot(X, "m"), <<Num(1)>>), Call(Dot(X, "m"), <<Str>>),
      Call(Dot(X, "m"), <<>>), Call(Dot(X, "len"), <<>>), Call(Dot(X, "push"), <<Num(1)>>),
      Call(Dot(X, "push"), <<True>>), Call(Dot(X, "pop"), <<>>), Call(Dot(X, "clone"), <<>>),
      Bin("arith", Elem(X, Num(0)), Num(1)), Bin("arith", Call(Dot(X, "clone"), <<>>), Num(1)),
      Bin("arith", Dot(X, "a"), Num(1)), SetTo(X, Num(1)), SetTo(X, ListOfThese(<<>>)),
      SetTo(Dot(X, "a"), True), ListOfThese(<<X, Num(1)>>) }
Types ==
    {<<StructS, ImplS, Fn("f", <<Param("n", IntType)>>, IntType, <<Ret(N("n"))>>),
       Global("g", NoType, Num(1)), Global("t", IntType, Num(1)),
       Fn("h", <<Param("r", Wrapped("ref", S)), Param("p", Wrapped("ptr", IntType))>>, ret,
          <<LetOf("x", ty, e)>> \o last)>> :
        e \in Inits, ty \in Annotations,
        ret \in {IntType, Bool},
        last \in {<<Ret(u)>> : u \in Results}
                 \cup {<<Loop(<<Do(SetTo(X, u))>>), Ret(Num(1))>> : u \in {Num(1), Str}}
                 \cup {<<If(<<Ret(X)>>), IfElse(<<Ret(X)>>, <<Ret(Num(1))>>)>>}}

(* The order of items, and names that meet.                                *)
ItemKinds ==
    { Fn("f", <<>>, Void, <<>>), Fn("S_m", <<Param("self", S)>>, Void, <<Do(N("g"))>>),
      Fn("f", <<Param("n", IntType), Param("n", IntType)>>, Void, <<Do(Call(N("f"), <<>>))>>),
      Global("g", IntType, Num(1)), Global("f", Wrapped("own", Wrapped("ref", IntType)), Num(1)),
      Global("g", Wrapped("ref", S), Call(N("S"), <<Num(1)>>)),
      StructOf("S", <<Field("a", IntType, Num(1))>>),
      StructOf("S", <<Field("a", IntType, N("g")), Field("a", IntType, None)>>),
      TraitOf("T", <<Signature("m", <<Param("self", S)>>)>>),
      TraitOf("T", <<Signature("m", <<>>), Signature("m", <<Param("n", S), Param("n", S)>>)>>),
      Impl("S", "", <<MethodDef("m", <<Param("self", S)>>, Void, <<Do(N("self"))>>)>>),
      Impl("S", "T", <<MethodDef("m", <<Param("self", Wrapped("cref", S))>>, Void, <<>>)>>),
      Impl("S", "T", <<MethodDef("n", <<>>, Void, <<Ret(None)>>)>>) }
Orders ==
    {t \in UNION {[1..k -> ItemKinds] : k \in 1..3} : \A i, j \in DOMAIN t : t[i] = t[j] => i = j}

(* Structs that contain each other, behind pointers, lists and crefs.      *)
Layouts(names, wraps) ==
    {<<StructOf("A", fA), StructOf("B", fB), StructOf("C", fC)>> : fA, fB, fC \in
        {[j \in 1..Len(t) |-> Field(ToString(j), t[j], None)] :
            t \in UNION {[1..k -> {Wrapped(w, StructType(n)) : w \in wraps, n \in names}] :
                            k \in 0..2}}}
Graphs == Layouts({"A", "B", "C", "Undeclared"}, {"own"}) \cup
          {l \in Layouts({"A", "B"}, {"list", "cref"}) : Len(l[3].fields) <= 1}

MCProgramsOfAllKinds == Names \cup Flows \cup Lists \cup Types \cup Orders \cup Graphs
=============================================================================
