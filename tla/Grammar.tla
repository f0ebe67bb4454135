------------------------------ MODULE Grammar ------------------------------
(***************************************************************************)
(* The language as a grammar, beside the parser that is to accept it: the  *)
(* rules in the notation of EBNF, and the definition of what they derive.  *)
(* There is no grammar in the repository's documents; this one is what the *)
(* syntax tree of src/src/frontend/ast can express.                        *)
(***************************************************************************)
EXTENDS Integers, Sequences

T(k) == [op |-> "token", of |-> k]
R(name) == [op |-> "rule", of |-> name]
Seq_(es) == [op |-> "seq", of |-> es]       \* one after the other
Alt(es) == [op |-> "alt", of |-> es]        \* one of them
Star(e) == [op |-> "star", of |-> e]        \* any number of times
Opt(e) == Alt(<<e, Seq_(<<>>)>>)

Prefixed(k, e) == Opt(Seq_(<<T(k), e>>))
(* Elements with commas between them; the last comma may be left.          *)
Listed(e) == Opt(Seq_(<<e, Star(Seq_(<<T(","), e>>)), Opt(T(","))>>))
Chain(level, ops) == Seq_(<<R(level), Star(Seq_(<<Alt(ops), R(level)>>))>>)

Rule(name) ==
    CASE name = "program" ->
            Star(Alt(<<R("decl"), R("function"), R("let"),
                 Seq_(<<T("trait"), T("ident"), T("{"), Star(R("decl")), T("}")>>),
                 Seq_(<<T("impl"), T("ident"), Prefixed("for", T("ident")),
                        T("{"), Star(R("function")), T("}")>>),
                 Seq_(<<T("struct"), T("ident"), T("{"),
                        Star(Seq_(<<T("let"), T("ident"), T(":"), R("type"),
                                    Prefixed("=", R("expr")), T(";")>>)), T("}")>>)>>))
      [] name = "decl" -> Seq_(<<T("decl"), R("header"), T(";")>>)
      [] name = "function" -> Seq_(<<T("fn"), R("header"), R("block")>>)
      [] name = "header" -> Seq_(<<T("ident"), R("parameters")>>)
      [] name = "parameters" ->
            Seq_(<<T("("), Listed(Seq_(<<Alt(<<T("ident"), T("self")>>), T(":"), R("type")>>)),
                   T(")"), Prefixed("->", R("type"))>>)
      [] name = "let" ->
            Seq_(<<T("let"), T("ident"), Prefixed(":", R("type")),
                   Prefixed("=", R("expr")), T(";")>>)
      [] name = "block" -> Seq_(<<T("{"), Star(R("stmt")), T("}")>>)
      [] name = "stmt" ->
            Alt(<<R("let"), R("block"), Seq_(<<R("expr"), T(";")>>),
                  Seq_(<<T("break"), T(";")>>),
                  Seq_(<<T("return"), Opt(R("expr")), T(";")>>),
                  Seq_(<<T("while"), R("expr"), R("block")>>),
                  Seq_(<<T("if"), R("expr"), R("block"),
                         Star(Seq_(<<T("elif"), R("expr"), R("block")>>)),
                         Prefixed("else", R("block"))>>)>>)
      [] name = "type" ->
            Alt(<<T("prim"), T("ident"), Seq_(<<T("own"), T("<"), R("type"), T(">")>>),
                  Seq_(<<T("("), Opt(Seq_(<<R("type"), Star(Seq_(<<T(","), R("type")>>))>>)),
                         T(")"), T("->"), R("type")>>)>>)
      [] name = "expr" ->
            Alt(<<Seq_(<<R("target"), T("="), R("expr")>>),
                  Seq_(<<R("and"), Prefixed("or", R("and"))>>)>>)
      [] name = "and" -> Seq_(<<R("equality"), Prefixed("and", R("equality"))>>)
      [] name = "equality" -> Chain("comparison", <<T("==")>>)
      [] name = "comparison" -> Chain("term", <<T("<"), T(">")>>)
      [] name = "term" -> Chain("factor", <<T("+"), T("-")>>)
      [] name = "factor" -> Chain("unary", <<T("*"), T("/")>>)
      [] name = "unary" ->
            Seq_(<<Star(Alt(<<T("!"), T("-"), T("&"), T("*")>>)), R("primary"), Star(R("suffix"))>>)
      [] name = "suffix" ->
            Alt(<<Seq_(<<T("("), Listed(R("expr")), T(")")>>), R("element"), T("++")>>)
      [] name = "element" ->
            Alt(<<Seq_(<<T("."), T("ident")>>), Seq_(<<T("["), R("expr"), T("]")>>)>>)
      [] name = "name" -> Alt(<<T("ident"), T("self")>>)
      [] name = "primary" ->
            Alt(<<T("lit"), T("long"), R("name"), Seq_(<<T("("), R("expr"), T(")")>>),
                  Seq_(<<T("["), Listed(R("expr")), T("]")>>),
                  Seq_(<<T("fn"), R("parameters"), R("block")>>)>>)
      [] name = "target" ->       \* a variable, a field or an element
            Alt(<<R("name"), Seq_(<<T("("), R("target"), T(")")>>),
                  Seq_(<<R("primary"), Star(R("suffix")), R("element")>>)>>)

(* Where in s what e derives may end, when it begins at one of the places  *)
(* in from.                                                                *)
RECURSIVE Ends(_, _, _)
Ends(s, e, from) ==
    IF from = {} THEN {} ELSE
    CASE e.op = "token" -> {i + 1 : i \in {j \in from : j <= Len(s) /\ s[j] = e.of}}
      [] e.op = "rule" -> Ends(s, Rule(e.of), from)
      [] e.op = "alt" -> UNION {Ends(s, e.of[i], from) : i \in DOMAIN e.of}
      [] e.op = "seq" -> IF e.of = <<>> THEN from
                         ELSE Ends(s, Seq_(Tail(e.of)), Ends(s, Head(e.of), from))
      [] e.op = "star" -> LET once == Ends(s, e.of, from) \ from
                          IN  from \cup (IF once = {} THEN {} ELSE Ends(s, e, once))

Derives(s) == Len(s) + 1 \in Ends(s, R("program"), {1})
=============================================================================
