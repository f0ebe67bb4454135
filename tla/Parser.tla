------------------------------- MODULE Parser -------------------------------
(***************************************************************************)
(* The recursive descent parser, src/src/frontend/parser/parser.cpp, and   *)
(* its recovery from errors.  Each parsing function is the sequence of     *)
(* what it does to the token stream; what it has still to do, and what its *)
(* callers have, is the stack `todo'.  A function that returns nullopt     *)
(* makes all its callers return nullopt, up to the loop of parse_block or  *)
(* of parse_program, which calls synchronize.                              *)
(*                                                                         *)
(* A token is its kind.  Kinds the parser never tells apart share a name:  *)
(* "lit" for literals, "prim" for int ... void, "own" for the five type    *)
(* constructors, "break" for continue, "<" and ">" for the comparisons,    *)
(* "==" for the equalities, "++" for "--".  "long" is a number literal     *)
(* whose value is out of range.  "other" is a token that no rule mentions. *)
(***************************************************************************)
EXTENDS Integers, Sequences

CONSTANTS
    Inputs,     \* the token sequences to parse
    MaxDepth    \* how many steps may wait on the stack of the machine

Kinds == {"fn", "let", "struct", "trait", "impl", "decl", "for", "if", "elif",
          "else", "while", "return", "break", "ident", "self", "lit", "long", "prim",
          "own", "(", ")", "[", "]", "{", "}", ",", ";", ":", ".", "=", "->",
          "or", "and", "==", "<", ">", "+", "-", "*", "/", "!", "&", "++", "other"}

EOF == "end of file"

ASSUME InputsAssumption == Inputs \subseteq Seq(Kinds)
ASSUME DepthAssumption == MaxDepth \in Nat

VARIABLES
    tokens,     \* what the lexer delivers
    pos,        \* the index of current_token; behind the end when it is nullopt
    todo,       \* the steps still to be done, the next one first
    place,      \* may the expression parsed last be assigned to?
    reported,   \* has an error been emitted?
    outcome     \* "parsing", "done", or "crashed"

vars == <<tokens, pos, todo, place, reported, outcome>>

current == IF pos <= Len(tokens) THEN tokens[pos] ELSE EOF
is_at_end == pos > Len(tokens)
check_any(kinds) == current \in kinds

(* current_token->kind without a test: at the end of the file the read of  *)
(* an empty optional, where the kind of the last token is still stored.    *)
UncheckedKind ==
    IF is_at_end /\ tokens # <<>> THEN tokens[Len(tokens)] ELSE current

----------------------------------------------------------------------------
(* The steps.                                                              *)
Act(op, kinds, then) == [op |-> op, kinds |-> kinds, then |-> then]
Expect(k) == Act("expect", {k}, <<>>)       \* consume(k), its result unused
Require(k) == Act("require", {k}, <<>>)     \* consume(k), or nullopt
Advance == Act("advance", {}, <<>>)
Call(f) == Act("call", {f}, <<>>)
If(kinds, then) == Act("if", kinds, then)
Unless(k, then) == Act("unless", {k}, then)
While(kinds, then) == Act("while", kinds, then)
Until(k, then) == Act("until", {k}, then)   \* ... and not at the end
List(k, then) == Act("list", {k}, then)     \* separated by commas, up to k
Comma(k, then) == Act("comma", {k}, then)   \* what follows an element
Operand == Act("operand", {}, <<>>)         \* can_start_expr(), or an error
Shape(p) == Act("shape", {p}, <<>>)         \* what the expression parsed is
Assign == Act("assign", {}, <<>>)
Target(p) == Act("target", {p}, <<>>)
Unexpected == Act("unexpected", {}, <<>>)
Crash == Act("crash", {}, <<>>)
Items == Act("items", {}, <<>>)             \* the loop of parse_program
Stmts == Act("stmts", {}, <<>>)             \* the loop of parse_block

can_start_expr ==
    check_any({"lit", "long", "ident", "self", "(", "[", "!", "-", "&", "*", "fn"})

----------------------------------------------------------------------------
(* The parsing functions.                                                  *)
parse_item(k) ==
    CASE k = "decl"   -> <<Call("func_decl")>>
      [] k = "fn"     -> <<Call("function")>>
      [] k = "trait"  -> <<Call("trait")>>
      [] k = "impl"   -> <<Call("impl")>>
      [] k = "struct" -> <<Call("struct")>>
      [] k = "let"    -> <<Call("var_def")>>
      [] OTHER        -> <<Unexpected>>

parse_if_stmt ==
    <<Expect("if"), Call("expr"), Call("block"),
      While({"elif"}, <<Advance, Call("expr"), Call("block")>>),
      If({"else"}, <<Advance, Call("block")>>)>>
parse_loop_stmt == <<Expect("while"), Call("expr"), Call("block")>>
parse_break_stmt == <<Expect("break"), Expect(";")>>
parse_return_stmt == <<Expect("return"), Unless(";", <<Call("expr")>>), Expect(";")>>

(* parse_var_def_stmt, and parse_global_var, which does the same.          *)
parse_var_def ==
    <<Expect("let"), Require("ident"), If({":"}, <<Advance, Call("type")>>),
      If({"="}, <<Advance, Call("expr")>>), Expect(";")>>

parse_stmt(k) ==
    CASE k = EOF      -> <<Unexpected>>
      [] k = "if"     -> parse_if_stmt
      [] k = "while"  -> parse_loop_stmt
      [] k = "return" -> parse_return_stmt
      [] k = "break"  -> parse_break_stmt
      [] k = "{"      -> <<Call("block")>>
      [] k = "let"    -> <<Call("var_def")>>
      [] OTHER        -> <<Call("expr"), Expect(";")>>

parse_block == <<Expect("{"), Stmts, Expect("}")>>

----------------------------------------------------------------------------
(* Each level of precedence is a chain of the next one; what follows the   *)
(* first operand, level by level.  or and and take one operator only.      *)
Binary(level) == <<Advance>> \o level \o <<Shape(FALSE)>>
parse_factor == <<Call("unary"), While({"*", "/"}, Binary(<<Call("unary")>>))>>
parse_term == Append(parse_factor, While({"+", "-"}, Binary(parse_factor)))
parse_comparison == Append(parse_term, While({"<", ">"}, Binary(parse_term)))
parse_equality == Append(parse_comparison, While({"=="}, Binary(parse_comparison)))
parse_logical_and == Append(parse_equality, If({"and"}, Binary(parse_equality)))
parse_logical_or == Append(parse_logical_and, If({"or"}, Binary(parse_logical_and)))
(* Mutant: whatever is left of "=" may be assigned to.                     *)
parse_assignmentAnything ==
    Append(parse_logical_or, If({"="}, <<Advance, Call("expr"), Shape(FALSE)>>))
parse_assignment == Append(parse_logical_or, Assign)

(* Mutant: a prefix operator is looked at, but not consumed.               *)
parse_unaryNotConsumed(k) ==
    IF k \in {"*", "&", "!", "-"} THEN <<Call("unary"), Shape(FALSE)>> ELSE <<Call("postfix")>>
parse_unary(k) ==
    CASE k \in {"*", "&"} -> <<Advance, Operand, Call("unary"), Shape(FALSE)>>
      [] k \in {"!", "-"} -> <<Advance, Call("unary"), Shape(FALSE)>>
      [] OTHER            -> <<Call("postfix")>>

parse_postfix == <<Call("primary"), While({"(", ".", "[", "++"}, <<Call("suffix")>>)>>

finish_call ==
    <<Expect("("), List(")", <<Call("expr")>>), Expect(")"), Shape(FALSE)>>

(* One turn of parse_postfix's loop.  For "++" and "--" it reads the span  *)
(* of the operand through the pointer it has moved into make_unary.        *)
suffix(k) ==
    CASE k = "("  -> finish_call
      [] k = "."  -> <<Advance, Require("ident"), Shape(TRUE)>>
      [] k = "["  -> <<Advance, Operand, Call("expr"), Expect("]"), Shape(TRUE)>>
      [] k = "++" -> <<Advance, Crash>>

parse_lambda ==
    <<Advance, Expect("("), List(")", <<Call("parameter")>>), Expect(")"),
      If({"->"}, <<Advance, Call("type")>>), Call("block"), Shape(FALSE)>>

(* std::stoll and std::stod throw for a value out of range, and nobody     *)
(* catches that.                                                           *)
parse_primary(k) ==
    CASE k = "lit" -> <<Advance, Shape(FALSE)>>
      [] k = "long" -> <<Crash>>
      [] k \in {"ident", "self"} -> <<Advance, Shape(TRUE)>>
      [] k = "(" -> <<Advance, Call("expr"), Expect(")")>>
      [] k = "[" -> <<Advance, List("]", <<Call("expr")>>), Expect("]"), Shape(FALSE)>>
      [] k = "fn" -> parse_lambda
      [] OTHER -> <<Unexpected>>

----------------------------------------------------------------------------
parse_type(k) ==
    CASE k \in {"prim", "ident"} -> <<Advance>>
      [] k = "own" -> <<Advance, Expect("<"), Call("type"), Expect(">")>>
      [] k = "(" ->
            <<Advance,
              Unless(")", <<Call("type"), While({","}, <<Advance, Call("type")>>)>>),
              Expect(")"), Expect("->"), Call("type")>>
      [] OTHER -> <<Unexpected>>

parse_parameter(k) ==
    <<IF k = "self" THEN Advance ELSE Require("ident"), Expect(":"), Call("type")>>
parse_header ==
    <<Require("ident"), Expect("("), List(")", <<Call("parameter")>>), Expect(")"),
      If({"->"}, <<Advance, Call("type")>>)>>
parse_func_decl == <<Expect("decl"), Call("header"), Expect(";")>>
parse_function == <<Expect("fn"), Call("header"), Call("block")>>
parse_trait ==
    <<Expect("trait"), Require("ident"), Expect("{"),
      Until("}", <<Call("func_decl")>>), Expect("}")>>
parse_impl ==
    <<Expect("impl"), Require("ident"), If({"for"}, <<Advance, Require("ident")>>),
      Expect("{"), Until("}", <<Call("function")>>), Expect("}")>>
parse_field ==
    <<Expect("let"), Require("ident"), Expect(":"), Call("type"),
      If({"="}, <<Advance, Call("expr")>>), Expect(";")>>
parse_struct ==
    <<Expect("struct"), Require("ident"), Expect("{"),
      Until("}", <<Call("field")>>), Expect("}")>>

Body(f) ==
    CASE f = "item"        -> parse_item(current)
      [] f = "stmt"        -> parse_stmt(current)
      [] f = "block"       -> parse_block
      [] f = "var_def"     -> parse_var_def
      [] f = "expr"        -> parse_assignment
      [] f = "unary"       -> parse_unary(current)
      [] f = "postfix"     -> parse_postfix
      [] f = "suffix"      -> suffix(current)
      [] f = "primary"     -> parse_primary(current)
      [] f = "type"        -> parse_type(UncheckedKind)
      [] f = "parameter"   -> parse_parameter(current)
      [] f = "header"      -> parse_header
      [] f = "func_decl"   -> parse_func_decl
      [] f = "function"    -> parse_function
      [] f = "trait"       -> parse_trait
      [] f = "impl"        -> parse_impl
      [] f = "field"       -> parse_field
      [] f = "struct"      -> parse_struct

----------------------------------------------------------------------------
Init ==
    /\ tokens \in Inputs
    /\ pos = 1
    /\ todo = <<Items>>
    /\ place = FALSE
    /\ reported = FALSE
    /\ outcome = "parsing"

Top == Head(todo)
Kind == CHOOSE k \in Top.kinds : TRUE       \* when there is one
Next_pos == IF is_at_end THEN pos ELSE pos + 1

(* Where synchronize stops: behind the first token at which a statement    *)
(* may begin or end.                                                       *)
sync_kinds == {";", "let", "fn", "struct", "if", "while", "return", "break", "}"}
(* Mutant: synchronize stops at the token instead of behind it.            *)
SyncPosAtToken ==
    LET stops == {i \in pos..Len(tokens) : tokens[i] \in sync_kinds}
    IN  IF stops = {} THEN Len(tokens) + 1 ELSE CHOOSE i \in stops : \A j \in stops : i <= j
SyncPos ==
    LET stops == {i \in pos..Len(tokens) : tokens[i] \in sync_kinds}
    IN  IF stops = {} THEN Len(tokens) + 1
        ELSE (CHOOSE i \in stops : \A j \in stops : i <= j) + 1

(* The callers return nullopt; the innermost loop that handles it.         *)
Handler ==
    LET loops == {i \in DOMAIN todo : todo[i].op \in {"items", "stmts"}}
    IN  CHOOSE i \in loops : \A j \in loops : i <= j

synchronize ==
    /\ reported' = TRUE
    /\ todo' = SubSeq(todo, Handler, Len(todo))
    /\ pos' = SyncPos
    /\ UNCHANGED <<tokens, place, outcome>>

Fails ==
    \/ Top.op = "require" /\ ~ check_any(Top.kinds)
    \/ Top.op = "operand" /\ ~ can_start_expr
    \/ Top.op = "target" /\ ~ Kind
    \/ Top.op = "unexpected"

Fail ==
    /\ outcome = "parsing" /\ Fails
    /\ synchronize

(* The end of the file in a block: an error, and nullopt.                  *)
Unclosed ==
    /\ outcome = "parsing" /\ Top.op = "stmts" /\ is_at_end
    /\ reported' = TRUE
    /\ todo' = LET outer == {i \in 2..Len(todo) : todo[i].op \in {"items", "stmts"}}
                   next == CHOOSE i \in outer : \A j \in outer : i <= j
               IN  SubSeq(todo, next, Len(todo))
    /\ UNCHANGED <<tokens, pos, place, outcome>>

(* consume and advance.                                                    *)
Consume ==
    /\ outcome = "parsing" /\ Top.op \in {"expect", "require", "advance"}
    /\ ~ Fails
    /\ LET matches == Top.op = "advance" \/ check_any(Top.kinds)
       IN  /\ pos' = IF matches THEN Next_pos ELSE pos
           /\ reported' = (reported \/ ~ matches)
    /\ todo' = Tail(todo)
    /\ UNCHANGED <<tokens, place, outcome>>

(* The loops and branches, before the next token is touched.               *)
Expansion ==
    CASE Top.op = "call"   -> Body(Kind)
      [] Top.op = "if"     -> IF check_any(Top.kinds) THEN Top.then ELSE <<>>
      [] Top.op = "unless" -> IF check_any(Top.kinds) THEN <<>> ELSE Top.then
      [] Top.op = "while"  -> IF check_any(Top.kinds) THEN Append(Top.then, Top) ELSE <<>>
      [] Top.op = "until"  -> IF check_any(Top.kinds) \/ is_at_end THEN <<>>
                              ELSE Append(Top.then, Top)
      [] Top.op = "list"   -> IF check_any(Top.kinds) THEN <<>>
                              ELSE Append(Top.then, Comma(Kind, Top.then))
      [] Top.op = "comma"  -> IF check_any({","}) THEN <<Advance, List(Kind, Top.then)>>
                              ELSE <<>>
      [] Top.op = "assign" -> IF check_any({"="})
                              THEN <<Advance, Call("expr"), Target(place), Shape(FALSE)>>
                              ELSE <<>>
      [] Top.op = "items"  -> <<Call("item"), Top>>
      [] Top.op = "stmts"  -> IF check_any({"}"}) THEN <<>> ELSE <<Call("stmt"), Top>>
      [] OTHER             -> <<>>      \* "operand", "shape", "target"

Expand ==
    /\ outcome = "parsing"
    /\ Top.op \in {"call", "if", "unless", "while", "until", "list", "comma",
                   "assign", "items", "stmts", "operand", "shape", "target"}
    /\ ~ Fails
    /\ Top.op \in {"items", "stmts"} => ~ is_at_end
    /\ todo' = Expansion \o Tail(todo)
    /\ place' = IF Top.op = "shape" THEN Kind ELSE place
    /\ outcome' = IF Len(todo) >= MaxDepth THEN "crashed" ELSE outcome
    /\ UNCHANGED <<tokens, pos, reported>>

Finish ==
    /\ outcome = "parsing"
    /\ \/ Top.op = "items" /\ is_at_end /\ outcome' = "done"
       \/ Top.op = "crash" /\ outcome' = "crashed"
    /\ UNCHANGED <<tokens, pos, todo, place, reported>>

Next == Consume \/ Expand \/ Fail \/ Unclosed \/ Finish

(* parse_program is one call that runs by itself.                          *)
Spec == Init /\ [][Next]_vars /\ WF_vars(Next)

----------------------------------------------------------------------------
(* The parser crashes in three places only: at a number literal whose      *)
(* value is out of range; behind "++", where it reads the operand that it  *)
(* has moved away; and at the end of a file whose last token is a type     *)
(* constructor or a "(", where parse_type takes the token it finds in the  *)
(* empty optional for the next one, for ever.                              *)
CrashesKnown ==
    outcome = "crashed" =>
        IF is_at_end THEN tokens[Len(tokens)] \in {"own", "(", "++"}
        ELSE tokens[pos] = "long" \/ tokens[pos - 1] = "++"

(* Every loop makes progress, those that recover from an error too (lines  *)
(* 100-104: "Skip this token to avoid infinite loops").                    *)
ParsingEnds == <>(outcome # "parsing")
=============================================================================
