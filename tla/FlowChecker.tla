----------------------------- MODULE FlowChecker -----------------------------
(***************************************************************************)
(* The third semantic pass: whether a function with a result always        *)
(* returns, and which code cannot be reached (sema_checker/flow_checker.*  *)
(* under src/src/frontend).  The bodies of lambdas are not looked at.      *)
(***************************************************************************)
EXTENDS SymbolTable

(* What a statement does, and the places warned about in it.               *)
Verdict(term, dead) == [term |-> term, dead |-> dead]

is_terminal(term) == term \in {"returns", "diverges"}

AllReturn(terms) == terms = {"returns"}
AllDiverge(terms) == terms = {"diverges"}

(* A missing else is one that falls through.                               *)
(* Mutant: it is not counted.                                              *)
BranchTermsWritten(arms, else) == {v.term : v \in arms}
BranchTerms(arms, else) == {v.term : v \in arms \cup {else}}

RECURSIVE analyze_stmt(_, _)

(* The statements behind a terminal one are not analyzed.                  *)
analyze_block(p, stmts) ==
    LET Add(v, i) ==
            IF is_terminal(v.term) THEN v
            ELSE LET w == analyze_stmt(p \o <<i>>, stmts[i])
                 IN  Verdict(w.term, v.dead \cup w.dead \cup
                         IF is_terminal(w.term) /\ i < Len(stmts) THEN {p \o <<i + 1>>} ELSE {})
    IN  FoldLeftDomain(Add, Verdict("falls", {}), stmts)

analyze_if_stmt(p, s) ==
    LET arms == {analyze_block(p \o <<b>>, s.arms[b].body) : b \in DOMAIN s.arms}
        else == analyze_block(p \o <<Len(s.arms) + 1>>, s.else)
        terms == BranchTerms(arms, else)
    IN  Verdict(CASE AllReturn(terms) -> "returns"
                  [] AllDiverge(terms) -> "diverges"
                  [] OTHER -> "falls",
                UNION {v.dead : v \in arms \cup {else}})

analyze_stmt(p, s) ==
    CASE s.op = "return" -> Verdict("returns", {})
      [] s.op \in {"break", "continue"} -> Verdict("diverges", {})
      [] s.op = "if" -> analyze_if_stmt(p, s)
      [] s.op = "block" -> analyze_block(p \o <<1>>, s.body)
      [] s.op = "loop" ->
            LET body == analyze_block(p \o <<1>>, s.body)
            IN  Verdict(IF body.term = "returns" THEN "returns" ELSE "falls", body.dead)
      [] s.op \in {"let", "expr"} -> Verdict("falls", {})

check_function_returns(c, p, f) ==
    LET v == analyze_block(p, f.body)
        d == ReportIf(f.ret # Basic("void") /\ v.term # "returns", c, p, "no return", f.name)
    IN  [d EXCEPT !.dead = @ \cup v.dead]

check_flow(c, p, item) ==
    CASE item.kind = "fn" -> check_function_returns(c, p, item)
      [] item.kind = "impl" ->
            FoldLeftDomain(LAMBDA d, j : check_function_returns(d, p \o <<j>>, item.methods[j]),
                           c, item.methods)
      [] OTHER -> c
==============================================================================
