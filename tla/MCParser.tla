----------------------------- MODULE MCParser -----------------------------
(***************************************************************************)
(* Programs that use every rule, and what one wrong token makes of them.   *)
(***************************************************************************)
EXTENDS Parser, Grammar

MCPrograms ==
    { <<"struct", "ident", "{", "let", "ident", ":", "own", "<", "prim", ">", "=", "lit",
        ";", "}", "let", "ident", "=", "lit", ";">>,
      <<"trait", "ident", "{", "decl", "ident", "(", ")", ";", "}",
        "impl", "ident", "for", "ident", "{", "fn", "ident", "(", "self", ":", "ident",
        ")", "{", "}", "}">>,
      <<"fn", "ident", "(", "ident", ":", "(", "prim", ",", "ident", ")", "->", "prim", ",",
        ")", "->", "prim", "{", "return", "lit", ";", "}">>,
      <<"fn", "ident", "(", ")", "{", "if", "lit", "{", "}", "elif", "lit", "{", "}",
        "else", "{", "}", "return", ";", "}">>,
      <<"fn", "ident", "(", ")", "{", "while", "lit", "{", "{", "break", ";", "}", "}",
        "ident", "=", "lit", ";", "}">>,
      <<"let", "ident", "=", "(", "lit", "or", "ident", "and", "ident", ")", "==", "lit",
        "<", "lit", "-", "lit", "/", "lit", ";">>,
      <<"let", "ident", "=", "*", "ident", ".", "ident", "[", "!", "self", "]", "(", "&",
        "ident", ",", ")", ";">>,
      <<"let", "ident", "=", "[", "fn", "(", ")", "->", "prim", "{", "ident", "[", "lit",
        "]", "=", "lit", ";", "}", ",", "lit", "]", ";">> }

(* Every edit of one token: left out, cut off behind, replaced, inserted.  *)
Edits(s) ==
    LET Without(i) == SubSeq(s, 1, i - 1) \o SubSeq(s, i + 1, Len(s))
        With(i, k) == SubSeq(s, 1, i - 1) \o <<k>> \o SubSeq(s, i + 1, Len(s))
        Before(i, k) == SubSeq(s, 1, i - 1) \o <<k>> \o SubSeq(s, i, Len(s))
    IN  {s} \cup {Without(i) : i \in DOMAIN s} \cup {SubSeq(s, 1, i) : i \in DOMAIN s}
        \cup {With(i, k) : i \in DOMAIN s, k \in Kinds}
        \cup {Before(i, k) : i \in DOMAIN s, k \in Kinds}

MCInputs ==
    UNION {Edits(s) : s \in MCPrograms} \cup {<<>>} \cup (Kinds \X Kinds)

(* The parser finds no error exactly in the token sequences that the       *)
(* grammar derives: no rule lets a token pass that does not belong there,  *)
(* and recovery makes no program of what is none.                          *)
AcceptsTheGrammar == outcome = "done" => (reported <=> ~ Derives(tokens))
=============================================================================
