------------------------------- MODULE Tokens -------------------------------
(***************************************************************************)
(* The tokens of the lexer (crates/intent-lang-syntax/src/lexer.rs) and how  *)
(* strongly the operators among them bind.                                  *)
(*                                                                          *)
(* A token is its text, the comma and the braces spelled out; one text      *)
(* stands for all literals that are not numbers, and the head of a          *)
(* declaration, up to its brace, is one token.                              *)
(***************************************************************************)
EXTENDS Integers, Sequences, FiniteSets

Ident == {"a", "b", "given", "expect"}       \* the last two are no keywords
Number == {"1"}
Literal == Number \cup {"true"}
\* An axiom is read as a theorem is.
Header == {"intent", "safety", "theorem", "example"}
ClauseKind == {"require", "ensure", "invariant"}
Prefix == {"!", "-"}
Quantifier == {"forall", "exists"}
Infix == {"==>", "||", "&&", "==", "!=", "<", "<=", ">", ">=", "+", "-", "*", "/", "%"}
Token ==
    Ident \cup Literal \cup Header \cup ClauseKind \cup Prefix \cup Quantifier \cup Infix
    \cup {"modifies", "if", "then", "else", "reject", "after",
          "(", ")", "[", "]", "lbrace", "rbrace", "comma", ".", ":", "'"}

\* Past the last token the parser sees the end of the file.
Tok(t, n) == IF n \in DOMAIN t THEN t[n] ELSE "eof"

\* How strongly an infix operator binds, loosest first; equal ones associate to
\* the left, implication to the right.
Level(op) ==
    CASE op = "==>" -> 1
      [] op = "||" -> 2
      [] op = "&&" -> 3
      [] op \in {"==", "!="} -> 4
      [] op \in {"<", "<=", ">", ">="} -> 5
      [] op \in {"+", "-"} -> 6
      [] op \in {"*", "/", "%"} -> 7
TighterOnLeft(l, op) == Level(l) > Level(op) \/ (Level(l) = Level(op) /\ op # "==>")
TighterOnRight(r, op) == Level(r) > Level(op) \/ (Level(r) = Level(op) /\ op = "==>")

=============================================================================
