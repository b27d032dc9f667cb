------------------------------ MODULE Grammar ------------------------------
(***************************************************************************)
(* The language that crates/intent-lang-syntax/src/parser.rs is to read:    *)
(* which sequences of tokens are files.  Nothing here says how to parse,    *)
(* and nothing how strongly an operator binds: the grammar is ambiguous on   *)
(* purpose.                                                                 *)
(*                                                                          *)
(* A rule says what t[i..j] has to look like to be of its kind when D tells  *)
(* of the shorter spans which kinds they are of; Derivable ties the knot.    *)
(***************************************************************************)
EXTENDS Tokens

\* What the rules are recursive in; a file is a span of "decls".
Kind == {"typed_vars", "expr", "exprs", "path", "bindings", "clauses", "invariants", "sections", "decls"}
Span == Kind \X Int \X Int
Is(D, kind, i, j) == D[<<kind, i, j>>]

-----------------------------------------------------------------------------
(* Expressions. *)

\* `x: T, y: U`; a type is a name.
TypedVars(t, D, i, j) ==
    /\ i + 2 <= j /\ Tok(t, i) \in Ident /\ Tok(t, i + 1) = ":" /\ Tok(t, i + 2) \in Ident
    /\ j = i + 2 \/ (Tok(t, i + 3) = "comma" /\ Is(D, "typed_vars", i + 4, j))

\* What ends with its own last token.
Closed(t, D, i, j) ==
    \/ i = j /\ Tok(t, i) \in Ident \cup Literal
    \/ Tok(t, j) = "'" /\ Is(D, "expr", i, j - 1)
    \/ Tok(t, j) \in Ident /\ Tok(t, j - 1) = "." /\ i + 1 < j /\ Is(D, "expr", i, j - 2)
    \/ /\ Tok(t, j) = "]"
       /\ \E n \in i + 1..j - 1 : Tok(t, n) = "[" /\ Is(D, "expr", i, n - 1) /\ Is(D, "expr", n + 1, j - 1)
    \/ /\ Tok(t, j) = ")"
       /\ \/ Tok(t, i) = "(" /\ Is(D, "expr", i + 1, j - 1)
          \/ Tok(t, i) = "after" /\ Tok(t, i + 1) = "(" /\ Is(D, "expr", i + 2, j - 1)
          \/ /\ Tok(t, i) \in Ident /\ Tok(t, i + 1) = "("
             /\ j = i + 2 \/ Is(D, "exprs", i + 2, j - 1)

\* What ends with its last operand.
Open(t, D, i, j) ==
    \/ Tok(t, i) \in Prefix /\ Is(D, "expr", i + 1, j)
    \/ \E n \in i + 1..j - 1 : Tok(t, n) \in Infix /\ Is(D, "expr", i, n - 1) /\ Is(D, "expr", n + 1, j)
    \/ /\ Tok(t, i) = "if"
       /\ \E n, m \in i + 1..j :
             /\ n < m /\ Tok(t, n) = "then" /\ Tok(t, m) = "else"
             /\ Is(D, "expr", i + 1, n - 1) /\ Is(D, "expr", n + 1, m - 1) /\ Is(D, "expr", m + 1, j)
    \/ /\ Tok(t, i) \in Quantifier
       /\ \E n \in i + 1..j :
             Tok(t, n) = "comma" /\ Is(D, "typed_vars", i + 1, n - 1) /\ Is(D, "expr", n + 1, j)

Expr(t, D, i, j) == i <= j /\ (Closed(t, D, i, j) \/ Open(t, D, i, j))

Exprs(t, D, i, j) ==
    \/ Is(D, "expr", i, j)
    \/ \E n \in i..j : Tok(t, n) = "comma" /\ Is(D, "expr", i, n - 1) /\ Is(D, "exprs", n + 1, j)

-----------------------------------------------------------------------------
(* Clauses, sections, declarations and files. *)

\* A label is an identifier before a colon.
Labelled(t, D, i, j) ==
    \/ Is(D, "expr", i, j)
    \/ Tok(t, i) \in Ident /\ Tok(t, i + 1) = ":" /\ Is(D, "expr", i + 2, j)
AClause(t, D, i, j) ==
    \/ Tok(t, i) \in ClauseKind /\ Labelled(t, D, i + 1, j)
    \/ /\ Tok(t, i) = "require" /\ Tok(t, j - 1) = "else" /\ Tok(t, j) = "reject"
       /\ i + 2 < j /\ Labelled(t, D, i + 1, j - 2)
    \/ Tok(t, i) = "modifies" /\ ((j = i + 1 /\ Tok(t, j) = "*") \/ Is(D, "exprs", i + 1, j))

\* What follows the first name of a path.
Path(t, D, i, j) ==
    \/ i = j + 1
    \/ Tok(t, i) = "'" /\ i <= j /\ Is(D, "path", i + 1, j)
    \/ Tok(t, i) = "." /\ i < j /\ Tok(t, i + 1) \in Ident /\ Is(D, "path", i + 2, j)
ABinding(t, D, i, j) ==
    /\ Tok(t, i) \in Ident
    /\ \E n \in i + 1..j - 1 : Tok(t, n) = ":" /\ Is(D, "path", i + 1, n - 1) /\ Is(D, "expr", n + 1, j)
\* A comma may stand after the last binding.
Bindings(t, D, i, j) ==
    \/ i = j + 1
    \/ ABinding(t, D, i, j)
    \/ \E n \in i..j : Tok(t, n) = "comma" /\ ABinding(t, D, i, n - 1) /\ Is(D, "bindings", n + 1, j)
ASection(t, D, i, j) ==
    /\ Tok(t, i) \in {"given", "expect"} /\ Tok(t, i + 1) = ":" /\ Tok(t, i + 2) = "lbrace"
    /\ \E n \in {j, j - 1} :
          /\ i + 3 <= n /\ Tok(t, n) = "rbrace" /\ Is(D, "bindings", i + 3, n - 1)
          /\ j = n \/ Tok(t, j) = "comma"

Clauses(t, D, i, j) == i = j + 1 \/ \E n \in i..j : AClause(t, D, i, n) /\ Is(D, "clauses", n + 1, j)
Invariants(t, D, i, j) ==
    i = j + 1 \/ \E n \in i..j : Tok(t, i) = "invariant" /\ Is(D, "expr", i + 1, n) /\ Is(D, "invariants", n + 1, j)
Sections(t, D, i, j) == i = j + 1 \/ \E n \in i..j : ASection(t, D, i, n) /\ Is(D, "sections", n + 1, j)

ADecl(t, D, i, j) ==
    /\ i < j /\ Tok(t, j) = "rbrace"
    /\ \/ /\ Tok(t, i) = "intent" /\ Is(D, "clauses", i + 1, j - 1)
          /\ \A m, n \in i..j : Tok(t, m) = "modifies" /\ Tok(t, n) = "modifies" => m = n
       \/ Tok(t, i) = "safety" /\ Is(D, "invariants", i + 1, j - 1)
       \/ Tok(t, i) = "theorem" /\ Is(D, "expr", i + 1, j - 1)
       \/ Tok(t, i) = "example" /\ Is(D, "sections", i + 1, j - 1)
Decls(t, D, i, j) == i = j + 1 \/ \E n \in i..j : ADecl(t, D, i, n) /\ Is(D, "decls", n + 1, j)

-----------------------------------------------------------------------------

Rule(t, D, x) ==
    \/ x[1] = "typed_vars" /\ TypedVars(t, D, x[2], x[3])
    \/ x[1] = "expr" /\ Expr(t, D, x[2], x[3])
    \/ x[1] = "exprs" /\ Exprs(t, D, x[2], x[3])
    \/ x[1] = "path" /\ Path(t, D, x[2], x[3])
    \/ x[1] = "bindings" /\ Bindings(t, D, x[2], x[3])
    \/ x[1] = "clauses" /\ Clauses(t, D, x[2], x[3])
    \/ x[1] = "invariants" /\ Invariants(t, D, x[2], x[3])
    \/ x[1] = "sections" /\ Sections(t, D, x[2], x[3])
    \/ x[1] = "decls" /\ Decls(t, D, x[2], x[3])

\* Every rule looks at shorter spans only ("exprs" at an expression of its own
\* length), so there is exactly one such function.
Derivable(t) == LET D[x \in Span] == Rule(t, D, x) IN D
IsFile(t) == Is(Derivable(t), "decls", 1, Len(t))

=============================================================================
