-------------------------- MODULE Language_proofs --------------------------
(***************************************************************************)
(* The parser accepts the files of the grammar and no others, whatever the  *)
(* tokens.                                                                  *)
(*                                                                          *)
(* It accepts no others (Sound): the calls on its stack have each read the  *)
(* beginning of something derivable, so that what they wait for completes   *)
(* it.  It accepts them all (OnItsWay): while a derivation of the file      *)
(* exists, there is a plan, one end for every call on the stack, such that  *)
(* the tokens from here to the end of the top call are derivable and those  *)
(* after it bring each caller to its own end; and every step leaves a plan, *)
(* so the parser never refuses.  The plan does not say how operators nest:   *)
(* an expression is a chain of operands and of what goes on after them, so  *)
(* the binding powers, which decide when a call ends, do not decide what is *)
(* legal.                                                                   *)
(***************************************************************************)
EXTENDS Parser_proofs, WellFoundedInduction

-----------------------------------------------------------------------------
(* The grammar is well defined. *)

Length(x) == IF x[2] <= x[3] THEN x[3] + 1 - x[2] ELSE 0
Rank(x) == 2 * Length(x) + (IF x[1] = "exprs" THEN 1 ELSE 0)
Agree(f, g, r) == \A y \in Span : Rank(y) < r => f[y] = g[y]

\* Every nonempty set of numbers has a least one; in place of induction.
LEMMA Least ==
    ASSUME NEW S, S \subseteq Nat, S # {}
    PROVE  \E m \in S : \A n \in S : m <= n
<1> DEFINE Less == {p \in Nat \X Nat : p[1] < p[2]}
<1>1. IsWellFoundedOn(Less, Nat)
  BY NatLessThanWellFounded DEF OpToRel
<1> HIDE DEF Less
<1>2. PICK m \in S : \A n \in S : <<n, m>> \notin Less
  BY <1>1, WFMin
<1>3. \A n \in S : ~(n < m)
  BY <1>2 DEF Less
<1>4. QED
  BY <1>3

LEMMA RankIsNat ==
    ASSUME NEW x \in Span
    PROVE  Rank(x) \in Nat
<1>1. x[1] \in Kind /\ x[2] \in Int /\ x[3] \in Int
  BY DEF Span
<1>2. Length(x) \in Nat
  BY <1>1 DEF Length
<1>3. QED
  BY <1>2 DEF Rank

LEMMA Shorter ==
    ASSUME NEW k \in Kind, NEW i \in Int, NEW j \in Int, i <= j,
           NEW l \in Kind, NEW a \in Int, NEW b \in Int, i <= a, b <= j, i < a \/ b < j
    PROVE  <<l, a, b>> \in Span /\ Rank(<<l, a, b>>) < Rank(<<k, i, j>>)
<1>1. Length(<<k, i, j>>) = j + 1 - i
  BY DEF Length
<1>2. Length(<<l, a, b>>) \in Nat /\ Length(<<l, a, b>>) < j + 1 - i
  BY DEF Length
<1>3. QED
  BY <1>1, <1>2 DEF Rank, Span

LEMMA RuleLooksDown ==
    ASSUME NEW t, NEW f, NEW g, NEW k \in Kind, NEW i \in Int, NEW j \in Int,
           Agree(f, g, Rank(<<k, i, j>>)), Rule(t, f, <<k, i, j>>)
    PROVE  Rule(t, g, <<k, i, j>>)
<1> DEFINE Same(l, a, b) == Is(f, l, a, b) => Is(g, l, a, b)
<1>2. \A l \in Kind, a, b \in Int : i <= j /\ i <= a /\ b <= j /\ (i < a \/ b < j) => Same(l, a, b)
  BY Shorter DEF Agree, Is
<1>3. k = "exprs" => Same("expr", i, j)
  <2>1. Length(<<"expr", i, j>>) = Length(<<k, i, j>>) /\ Length(<<k, i, j>>) \in Nat
    BY DEF Length
  <2>2. k = "exprs" => <<"expr", i, j>> \in Span /\ Rank(<<"expr", i, j>>) < Rank(<<k, i, j>>)
    BY <2>1 DEF Rank, Span, Kind
  <2>3. QED
    BY <2>2 DEF Agree, Is
<1>4. Kind = {"typed_vars", "expr", "exprs", "path", "bindings", "clauses", "invariants", "sections", "decls"}
  BY DEF Kind
<1> HIDE DEF Same
<1>5. i <= j /\ TypedVars(t, f, i, j) => TypedVars(t, g, i, j)
  BY <1>2, <1>4 DEF TypedVars, Same
<1>6. Closed(t, f, i, j) /\ i <= j => Closed(t, g, i, j)
  BY <1>2, <1>4 DEF Closed, Same
<1>7. Open(t, f, i, j) /\ i <= j => Open(t, g, i, j)
  BY <1>2, <1>4 DEF Open, Same
<1>8. Exprs(t, f, i, j) /\ k = "exprs" => Exprs(t, g, i, j)
  BY <1>2, <1>3, <1>4 DEF Exprs, Same
<1>9. Path(t, f, i, j) => Path(t, g, i, j)
  BY <1>2, <1>4 DEF Path, Same
<1>10. \A n \in Int : i <= n /\ n <= j /\ AClause(t, f, i, n) => AClause(t, g, i, n)
  <2>1. \A m, n \in Int : i <= j /\ n <= j /\ i < m /\ Labelled(t, f, m, n) => Labelled(t, g, m, n)
    BY <1>2, <1>4 DEF Labelled, Same
  <2>2. \A m, n \in Int : i <= j /\ n <= j /\ i < m /\ Is(f, "exprs", m, n) => Is(g, "exprs", m, n)
    BY <1>2, <1>4 DEF Same
  <2>3. QED
    BY <2>1, <2>2 DEF AClause
<1>11. \A n \in Int : n <= j /\ ABinding(t, f, i, n) => ABinding(t, g, i, n)
  BY <1>2, <1>4 DEF ABinding, Same
<1>12. Bindings(t, f, i, j) => Bindings(t, g, i, j)
  BY <1>2, <1>4, <1>11 DEF Bindings, Same
<1>13. \A n \in Int : n <= j /\ ASection(t, f, i, n) => ASection(t, g, i, n)
  BY <1>2, <1>4 DEF ASection, Same
<1>14. Clauses(t, f, i, j) => Clauses(t, g, i, j)
  BY <1>2, <1>4, <1>10 DEF Clauses, Same
<1>15. Invariants(t, f, i, j) => Invariants(t, g, i, j)
  BY <1>2, <1>4 DEF Invariants, Same
<1>16. Sections(t, f, i, j) => Sections(t, g, i, j)
  BY <1>2, <1>4, <1>13 DEF Sections, Same
<1>17. \A n \in Int : n <= j /\ ADecl(t, f, i, n) => ADecl(t, g, i, n)
  BY <1>2, <1>4 DEF ADecl, Same
<1>18. Decls(t, f, i, j) => Decls(t, g, i, j)
  BY <1>2, <1>4, <1>17 DEF Decls, Same
<1>19. TypedVars(t, f, i, j) => i <= j
  BY DEF TypedVars
<1>20. QED
  BY <1>4, <1>5, <1>6, <1>7, <1>8, <1>9, <1>12, <1>14, <1>15, <1>16, <1>18, <1>19 DEF Rule, Expr

\* So the function of the grammar exists: one that obeys the rule on the spans
\* below some rank can be extended to the next rank, and any two of them agree.
Obeys(t, g, r) == \A x \in Span : Rank(x) < r => (g[x] = TRUE /\ Rule(t, g, x)) \/ (g[x] = FALSE /\ ~Rule(t, g, x))

LEMMA RuleDependsBelow ==
    ASSUME NEW t, NEW f, NEW g, NEW x \in Span, Agree(f, g, Rank(x))
    PROVE  Rule(t, f, x) <=> Rule(t, g, x)
<1>1. Agree(g, f, Rank(x))
  BY DEF Agree
<1>2. x = <<x[1], x[2], x[3]>> /\ x[1] \in Kind /\ x[2] \in Int /\ x[3] \in Int
  BY DEF Span
<1>3. QED
  BY <1>1, <1>2, RuleLooksDown

LEMMA TheyAgree ==
    ASSUME NEW t, NEW f, NEW g, NEW r \in Nat, Obeys(t, f, r), Obeys(t, g, r)
    PROVE  Agree(f, g, r)
<1> DEFINE S == {n \in Nat : \E x \in Span : Rank(x) = n /\ n < r /\ f[x] # g[x]}
<1>1. SUFFICES ASSUME S # {} PROVE FALSE
  BY RankIsNat DEF Agree
<1>2. PICK m \in S : \A n \in S : m <= n
  BY <1>1, Least
<1>3. PICK x \in Span : Rank(x) = m /\ m < r /\ f[x] # g[x]
  BY <1>2
<1>4. Agree(f, g, m)
  BY <1>2, <1>3, RankIsNat DEF Agree
<1>5. Rule(t, f, x) <=> Rule(t, g, x)
  BY <1>3, <1>4, RuleDependsBelow
<1>6. QED
  BY <1>3, <1>5 DEF Obeys

LEMMA OneMore ==
    ASSUME NEW t, NEW g, NEW r \in Nat, Obeys(t, g, r)
    PROVE  \E h : Obeys(t, h, r + 1)
<1> DEFINE h == [x \in Span |-> IF Rank(x) < r THEN g[x] ELSE Rule(t, g, x)]
<1>1. Agree(g, h, r)
  BY DEF Agree
<1>2. \A x \in Span : Rank(x) < r + 1 => (Rule(t, g, x) <=> Rule(t, h, x))
  <2>1. SUFFICES ASSUME NEW x \in Span, Rank(x) < r + 1 PROVE Agree(g, h, Rank(x))
    BY RuleDependsBelow
  <2>2. QED
    BY <1>1, <2>1, RankIsNat DEF Agree
<1>3. ASSUME NEW x \in Span, Rank(x) < r
      PROVE  (h[x] = TRUE /\ Rule(t, h, x)) \/ (h[x] = FALSE /\ ~Rule(t, h, x))
  <2>1. h[x] = g[x] /\ (Rule(t, g, x) <=> Rule(t, h, x))
    BY <1>2, <1>3, RankIsNat
  <2>2. QED
    BY <1>3, <2>1 DEF Obeys
<1>4. ASSUME NEW x \in Span, Rank(x) = r
      PROVE  (h[x] = TRUE /\ Rule(t, h, x)) \/ (h[x] = FALSE /\ ~Rule(t, h, x))
  <2>1. h[x] = Rule(t, g, x) /\ (Rule(t, g, x) <=> Rule(t, h, x))
    BY <1>2, <1>4
  <2> HIDE DEF h
  <2>2. Rule(t, g, x) \in BOOLEAN
    BY DEF Rule
  <2>3. QED
    BY <2>1, <2>2
<1> HIDE DEF h
<1>5. \A x \in Span : Rank(x) < r + 1 => Rank(x) < r \/ Rank(x) = r
  BY RankIsNat
<1>6. Obeys(t, h, r + 1)
  BY <1>3, <1>4, <1>5 DEF Obeys
<1>7. QED
  BY <1>6

LEMMA EveryRank ==
    ASSUME NEW t, NEW r \in Nat
    PROVE  \E g : Obeys(t, g, r)
<1> DEFINE S == {n \in Nat : ~\E g : Obeys(t, g, n)}
<1>1. SUFFICES ASSUME S # {} PROVE FALSE
  OBVIOUS
<1>2. PICK m \in S : \A n \in S : m <= n
  BY <1>1, Least
<1>3. m # 0
  <2>1. Obeys(t, <<>>, 0)
    BY RankIsNat DEF Obeys
  <2>2. QED
    BY <1>2, <2>1
<1>4. m - 1 \in Nat /\ m - 1 \notin S
  BY <1>2, <1>3
<1>5. PICK g : Obeys(t, g, m - 1)
  BY <1>4
<1>6. \E h : Obeys(t, h, (m - 1) + 1)
  BY <1>4, <1>5, OneMore
<1>7. QED
  BY <1>2, <1>6

\* The recursive definition means what it says.
LEMMA Unfold ==
    ASSUME NEW t, NEW x \in Span
    PROVE  Derivable(t)[x] <=> Rule(t, Derivable(t), x)
<1> DEFINE UpTo(r) == CHOOSE g : Obeys(t, g, r)
           F == [y \in Span |-> UpTo(Rank(y) + 1)[y]]
<1>1. \A r \in Nat : Obeys(t, UpTo(r), r)
  BY EveryRank
<1> HIDE DEF UpTo
<1>2. \A r, q \in Nat : q <= r => Agree(UpTo(r), UpTo(q), q)
  <2>1. \A r, q \in Nat : q <= r => Obeys(t, UpTo(r), q)
    BY <1>1, RankIsNat DEF Obeys
  <2>2. QED
    BY <1>1, <2>1, TheyAgree
<1>3. ASSUME NEW y \in Span PROVE F[y] = Rule(t, F, y)
  <2> DEFINE r == Rank(y)
  <2>1. r \in Nat
    BY RankIsNat
  <2>2. Agree(F, UpTo(r + 1), r)
    BY <1>2, <2>1, RankIsNat DEF Agree
  <2>3. Rule(t, F, y) <=> Rule(t, UpTo(r + 1), y)
    BY <2>2, RuleDependsBelow
  <2>4. F[y] = UpTo(r + 1)[y]
    OBVIOUS
  <2>5. Obeys(t, UpTo(r + 1), r + 1) /\ r < r + 1
    BY <1>1, <2>1
  <2> HIDE DEF F
  <2>6. Rule(t, F, y) \in BOOLEAN
    BY DEF Rule
  <2>7. (UpTo(r + 1)[y] = TRUE /\ Rule(t, UpTo(r + 1), y)) \/ (UpTo(r + 1)[y] = FALSE /\ ~Rule(t, UpTo(r + 1), y))
    BY <2>5 DEF Obeys
  <2> HIDE DEF r
  <2>8. QED
    BY <2>3, <2>4, <2>6, <2>7
<1>4. F = [y \in Span |-> Rule(t, F, y)]
  BY <1>3
<1> HIDE DEF F
<1>5. Derivable(t) = CHOOSE D : D = [y \in Span |-> Rule(t, D, y)]
  BY DEF Derivable
<1>6. Derivable(t) = [y \in Span |-> Rule(t, Derivable(t), y)]
  BY <1>4, <1>5
<1>7. QED
  BY <1>6

-----------------------------------------------------------------------------
(* Soundness: what the parser has read so far is derivable. *)

Derives(t, kind, i, j) == Is(Derivable(t), kind, i, j)
\* Whatever continues a list at b completes one that begins at i.
Leads(t, kind, b, i) == \A e \in Int : Derives(t, kind, b, e) => Derives(t, kind, i, e)

TailRead(t, f, b) ==
    \/ Tok(t, f.at) \in Prefix /\ b = f.at + 1
    \/ Tok(t, f.at) \in Quantifier /\ Tok(t, b - 1) = "comma" /\ Derives(t, "typed_vars", f.at + 1, b - 2)
    \/ /\ Tok(t, f.at) = "if" /\ Tok(t, b - 1) = "else"
       /\ \E n \in Int : Tok(t, n) = "then" /\ Derives(t, "expr", f.at + 1, n - 1) /\ Derives(t, "expr", n + 1, b - 2)
CallRead(t, f, b) ==
    /\ Tok(t, f.at) \in Ident /\ Tok(t, f.at + 1) = "(" /\ f.at + 2 <= b
    /\ Leads(t, "exprs", b, f.at + 2)
SectionRead(t, f, b) ==
    /\ f.lo = f.at /\ Tok(t, f.at + 1) = ":" /\ Tok(t, f.at + 2) = "lbrace" /\ f.at + 3 <= b
    /\ Leads(t, "bindings", b, f.at + 3)
BindingRead(t, f, b) ==
    Tok(t, f.lo) \in Ident /\ Tok(t, b - 1) = ":" /\ Derives(t, "path", f.lo + 1, b - 2)
\* What a frame waits for begins at b, and what it has read before that is right.
ReadSoFar(t, f, b) ==
    /\ f.for = "tail" => TailRead(t, f, b)
    /\ f.for = "binary" => Tok(t, f.at) \in Infix /\ b = f.at + 1 /\ Derives(t, "expr", f.lo, f.at - 1)
    /\ f.for = "(" => Tok(t, f.at) = "(" /\ b = f.at + 1
    /\ f.for = "after" => Tok(t, f.at) = "after" /\ Tok(t, f.at + 1) = "(" /\ b = f.at + 2
    /\ f.for = "[" => Tok(t, f.at) = "[" /\ b = f.at + 1 /\ Derives(t, "expr", f.lo, f.at - 1)
    /\ f.for = "if" => Tok(t, f.at) = "if" /\ b = f.at + 1
    /\ f.for = "then" => Tok(t, f.at) = "if" /\ Tok(t, b - 1) = "then" /\ Derives(t, "expr", f.at + 1, b - 2)
    /\ f.for = "call" => CallRead(t, f, b)
    /\ f.for \in {"(", "after", "if", "then", "call", "tail"} => f.lo = f.at
    /\ f.for = "clause" =>
          /\ Tok(t, f.at) \in ClauseKind
          /\ b = f.at + 1 \/ (Tok(t, f.at + 1) \in Ident /\ Tok(t, f.at + 2) = ":" /\ b = f.at + 3)
    /\ f.for = "modifies" => Tok(t, f.at) = "modifies" /\ f.at < b /\ Leads(t, "exprs", b, f.at + 1)
    /\ f.for = "invariant" => Tok(t, f.at) = "invariant" /\ b = f.at + 1
    /\ f.for = "section" => SectionRead(t, f, b)
    /\ f.for = "binding" => BindingRead(t, f, b)
    /\ f.for \in Header => Tok(t, f.at) = f.for /\ f.at < b
    /\ f.for = "theorem" => b = f.at + 1
    /\ f.for = "intent" => Leads(t, "clauses", b, f.at + 1)
    /\ f.for = "safety" => Leads(t, "invariants", b, f.at + 1)
    /\ f.for = "example" => Leads(t, "sections", b, f.at + 1)

\* Where the thing that frame f is about begins.
From(f) == IF f.for \in {"clause", "modifies", "invariant"} THEN f.at ELSE f.lo
Beneath(t, s) ==
    /\ \A k \in 1..Len(s) - 1 : ReadSoFar(t, s[k], From(s[k + 1]))
    /\ s # <<>> => Leads(t, "decls", s[1].at, 1)
\* What the frame on top waits for.
Present ==
    /\ doing = "program" => Leads(tokens, "decls", pos, 1)
    /\ doing \in {"body", "bindings", "prefix"} => ReadSoFar(tokens, Top, pos)
    /\ doing \in {"postfix", "infix"} => ReadSoFar(tokens, Top, lo) /\ Derives(tokens, "expr", lo, pos - 1)
    /\ doing = "typed_vars" => Top.lo = Top.at /\ Leads(tokens, "typed_vars", pos, Top.at + 1)
    /\ doing = "path" => Tok(tokens, Top.lo) \in Ident /\ Top.lo < pos /\ Leads(tokens, "path", pos, Top.lo + 1)

\* At most one `modifies` in an open intent, and its part or its frame tells.
InIntent(n) == stack[1].at <= n /\ n < pos /\ Tok(tokens, n) = "modifies"
OneModifies ==
    stack # <<>> /\ stack[1].for = "intent" =>
        /\ \A m, n \in Int : InIntent(m) /\ InIntent(n) => m = n
        /\ \A n \in Int : InIntent(n) =>
              (\E p \in parts : p.at = n) \/ (Len(stack) > 1 /\ stack[2].for = "modifies" /\ stack[2].at = n)
        /\ \A p \in parts : InIntent(p.at) \/ tokens[p.at] # "modifies"

Sound ==
    /\ outcome = "running" => Beneath(tokens, stack) /\ Present /\ OneModifies
    /\ Parsed => IsFile(tokens)

-----------------------------------------------------------------------------
(* Completeness: as long as the file is derivable, the parser is on its way *)
(* through a derivation.  An expression is read as a chain: places where an  *)
(* operand is expected and places where one has just ended, up to its last   *)
(* token e.  A chain knows nothing of how operators nest.                    *)

OperandAt(t, O, A, p) ==
    \/ Tok(t, p) \in Ident \cup Literal /\ p + 1 \in A
    \/ Tok(t, p) \in Prefix /\ p + 1 \in O
    \/ /\ Tok(t, p) \in Ident /\ Tok(t, p + 1) = "("
       /\ \/ Tok(t, p + 2) = ")" /\ p + 3 \in A
          \/ \E q \in Int : Derives(t, "exprs", p + 2, q - 1) /\ Tok(t, q) = ")" /\ q + 1 \in A
    \/ Tok(t, p) = "(" /\ \E q \in Int : Derives(t, "expr", p + 1, q - 1) /\ Tok(t, q) = ")" /\ q + 1 \in A
    \/ /\ Tok(t, p) = "after" /\ Tok(t, p + 1) = "("
       /\ \E q \in Int : Derives(t, "expr", p + 2, q - 1) /\ Tok(t, q) = ")" /\ q + 1 \in A
    \/ /\ Tok(t, p) = "if"
       /\ \E n, m \in Int :
             /\ Derives(t, "expr", p + 1, n - 1) /\ Tok(t, n) = "then"
             /\ Derives(t, "expr", n + 1, m - 1) /\ Tok(t, m) = "else" /\ m + 1 \in O
    \/ /\ Tok(t, p) \in Quantifier
       /\ \E n \in Int : Derives(t, "typed_vars", p + 1, n - 1) /\ Tok(t, n) = "comma" /\ n + 1 \in O
GoesOnAt(t, O, A, e, p) ==
    \/ p = e + 1
    \/ Tok(t, p) = "'" /\ p + 1 \in A
    \/ Tok(t, p) = "." /\ Tok(t, p + 1) \in Ident /\ p + 2 \in A
    \/ Tok(t, p) = "[" /\ \E q \in Int : Derives(t, "expr", p + 1, q - 1) /\ Tok(t, q) = "]" /\ q + 1 \in A
    \/ Tok(t, p) \in Infix /\ p + 1 \in O
IsChain(t, O, A, e) ==
    /\ O \subseteq Int /\ A \subseteq Int
    /\ \A p \in O : OperandAt(t, O, A, p)
    /\ \A p \in A : GoesOnAt(t, O, A, e, p)
Starts(t, p, e) == \E O, A \in SUBSET Int : p \in O /\ IsChain(t, O, A, e)
Continues(t, p, e) == \E O, A \in SUBSET Int : p \in A /\ IsChain(t, O, A, e)

\* What may stand after a complete expression.
Follow == {")", "]", "comma", "then", "else", "rbrace", "modifies"} \cup ClauseKind

\* What frame f waits for ends at e; what follows brings the frame below to
\* its own end.
CallEnds(t, e, end) ==
    \/ Tok(t, e + 1) = ")" /\ Continues(t, e + 2, end)
    \/ /\ Tok(t, e + 1) = "comma"
       /\ \E q \in Int : Derives(t, "exprs", e + 2, q - 1) /\ Tok(t, q) = ")" /\ Continues(t, q + 1, end)
IfEnds(t, e, end) ==
    /\ Tok(t, e + 1) = "then"
    /\ \E m \in Int : Derives(t, "expr", e + 2, m - 1) /\ Tok(t, m) = "else" /\ Starts(t, m + 1, end)
ClauseEnds(t, f, e, end) ==
    \/ Derives(t, "clauses", e + 1, end)
    \/ /\ Tok(t, f.at) = "require" /\ Tok(t, e + 1) = "else" /\ Tok(t, e + 2) = "reject"
       /\ Derives(t, "clauses", e + 3, end)
ModifiesEnds(t, e, end) ==
    \/ Derives(t, "clauses", e + 1, end)
    \/ Tok(t, e + 1) = "comma" /\ \E n \in Int : Derives(t, "exprs", e + 2, n) /\ Derives(t, "clauses", n + 1, end)
SectionEnds(t, f, e, end) ==
    /\ Tok(t, f.at) \in {"given", "expect"} /\ Tok(t, e + 1) = "rbrace"
    /\ \/ Derives(t, "sections", e + 2, end)
       \/ Tok(t, e + 2) = "comma" /\ Derives(t, "sections", e + 3, end)
DeclEnds(t, f, e) ==
    /\ Tok(t, e + 1) = "rbrace" /\ Derives(t, "decls", e + 2, Len(t))
    /\ f.for = "intent" =>
          \A m, n \in Int : f.at <= m /\ m <= e /\ f.at <= n /\ n <= e
                            /\ Tok(t, m) = "modifies" /\ Tok(t, n) = "modifies" => m = n
EndsAt(t, f, e, end) ==
    /\ f.for \in Opener \cup Starter => Tok(t, e + 1) \in Follow
    /\ f.for \in {"tail", "binary"} => e = end
    /\ f.for \in {"(", "after"} => Tok(t, e + 1) = ")" /\ Continues(t, e + 2, end)
    /\ f.for = "[" => Tok(t, e + 1) = "]" /\ Continues(t, e + 2, end)
    /\ f.for = "call" => CallEnds(t, e, end)
    /\ f.for = "if" => IfEnds(t, e, end)
    /\ f.for = "then" => Tok(t, e + 1) = "else" /\ Starts(t, e + 2, end)
    /\ f.for = "clause" => ClauseEnds(t, f, e, end)
    /\ f.for = "modifies" => ModifiesEnds(t, e, end)
    /\ f.for = "invariant" => Derives(t, "invariants", e + 1, end)
    /\ f.for = "section" => SectionEnds(t, f, e, end)
    /\ f.for = "binding" => e = end \/ (Tok(t, e + 1) = "comma" /\ Derives(t, "bindings", e + 2, end))
    /\ f.for \in Header => DeclEnds(t, f, e)

\* What lies ahead, up to e.
Ahead(e) ==
    /\ doing = "program" => Derives(tokens, "decls", pos, Len(tokens))
    /\ doing = "body" /\ Top.for = "intent" => Derives(tokens, "clauses", pos, e)
    /\ doing = "body" /\ Top.for = "safety" => Derives(tokens, "invariants", pos, e)
    /\ doing = "body" /\ Top.for = "example" => Derives(tokens, "sections", pos, e)
    /\ doing = "bindings" => Derives(tokens, "bindings", pos, e)
    /\ doing = "path" =>
          \E n \in Int : Derives(tokens, "path", pos, n - 1) /\ Tok(tokens, n) = ":" /\ Starts(tokens, n + 1, e)
    /\ doing = "typed_vars" =>
          \E n \in Int : Derives(tokens, "typed_vars", pos, n - 1) /\ Tok(tokens, n) = "comma" /\ Starts(tokens, n + 1, e)
    /\ doing = "prefix" => Starts(tokens, pos, e)
    /\ doing \in {"postfix", "infix"} => Continues(tokens, pos, e)

Plan(ends) == \A k \in 1..Len(stack) : EndsAt(tokens, stack[k], ends[k], ends[k - 1])
UnderWay == outcome = "running" /\ \E ends \in [Nat -> Int] : Plan(ends) /\ Ahead(ends[Len(stack)])
OnItsWay == IsFile(tokens) => Parsed \/ UnderWay

-----------------------------------------------------------------------------
(* The rules of the grammar, one kind at a time. *)

LEMMA Rules ==
    ASSUME NEW t, NEW i \in Int, NEW j \in Int
    PROVE  /\ Derives(t, "typed_vars", i, j) <=> TypedVars(t, Derivable(t), i, j)
           /\ Derives(t, "expr", i, j) <=> Expr(t, Derivable(t), i, j)
           /\ Derives(t, "exprs", i, j) <=> Exprs(t, Derivable(t), i, j)
           /\ Derives(t, "path", i, j) <=> Path(t, Derivable(t), i, j)
           /\ Derives(t, "bindings", i, j) <=> Bindings(t, Derivable(t), i, j)
           /\ Derives(t, "clauses", i, j) <=> Clauses(t, Derivable(t), i, j)
           /\ Derives(t, "invariants", i, j) <=> Invariants(t, Derivable(t), i, j)
           /\ Derives(t, "sections", i, j) <=> Sections(t, Derivable(t), i, j)
           /\ Derives(t, "decls", i, j) <=> Decls(t, Derivable(t), i, j)
<1>1. \A k \in Kind : <<k, i, j>> \in Span
  BY DEF Span
<1>2. \A k \in Kind : Derives(t, k, i, j) <=> Rule(t, Derivable(t), <<k, i, j>>)
  BY <1>1, Unfold DEF Derives, Is
<1>3. QED
  BY <1>2 DEF Kind, Rule

\* How long a span is at least.
LEMMA Extent ==
    ASSUME NEW t, NEW i \in Int, NEW j \in Int
    PROVE  /\ Derives(t, "typed_vars", i, j) => i + 2 <= j
           /\ Derives(t, "expr", i, j) => i <= j
           /\ Derives(t, "exprs", i, j) => i <= j
           /\ Derives(t, "path", i, j) => i <= j + 1
           /\ Derives(t, "bindings", i, j) => i <= j + 1
           /\ Derives(t, "clauses", i, j) => i <= j + 1
           /\ Derives(t, "invariants", i, j) => i <= j + 1
           /\ Derives(t, "sections", i, j) => i <= j + 1
           /\ Derives(t, "decls", i, j) => i <= j + 1
<1>1. Derives(t, "expr", i, j) => i <= j
  BY Rules DEF Expr
<1>2. Derives(t, "exprs", i, j) => i <= j
  BY <1>1, Rules DEF Exprs, Derives
<1>3. Derives(t, "typed_vars", i, j) => i + 2 <= j
  BY Rules DEF TypedVars
<1>4. Derives(t, "path", i, j) => i <= j + 1
  BY Rules DEF Path
<1>5. Derives(t, "bindings", i, j) => i <= j + 1
  BY Rules DEF Bindings, ABinding
<1>6. Derives(t, "clauses", i, j) => i <= j + 1
  BY Rules DEF Clauses
<1>7. Derives(t, "invariants", i, j) => i <= j + 1
  BY Rules DEF Invariants
<1>8. Derives(t, "sections", i, j) => i <= j + 1
  BY Rules DEF Sections
<1>9. Derives(t, "decls", i, j) => i <= j + 1
  BY Rules DEF Decls
<1>10. QED
  BY <1>1, <1>2, <1>3, <1>4, <1>5, <1>6, <1>7, <1>8, <1>9

\* Expressions made of smaller ones.
LEMMA Postfixed ==
    ASSUME NEW t, NEW i \in Int, NEW j \in Int
    PROVE  /\ Tok(t, i) \in Ident \cup Literal => Derives(t, "expr", i, i)
           /\ Derives(t, "expr", i, j - 1) /\ Tok(t, j) = "'" => Derives(t, "expr", i, j)
           /\ Derives(t, "expr", i, j - 2) /\ Tok(t, j - 1) = "." /\ Tok(t, j) \in Ident => Derives(t, "expr", i, j)
           /\ \A n \in Int : /\ Derives(t, "expr", i, n - 1) /\ Tok(t, n) = "["
                             /\ Derives(t, "expr", n + 1, j - 1) /\ Tok(t, j) = "]"
                             => Derives(t, "expr", i, j)
<1>1. Tok(t, i) \in Ident \cup Literal => Derives(t, "expr", i, i)
  BY Rules DEF Expr, Closed
<1>2. Derives(t, "expr", i, j - 1) /\ Tok(t, j) = "'" => Derives(t, "expr", i, j)
  <2>1. Derives(t, "expr", i, j - 1) => i <= j - 1
    BY Extent
  <2>2. QED
    BY <2>1, Rules DEF Expr, Closed, Derives
<1>3. Derives(t, "expr", i, j - 2) /\ Tok(t, j - 1) = "." /\ Tok(t, j) \in Ident => Derives(t, "expr", i, j)
  <2>1. Derives(t, "expr", i, j - 2) => i <= j - 2
    BY Extent
  <2>2. QED
    BY <2>1, Rules DEF Expr, Closed, Derives
<1>4. ASSUME NEW n \in Int, Derives(t, "expr", i, n - 1), Tok(t, n) = "[",
             Derives(t, "expr", n + 1, j - 1), Tok(t, j) = "]"
      PROVE  Derives(t, "expr", i, j)
  <2>1. i <= n - 1 /\ n + 1 <= j - 1
    BY <1>4, Extent
  <2>2. n \in i + 1..j - 1 /\ i <= j
    BY <2>1
  <2>3. QED
    BY <1>4, <2>2, Rules DEF Expr, Closed, Derives
<1>5. QED
  BY <1>1, <1>2, <1>3, <1>4

LEMMA Parenthesized ==
    ASSUME NEW t, NEW i \in Int, NEW j \in Int, Tok(t, j) = ")"
    PROVE  /\ Tok(t, i) = "(" /\ Derives(t, "expr", i + 1, j - 1) => Derives(t, "expr", i, j)
           /\ Tok(t, i) = "after" /\ Tok(t, i + 1) = "(" /\ Derives(t, "expr", i + 2, j - 1) => Derives(t, "expr", i, j)
           /\ Tok(t, i) \in Ident /\ Tok(t, i + 1) = "(" /\ j = i + 2 => Derives(t, "expr", i, j)
           /\ Tok(t, i) \in Ident /\ Tok(t, i + 1) = "(" /\ Derives(t, "exprs", i + 2, j - 1) => Derives(t, "expr", i, j)
<1>1. /\ Derives(t, "expr", i + 1, j - 1) => i <= j
      /\ Derives(t, "expr", i + 2, j - 1) => i <= j
      /\ Derives(t, "exprs", i + 2, j - 1) => i <= j
  <2>1. /\ Derives(t, "expr", i + 1, j - 1) => i + 1 <= j - 1
        /\ Derives(t, "expr", i + 2, j - 1) => i + 2 <= j - 1
        /\ Derives(t, "exprs", i + 2, j - 1) => i + 2 <= j - 1
    BY Extent
  <2>2. QED
    BY <2>1
<1>2. QED
  BY <1>1, Rules DEF Expr, Closed, Derives

LEMMA Operated ==
    ASSUME NEW t, NEW i \in Int, NEW j \in Int, NEW n \in Int, Derives(t, "expr", n + 1, j)
    PROVE  /\ Tok(t, i) \in Prefix /\ n = i => Derives(t, "expr", i, j)
           /\ Tok(t, n) \in Infix /\ Derives(t, "expr", i, n - 1) => Derives(t, "expr", i, j)
           /\ Tok(t, i) \in Quantifier /\ Tok(t, n) = "comma" /\ Derives(t, "typed_vars", i + 1, n - 1)
              => Derives(t, "expr", i, j)
           /\ \A m \in Int : /\ Tok(t, i) = "if" /\ Derives(t, "expr", i + 1, m - 1) /\ Tok(t, m) = "then"
                             /\ Derives(t, "expr", m + 1, n - 1) /\ Tok(t, n) = "else"
                             => Derives(t, "expr", i, j)
<1>1. n + 1 <= j
  BY Extent
<1>2. Tok(t, i) \in Prefix /\ n = i => Derives(t, "expr", i, j)
  BY <1>1, Rules DEF Expr, Open, Derives
<1>3. ASSUME Tok(t, n) \in Infix, Derives(t, "expr", i, n - 1) PROVE Derives(t, "expr", i, j)
  <2>1. i <= n - 1
    BY <1>3, Extent
  <2>2. n \in i + 1..j - 1 /\ i <= j
    BY <1>1, <2>1
  <2>3. QED
    BY <1>3, <2>2, Rules DEF Expr, Open, Derives
<1>4. ASSUME Tok(t, i) \in Quantifier, Tok(t, n) = "comma", Derives(t, "typed_vars", i + 1, n - 1)
      PROVE  Derives(t, "expr", i, j)
  <2>1. i + 3 <= n - 1
    BY <1>4, Extent
  <2>2. n \in i + 1..j /\ i <= j
    BY <1>1, <2>1
  <2>3. QED
    BY <1>4, <2>2, Rules DEF Expr, Open, Derives
<1>5. ASSUME NEW m \in Int, Tok(t, i) = "if", Derives(t, "expr", i + 1, m - 1), Tok(t, m) = "then",
             Derives(t, "expr", m + 1, n - 1), Tok(t, n) = "else"
      PROVE  Derives(t, "expr", i, j)
  <2>1. i + 1 <= m - 1 /\ m + 1 <= n - 1
    BY <1>5, Extent
  <2>2. m \in i + 1..j /\ n \in i + 1..j /\ m < n /\ i <= j
    BY <1>1, <2>1
  <2>3. QED
    BY <1>5, <2>2, Rules DEF Expr, Open, Derives
<1>6. QED
  BY <1>2, <1>3, <1>4, <1>5

\* Lists, from an element of theirs on.
LEMMA LeadsOn ==
    ASSUME NEW t, NEW kind, NEW c \in Int, NEW b \in Int, NEW i, Leads(t, kind, c, b), Leads(t, kind, b, i)
    PROVE  Leads(t, kind, c, i)
  BY DEF Leads

LEMMA VariableLeads ==
    ASSUME NEW t, NEW b \in Int, Tok(t, b) \in Ident, Tok(t, b + 1) = ":", Tok(t, b + 2) \in Ident
    PROVE  /\ Derives(t, "typed_vars", b, b + 2)
           /\ Tok(t, b + 3) = "comma" => Leads(t, "typed_vars", b + 4, b)
<1>1. Derives(t, "typed_vars", b, b + 2)
  BY Rules DEF TypedVars
<1>2. ASSUME Tok(t, b + 3) = "comma", NEW e \in Int, Derives(t, "typed_vars", b + 4, e)
      PROVE  Derives(t, "typed_vars", b, e)
  <2>1. b + 4 + 2 <= e
    BY <1>2, Extent
  <2>2. QED
    BY <1>2, <2>1, Rules DEF TypedVars, Derives
<1>3. QED
  BY <1>1, <1>2 DEF Leads

LEMMA ArgumentLeads ==
    ASSUME NEW t, NEW b \in Int, NEW e \in Int, Derives(t, "expr", b, e)
    PROVE  /\ Derives(t, "exprs", b, e)
           /\ Tok(t, e + 1) = "comma" => Leads(t, "exprs", e + 2, b)
<1>1. Derives(t, "exprs", b, e)
  BY Rules DEF Exprs, Derives
<1>2. ASSUME Tok(t, e + 1) = "comma", NEW d \in Int, Derives(t, "exprs", e + 2, d)
      PROVE  Derives(t, "exprs", b, d)
  <2>1. b <= e /\ e + 2 <= d
    BY <1>2, Extent
  <2>2. e + 1 \in b..d /\ (e + 1) - 1 = e /\ (e + 1) + 1 = e + 2
    BY <2>1
  <2>3. Derives(t, "expr", b, (e + 1) - 1) /\ Derives(t, "exprs", (e + 1) + 1, d)
    BY <1>2, <2>2
  <2> DEFINE n == e + 1
  <2>4. n \in b..d /\ Tok(t, n) = "comma" /\ Derives(t, "expr", b, n - 1) /\ Derives(t, "exprs", n + 1, d)
    BY <1>2, <2>2, <2>3
  <2> HIDE DEF n
  <2>5. QED
    BY <2>4, Rules DEF Exprs, Derives
<1>3. QED
  BY <1>1, <1>2 DEF Leads

LEMMA PathLeads ==
    ASSUME NEW t, NEW b \in Int
    PROVE  /\ Derives(t, "path", b, b - 1)
           /\ Tok(t, b) = "'" => Leads(t, "path", b + 1, b)
           /\ Tok(t, b) = "." /\ Tok(t, b + 1) \in Ident => Leads(t, "path", b + 2, b)
<1>1. Derives(t, "path", b, b - 1)
  BY Rules DEF Path
<1>2. ASSUME Tok(t, b) = "'", NEW e \in Int, Derives(t, "path", b + 1, e) PROVE Derives(t, "path", b, e)
  <2>1. b + 1 <= e + 1
    BY <1>2, Extent
  <2>2. QED
    BY <1>2, <2>1, Rules DEF Path, Derives
<1>3. ASSUME Tok(t, b) = ".", Tok(t, b + 1) \in Ident, NEW e \in Int, Derives(t, "path", b + 2, e)
      PROVE  Derives(t, "path", b, e)
  <2>1. b + 2 <= e + 1
    BY <1>3, Extent
  <2>2. QED
    BY <1>3, <2>1, Rules DEF Path, Derives
<1>4. QED
  BY <1>1, <1>2, <1>3 DEF Leads

LEMMA BindingLeads ==
    ASSUME NEW t, NEW b \in Int
    PROVE  /\ Derives(t, "bindings", b, b - 1)
           /\ \A e \in Int : ABinding(t, Derivable(t), b, e) =>
                 /\ Derives(t, "bindings", b, e)
                 /\ Tok(t, e + 1) = "comma" => Leads(t, "bindings", e + 2, b)
<1>1. Derives(t, "bindings", b, b - 1)
  BY Rules DEF Bindings
<1>2. SUFFICES ASSUME NEW e \in Int, ABinding(t, Derivable(t), b, e)
               PROVE  /\ Derives(t, "bindings", b, e)
                      /\ Tok(t, e + 1) = "comma" => Leads(t, "bindings", e + 2, b)
  BY <1>1
<1>3. Derives(t, "bindings", b, e)
  BY <1>2, Rules DEF Bindings
<1>4. ASSUME Tok(t, e + 1) = "comma", NEW d \in Int, Derives(t, "bindings", e + 2, d)
      PROVE  Derives(t, "bindings", b, d)
  <2> DEFINE n == e + 1
  <2>1. b <= e
    BY <1>2 DEF ABinding
  <2>2. e + 2 <= d + 1
    BY <1>4, Extent
  <2>3. n \in b..d /\ n - 1 = e /\ n + 1 = e + 2
    BY <2>1, <2>2
  <2>4. Tok(t, n) = "comma" /\ ABinding(t, Derivable(t), b, n - 1) /\ Derives(t, "bindings", n + 1, d)
    BY <1>2, <1>4, <2>3
  <2> HIDE DEF n
  <2>5. QED
    BY <2>3, <2>4, Rules DEF Bindings, Derives
<1>5. QED
  BY <1>3, <1>4 DEF Leads

LEMMA BodyLeads ==
    ASSUME NEW t, NEW b \in Int, NEW e \in Int, b <= e
    PROVE  /\ AClause(t, Derivable(t), b, e) => Leads(t, "clauses", e + 1, b)
           /\ Tok(t, b) = "invariant" /\ Derives(t, "expr", b + 1, e) => Leads(t, "invariants", e + 1, b)
           /\ ASection(t, Derivable(t), b, e) => Leads(t, "sections", e + 1, b)
           /\ ADecl(t, Derivable(t), b, e) => Leads(t, "decls", e + 1, b)
<1>1. ASSUME NEW d \in Int, NEW kind, Derives(t, kind, e + 1, d), kind \in {"clauses", "invariants", "sections", "decls"}
      PROVE  e \in b..d
  <2>1. e + 1 <= d + 1
    BY <1>1, Extent
  <2>2. QED
    BY <2>1
<1>2. AClause(t, Derivable(t), b, e) => Leads(t, "clauses", e + 1, b)
  BY <1>1, Rules DEF Leads, Clauses, Derives
<1>3. Tok(t, b) = "invariant" /\ Derives(t, "expr", b + 1, e) => Leads(t, "invariants", e + 1, b)
  BY <1>1, Rules DEF Leads, Invariants, Derives
<1>4. ASection(t, Derivable(t), b, e) => Leads(t, "sections", e + 1, b)
  BY <1>1, Rules DEF Leads, Sections, Derives
<1>5. ADecl(t, Derivable(t), b, e) => Leads(t, "decls", e + 1, b)
  BY <1>1, Rules DEF Leads, Decls, Derives
<1>6. QED
  BY <1>2, <1>3, <1>4, <1>5

-----------------------------------------------------------------------------
(* Soundness: the stack. *)

ReadRight == Beneath(tokens, stack) /\ Present

LEMMA PushReads ==
    ASSUME CallType, Beneath(tokens, stack), tokens' = tokens, NEW f \in Frame, stack' = Append(stack, f),
           stack # <<>> => ReadSoFar(tokens, Top, From(f)),
           stack = <<>> => Leads(tokens, "decls", f.at, 1)
    PROVE  Beneath(tokens, stack)' /\ Top' = f
<1>1. /\ stack \in Seq(Frame) /\ Len(stack) \in Nat /\ Len(stack') = Len(stack) + 1
      /\ \A k \in 1..Len(stack) : stack'[k] = stack[k]
      /\ stack'[Len(stack) + 1] = f
      /\ stack # <<>> => Len(stack) >= 1
      /\ stack = <<>> => Len(stack) = 0
  BY AppendProperties, EmptySeq DEF CallType
<1>2. Top' = f
  BY <1>1 DEF Top
<1>3. ASSUME NEW k \in 1..Len(stack') - 1 PROVE ReadSoFar(tokens', stack'[k], From(stack'[k + 1]))
  <2>1. CASE k \in 1..Len(stack) - 1
    <3>1. stack'[k] = stack[k] /\ stack'[k + 1] = stack[k + 1]
      BY <1>1, <2>1
    <3>2. QED
      BY <2>1, <3>1 DEF Beneath
  <2>2. CASE k = Len(stack)
    <3>1. stack'[k] = Top /\ stack'[k + 1] = f /\ stack # <<>>
      BY <1>1, <2>2 DEF Top
    <3>2. QED
      BY <3>1
  <2>3. QED
    BY <1>1, <2>1, <2>2
<1>4. Leads(tokens', "decls", stack'[1].at, 1)
  BY <1>1 DEF Beneath
<1>5. QED
  BY <1>2, <1>3, <1>4 DEF Beneath

LEMMA PopReads ==
    ASSUME CallType, stack # <<>>, Beneath(tokens, stack), tokens' = tokens, stack' = Below
    PROVE  /\ Beneath(tokens, stack)'
           /\ Len(stack) > 1 => /\ ReadSoFar(tokens, Top', From(Top)) /\ stack' # <<>>
                                /\ Top' = stack[Len(stack) - 1]
           /\ Len(stack) = 1 => Leads(tokens, "decls", Top.at, 1) /\ stack' = <<>>
<1>1. /\ Len(stack) \in Nat /\ Len(stack) >= 1 /\ stack' \in Seq(Frame) /\ Len(stack') = Len(stack) - 1
      /\ \A k \in 1..Len(stack) - 1 : stack'[k] = stack[k]
      /\ stack' = <<>> <=> Len(stack') = 0
  BY PopSeq, EmptySeq DEF CallType, Below
<1>2. \A k \in 1..Len(stack') - 1 : ReadSoFar(tokens', stack'[k], From(stack'[k + 1]))
  BY <1>1 DEF Beneath
<1>3. stack' # <<>> => Leads(tokens', "decls", stack'[1].at, 1)
  BY <1>1 DEF Beneath
<1>4. ASSUME Len(stack) > 1 PROVE ReadSoFar(tokens, Top', From(Top)) /\ Top' = stack[Len(stack) - 1]
  <2>1. Len(stack) - 1 \in 1..Len(stack) - 1 /\ (Len(stack) - 1) + 1 = Len(stack)
    BY <1>1, <1>4
  <2>2. ReadSoFar(tokens, stack[Len(stack) - 1], From(stack[Len(stack)]))
    BY <2>1 DEF Beneath
  <2>3. Top' = stack[Len(stack) - 1] /\ Top = stack[Len(stack)]
    BY <1>1, <2>1 DEF Top
  <2>4. QED
    BY <2>2, <2>3
<1>5. Len(stack) = 1 => Leads(tokens, "decls", Top.at, 1)
  BY DEF Beneath, Top
<1>6. QED
  BY <1>1, <1>2, <1>3, <1>4, <1>5 DEF Beneath

LEMMA SwapReads ==
    ASSUME CallType, stack # <<>>, Beneath(tokens, stack), tokens' = tokens,
           NEW f \in Frame, stack' = Append(Below, f), From(f) = From(Top), f.at = Top.at
    PROVE  Beneath(tokens, stack)' /\ Top' = f
<1>1. /\ Len(stack) \in Nat /\ Len(stack) >= 1 /\ Below \in Seq(Frame) /\ Len(Below) = Len(stack) - 1
      /\ \A k \in 1..Len(stack) - 1 : Below[k] = stack[k]
  BY PopSeq DEF CallType, Below
<1>2. /\ Len(stack') = Len(stack) /\ stack'[Len(stack)] = f
      /\ \A k \in 1..Len(stack) - 1 : stack'[k] = stack[k]
  BY <1>1, AppendProperties
<1>3. Top' = f
  BY <1>2 DEF Top
<1>4. ASSUME NEW k \in 1..Len(stack') - 1 PROVE ReadSoFar(tokens', stack'[k], From(stack'[k + 1]))
  <2>1. k \in 1..Len(stack) - 1 /\ stack'[k] = stack[k] /\ ReadSoFar(tokens, stack[k], From(stack[k + 1]))
    BY <1>2 DEF Beneath
  <2>2. CASE k + 1 \in 1..Len(stack) - 1
    BY <1>2, <2>1, <2>2
  <2>3. CASE k + 1 = Len(stack)
    <3>1. stack'[k + 1] = f /\ stack[k + 1] = Top
      BY <1>2, <2>3 DEF Top
    <3>2. QED
      BY <2>1, <3>1
  <2>4. QED
    BY <1>1, <2>1, <2>2, <2>3
<1>5. Leads(tokens', "decls", stack'[1].at, 1)
  <2>1. stack'[1].at = stack[1].at
    <3>1. CASE 1 \in 1..Len(stack) - 1
      BY <1>2, <3>1
    <3>2. CASE Len(stack) = 1
      BY <1>2, <3>2 DEF Top
    <3>3. QED
      BY <1>1, <3>1, <3>2
  <2>2. QED
    BY <2>1 DEF Beneath
<1>6. QED
  BY <1>3, <1>4, <1>5 DEF Beneath

\* What is left to show of a step into or out of an expression.
LEMMA ValueReads ==
    ASSUME Beneath(tokens, stack)', tokens' = tokens, doing' \in {"postfix", "infix"},
           ReadSoFar(tokens, Top', lo'), Derives(tokens, "expr", lo', pos' - 1)
    PROVE  ReadRight'
  BY DEF ReadRight, Present

LEMMA EnterReads ==
    ASSUME Beneath(tokens, stack)', tokens' = tokens, doing' \in {"prefix", "body", "bindings"},
           ReadSoFar(tokens, Top', pos')
    PROVE  ReadRight'
  BY DEF ReadRight, Present

LEMMA AnswerReads ==
    ASSUME ReadRight, UNCHANGED <<tokens, call>>
    PROVE  ReadRight'
  BY DEF ReadRight, Present, Beneath, Top, call

\* Facts of every step of an expression.
LEMMA ReadingNow ==
    ASSUME Control, ReadRight, InExpression
    PROVE  /\ doing = "prefix" => ReadSoFar(tokens, Top, pos)
           /\ doing # "prefix" => ReadSoFar(tokens, Top, lo) /\ Derives(tokens, "expr", lo, pos - 1)
           /\ CallType /\ Beneath(tokens, stack) /\ stack # <<>> /\ Top \in Frame /\ pos \in Nat /\ pos >= 1
           /\ lo \in Nat /\ lo < pos /\ Top.at \in Nat /\ Top.lo \in Nat /\ Top.at < pos
           /\ \A k \in Nat : Peek(k) = Tok(tokens, pos + k)
           /\ Peek(0) = Tok(tokens, pos) /\ Tok(tokens, Top.at) = tokens[Top.at]
<1>1. /\ CallType /\ Beneath(tokens, stack) /\ stack # <<>> /\ Top \in Frame /\ pos \in Nat /\ pos >= 1
      /\ lo \in Nat /\ lo < pos /\ FrameOK(tokens, pos, Top)
  BY Expression DEF ReadRight
<1>2. Top.at \in Nat /\ Top.lo \in Nat /\ Top.at < pos /\ Top.at \in DOMAIN tokens
  BY <1>1, FrameType DEF FrameOK
<1>3. /\ doing = "prefix" => ReadSoFar(tokens, Top, pos)
      /\ doing # "prefix" => ReadSoFar(tokens, Top, lo) /\ Derives(tokens, "expr", lo, pos - 1)
  BY DEF ReadRight, Present, InExpression
<1>4. pos + 0 = pos
  BY <1>1
<1>5. QED
  BY <1>1, <1>2, <1>3, <1>4 DEF Peek, Tok

-----------------------------------------------------------------------------
(* Soundness: the steps of an expression. *)

LEMMA OpensReading ==
    ASSUME Control, ReadRight, InExpression, tokens' = tokens,
           NEW for \in Opener, NEW at \in Nat, NEW from \in Nat,
           from = IF doing = "prefix" THEN pos ELSE lo,
           stack' = Append(stack, Waits(for, at, from))
    PROVE  Beneath(tokens, stack)' /\ Top' = Waits(for, at, from)
<1> DEFINE f == Waits(for, at, from)
<1>1. f \in Frame /\ f.for = for /\ f.lo = from
  BY Expression DEF Waits, Frame, Opener
<1>2. From(f) = from
  BY <1>1 DEF From, Opener
<1> HIDE DEF f
<1>3. ReadSoFar(tokens, Top, From(f))
  BY <1>2, ReadingNow
<1>4. QED
  BY <1>1, <1>3, ReadingNow, PushReads DEF f

LEMMA AtomReads ==
    ASSUME Control, ReadRight, Atom
    PROVE  ReadRight'
<1>1. /\ InExpression /\ doing = "prefix" /\ tokens' = tokens /\ stack' = stack /\ pos' = pos + 1 /\ lo' = pos
      /\ doing' = "postfix" /\ Peek(0) \in Ident \cup Literal
  BY DEF Atom, At, Value, OnlyCall, InExpression
<1>2. ReadSoFar(tokens, Top, pos) /\ Beneath(tokens, stack) /\ pos \in Nat /\ Peek(0) = Tok(tokens, pos)
  BY <1>1, ReadingNow
<1>3. Derives(tokens, "expr", pos, pos)
  BY <1>1, <1>2, Postfixed
<1>4. Top' = Top /\ Beneath(tokens, stack)' /\ pos' - 1 = pos
  BY <1>1, <1>2 DEF Top
<1>5. QED
  BY <1>1, <1>2, <1>3, <1>4, ValueReads

LEMMA CallReads ==
    ASSUME Control, ReadRight, Call
    PROVE  ReadRight'
<1>1. /\ InExpression /\ doing = "prefix" /\ tokens' = tokens /\ Peek(0) \in Ident /\ Peek(1) = "("
  BY DEF Call, At, OnlyCall, OnlyTree, InExpression
<1>2. /\ ReadSoFar(tokens, Top, pos) /\ Beneath(tokens, stack) /\ pos \in Nat /\ Peek(0) = Tok(tokens, pos)
      /\ Peek(1) = Tok(tokens, pos + 1) /\ Peek(2) = Tok(tokens, pos + 2)
  BY <1>1, ReadingNow
<1>3. CASE Peek(2) = ")"
  <2>1. stack' = stack /\ pos' = pos + 3 /\ lo' = pos /\ doing' = "postfix"
    BY <1>3 DEF Call, Value
  <2>2. Derives(tokens, "expr", pos, pos + 2)
    BY <1>1, <1>2, <1>3, Parenthesized
  <2>3. Top' = Top /\ Beneath(tokens, stack)' /\ pos' - 1 = pos + 2
    BY <1>1, <1>2, <2>1 DEF Top
  <2>4. QED
    BY <1>1, <1>2, <2>1, <2>2, <2>3, ValueReads
<1>4. CASE Peek(2) # ")"
  <2> DEFINE f == Waits("call", pos, pos)
  <2>1. stack' = Append(stack, f) /\ pos' = pos + 2 /\ doing' = "prefix"
    BY <1>4 DEF Call, Parse
  <2>2. Beneath(tokens, stack)' /\ Top' = f
    BY <1>1, <1>2, <2>1, OpensReading DEF Opener
  <2>3. f.for = "call" /\ f.at = pos /\ f.lo = pos
    BY DEF Waits
  <2> HIDE DEF f
  <2>4. ReadSoFar(tokens, f, pos + 2)
    BY <1>1, <1>2, <2>3 DEF ReadSoFar, CallRead, Leads, Header
  <2>5. QED
    BY <1>1, <2>1, <2>2, <2>4, EnterReads
<1>5. QED
  BY <1>3, <1>4

LEMMA OperandReads ==
    ASSUME Control, ReadRight, Unary \/ Bracket \/ After \/ Quantify
    PROVE  ReadRight'
<1>1. InExpression /\ doing = "prefix" /\ tokens' = tokens
  BY DEF Unary, Bracket, After, Quantify, At, OnlyCall, Refuse, InExpression
<1>2. /\ ReadSoFar(tokens, Top, pos) /\ Beneath(tokens, stack) /\ pos \in Nat /\ Peek(0) = Tok(tokens, pos)
      /\ Peek(1) = Tok(tokens, pos + 1)
  BY <1>1, ReadingNow
<1>3. ASSUME NEW for \in Opener, stack' = Append(stack, Waits(for, pos, pos))
      PROVE  Beneath(tokens, stack)' /\ Top' = Waits(for, pos, pos)
  BY <1>1, <1>2, <1>3, OpensReading
<1>4. \A for : Waits(for, pos, pos).for = for /\ Waits(for, pos, pos).at = pos /\ Waits(for, pos, pos).lo = pos
  BY DEF Waits
<1>5. ASSUME NEW for \in Opener, stack' = Append(stack, Waits(for, pos, pos)), doing' = "prefix",
             ReadSoFar(tokens, Waits(for, pos, pos), pos')
      PROVE  ReadRight'
  BY <1>1, <1>3, <1>5, EnterReads
<1>6. CASE Unary
  <2>1. stack' = Append(stack, Waits("tail", pos, pos)) /\ doing' = "prefix" /\ pos' = pos + 1 /\ Peek(0) \in Prefix
    BY <1>6 DEF Unary, Parse
  <2>2. ReadSoFar(tokens, Waits("tail", pos, pos), pos + 1)
    BY <1>2, <1>4, <2>1 DEF ReadSoFar, TailRead, Header
  <2>3. QED
    BY <1>5, <2>1, <2>2 DEF Opener
<1>7. CASE Bracket
  <2>1. /\ stack' = Append(stack, Waits(Peek(0), pos, pos)) /\ doing' = "prefix" /\ pos' = pos + 1
        /\ Peek(0) \in {"(", "if"}
    BY <1>7 DEF Bracket, Parse
  <2>2. ReadSoFar(tokens, Waits(Peek(0), pos, pos), pos + 1)
    BY <1>2, <1>4, <2>1 DEF ReadSoFar, Header
  <2>3. QED
    BY <1>5, <2>1, <2>2 DEF Opener
<1>8. CASE After
  <2>1. CASE Peek(1) = "("
    <3>1. /\ stack' = Append(stack, Waits("after", pos, pos)) /\ doing' = "prefix" /\ pos' = pos + 2
          /\ Peek(0) = "after"
      BY <1>8, <2>1 DEF After, Parse
    <3>2. ReadSoFar(tokens, Waits("after", pos, pos), pos + 2)
      BY <1>2, <1>4, <2>1, <3>1 DEF ReadSoFar, Header
    <3>3. QED
      BY <1>5, <3>1, <3>2 DEF Opener
  <2>2. CASE Peek(1) # "("
    BY <1>8, <2>2, AnswerReads DEF After, Refuse
  <2>3. QED
    BY <2>1, <2>2
<1>9. CASE Quantify
  <2>1. /\ stack' = Append(stack, Waits("tail", pos, pos)) /\ doing' = "typed_vars" /\ pos' = pos + 1
    BY <1>9 DEF Quantify
  <2>2. Beneath(tokens, stack)' /\ Top'.at = pos /\ Top'.lo = pos
    BY <1>3, <1>4, <2>1 DEF Opener
  <2>3. Leads(tokens', "typed_vars", pos', Top'.at + 1)
    BY <2>1, <2>2 DEF Leads
  <2>4. QED
    BY <2>1, <2>2, <2>3 DEF ReadRight, Present
<1>10. QED
  BY <1>6, <1>7, <1>8, <1>9

LEMMA TypedVarReads ==
    ASSUME Control, ReadRight, TypedVar
    PROVE  ReadRight'
<1>1. /\ CallType /\ StackOK /\ doing = "typed_vars" /\ stack # <<>> /\ Top.for = "tail" /\ tokens[Top.at] \in Quantifier
      /\ Top.lo = Top.at /\ Leads(tokens, "typed_vars", pos, Top.at + 1) /\ Beneath(tokens, stack)
      /\ pos \in Nat
  BY DEF TypedVar, At, Control, CallType, DoingOK, ReadRight, Present
<1>2. Top \in Frame /\ Top.at \in Nat /\ Top.at \in DOMAIN tokens
  BY <1>1, TopType, FrameType DEF FrameOK
<1>3. Tok(tokens, Top.at) \in Quantifier
  BY <1>1, <1>2 DEF Tok
<1>4. CASE ~(Peek(0) \in Ident /\ Peek(1) = ":" /\ Peek(2) \in Ident /\ Peek(3) = "comma")
  BY <1>4, AnswerReads DEF TypedVar, Refuse
<1>5. CASE Peek(0) \in Ident /\ Peek(1) = ":" /\ Peek(2) \in Ident /\ Peek(3) = "comma"
  <2>1. /\ Tok(tokens, pos) \in Ident /\ Tok(tokens, pos + 1) = ":" /\ Tok(tokens, pos + 2) \in Ident
        /\ Tok(tokens, pos + 3) = "comma"
    <3>1. pos + 0 = pos
      BY <1>1
    <3>2. QED
      BY <1>5, <3>1 DEF Peek
  <2>2. Derives(tokens, "typed_vars", pos, pos + 2) /\ Leads(tokens, "typed_vars", pos + 4, pos)
    BY <1>1, <2>1, VariableLeads
  <2>3. Derives(tokens, "typed_vars", Top.at + 1, pos + 2) /\ Leads(tokens, "typed_vars", pos + 4, Top.at + 1)
    BY <1>1, <2>2, LeadsOn DEF Leads
  <2>4. CASE Peek(4) \in Ident /\ Peek(5) = ":"
    <3>1. stack' = stack /\ pos' = pos + 4 /\ doing' = "typed_vars" /\ tokens' = tokens
      BY <1>5, <2>4 DEF TypedVar, GoOn, OnlyCall
    <3>2. Top' = Top /\ Beneath(tokens, stack)'
      BY <1>1, <3>1 DEF Top
    <3>3. QED
      BY <1>1, <2>3, <3>1, <3>2 DEF ReadRight, Present
  <2>5. CASE ~(Peek(4) \in Ident /\ Peek(5) = ":")
    <3>1. stack' = Append(Below, Top) /\ pos' = pos + 4 /\ doing' = "prefix" /\ tokens' = tokens
      BY <1>5, <2>5 DEF TypedVar, Parse, OnlyCall
    <3>2. Beneath(tokens, stack)' /\ Top' = Top
      BY <1>1, <1>2, <3>1, SwapReads
    <3>3. (pos + 4) - 1 = pos + 3 /\ (pos + 4) - 2 = pos + 2
      BY <1>1
    <3>4. TailRead(tokens, Top, pos + 4)
      BY <1>3, <2>1, <2>3, <3>3 DEF TailRead
    <3>5. ReadSoFar(tokens, Top, pos + 4)
      BY <1>1, <3>4 DEF ReadSoFar, Header
    <3>6. QED
      BY <3>1, <3>2, <3>5, EnterReads
  <2>6. QED
    BY <2>4, <2>5
<1>6. QED
  BY <1>4, <1>5

LEMMA PostfixReads ==
    ASSUME Control, ReadRight, Field \/ Prime \/ NoPostfix
    PROVE  ReadRight'
<1>1. InExpression /\ doing = "postfix"
  BY DEF Field, Prime, NoPostfix, At, InExpression
<1>2. /\ ReadSoFar(tokens, Top, lo) /\ Derives(tokens, "expr", lo, pos - 1) /\ Beneath(tokens, stack)
      /\ pos \in Nat /\ lo \in Nat /\ Peek(0) = Tok(tokens, pos) /\ Peek(1) = Tok(tokens, pos + 1)
  BY <1>1, ReadingNow
<1>3. ASSUME stack' = stack, lo' = lo, tokens' = tokens, doing' \in {"postfix", "infix"},
             Derives(tokens, "expr", lo, pos' - 1)
      PROVE  ReadRight'
  <2>1. Top' = Top /\ Beneath(tokens, stack)'
    BY <1>2, <1>3 DEF Top
  <2>2. QED
    BY <1>2, <1>3, <2>1, ValueReads
<1>4. CASE Field
  <2>1. CASE Peek(1) \in Ident
    <3>1. Peek(0) = "." /\ pos' = pos + 2 /\ doing' = "postfix" /\ stack' = stack /\ lo' = lo /\ tokens' = tokens
      BY <1>4, <2>1 DEF Field, GoOn, OnlyTree
    <3>2. (pos + 1) - 2 = pos - 1 /\ (pos + 1) - 1 = pos /\ (pos + 2) - 1 = pos + 1 /\ pos + 1 \in Int
      BY <1>2
    <3>3. Derives(tokens, "expr", lo, pos + 1)
      BY <1>2, <2>1, <3>1, <3>2, Postfixed
    <3>4. QED
      BY <1>3, <3>1, <3>2, <3>3
  <2>2. CASE Peek(1) \notin Ident
    BY <1>4, <2>2, AnswerReads DEF Field, Refuse
  <2>3. QED
    BY <2>1, <2>2
<1>5. CASE Prime
  <2>1. Peek(0) = "'" /\ pos' = pos + 1 /\ doing' = "postfix" /\ stack' = stack /\ lo' = lo /\ tokens' = tokens
    BY <1>5 DEF Prime, GoOn, OnlyTree
  <2>2. Derives(tokens, "expr", lo, pos) /\ (pos + 1) - 1 = pos
    BY <1>2, <2>1, Postfixed
  <2>3. QED
    BY <1>3, <2>1, <2>2
<1>6. CASE NoPostfix
  <2>1. pos' = pos /\ doing' = "infix" /\ stack' = stack /\ lo' = lo /\ tokens' = tokens
    BY <1>6 DEF NoPostfix, GoOn, OnlyCall
  <2>2. QED
    BY <1>2, <1>3, <2>1
<1>7. QED
  BY <1>4, <1>5, <1>6

LEMMA OperatorReads ==
    ASSUME Control, ReadRight, Index \/ Operator
    PROVE  ReadRight'
<1>1. InExpression /\ doing # "prefix" /\ tokens' = tokens
  BY DEF Index, Operator, At, InExpression, OnlyCall
<1>2. /\ Derives(tokens, "expr", lo, pos - 1) /\ Beneath(tokens, stack)
      /\ pos \in Nat /\ lo \in Nat /\ Peek(0) = Tok(tokens, pos)
  BY <1>1, ReadingNow
<1>3. ASSUME NEW for \in {"[", "binary"}, stack' = Append(stack, Waits(for, pos, lo)), pos' = pos + 1, doing' = "prefix",
             Peek(0) = "[" \/ for # "[", Peek(0) \in Infix \/ for # "binary"
      PROVE  ReadRight'
  <2> DEFINE f == Waits(for, pos, lo)
  <2>1. Beneath(tokens, stack)' /\ Top' = f
    BY <1>1, <1>2, <1>3, OpensReading DEF Opener
  <2>2. f.for = for /\ f.at = pos /\ f.lo = lo
    BY DEF Waits
  <2> HIDE DEF f
  <2>3. ReadSoFar(tokens, f, pos + 1)
    BY <1>2, <1>3, <2>2 DEF ReadSoFar, Header
  <2>4. QED
    BY <1>1, <1>3, <2>1, <2>3, EnterReads
<1>4. CASE Index
  BY <1>3, <1>4 DEF Index, Parse
<1>5. CASE Operator
  BY <1>3, <1>5 DEF Operator, Parse, Binds
<1>6. QED
  BY <1>4, <1>5

\* An operand is complete under the frame below.
LEMMA ReturnReads ==
    ASSUME Control, ReadRight, InExpression, Top.for \in Opener, tokens' = tokens,
           NEW where \in {"postfix", "infix"}, NEW n \in Int, ValueTo(Top, where, n),
           Derives(tokens, "expr", Top.lo, n - 1)
    PROVE  ReadRight'
<1>1. CallType /\ StackOK /\ stack # <<>> /\ Beneath(tokens, stack)
  BY ReadingNow DEF Control
<1>2. Len(stack) > 1
  <2>1. Top.for \notin Header
    BY DEF Opener, Header
  <2>2. \A k \in Nat : k >= 1 => k = 1 \/ k > 1
    OBVIOUS
  <2>3. QED
    BY <1>1, <2>1, <2>2, TopType
<1>3. lo' = Top.lo /\ stack' = Below /\ pos' = n /\ doing' = where
  BY DEF ValueTo
<1>4. Beneath(tokens, stack)' /\ ReadSoFar(tokens, Top', From(Top))
  BY <1>1, <1>2, <1>3, PopReads
<1>5. From(Top) = Top.lo
  BY DEF From, Opener
<1>6. QED
  BY <1>3, <1>4, <1>5, ValueReads

LEMMA CloseOperandReads ==
    ASSUME Control, ReadRight, CloseTail \/ CloseBinary
    PROVE  ReadRight'
<1>1. InExpression /\ doing # "prefix" /\ tokens' = tokens /\ Top.for \in {"tail", "binary"} /\ Top.for \in Opener
  BY DEF CloseTail, CloseBinary, Complete, At, InExpression, OnlyTree, Opener
<1>2. /\ ReadSoFar(tokens, Top, lo) /\ Derives(tokens, "expr", lo, pos - 1)
      /\ pos \in Nat /\ lo \in Nat /\ Top.at \in Nat /\ Top.lo \in Nat
  BY <1>1, ReadingNow
<1>3. Derives(tokens, "expr", Top.lo, pos - 1)
  <2>1. CASE Top.for = "tail"
    <3>1. TailRead(tokens, Top, lo) /\ Top.lo = Top.at
      BY <1>2, <2>1 DEF ReadSoFar
    <3>2. (lo - 1) + 1 = lo /\ (lo - 1) - 1 = lo - 2 /\ lo - 1 \in Int /\ pos - 1 \in Int
          /\ (lo = Top.at + 1 => lo - 1 = Top.at)
      BY <1>2
    <3> DEFINE d == lo - 1
    <3>3. d \in Int /\ d + 1 = lo /\ d - 1 = lo - 2 /\ (lo = Top.at + 1 => d = Top.at)
      BY <3>2
    <3> HIDE DEF d
    <3>4. Derives(tokens, "expr", d + 1, pos - 1)
      BY <1>2, <3>3
    <3>5. TailRead(tokens, Top, lo) => Derives(tokens, "expr", Top.at, pos - 1)
      <4>1. Tok(tokens, lo - 1) = Tok(tokens, d)
        BY DEF d
      <4>2. CASE Tok(tokens, Top.at) \in Prefix /\ lo = Top.at + 1
        BY <1>2, <3>2, <3>3, <3>4, <4>2, Operated
      <4>3. CASE Tok(tokens, Top.at) \in Quantifier /\ Tok(tokens, lo - 1) = "comma"
                 /\ Derives(tokens, "typed_vars", Top.at + 1, lo - 2)
        BY <1>2, <3>2, <3>3, <3>4, <4>1, <4>3, Operated
      <4>4. ASSUME NEW n \in Int, Tok(tokens, Top.at) = "if", Tok(tokens, lo - 1) = "else", Tok(tokens, n) = "then",
                   Derives(tokens, "expr", Top.at + 1, n - 1), Derives(tokens, "expr", n + 1, lo - 2)
            PROVE  Derives(tokens, "expr", Top.at, pos - 1)
        BY <1>2, <3>2, <3>3, <3>4, <4>1, <4>4, Operated
      <4>5. QED
        BY <4>2, <4>3, <4>4 DEF TailRead
    <3>6. QED
      BY <3>1, <3>5
  <2>2. CASE Top.for = "binary"
    <3>1. Tok(tokens, Top.at) \in Infix /\ lo = Top.at + 1 /\ Derives(tokens, "expr", Top.lo, Top.at - 1)
      BY <1>2, <2>2 DEF ReadSoFar
    <3>2. QED
      BY <1>2, <3>1, Operated
  <2>3. QED
    BY <1>1, <2>1, <2>2
<1>4. ValueTo(Top, "postfix", pos) \/ ValueTo(Top, "infix", pos)
  BY DEF CloseTail, CloseBinary
<1>5. QED
  BY <1>1, <1>2, <1>3, <1>4, ReturnReads

LEMMA CloseBracketReads ==
    ASSUME Control, ReadRight,
           CloseBracket("(", ")") \/ CloseBracket("after", ")") \/ CloseBracket("[", "]")
    PROVE  ReadRight'
<1>1. PICK for, close : /\ <<for, close>> \in {<<"(", ")">>, <<"after", ")">>, <<"[", "]">>}
                        /\ CloseBracket(for, close)
  OBVIOUS
<1>2. CASE Peek(0) = close
  <2>1. /\ InExpression /\ doing # "prefix" /\ tokens' = tokens /\ Top.for = for /\ Top.for \in Opener
        /\ ValueTo(Top, "postfix", pos + 1)
    BY <1>1, <1>2 DEF CloseBracket, Complete, At, InExpression, OnlyTree, Opener
  <2>2. /\ ReadSoFar(tokens, Top, lo) /\ Derives(tokens, "expr", lo, pos - 1)
        /\ pos \in Nat /\ lo \in Nat /\ Top.at \in Nat /\ Top.lo \in Nat /\ Tok(tokens, pos) = close
    BY <1>2, <2>1, ReadingNow
  <2>3. Derives(tokens, "expr", Top.lo, pos)
    <3>1. CASE for = "(" /\ close = ")"
      <4>1. Tok(tokens, Top.at) = "(" /\ lo = Top.at + 1 /\ Top.lo = Top.at
        BY <2>1, <2>2, <3>1 DEF ReadSoFar
      <4>2. QED
        BY <2>2, <3>1, <4>1, Parenthesized
    <3>2. CASE for = "after" /\ close = ")"
      <4>1. Tok(tokens, Top.at) = "after" /\ Tok(tokens, Top.at + 1) = "(" /\ lo = Top.at + 2 /\ Top.lo = Top.at
        BY <2>1, <2>2, <3>2 DEF ReadSoFar
      <4>2. QED
        BY <2>2, <3>2, <4>1, Parenthesized
    <3>3. CASE for = "[" /\ close = "]"
      <4>1. Tok(tokens, Top.at) = "[" /\ lo = Top.at + 1 /\ Derives(tokens, "expr", Top.lo, Top.at - 1)
        BY <2>1, <2>2, <3>3 DEF ReadSoFar
      <4>2. QED
        BY <2>2, <3>3, <4>1, Postfixed
    <3>4. QED
      BY <1>1, <3>1, <3>2, <3>3
  <2>4. (pos + 1) - 1 = pos /\ pos + 1 \in Int
    BY <2>2
  <2>5. QED
    BY <2>1, <2>3, <2>4, ReturnReads
<1>3. CASE Peek(0) # close
  BY <1>1, <1>3, AnswerReads DEF CloseBracket, Refuse
<1>4. QED
  BY <1>2, <1>3

LEMMA NextArgumentReads ==
    ASSUME Control, ReadRight, NextArgument
    PROVE  ReadRight'
<1>1. InExpression /\ doing # "prefix" /\ Top.for = "call" /\ Top.for \in Opener
  BY DEF NextArgument, Complete, At, InExpression, Opener
<1>2. /\ ReadSoFar(tokens, Top, lo) /\ Derives(tokens, "expr", lo, pos - 1) /\ CallType /\ stack # <<>>
      /\ pos \in Nat /\ lo \in Nat /\ lo < pos /\ Top.at \in Nat /\ Top.lo \in Nat /\ Tok(tokens, pos) = Peek(0)
      /\ Beneath(tokens, stack) /\ Top \in Frame
  BY <1>1, ReadingNow
<1>3. /\ Tok(tokens, Top.at) \in Ident /\ Tok(tokens, Top.at + 1) = "(" /\ Top.at + 2 <= lo
      /\ Leads(tokens, "exprs", lo, Top.at + 2) /\ Top.lo = Top.at
  BY <1>1, <1>2 DEF ReadSoFar, CallRead
<1>4. (pos - 1) + 1 = pos /\ (pos - 1) + 2 = pos + 1 /\ pos - 1 \in Int /\ (pos + 1) - 1 = pos
  BY <1>2
<1>5. CASE Peek(0) = "comma"
  <2>1. stack' = Append(Below, Top) /\ pos' = pos + 1 /\ doing' = "prefix" /\ tokens' = tokens
    BY <1>5 DEF NextArgument, Parse, OnlyCall
  <2>2. Beneath(tokens, stack)' /\ Top' = Top
    BY <1>2, <2>1, SwapReads
  <2>3. Leads(tokens, "exprs", pos + 1, lo)
    BY <1>2, <1>4, <1>5, ArgumentLeads
  <2>4. Leads(tokens, "exprs", pos + 1, Top.at + 2)
    BY <1>2, <1>3, <2>3, LeadsOn
  <2>5. CallRead(tokens, Top, pos + 1)
    BY <1>2, <1>3, <2>4 DEF CallRead
  <2>6. ReadSoFar(tokens, Top, pos + 1)
    BY <1>1, <1>3, <2>5 DEF ReadSoFar, Header
  <2>7. QED
    BY <2>1, <2>2, <2>6, EnterReads
<1>6. CASE Peek(0) = ")"
  <2>1. tokens' = tokens /\ ValueTo(Top, "postfix", pos + 1)
    BY <1>6 DEF NextArgument, OnlyTree
  <2>2. Derives(tokens, "exprs", lo, pos - 1)
    BY <1>2, <1>4, ArgumentLeads
  <2>3. Derives(tokens, "exprs", Top.at + 2, pos - 1)
    BY <1>3, <1>4, <2>2 DEF Leads
  <2>4. Derives(tokens, "expr", Top.at, pos)
    BY <1>2, <1>3, <1>6, <2>3, Parenthesized
  <2>5. QED
    BY <1>1, <1>2, <1>3, <1>4, <2>1, <2>4, ReturnReads
<1>7. CASE Peek(0) \notin {"comma", ")"}
  BY <1>7, AnswerReads DEF NextArgument, Refuse
<1>8. QED
  BY <1>5, <1>6, <1>7

LEMMA BranchReads ==
    ASSUME Control, ReadRight, Then \/ Else
    PROVE  ReadRight'
<1>1. InExpression /\ doing # "prefix" /\ Top.for \in {"if", "then"}
  BY DEF Then, Else, Complete, At, InExpression
<1>2. /\ ReadSoFar(tokens, Top, lo) /\ Derives(tokens, "expr", lo, pos - 1) /\ CallType /\ stack # <<>>
      /\ pos \in Nat /\ lo \in Nat /\ Top.at \in Nat /\ Top.lo \in Nat /\ Tok(tokens, pos) = Peek(0)
      /\ Beneath(tokens, stack) /\ Top \in Frame
  BY <1>1, ReadingNow
<1>3. (pos + 1) - 1 = pos /\ (pos + 1) - 2 = pos - 1 /\ Top.lo = Top.at /\ Tok(tokens, Top.at) = "if"
  BY <1>1, <1>2 DEF ReadSoFar
<1>4. ASSUME NEW for \in {"then", "tail"}, stack' = Append(Below, [Top EXCEPT !.for = for]),
             pos' = pos + 1, doing' = "prefix", tokens' = tokens,
             for = "then" => Tok(tokens, pos) = "then" /\ Derives(tokens, "expr", Top.at + 1, pos - 1),
             for = "tail" => TailRead(tokens, [Top EXCEPT !.for = for], pos + 1)
      PROVE  ReadRight'
  <2> DEFINE f == [Top EXCEPT !.for = for]
  <2>1. f \in Frame /\ f.for = for /\ f.at = Top.at /\ f.lo = Top.lo
    BY <1>2 DEF Frame
  <2>2. stack' = Append(Below, f) /\ (for = "tail" => TailRead(tokens, f, pos + 1))
    BY <1>4
  <2> HIDE DEF f
  <2>3. From(f) = From(Top)
    BY <1>1, <2>1 DEF From
  <2>4. Beneath(tokens, stack)' /\ Top' = f
    BY <1>2, <1>4, <2>1, <2>2, <2>3, SwapReads
  <2>5. ReadSoFar(tokens, f, pos + 1)
    BY <1>3, <1>4, <2>1, <2>2 DEF ReadSoFar, Header
  <2>6. QED
    BY <1>4, <2>4, <2>5, EnterReads
<1>5. CASE Then
  <2>1. CASE Peek(0) = "then"
    <3>1. stack' = Append(Below, [Top EXCEPT !.for = "then"]) /\ pos' = pos + 1 /\ doing' = "prefix" /\ tokens' = tokens
      BY <1>5, <2>1 DEF Then, Parse, OnlyCall
    <3>2. lo = Top.at + 1
      BY <1>2, <1>5 DEF Then, Complete, ReadSoFar
    <3>3. QED
      BY <1>2, <1>4, <2>1, <3>1, <3>2
  <2>2. CASE Peek(0) # "then"
    BY <1>5, <2>2, AnswerReads DEF Then, Refuse
  <2>3. QED
    BY <2>1, <2>2
<1>6. CASE Else
  <2>1. CASE Peek(0) = "else"
    <3>1. stack' = Append(Below, [Top EXCEPT !.for = "tail"]) /\ pos' = pos + 1 /\ doing' = "prefix" /\ tokens' = tokens
      BY <1>6, <2>1 DEF Else, Parse, OnlyCall
    <3>2. Tok(tokens, lo - 1) = "then" /\ Derives(tokens, "expr", Top.at + 1, lo - 2)
      BY <1>2, <1>6 DEF Else, Complete, ReadSoFar
    <3>3. lo - 1 \in Int /\ (lo - 1) - 1 = lo - 2 /\ (lo - 1) + 1 = lo
      BY <1>2
    <3>4. [Top EXCEPT !.for = "tail"].at = Top.at
      BY <1>2 DEF Frame
    <3>5. \E n \in Int : /\ Tok(tokens, n) = "then" /\ Derives(tokens, "expr", Top.at + 1, n - 1)
                         /\ Derives(tokens, "expr", n + 1, (pos + 1) - 2)
      <4> DEFINE d == lo - 1
      <4>1. d \in Int /\ d - 1 = lo - 2 /\ d + 1 = lo /\ Tok(tokens, d) = "then"
        BY <3>2, <3>3
      <4> HIDE DEF d
      <4>2. Derives(tokens, "expr", Top.at + 1, d - 1) /\ Derives(tokens, "expr", d + 1, (pos + 1) - 2)
        BY <1>2, <1>3, <3>2, <4>1
      <4>3. QED
        BY <4>1, <4>2
    <3>6. TailRead(tokens, [Top EXCEPT !.for = "tail"], pos + 1)
      BY <1>2, <1>3, <2>1, <3>4, <3>5 DEF TailRead
    <3>7. QED
      BY <1>4, <3>1, <3>6
  <2>2. CASE Peek(0) # "else"
    BY <1>6, <2>2, AnswerReads DEF Else, Refuse
  <2>3. QED
    BY <2>1, <2>2
<1>7. QED
  BY <1>5, <1>6

-----------------------------------------------------------------------------
(* Soundness: the steps of the declarations. *)

LEMMA BodyGrows ==
    ASSUME NEW t, NEW f \in Frame, NEW b \in Int, NEW c \in Int, b <= c, NEW kind,
           <<f.for, kind>> \in {<<"intent", "clauses">>, <<"safety", "invariants">>, <<"example", "sections">>},
           ReadSoFar(t, f, b), Leads(t, kind, c, b)
    PROVE  ReadSoFar(t, f, c)
<1>1. f.at \in Nat /\ f.for \in Header /\ f.for \in {"intent", "safety", "example"}
  BY FrameType DEF Header
<1>2. Tok(t, f.at) = f.for /\ f.at < b
  BY <1>1 DEF ReadSoFar
<1>3. f.at < c
  BY <1>1, <1>2
<1>4. CASE f.for = "intent" /\ kind = "clauses"
  <2>1. Leads(t, "clauses", b, f.at + 1)
    BY <1>4 DEF ReadSoFar
  <2>2. Leads(t, "clauses", c, f.at + 1)
    BY <1>4, <2>1, LeadsOn
  <2>3. QED
    BY <1>2, <1>3, <1>4, <2>2 DEF ReadSoFar
<1>5. CASE f.for = "safety" /\ kind = "invariants"
  <2>1. Leads(t, "invariants", b, f.at + 1)
    BY <1>5 DEF ReadSoFar
  <2>2. Leads(t, "invariants", c, f.at + 1)
    BY <1>5, <2>1, LeadsOn
  <2>3. QED
    BY <1>2, <1>3, <1>5, <2>2 DEF ReadSoFar
<1>6. CASE f.for = "example" /\ kind = "sections"
  <2>1. Leads(t, "sections", b, f.at + 1)
    BY <1>6 DEF ReadSoFar
  <2>2. Leads(t, "sections", c, f.at + 1)
    BY <1>6, <2>1, LeadsOn
  <2>3. QED
    BY <1>2, <1>3, <1>6, <2>2 DEF ReadSoFar
<1>7. QED
  BY <1>4, <1>5, <1>6

\* A part is complete, and the loop of its declaration goes on.
LEMMA PartReads ==
    ASSUME Control, ReadRight, stack # <<>>, tokens' = tokens, NEW n \in Int, Return("body", n), NEW kind,
           <<Top.for, kind>> \in {<<"clause", "clauses">>, <<"modifies", "clauses">>, <<"invariant", "invariants">>,
                                  <<"section", "sections">>},
           From(Top) <= n, Leads(tokens, kind, n, From(Top))
    PROVE  ReadRight'
<1>1. CallType /\ StackOK /\ Beneath(tokens, stack) /\ stack' = Below /\ pos' = n /\ doing' = "body"
  BY DEF Control, ReadRight, Return
<1>2. /\ Len(stack) = 2 /\ stack[1].for = IF Top.for = "invariant" THEN "safety"
                                          ELSE IF Top.for = "section" THEN "example" ELSE "intent"
  BY <1>1, UnderPart
<1>3. Len(stack) > 1 /\ Len(stack) - 1 = 1
  BY <1>2
<1>4. Beneath(tokens, stack)' /\ ReadSoFar(tokens, Top', From(Top)) /\ Top' = stack[1] /\ stack[1] \in Frame
  <2>1. stack[Len(stack) - 1] \in Frame
    BY <1>1, <1>3, TopType
  <2>2. QED
    BY <1>1, <1>3, <2>1, PopReads
<1>5. From(Top) \in Int
  <2>1. Top \in Frame
    BY <1>1, TopType
  <2>2. QED
    BY <2>1, FrameType DEF From
<1>6. <<Top'.for, kind>> \in {<<"intent", "clauses">>, <<"safety", "invariants">>, <<"example", "sections">>}
  BY <1>2, <1>4
<1> DEFINE g == Top'
<1>7. g \in Frame /\ ReadSoFar(tokens, g, From(Top))
      /\ <<g.for, kind>> \in {<<"intent", "clauses">>, <<"safety", "invariants">>, <<"example", "sections">>}
  BY <1>4, <1>6
<1> HIDE DEF g
<1>8. ReadSoFar(tokens, g, n)
  BY <1>5, <1>7, BodyGrows
<1>9. QED
  BY <1>1, <1>4, <1>8, EnterReads DEF g

\* Facts of every step that completes a part of a declaration.
LEMMA PartNow ==
    ASSUME Control, ReadRight, doing = "infix"
    PROVE  /\ InExpression /\ CallType /\ StackOK /\ stack # <<>> /\ Top \in Frame /\ Beneath(tokens, stack)
           /\ ReadSoFar(tokens, Top, lo) /\ Derives(tokens, "expr", lo, pos - 1) /\ lo <= pos - 1
           /\ pos \in Nat /\ lo \in Nat /\ Top.at \in Nat /\ Top.lo \in Nat /\ Top.at < pos
           /\ Peek(0) = Tok(tokens, pos) /\ Peek(1) = Tok(tokens, pos + 1) /\ Tok(tokens, Top.at) = tokens[Top.at]
           /\ (pos - 1) + 1 = pos /\ (pos + 1) - 1 = pos /\ (pos - 1) + 2 = pos + 1 /\ (pos + 2) - 1 = pos + 1
           /\ pos - 1 \in Int /\ pos + 1 \in Int /\ pos + 2 \in Int
<1>1. InExpression
  BY DEF InExpression
<1>2. /\ CallType /\ StackOK /\ stack # <<>> /\ Top \in Frame /\ Beneath(tokens, stack)
      /\ ReadSoFar(tokens, Top, lo) /\ Derives(tokens, "expr", lo, pos - 1)
      /\ pos \in Nat /\ lo \in Nat /\ lo < pos /\ Top.at \in Nat /\ Top.lo \in Nat /\ Top.at < pos
      /\ Peek(0) = Tok(tokens, pos) /\ Peek(1) = Tok(tokens, pos + 1) /\ Tok(tokens, Top.at) = tokens[Top.at]
  BY <1>1, ReadingNow DEF Control
<1>3. QED
  BY <1>1, <1>2

LEMMA CloseInvariantReads ==
    ASSUME Control, ReadRight, CloseInvariant
    PROVE  ReadRight'
<1>1. doing = "infix" /\ Top.for = "invariant" /\ tokens' = tokens /\ Return("body", pos)
  BY DEF CloseInvariant, Complete, At, Add
<1>2. Tok(tokens, Top.at) = "invariant" /\ lo = Top.at + 1
  BY <1>1, PartNow DEF ReadSoFar
<1>3. From(Top) = Top.at /\ Top.at <= pos - 1
  BY <1>1, PartNow DEF From
<1>4. Leads(tokens, "invariants", pos, Top.at)
  <2>1. /\ Derives(tokens, "expr", Top.at + 1, pos - 1) /\ Top.at \in Int /\ pos - 1 \in Int
        /\ (pos - 1) + 1 = pos
    BY <1>1, <1>2, PartNow
  <2>2. Leads(tokens, "invariants", (pos - 1) + 1, Top.at)
    BY <1>2, <1>3, <2>1, BodyLeads
  <2>3. QED
    BY <2>1, <2>2
<1>5. QED
  BY <1>1, <1>3, <1>4, PartNow, PartReads

LEMMA CloseClauseReads ==
    ASSUME Control, ReadRight, CloseClause
    PROVE  ReadRight'
<1>1. doing = "infix" /\ Top.for = "clause"
  BY DEF CloseClause, Complete, At
<1>2. /\ Tok(tokens, Top.at) \in ClauseKind
      /\ lo = Top.at + 1 \/ (Tok(tokens, Top.at + 1) \in Ident /\ Tok(tokens, Top.at + 2) = ":" /\ lo = Top.at + 3)
  BY <1>1, PartNow DEF ReadSoFar
<1>3. Labelled(tokens, Derivable(tokens), Top.at + 1, pos - 1)
  <2>0. Top.at \in Nat
    BY <1>1, PartNow
  <2>1. (Top.at + 1) + 1 = Top.at + 2 /\ (Top.at + 1) + 2 = Top.at + 3
    BY <2>0
  <2>2. QED
    BY <1>1, <1>2, <2>1, PartNow DEF Labelled, Derives
<1>4. From(Top) = Top.at /\ Top.at <= pos - 1 /\ Top.at <= pos /\ Top.at <= pos + 1 /\ Top.at <= pos + 2 /\ Top.at + 2 < pos + 1
  <2>1. lo = Top.at + 1 \/ lo = Top.at + 3
    BY <1>2
  <2>2. Top.at \in Nat /\ lo \in Nat /\ pos \in Nat /\ lo <= pos - 1
    BY <1>1, PartNow
  <2>3. From(Top) = Top.at
    BY <1>1 DEF From
  <2>4. QED
    BY <2>1, <2>2, <2>3
<1>5. CASE Peek(0) # "else"
  <2>1. tokens' = tokens /\ Return("body", pos)
    BY <1>5 DEF CloseClause, Add
  <2>2. AClause(tokens, Derivable(tokens), Top.at, pos - 1)
    BY <1>2, <1>3 DEF AClause
  <2>3. Leads(tokens, "clauses", pos, Top.at)
    BY <1>1, <1>4, <2>2, PartNow, BodyLeads
  <2>4. QED
    BY <1>1, <1>4, <2>1, <2>3, PartNow, PartReads
<1>6. CASE Peek(0) = "else" /\ tokens[Top.at] = "require" /\ Peek(1) = "reject"
  <2>1. tokens' = tokens /\ Return("body", pos + 2)
    BY <1>6 DEF CloseClause, Add
  <2>2. AClause(tokens, Derivable(tokens), Top.at, pos + 1)
    <3>1. (pos + 1) - 2 = pos - 1 /\ (pos + 1) - 1 = pos
      BY <1>1, PartNow
    <3>2. Tok(tokens, Top.at) = "require" /\ Tok(tokens, pos) = "else" /\ Tok(tokens, pos + 1) = "reject"
      BY <1>1, <1>6, PartNow
    <3>3. QED
      BY <1>3, <1>4, <3>1, <3>2 DEF AClause
  <2>3. Leads(tokens, "clauses", (pos + 1) + 1, Top.at) /\ (pos + 1) + 1 = pos + 2
    <3>1. pos \in Nat /\ pos + 1 \in Int /\ Top.at \in Int
      BY <1>1, PartNow
    <3>2. (pos + 1) + 1 = pos + 2
      BY <3>1
    <3>3. QED
      BY <1>4, <2>2, <3>1, <3>2, BodyLeads
  <2>4. QED
    BY <1>1, <1>4, <2>1, <2>3, PartNow, PartReads
<1>7. CASE Refuse
  BY <1>7, AnswerReads DEF Refuse
<1>8. QED
  BY <1>5, <1>6, <1>7 DEF CloseClause

LEMMA ClosePathReads ==
    ASSUME Control, ReadRight, ClosePath
    PROVE  ReadRight'
<1>1. doing = "infix" /\ Top.for = "modifies" /\ tokens' = tokens
  BY DEF ClosePath, Complete, At, Add
<1>2. Tok(tokens, Top.at) = "modifies" /\ Top.at < lo /\ Leads(tokens, "exprs", lo, Top.at + 1)
  BY <1>1, PartNow DEF ReadSoFar
<1>3. From(Top) = Top.at /\ Top.at <= pos - 1 /\ Top.at <= pos /\ Top.at < pos + 1
  BY <1>1, PartNow DEF From
<1>4. CASE Peek(0) = "comma"
  <2> DEFINE f == [Top EXCEPT !.lo = pos + 1]
  <2>1. stack' = Append(Below, f) /\ pos' = pos + 1 /\ doing' = "prefix"
    BY <1>4 DEF ClosePath, Parse
  <2>2. f \in Frame /\ f.for = "modifies" /\ f.at = Top.at
    <3>1. Top \in Frame /\ pos \in Nat
      BY <1>1, PartNow
    <3>2. QED
      BY <1>1, <3>1 DEF Frame
  <2> HIDE DEF f
  <2>3. From(f) = From(Top)
    BY <1>3, <2>2 DEF From
  <2>4. Beneath(tokens, stack)' /\ Top' = f
    BY <1>1, <2>1, <2>2, <2>3, PartNow, SwapReads
  <2>5. Leads(tokens, "exprs", pos + 1, lo)
    BY <1>1, <1>4, PartNow, ArgumentLeads
  <2>6. Leads(tokens, "exprs", pos + 1, Top.at + 1)
    BY <1>1, <1>2, <2>5, PartNow, LeadsOn
  <2>7. ReadSoFar(tokens, f, pos + 1)
    BY <1>2, <1>3, <2>2, <2>6 DEF ReadSoFar, Header
  <2>8. QED
    BY <1>1, <2>1, <2>4, <2>7, EnterReads
<1>5. CASE Peek(0) # "comma"
  <2>1. Return("body", pos)
    BY <1>5 DEF ClosePath
  <2>2. Derives(tokens, "exprs", lo, pos - 1)
    BY <1>1, PartNow, ArgumentLeads
  <2>3. Derives(tokens, "exprs", Top.at + 1, pos - 1)
    BY <1>1, <1>2, <2>2, PartNow DEF Leads
  <2>4. AClause(tokens, Derivable(tokens), Top.at, pos - 1)
    BY <1>2, <2>3 DEF AClause, Derives
  <2>5. Leads(tokens, "clauses", pos, Top.at)
    BY <1>1, <1>3, <2>4, PartNow, BodyLeads
  <2>6. QED
    BY <1>1, <1>3, <2>1, <2>5, PartNow, PartReads
<1>6. QED
  BY <1>4, <1>5

\* Facts of every step of a loop of a declaration.
LEMMA LoopNow ==
    ASSUME Control, ReadRight, doing \in {"body", "bindings", "path"}
    PROVE  /\ CallType /\ StackOK /\ stack # <<>> /\ Top \in Frame /\ Beneath(tokens, stack)
           /\ doing \in {"body", "bindings"} => ReadSoFar(tokens, Top, pos)
           /\ doing = "path" => /\ Tok(tokens, Top.lo) \in Ident /\ Top.lo < pos /\ Leads(tokens, "path", pos, Top.lo + 1)
                                /\ Top.for = "binding"
           /\ doing = "bindings" => Top.for = "section" /\ SectionRead(tokens, Top, pos)
           /\ pos \in Nat /\ Top.at \in Nat /\ Top.lo \in Nat /\ Top.at < pos /\ lo \in Nat
           /\ Peek(0) = Tok(tokens, pos) /\ Peek(1) = Tok(tokens, pos + 1) /\ Peek(2) = Tok(tokens, pos + 2)
           /\ Tok(tokens, Top.at) = tokens[Top.at]
<1>1. /\ CallType /\ StackOK /\ stack # <<>> /\ Top \in Frame /\ Top.at \in Nat /\ Top.at < pos /\ Top.at \in DOMAIN tokens
      /\ pos \in Nat /\ (doing = "bindings" => Top.for = "section") /\ (doing = "path" => Top.for = "binding")
      /\ lo \in Nat
  BY InLoop
<1>2. /\ Beneath(tokens, stack)
      /\ doing \in {"body", "bindings"} => ReadSoFar(tokens, Top, pos)
      /\ doing = "path" => Tok(tokens, Top.lo) \in Ident /\ Top.lo < pos /\ Leads(tokens, "path", pos, Top.lo + 1)
  BY DEF ReadRight, Present
<1>3. pos + 0 = pos /\ Top.lo \in Nat
  BY <1>1, FrameType
<1>4. doing = "bindings" => SectionRead(tokens, Top, pos)
  BY <1>1, <1>2 DEF ReadSoFar
<1>5. QED
  BY <1>1, <1>2, <1>3, <1>4 DEF Peek, Tok

\* The loop of a declaration calls for a part.
LEMMA PartStarts ==
    ASSUME Control, ReadRight, doing \in {"body", "bindings"}, tokens' = tokens, NEW f \in Frame,
           stack' = Append(stack, f), From(f) = pos, doing' \in {"prefix", "body", "bindings"},
           ReadSoFar(tokens, f, pos')
    PROVE  ReadRight'
<1>1. CallType /\ Beneath(tokens, stack) /\ stack # <<>> /\ ReadSoFar(tokens, Top, From(f))
  BY LoopNow
<1>2. Beneath(tokens, stack)' /\ Top' = f
  BY <1>1, PushReads
<1>3. QED
  BY <1>2, EnterReads

LEMMA ClauseReads ==
    ASSUME Control, ReadRight, Clause \/ Invariant
    PROVE  ReadRight'
<1>1. doing = "body" /\ tokens' = tokens /\ doing' = "prefix"
  BY DEF Clause, Invariant, InBody, At, OnlyCall, Parse
<1>2. pos \in Nat /\ Peek(0) = Tok(tokens, pos) /\ Peek(1) = Tok(tokens, pos + 1) /\ Peek(2) = Tok(tokens, pos + 2)
  BY <1>1, LoopNow
<1>3. \A for : Waits(for, pos, pos + 1).for = for /\ Waits(for, pos, pos + 1).at = pos
  BY DEF Waits
<1>4. \A for \in {"clause", "invariant"} : Waits(for, pos, pos + 1) \in Frame
  BY <1>2 DEF Waits, Frame, Control, CallType
<1>5. ASSUME NEW for \in {"clause", "invariant"}, stack' = Append(stack, Waits(for, pos, pos + 1)),
             ReadSoFar(tokens, Waits(for, pos, pos + 1), pos')
      PROVE  ReadRight'
  <2>1. From(Waits(for, pos, pos + 1)) = pos
    BY <1>3 DEF From
  <2>2. QED
    BY <1>1, <1>4, <1>5, <2>1, PartStarts
<1>6. CASE Clause
  <2> DEFINE f == Waits("clause", pos, pos + 1)
  <2>1. /\ stack' = Append(stack, f) /\ Peek(0) \in ClauseKind
        /\ pos' = IF Peek(1) \in Ident /\ Peek(2) = ":" THEN pos + 3 ELSE pos + 1
    BY <1>6 DEF Clause, Parse
  <2>2. f.for = "clause" /\ f.at = pos
    BY <1>3
  <2> HIDE DEF f
  <2>3. ReadSoFar(tokens, f, pos')
    BY <1>2, <2>1, <2>2 DEF ReadSoFar, Header
  <2>4. QED
    BY <1>5, <2>1, <2>3 DEF f
<1>7. CASE Invariant
  <2> DEFINE f == Waits("invariant", pos, pos + 1)
  <2>1. stack' = Append(stack, f) /\ Peek(0) = "invariant" /\ pos' = pos + 1
    BY <1>7 DEF Invariant, Parse
  <2>2. f.for = "invariant" /\ f.at = pos
    BY <1>3
  <2> HIDE DEF f
  <2>3. ReadSoFar(tokens, f, pos')
    BY <1>2, <2>1, <2>2 DEF ReadSoFar, Header
  <2>4. QED
    BY <1>5, <2>1, <2>3 DEF f
<1>8. QED
  BY <1>6, <1>7

LEMMA ModifiesReads ==
    ASSUME Control, ReadRight, Modifies
    PROVE  ReadRight'
<1>1. doing = "body" /\ Top.for = "intent" /\ Peek(0) = "modifies"
  BY DEF Modifies, InBody, At
<1>2. /\ pos \in Nat /\ Peek(0) = Tok(tokens, pos) /\ Peek(1) = Tok(tokens, pos + 1) /\ Top \in Frame
      /\ ReadSoFar(tokens, Top, pos) /\ Beneath(tokens, stack)
  BY <1>1, LoopNow
<1>3. CASE Refuse
  BY <1>3, AnswerReads DEF Refuse
<1>4. CASE Peek(1) = "*" /\ GoOn("body", pos + 2) /\ tokens' = tokens
  <2>1. stack' = stack /\ pos' = pos + 2 /\ doing' = "body"
    BY <1>4 DEF GoOn
  <2>2. AClause(tokens, Derivable(tokens), pos, pos + 1)
    BY <1>1, <1>2, <1>4 DEF AClause
  <2>3. pos <= pos + 1 /\ (pos + 1) + 1 = pos + 2 /\ pos + 1 \in Int /\ pos \in Int /\ pos + 2 \in Int /\ pos <= pos + 2
    BY <1>2
  <2>4. Leads(tokens, "clauses", pos + 2, pos)
    BY <2>2, <2>3, BodyLeads
  <2>5. ReadSoFar(tokens, Top, pos + 2)
    BY <1>1, <1>2, <2>3, <2>4, BodyGrows
  <2>6. Top' = Top /\ Beneath(tokens, stack)'
    BY <1>2, <1>4, <2>1 DEF Top
  <2>7. QED
    BY <1>4, <2>1, <2>5, <2>6, EnterReads
<1>5. CASE Parse(Waits("modifies", pos, pos + 1), stack, 0, pos + 1) /\ OnlyCall
  <2> DEFINE f == Waits("modifies", pos, pos + 1)
  <2>1. stack' = Append(stack, f) /\ pos' = pos + 1 /\ doing' = "prefix" /\ tokens' = tokens
    BY <1>5 DEF Parse, OnlyCall
  <2>2. f \in Frame /\ f.for = "modifies" /\ f.at = pos
    BY <1>2 DEF Waits, Frame, Control, CallType
  <2> HIDE DEF f
  <2>3. From(f) = pos
    BY <2>2 DEF From
  <2>4. ReadSoFar(tokens, f, pos')
    BY <1>1, <1>2, <2>1, <2>2 DEF ReadSoFar, Header, Leads
  <2>5. QED
    BY <1>1, <2>1, <2>2, <2>3, <2>4, PartStarts
<1>6. QED
  BY <1>3, <1>4, <1>5 DEF Modifies

LEMMA SectionReads ==
    ASSUME Control, ReadRight, Section \/ Binding
    PROVE  ReadRight'
<1>1. doing \in {"body", "bindings"}
  BY DEF Section, Binding, InBody, At
<1>2. /\ pos \in Nat /\ Peek(0) = Tok(tokens, pos) /\ Peek(1) = Tok(tokens, pos + 1) /\ Peek(2) = Tok(tokens, pos + 2)
      /\ Top.at \in Nat /\ ReadSoFar(tokens, Top, pos) /\ Beneath(tokens, stack) /\ CallType /\ stack # <<>>
  BY <1>1, LoopNow
<1>3. CASE Refuse
  BY <1>3, AnswerReads DEF Refuse
<1>4. CASE Section /\ Peek(0) \in Ident /\ Peek(1) = ":" /\ Peek(2) = "lbrace"
  <2> DEFINE f == Waits("section", pos, pos)
  <2>1. stack' = Append(stack, f) /\ pos' = pos + 3 /\ doing' = "bindings" /\ tokens' = tokens
    BY <1>4 DEF Section, OnlyCall
  <2>2. f \in Frame /\ f.for = "section" /\ f.at = pos /\ f.lo = pos
    BY <1>2 DEF Waits, Frame, CallType
  <2> HIDE DEF f
  <2>3. From(f) = pos
    BY <2>2 DEF From
  <2>4. ReadSoFar(tokens, f, pos')
    BY <1>2, <1>4, <2>1, <2>2 DEF ReadSoFar, Header, Leads, SectionRead
  <2>5. QED
    BY <1>1, <2>1, <2>2, <2>3, <2>4, PartStarts
<1>5. CASE Binding /\ Peek(0) \in Ident
  <2> DEFINE f == Waits("binding", Top.at, pos)
  <2>1. stack' = Append(stack, f) /\ pos' = pos + 1 /\ doing' = "path" /\ tokens' = tokens
    BY <1>5 DEF Binding, OnlyCall
  <2>2. f \in Frame /\ f.for = "binding" /\ f.lo = pos
    BY <1>2 DEF Waits, Frame, CallType
  <2> HIDE DEF f
  <2>3. From(f) = pos
    BY <2>2 DEF From
  <2>4. Beneath(tokens, stack)' /\ Top' = f
    BY <1>2, <2>1, <2>2, <2>3, PushReads
  <2>5. Tok(tokens, f.lo) \in Ident /\ f.lo < pos + 1 /\ Leads(tokens, "path", pos + 1, f.lo + 1)
    BY <1>2, <1>5, <2>2 DEF Leads
  <2>6. QED
    BY <2>1, <2>4, <2>5 DEF ReadRight, Present
<1>6. QED
  BY <1>3, <1>4, <1>5 DEF Section, Binding

LEMMA PathReads ==
    ASSUME Control, ReadRight, PathField \/ PathPrime \/ EndOfPath
    PROVE  ReadRight'
<1>1. doing = "path" /\ tokens' = tokens
  BY DEF PathField, PathPrime, EndOfPath, At, OnlyCall
<1>2. /\ pos \in Nat /\ Peek(0) = Tok(tokens, pos) /\ Peek(1) = Tok(tokens, pos + 1) /\ Beneath(tokens, stack)
      /\ Tok(tokens, Top.lo) \in Ident /\ Top.lo < pos /\ Leads(tokens, "path", pos, Top.lo + 1)
      /\ Top.for = "binding" /\ Top.lo \in Nat /\ CallType /\ stack # <<>> /\ Top \in Frame
  BY <1>1, LoopNow
<1>3. ASSUME NEW n \in {pos + 1, pos + 2}, GoOn("path", n), Leads(tokens, "path", n, pos)
      PROVE  ReadRight'
  <2>1. Leads(tokens, "path", n, Top.lo + 1) /\ Top.lo < n
    BY <1>2, <1>3, LeadsOn
  <2>2. pos' = n /\ doing' = "path" /\ Top' = Top /\ Beneath(tokens, stack)'
    BY <1>1, <1>2, <1>3 DEF GoOn, Top
  <2>3. QED
    BY <1>1, <1>2, <2>1, <2>2 DEF ReadRight, Present
<1>4. CASE PathField
  BY <1>2, <1>3, <1>4, PathLeads DEF PathField
<1>5. CASE PathPrime
  BY <1>2, <1>3, <1>5, PathLeads DEF PathPrime
<1>6. CASE EndOfPath
  <2>1. stack' = Append(Below, Top) /\ pos' = pos + 1 /\ doing' = "prefix" /\ Peek(0) = ":"
    BY <1>6 DEF EndOfPath, Parse
  <2>2. Beneath(tokens, stack)' /\ Top' = Top
    BY <1>1, <1>2, <2>1, SwapReads
  <2>3. Derives(tokens, "path", Top.lo + 1, pos - 1)
    BY <1>2, PathLeads DEF Leads
  <2>4. (pos + 1) - 2 = pos - 1 /\ (pos + 1) - 1 = pos
    BY <1>2
  <2>5. BindingRead(tokens, Top, pos + 1)
    BY <1>2, <2>1, <2>3, <2>4 DEF BindingRead
  <2>6. ReadSoFar(tokens, Top, pos + 1)
    BY <1>2, <2>5 DEF ReadSoFar, Header
  <2>7. QED
    BY <1>1, <2>1, <2>2, <2>6, EnterReads
<1>7. QED
  BY <1>4, <1>5, <1>6

LEMMA CloseBindingReads ==
    ASSUME Control, ReadRight, CloseBinding
    PROVE  ReadRight'
<1>1. doing = "infix" /\ Top.for = "binding"
  BY DEF CloseBinding, Complete, At
<1>2. CASE Peek(0) \notin {"comma", "rbrace"}
  BY <1>2, AnswerReads DEF CloseBinding, Refuse
<1>3. CASE Peek(0) \in {"comma", "rbrace"}
  <2>1. /\ tokens' = tokens /\ stack' = Below /\ doing' = "bindings"
        /\ pos' = IF Peek(0) = "comma" THEN pos + 1 ELSE pos
    BY <1>3 DEF CloseBinding, Return
  <2>2. CallType /\ StackOK /\ stack # <<>> /\ Beneath(tokens, stack) /\ Top \in Frame
    BY <1>1, PartNow
  <2>3. Len(stack) = 3 /\ stack[2].for = "section"
    BY <1>1, <2>2, UnderBinding
  <2>4. Len(stack) > 1 /\ Len(stack) - 1 = 2
    BY <2>3
  <2>5. Beneath(tokens, stack)' /\ ReadSoFar(tokens, Top', From(Top)) /\ Top' = stack[2] /\ stack[2] \in Frame
    <3>1. stack[Len(stack) - 1] \in Frame
      BY <2>2, <2>4, TopType
    <3>2. QED
      BY <2>1, <2>2, <2>4, <3>1, PopReads
  <2>6. From(Top) = Top.lo
    BY <1>1 DEF From
  <2>7. /\ pos \in Nat /\ lo \in Nat /\ Top.lo \in Nat /\ lo <= pos - 1 /\ Peek(0) = Tok(tokens, pos)
        /\ ReadSoFar(tokens, Top, lo) /\ Derives(tokens, "expr", lo, pos - 1)
    BY <1>1, PartNow
  <2>8. Tok(tokens, Top.lo) \in Ident /\ Tok(tokens, lo - 1) = ":" /\ Derives(tokens, "path", Top.lo + 1, lo - 2)
    BY <1>1, <2>7 DEF ReadSoFar, BindingRead
  <2>9. Top.lo <= pos - 1
    <3>1. Top.lo + 1 <= (lo - 2) + 1
      BY <2>7, <2>8, Extent
    <3>2. QED
      BY <2>7, <3>1
  <2>10. ABinding(tokens, Derivable(tokens), Top.lo, pos - 1)
    <3> DEFINE d == lo - 1
    <3>1. d \in Int /\ d - 1 = lo - 2 /\ d + 1 = lo /\ Tok(tokens, d) = ":"
      BY <2>7, <2>8
    <3>2. d \in Top.lo + 1..(pos - 1) - 1
      <4>1. Top.lo + 1 <= (lo - 2) + 1
        BY <2>7, <2>8, Extent
      <4>2. QED
        BY <2>7, <4>1
    <3> HIDE DEF d
    <3>3. Derives(tokens, "path", Top.lo + 1, d - 1) /\ Derives(tokens, "expr", d + 1, pos - 1)
      BY <2>7, <2>8, <3>1
    <3>4. QED
      BY <2>8, <3>1, <3>2, <3>3 DEF ABinding, Derives
  <2>11. (pos - 1) + 1 = pos /\ (pos - 1) + 2 = pos + 1 /\ pos - 1 \in Int
    BY <2>7
  <2>12. Leads(tokens, "bindings", pos', Top.lo)
    <3>1. /\ Derives(tokens, "bindings", Top.lo, pos - 1)
          /\ Peek(0) = "comma" => Leads(tokens, "bindings", pos + 1, Top.lo)
      BY <2>7, <2>10, <2>11, BindingLeads
    <3>2. ASSUME Peek(0) = "rbrace", NEW e \in Int, Derives(tokens, "bindings", pos, e) PROVE e = pos - 1
      <4>1. Tok(tokens, pos) \notin Ident
        BY <2>7, <3>2 DEF Ident
      <4>2. pos = e + 1
        BY <2>7, <3>2, <4>1, Rules DEF Bindings, ABinding
      <4>3. QED
        BY <2>7, <4>2
    <3>3. QED
      BY <1>3, <2>1, <3>1, <3>2 DEF Leads
  <2> DEFINE g == Top'
  <2>13. g.for = "section" /\ g \in Frame /\ ReadSoFar(tokens, g, Top.lo)
    BY <2>3, <2>5, <2>6
  <2> HIDE DEF g
  <2>14. pos' \in Int /\ Top.lo <= pos' /\ Top.lo \in Int
    BY <2>1, <2>7, <2>9
  <2>15. ReadSoFar(tokens, g, pos')
    <3>1. SectionRead(tokens, g, Top.lo) /\ g.at \in Nat
      BY <2>13, FrameType DEF ReadSoFar
    <3>2. Leads(tokens, "bindings", pos', g.at + 3)
      BY <2>12, <2>14, <3>1, LeadsOn DEF SectionRead
    <3>3. SectionRead(tokens, g, pos')
      BY <2>14, <3>1, <3>2 DEF SectionRead
    <3>4. QED
      BY <2>13, <3>3 DEF ReadSoFar, Header
  <2>16. QED
    BY <2>1, <2>5, <2>15, EnterReads DEF g
<1>4. QED
  BY <1>2, <1>3

LEMMA EndOfSectionReads ==
    ASSUME Control, ReadRight, EndOfSection
    PROVE  ReadRight'
<1>1. doing = "bindings" /\ Peek(0) = "rbrace"
  BY DEF EndOfSection, At
<1>2. CASE tokens[Top.at] \notin {"given", "expect"}
  BY <1>2, AnswerReads DEF EndOfSection, Refuse
<1>3. CASE tokens[Top.at] \in {"given", "expect"}
  <2> DEFINE n == IF Peek(1) = "comma" THEN pos + 2 ELSE pos + 1
  <2>1. tokens' = tokens /\ Return("body", n)
    BY <1>3 DEF EndOfSection
  <2>2. /\ pos \in Nat /\ Top.at \in Nat /\ Peek(0) = Tok(tokens, pos) /\ Peek(1) = Tok(tokens, pos + 1)
        /\ SectionRead(tokens, Top, pos) /\ Tok(tokens, Top.at) = tokens[Top.at] /\ Top.for = "section"
        /\ stack # <<>>
    BY <1>1, LoopNow
  <2>3. /\ Top.lo = Top.at /\ Tok(tokens, Top.at + 1) = ":" /\ Tok(tokens, Top.at + 2) = "lbrace"
        /\ Top.at + 3 <= pos /\ Leads(tokens, "bindings", pos, Top.at + 3)
    BY <2>2 DEF SectionRead
  <2>4. Derives(tokens, "bindings", Top.at + 3, pos - 1)
    <3>1. pos \in Int /\ pos - 1 \in Int
      BY <2>2
    <3>2. Derives(tokens, "bindings", pos, pos - 1)
      BY <3>1, BindingLeads
    <3>3. QED
      BY <2>3, <3>1, <3>2 DEF Leads
  <2>5. n \in Int /\ n - 1 \in Int /\ (n - 1) + 1 = n /\ Top.at <= n - 1 /\ Top.at <= n
    BY <2>2, <2>3
  <2>6. ASection(tokens, Derivable(tokens), Top.at, n - 1)
    <3>1. CASE Peek(1) = "comma"
      <4>1. n - 1 = pos + 1 /\ (n - 1) - 1 = pos
        BY <2>2, <3>1
      <4> HIDE DEF n
      <4>2. pos \in {n - 1, (n - 1) - 1} /\ Tok(tokens, n - 1) = "comma"
        BY <2>2, <3>1, <4>1
      <4>3. QED
        BY <1>1, <1>3, <2>2, <2>3, <2>4, <4>2 DEF ASection, Derives
    <3>2. CASE Peek(1) # "comma"
      <4>1. n - 1 = pos
        BY <2>2, <3>2
      <4> HIDE DEF n
      <4>2. QED
        BY <1>1, <1>3, <2>2, <2>3, <2>4, <4>1 DEF ASection, Derives
    <3>3. QED
      BY <3>1, <3>2
  <2>7. From(Top) = Top.at
    BY <2>2, <2>3 DEF From
  <2> HIDE DEF n
  <2>8. Leads(tokens, "sections", n, Top.at)
    BY <2>2, <2>5, <2>6, BodyLeads
  <2>9. QED
    BY <2>1, <2>2, <2>5, <2>7, <2>8, PartReads
<1>4. QED
  BY <1>2, <1>3

LEMMA DeclarationReads ==
    ASSUME Control, ReadRight, Declaration
    PROVE  ReadRight'
<1>1. /\ CallType /\ stack = <<>> /\ tokens' = tokens /\ Peek(0) \in Header /\ Leads(tokens, "decls", pos, 1)
      /\ Beneath(tokens, stack)
  BY DEF Declaration, At, OnlyCall, Control, DoingOK, ReadRight, Present
<1>2. pos \in Nat /\ Peek(0) = Tok(tokens, pos)
  <2>1. pos \in Nat
    BY <1>1 DEF CallType
  <2>2. pos + 0 = pos
    BY <2>1
  <2>3. QED
    BY <2>1, <2>2 DEF Peek
<1> DEFINE from == IF Peek(0) = "theorem" THEN pos + 1 ELSE pos
           f == Waits(Peek(0), pos, from)
<1>3. stack' = Append(stack, f) /\ pos' = pos + 1 /\ doing' \in {"prefix", "body"}
  BY DEF Declaration, Parse
<1>4. f \in Frame /\ f.for = Peek(0) /\ f.at = pos
  BY <1>1, <1>2 DEF Waits, Frame, CallType
<1> HIDE DEF f
<1>5. Beneath(tokens, stack)' /\ Top' = f
  BY <1>1, <1>3, <1>4, PushReads
<1>6. ReadSoFar(tokens, f, pos + 1)
  BY <1>1, <1>2, <1>4 DEF ReadSoFar, Header, Leads
<1>7. QED
  BY <1>1, <1>3, <1>5, <1>6, EnterReads

LEMMA FinishReads ==
    ASSUME Control, ReadRight, stack # <<>>, Len(stack) = 1, tokens' = tokens, Return("program", pos + 1),
           ADecl(tokens, Derivable(tokens), Top.at, pos)
    PROVE  ReadRight'
<1>1. CallType /\ Beneath(tokens, stack) /\ stack' = Below /\ pos' = pos + 1 /\ doing' = "program"
  BY DEF Control, ReadRight, Return
<1>2. Beneath(tokens, stack)' /\ Leads(tokens, "decls", Top.at, 1)
  BY <1>1, PopReads
<1>3. pos \in Nat /\ Top.at \in Nat /\ Top.at < pos
  BY <1>1, TopType, FrameType DEF FrameOK, CallType, Control
<1>4. Leads(tokens, "decls", pos + 1, Top.at)
  BY <1>3, BodyLeads
<1>5. Leads(tokens, "decls", pos + 1, 1)
  BY <1>2, <1>3, <1>4, LeadsOn
<1>6. QED
  BY <1>1, <1>2, <1>5 DEF ReadRight, Present

LEMMA EndOfBodyReads ==
    ASSUME Control, ReadRight, OneModifies, EndOfBody
    PROVE  ReadRight'
<1>1. /\ doing = "body" /\ Peek(0) = "rbrace" /\ tokens' = tokens /\ Return("program", pos + 1)
  BY DEF EndOfBody, At, Finish
<1>2. /\ stack # <<>> /\ Len(stack) = 1 /\ Top = stack[1] /\ Top.for \in {"intent", "safety", "example"}
  BY <1>1 DEF Control, DoingOK, Top
<1>3. pos \in Nat /\ Top.at \in Nat /\ Top.at < pos /\ Tok(tokens, pos) = "rbrace" /\ ReadSoFar(tokens, Top, pos)
  BY <1>1, LoopNow
<1>4. Tok(tokens, Top.at) = Top.for
  BY <1>2, <1>3 DEF ReadSoFar, Header
<1>5. CASE Top.for = "intent"
  <2>1. Derives(tokens, "clauses", Top.at + 1, pos - 1)
    <3>1. Leads(tokens, "clauses", pos, Top.at + 1)
      BY <1>3, <1>5 DEF ReadSoFar
    <3>2. Derives(tokens, "clauses", pos, pos - 1)
      BY <1>3, Rules DEF Clauses
    <3>3. QED
      BY <1>3, <3>1, <3>2 DEF Leads
  <2>2. ASSUME NEW m \in Top.at..pos, NEW n \in Top.at..pos, Tok(tokens, m) = "modifies", Tok(tokens, n) = "modifies"
        PROVE  m = n
    <3>1. m # pos /\ n # pos
      BY <1>3, <2>2
    <3>2. InIntent(m) /\ InIntent(n) /\ m \in Int /\ n \in Int
      BY <1>2, <1>3, <2>2, <3>1 DEF InIntent
    <3>3. QED
      BY <1>2, <1>5, <3>2 DEF OneModifies
  <2>3. ADecl(tokens, Derivable(tokens), Top.at, pos)
    BY <1>3, <1>4, <1>5, <2>1, <2>2 DEF ADecl, Derives
  <2>4. QED
    BY <1>1, <1>2, <2>3, FinishReads
<1>6. CASE Top.for = "safety"
  <2>1. Derives(tokens, "invariants", Top.at + 1, pos - 1)
    <3>1. Leads(tokens, "invariants", pos, Top.at + 1)
      BY <1>3, <1>6 DEF ReadSoFar
    <3>2. Derives(tokens, "invariants", pos, pos - 1)
      BY <1>3, Rules DEF Invariants
    <3>3. QED
      BY <1>3, <3>1, <3>2 DEF Leads
  <2>2. ADecl(tokens, Derivable(tokens), Top.at, pos)
    BY <1>3, <1>4, <1>6, <2>1 DEF ADecl, Derives
  <2>3. QED
    BY <1>1, <1>2, <2>2, FinishReads
<1>7. CASE Top.for = "example"
  <2>1. Derives(tokens, "sections", Top.at + 1, pos - 1)
    <3>1. Leads(tokens, "sections", pos, Top.at + 1)
      BY <1>3, <1>7 DEF ReadSoFar
    <3>2. Derives(tokens, "sections", pos, pos - 1)
      BY <1>3, Rules DEF Sections
    <3>3. QED
      BY <1>3, <3>1, <3>2 DEF Leads
  <2>2. ADecl(tokens, Derivable(tokens), Top.at, pos)
    BY <1>3, <1>4, <1>7, <2>1 DEF ADecl, Derives
  <2>3. QED
    BY <1>1, <1>2, <2>2, FinishReads
<1>8. QED
  BY <1>2, <1>5, <1>6, <1>7

LEMMA CloseTheoremReads ==
    ASSUME Control, ReadRight, CloseTheorem
    PROVE  ReadRight'
<1>1. doing = "infix" /\ Top.for = "theorem"
  BY DEF CloseTheorem, Complete, At
<1>2. CASE Refuse
  BY <1>2, AnswerReads DEF Refuse
<1>3. CASE Peek(0) = "rbrace" /\ Finish({ThePart(FALSE)})
  <2>1. tokens' = tokens /\ Return("program", pos + 1)
    BY <1>3 DEF Finish
  <2>2. stack # <<>> /\ Len(stack) = 1
    BY <1>1, PartNow, TopType DEF Header
  <2>3. /\ Tok(tokens, Top.at) = "theorem" /\ lo = Top.at + 1 /\ Tok(tokens, pos) = "rbrace"
        /\ Derives(tokens, "expr", lo, pos - 1) /\ Top.at < pos
    BY <1>1, <1>3, PartNow DEF ReadSoFar, Header
  <2>4. ADecl(tokens, Derivable(tokens), Top.at, pos)
    BY <2>3 DEF ADecl, Derives
  <2>5. QED
    BY <2>1, <2>2, <2>4, FinishReads
<1>4. QED
  BY <1>2, <1>3 DEF CloseTheorem

-----------------------------------------------------------------------------
(* Soundness: at most one `modifies` in an intent. *)

\* No `modifies` is read.
Silent == \A n \in Int : pos <= n /\ n < pos' => Tok(tokens, n) # "modifies"
Other(k) == Peek(k) # "modifies"
FewTokens ==
    \/ pos' = pos
    \/ pos' = pos + 1 /\ Other(0)
    \/ pos' = pos + 2 /\ Other(0) /\ Other(1)
    \/ pos' = pos + 3 /\ Other(0) /\ Other(1) /\ Other(2)
    \/ pos' = pos + 4 /\ Other(0) /\ Other(1) /\ Other(2) /\ Other(3)

LEMMA FewAreSilent ==
    ASSUME pos \in Nat, FewTokens
    PROVE  Silent /\ pos <= pos'
<1>0. pos <= pos'
  BY DEF FewTokens
<1>1. SUFFICES ASSUME NEW n \in Int, pos <= n, n < pos' PROVE Tok(tokens, n) # "modifies"
  BY <1>0 DEF Silent
<1>2. n = pos + (n - pos)
  OBVIOUS
<1> DEFINE k == n - pos
<1>3. \/ k = 0 /\ Other(0)
      \/ k = 1 /\ Other(1)
      \/ k = 2 /\ Other(2)
      \/ k = 3 /\ Other(3)
  <2>1. CASE pos' = pos + 1 /\ Other(0)
    BY <1>1, <2>1
  <2>2. CASE pos' = pos + 2 /\ Other(0) /\ Other(1)
    BY <1>1, <2>2
  <2>3. CASE pos' = pos + 3 /\ Other(0) /\ Other(1) /\ Other(2)
    BY <1>1, <2>3
  <2>4. CASE pos' = pos + 4 /\ Other(0) /\ Other(1) /\ Other(2) /\ Other(3)
    BY <1>1, <2>4
  <2>5. pos' # pos
    BY <1>1
  <2>6. QED
    BY <2>1, <2>2, <2>3, <2>4, <2>5 DEF FewTokens
<1> HIDE DEF k
<1>4. Tok(tokens, pos + k) # "modifies"
  BY <1>3 DEF Other, Peek
<1>5. QED
  BY <1>2, <1>4 DEF k

LEMMA SilentSteps ==
    ASSUME Control, [Next]_vars, ~Modifies
    PROVE  Silent /\ pos <= pos'
<1>0. SUFFICES FewTokens
  BY FewAreSilent DEF Control, CallType
<1> USE DEF OnlyCall, OnlyTree, Refuse, Finish, Parse, Value, ValueTo, GoOn, Return, call, FewTokens, Other
<1>1. CASE Atom \/ Call \/ Unary
  BY <1>1 DEF Atom, Call, Unary, Ident, Literal, Number, Prefix
<1>2. CASE Bracket \/ After \/ Quantify
  BY <1>2 DEF Bracket, After, Quantify, Quantifier
<1>3. CASE TypedVar \/ Field \/ Prime \/ Index
  BY <1>3 DEF TypedVar, Field, Prime, Index, Ident
<1>4. CASE NoPostfix \/ Operator
  BY <1>4 DEF NoPostfix, Operator, Binds, Infix
<1>5. CASE CloseTail \/ CloseBinary \/ NextArgument \/ Then \/ Else
  BY <1>5 DEF CloseTail, CloseBinary, NextArgument, Then, Else
<1>6. CASE CloseBracket("(", ")") \/ CloseBracket("after", ")") \/ CloseBracket("[", "]")
  BY <1>6 DEF CloseBracket
<1>7. CASE Declaration \/ EndOfBody \/ CloseTheorem \/ Invariant \/ CloseInvariant
  BY <1>7 DEF Declaration, EndOfBody, CloseTheorem, Invariant, CloseInvariant, Header
<1>8. CASE Clause \/ CloseClause \/ ClosePath
  BY <1>8 DEF Clause, CloseClause, ClosePath, ClauseKind, Ident
<1>9. CASE Section \/ Binding \/ PathField \/ PathPrime \/ EndOfPath \/ CloseBinding \/ EndOfSection
  BY <1>9 DEF Section, Binding, PathField, PathPrime, EndOfPath, CloseBinding, EndOfSection, Ident
<1>10. CASE \/ EndOfFile \/ NoDeclaration \/ NoExpression \/ NoInvariant \/ NoClause \/ NoPath
            \/ UNCHANGED vars
  BY <1>10 DEF EndOfFile, NoDeclaration, NoExpression, NoInvariant, NoClause, NoPath, vars
<1>11. QED
  BY <1>1, <1>2, <1>3, <1>4, <1>5, <1>6, <1>7, <1>8, <1>9, <1>10 DEF Next

\* What a step does to the stack of an open declaration.
Moves ==
    \/ stack' = stack
    \/ \E f : stack' = Append(stack, f)
    \/ stack' = Append(Below, Top)
    \/ Top.for # "modifies" /\ stack' = Below
    \/ Top.for \in Opener /\ \E f : stack' = Append(Below, f)
    \/ ClosePath

LEMMA StackMoves ==
    ASSUME Control, [Next]_vars, doing # "program" \/ outcome # "running"
    PROVE  Moves
<1> USE DEF OnlyCall, OnlyTree, Refuse, Finish, Parse, Value, ValueTo, GoOn, Return, call, Moves
<1>1. CASE Atom \/ Call \/ Unary \/ Bracket \/ After \/ Quantify
  BY <1>1 DEF Atom, Call, Unary, Bracket, After, Quantify
<1>2. CASE TypedVar \/ Field \/ Prime \/ Index \/ NoPostfix \/ Operator
  BY <1>2 DEF TypedVar, Field, Prime, Index, NoPostfix, Operator
<1>3. CASE CloseTail \/ CloseBinary \/ NextArgument
  BY <1>3 DEF CloseTail, CloseBinary, NextArgument, Complete
<1>4. CASE Then \/ Else
  BY <1>4 DEF Then, Else, Complete, Opener
<1>5. CASE CloseBracket("(", ")") \/ CloseBracket("after", ")") \/ CloseBracket("[", "]")
  BY <1>5 DEF CloseBracket, Complete
<1>6. CASE Declaration \/ EndOfFile \/ NoDeclaration
  BY <1>6 DEF Declaration, EndOfFile, NoDeclaration, At
<1>7. CASE EndOfBody \/ EndOfSection
  BY <1>7 DEF EndOfBody, EndOfSection, At, Control, DoingOK
<1>12. CASE CloseTheorem \/ CloseInvariant \/ CloseClause \/ CloseBinding
  BY <1>12 DEF CloseTheorem, CloseInvariant, CloseClause, CloseBinding, Complete
<1>8. CASE ClosePath
  BY <1>8
<1>9. CASE Invariant \/ Clause \/ Modifies \/ Section \/ Binding \/ PathField \/ PathPrime \/ EndOfPath
  BY <1>9 DEF Invariant, Clause, Modifies, Section, Binding, PathField, PathPrime, EndOfPath
<1>10. CASE NoExpression \/ NoInvariant \/ NoClause \/ NoPath \/ UNCHANGED vars
  BY <1>10 DEF NoExpression, NoInvariant, NoClause, NoPath, vars
<1>11. QED
  BY <1>1, <1>2, <1>3, <1>4, <1>5, <1>6, <1>7, <1>8, <1>9, <1>10, <1>12 DEF Next

\* The declaration and the `modifies` stay at the bottom of the stack.
LEMMA BottomStays ==
    ASSUME Control, Moves, stack # <<>>, stack' # <<>>, ~ClosePath
    PROVE  /\ stack'[1] = stack[1]
           /\ Len(stack) > 1 /\ stack[2].for = "modifies" => Len(stack') > 1 /\ stack'[2] = stack[2]
<1>1. /\ stack \in Seq(Frame) /\ Len(stack) \in Nat /\ Len(stack) >= 1 /\ Below \in Seq(Frame)
      /\ Len(Below) = Len(stack) - 1 /\ \A k \in 1..Len(stack) - 1 : Below[k] = stack[k]
  BY PopSeq DEF Control, CallType, Below
<1>2. (Below # <<>> => Len(stack) > 1) /\ (Len(stack) > 1 => Below[1] = stack[1])
  BY <1>1, EmptySeq
<1>3. Len(stack) > 2 => Below[2] = stack[2] /\ Len(Below) > 1
  BY <1>1
<1>4. Len(stack) > 1 /\ ~(Len(stack) > 2) => Top = stack[2]
  BY <1>1 DEF Top
<1>5. CASE stack' = stack
  BY <1>5
<1>6. CASE \E f : stack' = Append(stack, f)
  <2>1. PICK f : stack' = Append(stack, f)
    BY <1>6
  <2>2. Len(stack') = Len(stack) + 1 /\ \A k \in 1..Len(stack) : stack'[k] = stack[k]
    BY <1>1, <2>1 DEF Append
  <2>3. QED
    BY <1>1, <2>2
<1>7. CASE stack' = Append(Below, Top)
  <2>1. /\ Len(stack') = Len(stack) /\ stack'[Len(stack)] = Top
        /\ \A k \in 1..Len(stack) - 1 : stack'[k] = stack[k]
    BY <1>1, <1>7 DEF Append
  <2>2. \A k \in 1..Len(stack) : stack'[k] = stack[k]
    BY <1>1, <2>1 DEF Top
  <2>3. QED
    BY <1>1, <2>1, <2>2
<1>8. CASE Top.for # "modifies" /\ stack' = Below
  BY <1>1, <1>2, <1>3, <1>4, <1>8
<1>9. CASE Top.for \in Opener /\ \E f : stack' = Append(Below, f)
  <2>1. PICK f : stack' = Append(Below, f)
    BY <1>9
  <2>2. /\ Len(stack') = Len(stack) /\ \A k \in 1..Len(stack) - 1 : stack'[k] = stack[k]
    BY <1>1, <2>1 DEF Append
  <2>3. Len(stack) > 1
    <3>1. Len(stack) # 1
      BY <1>9, TopType DEF Control, Opener, Header
    <3>2. QED
      BY <1>1, <3>1
  <2>4. Top.for # "modifies"
    BY <1>9 DEF Opener
  <2>5. QED
    BY <1>1, <1>4, <2>2, <2>3, <2>4
<1>10. QED
  BY <1>5, <1>6, <1>7, <1>8, <1>9 DEF Moves

\* The parts of an open intent are those of its clauses.
LEMMA PartsStay ==
    ASSUME Control, ReadRight, [Next]_vars, stack # <<>>, stack' # <<>>, stack[1].for = "intent",
           ~Modifies, ~ClosePath
    PROVE  parts \subseteq parts' /\ \A q \in parts' : q \in parts \/ tokens[q.at] # "modifies"
<1>1. CASE ~AddsPart
  BY <1>1, Frames
<1>2. CASE CloseInvariant \/ EndOfSection \/ CloseTheorem
  <2>1. Top.for \in {"invariant", "section", "theorem"}
    BY <1>2 DEF CloseInvariant, EndOfSection, CloseTheorem, Complete, At, Control, DoingOK
  <2>2. CallType /\ StackOK
    BY DEF Control
  <2>3. CASE Top.for \in {"invariant", "section"}
    BY <2>2, <2>3, UnderPart
  <2>4. CASE Top.for = "theorem"
    <3>1. Len(stack) = 1
      BY <2>2, <2>4, TopType DEF Header
    <3>2. QED
      BY <2>4, <3>1 DEF Top
  <2>5. QED
    BY <2>1, <2>3, <2>4
<1>3. CASE CloseClause
  <2>1. doing = "infix" /\ Top.for = "clause"
    BY <1>3 DEF CloseClause, Complete, At
  <2>2. tokens[Top.at] \in ClauseKind
    BY <2>1, PartNow DEF ReadSoFar
  <2>3. parts' = parts \/ \E e \in BOOLEAN : parts' = parts \cup {ThePart(e)}
    BY <1>3 DEF CloseClause, Add, Refuse, built
  <2>4. QED
    BY <2>2, <2>3 DEF ThePart, ClauseKind
<1>4. CASE CloseBinding
  BY <1>4 DEF CloseBinding, Refuse, built
<1>5. CASE EndOfBody
  <2>1. Len(stack) = 1 /\ stack' = Below /\ stack \in Seq(Frame)
    BY <1>5 DEF EndOfBody, At, Finish, Return, Control, DoingOK, CallType
  <2>2. Len(Below) = 0 /\ Below \in Seq(Frame)
    BY <2>1, PopSeq DEF Below
  <2>3. Below = <<>>
    BY <2>2, EmptySeq
  <2>4. QED
    BY <2>1, <2>3
<1>6. QED
  BY <1>1, <1>2, <1>3, <1>4, <1>5 DEF AddsPart

LEMMA IntentReadsOn ==
    ASSUME Control, tokens' = tokens, pos' \in Nat, stack'[1] = stack[1], Silent, pos <= pos', NEW n \in Int
    PROVE  InIntent(n)' <=> InIntent(n)
<1>1. pos \in Nat
  BY DEF Control, CallType
<1>2. InIntent(n)' <=> stack[1].at <= n /\ n < pos' /\ Tok(tokens, n) = "modifies"
  BY DEF InIntent
<1>3. Tok(tokens, n) = "modifies" /\ n < pos' => n < pos
  BY <1>1 DEF Silent
<1>4. n < pos => n < pos'
  BY <1>1
<1>5. QED
  BY <1>2, <1>3, <1>4 DEF InIntent

LEMMA OneLasts ==
    ASSUME Control, BuiltType, ReadRight, OneModifies, [Next]_vars, ~Modifies, ~ClosePath, stack # <<>>
    PROVE  OneModifies'
<1>1. SUFFICES ASSUME stack' # <<>>, stack'[1].for = "intent" PROVE OneModifies'
  BY DEF OneModifies
<1>2. tokens' = tokens /\ Silent /\ pos <= pos' /\ pos' \in Nat /\ BuiltType'
  BY Frames, SilentSteps, ControlKeeps, BuiltTypeKeeps DEF Control, CallType
<1>3. Moves /\ CallType /\ StackOK
  BY StackMoves DEF Control, DoingOK
<1>4. stack[1].for = "intent" /\ stack'[1] = stack[1]
  BY <1>1, <1>3, BottomStays
<1>5. Len(stack) > 1 /\ stack[2].for = "modifies" => Len(stack') > 1 /\ stack'[2] = stack[2]
  BY <1>1, <1>3, BottomStays
<1>6. parts \subseteq parts' /\ \A q \in parts' : q \in parts \/ tokens[q.at] # "modifies"
  BY <1>1, <1>4, PartsStay
<1>7. \A n \in Int : InIntent(n)' <=> InIntent(n)
  BY <1>2, <1>4, IntentReadsOn
<1>8. /\ \A m, n \in Int : InIntent(m) /\ InIntent(n) => m = n
      /\ \A n \in Int : InIntent(n) =>
            (\E p \in parts : p.at = n) \/ (Len(stack) > 1 /\ stack[2].for = "modifies" /\ stack[2].at = n)
      /\ \A p \in parts : InIntent(p.at) \/ tokens[p.at] # "modifies"
  BY <1>4 DEF OneModifies
<1>9. \A m, n \in Int : InIntent(m)' /\ InIntent(n)' => m = n
  BY <1>7, <1>8
<1>10. ASSUME NEW n \in Int, InIntent(n)'
       PROVE  (\E p \in parts' : p.at = n) \/ (Len(stack') > 1 /\ stack'[2].for = "modifies" /\ stack'[2].at = n)
  BY <1>5, <1>6, <1>7, <1>8, <1>10
<1>11. ASSUME NEW p \in parts' PROVE InIntent(p.at)' \/ tokens'[p.at] # "modifies"
  <2>1. p.at \in Int
    BY <1>2 DEF BuiltType, Part
  <2>2. QED
    BY <1>2, <1>6, <1>7, <1>8, <2>1
<1>12. QED
  BY <1>9, <1>10, <1>11 DEF OneModifies

LEMMA DeclarationOnce ==
    ASSUME Control, Coverage, [Next]_vars, stack = <<>>
    PROVE  OneModifies'
<1>1. SUFFICES ASSUME stack' # <<>> PROVE OneModifies'
  BY DEF OneModifies
<1>2. Declaration
  <2>1. doing = "program"
    BY DEF Control, DoingOK
  <2>2. CASE Declaration
    BY <2>2
  <2>3. CASE EndOfFile \/ NoDeclaration \/ UNCHANGED vars
    BY <1>1, <2>3 DEF EndOfFile, NoDeclaration, Refuse, call, vars
  <2>4. QED
    BY <2>1, <2>2, <2>3 DEF Next, Atom, Call, Unary, Bracket, After, Quantify, TypedVar, NoExpression, Field, Prime,
       Index, NoPostfix, Operator, CloseTail, CloseBinary, NextArgument, Then, Else, CloseBracket, EndOfBody,
       CloseTheorem, Invariant, CloseInvariant, NoInvariant, Clause, CloseClause, Modifies, ClosePath, NoClause,
       Section, Binding, PathField, PathPrime, EndOfPath, NoPath, CloseBinding, EndOfSection, Complete, InBody, At
<1>3. /\ pos \in Nat /\ tokens' = tokens /\ parts' = parts /\ pos' = pos + 1 /\ Peek(0) \in Header
      /\ stack'[1].for = Peek(0) /\ stack'[1].at = pos /\ Peek(0) = Tok(tokens, pos)
  <2>1. pos \in Nat /\ pos + 0 = pos
    BY DEF Control, CallType
  <2>2. PICK f : stack' = Append(<<>>, f) /\ f.for = Peek(0) /\ f.at = pos
    BY <1>2 DEF Declaration, Parse, Waits
  <2>3. QED
    BY <1>2, <2>1, <2>2 DEF Declaration, Parse, OnlyCall, built, Peek
<1>4. parts' = {}
  <2>1. Marks = {}
    BY BaseEmpty DEF Marks
  <2>2. QED
    BY <1>3, <2>1 DEF Coverage, PartsOpen
<1>5. \A n \in Int : ~InIntent(n)'
  <2>1. SUFFICES ASSUME NEW n \in Int, InIntent(n)' PROVE FALSE
    OBVIOUS
  <2>2. n = pos /\ Tok(tokens, n) = "modifies"
    BY <1>3, <2>1 DEF InIntent
  <2>3. QED
    BY <1>3, <2>2 DEF Header
<1>6. QED
  BY <1>4, <1>5 DEF OneModifies

LEMMA Appended ==
    ASSUME NEW s \in Seq(Frame), NEW f \in Frame, Len(s) = 1
    PROVE  /\ Append(s, f) # <<>> /\ Len(Append(s, f)) = 2
           /\ Append(s, f)[1] = s[1] /\ Append(s, f)[2] = f
<1>1. Append(s, f) # <<>>
  BY AppendProperties
<1>2. Len(s) + 1 = 2
  OBVIOUS
<1>3. Len(Append(s, f)) = Len(s) + 1
  BY AppendProperties, Zenon
<1>4. Append(s, f)[1] = s[1]
  OBVIOUS
<1>5. Append(s, f)[Len(s) + 1] = f
  BY AppendProperties, Zenon
<1>6. QED
  BY <1>1, <1>2, <1>3, <1>4, <1>5, Zenon

LEMMA ModifiesOnce ==
    ASSUME Control, BuiltType, OneModifies, Modifies
    PROVE  OneModifies'
<1>1. /\ stack # <<>> /\ Len(stack) = 1 /\ stack \in Seq(Frame) /\ Top = stack[1] /\ stack[1].for = "intent"
      /\ pos \in Nat /\ stack[1].at \in Nat /\ stack[1].at < pos /\ Tok(tokens, pos) = "modifies"
      /\ parts \subseteq Part
  <2>1. doing = "body" /\ Peek(0) = "modifies" /\ Top.for = "intent"
    BY DEF Modifies, InBody, At
  <2>2. pos \in Nat /\ pos + 0 = pos
    BY DEF Control, CallType
  <2>3. QED
    BY <2>1, <2>2, InLoop DEF Top, Peek, BuiltType
<1>2. CASE \E p \in parts : tokens[p.at] = "modifies"
  BY <1>2 DEF Modifies, Refuse, call, built, OneModifies, InIntent
<1>3. CASE ~\E p \in parts : tokens[p.at] = "modifies"
  <2>1. \A n \in Int : ~InIntent(n)
    <3>1. SUFFICES ASSUME NEW n \in Int, InIntent(n) PROVE FALSE
      OBVIOUS
    <3>2. PICK p \in parts : p.at = n
      BY <1>1, <3>1 DEF OneModifies
    <3>3. n \in DOMAIN tokens /\ Tok(tokens, n) = "modifies"
      BY <3>1 DEF InIntent, Tok
    <3>4. QED
      BY <1>3, <3>2, <3>3 DEF Tok
  <2>2. \A p \in parts : tokens[p.at] # "modifies"
    <3>1. \A p \in parts : p.at \in Int
      BY <1>1 DEF Part
    <3>2. QED
      BY <1>1, <2>1, <3>1 DEF OneModifies
  <2>3. ASSUME tokens' = tokens, stack'[1] = stack[1], NEW n \in Int, InIntent(n)',
               pos' = pos + 1 \/ (pos' = pos + 2 /\ Tok(tokens, pos + 1) # "modifies")
        PROVE  n = pos
    <3>1. stack[1].at <= n /\ n < pos' /\ Tok(tokens, n) = "modifies"
      BY <2>3 DEF InIntent
    <3>2. n >= pos
      BY <1>1, <2>1, <3>1 DEF InIntent
    <3>3. n = pos \/ (pos' = pos + 2 /\ n = pos + 1)
      BY <1>1, <2>3, <3>1, <3>2
    <3>4. QED
      BY <2>3, <3>1, <3>3
  <2>4. CASE Peek(1) = "*"
    <3> DEFINE q == [at |-> pos, from |-> pos + 1, lo |-> pos + 1, hi |-> pos + 1, elseReject |-> FALSE]
    <3>1. parts' = parts \cup {q} /\ pos' = pos + 2 /\ stack' = stack /\ tokens' = tokens
      BY <1>3, <2>4 DEF Modifies, GoOn
    <3>2. q.at = pos
      OBVIOUS
    <3> HIDE DEF q
    <3>3. Tok(tokens, pos + 1) # "modifies" /\ stack'[1] = stack[1]
      BY <2>4, <3>1 DEF Peek
    <3>4. \A n \in Int : InIntent(n)' => n = pos
      BY <2>3, <3>1, <3>3
    <3>5. \A n \in Int : n = pos => InIntent(n)'
      <4>1. stack[1].at <= pos /\ pos < pos + 2
        BY <1>1
      <4>2. QED
        BY <1>1, <3>1, <3>3, <4>1 DEF InIntent
    <3>6. pos \in Int /\ \A p \in parts' : p = q \/ p \in parts
      BY <1>1, <3>1
    <3>7. \A p \in parts' : InIntent(p.at)' \/ tokens'[p.at] # "modifies"
      BY <2>2, <3>1, <3>2, <3>5, <3>6
    <3>8. QED
      BY <3>1, <3>2, <3>4, <3>7 DEF OneModifies
  <2>5. CASE Peek(1) # "*"
    <3> DEFINE f == Waits("modifies", pos, pos + 1)
    <3>1. parts' = parts /\ pos' = pos + 1 /\ stack' = Append(stack, f) /\ tokens' = tokens
      BY <1>3, <2>5 DEF Modifies, Parse, OnlyCall, built
    <3>2. f.for = "modifies" /\ f.at = pos /\ f \in Frame
      BY <1>1 DEF Waits, Frame, Control, CallType
    <3> HIDE DEF f
    <3>3. Len(stack') = 2 /\ stack'[2] = f /\ stack'[1] = stack[1]
      BY <1>1, <3>1, <3>2, Appended
    <3>4. \A n \in Int : InIntent(n)' => n = pos
      BY <2>3, <3>1, <3>3
    <3>5. QED
      BY <2>2, <3>1, <3>2, <3>3, <3>4 DEF OneModifies
  <2>6. QED
    BY <2>4, <2>5
<1>4. QED
  BY <1>2, <1>3

LEMMA PathOnce ==
    ASSUME Control, BuiltType, ReadRight, OneModifies, ClosePath
    PROVE  OneModifies'
<1>1. doing = "infix" /\ Top.for = "modifies"
  BY DEF ClosePath, Complete, At
<1>2. /\ CallType /\ StackOK /\ stack # <<>> /\ Top.at \in Nat /\ pos \in Nat /\ Top.at < pos
      /\ Tok(tokens, Top.at) = "modifies" /\ Beneath(tokens, stack) /\ Top \in Frame
  BY <1>1, PartNow DEF ReadSoFar
<1>3. Len(stack) = 2 /\ stack[1].for = "intent" /\ Top = stack[2] /\ stack \in Seq(Frame)
  BY <1>1, <1>2, UnderPart DEF Top, CallType
<1>4. stack[1].at < Top.at /\ stack[1].at \in Nat
  <2>1. 1 \in 1..Len(stack) - 1 /\ 1 + 1 = 2
    BY <1>3
  <2>2. ReadSoFar(tokens, stack[1], From(stack[2]))
    BY <1>2, <2>1 DEF Beneath
  <2>3. From(stack[2]) = Top.at
    BY <1>1, <1>3 DEF From
  <2>4. stack[1] \in Frame
    BY <1>3
  <2>5. QED
    BY <1>3, <2>2, <2>3, <2>4, FrameType DEF ReadSoFar, Header
<1>5. tokens' = tokens /\ parts' = parts \cup {ThePart(FALSE)} /\ Silent /\ pos <= pos' /\ pos' \in Nat /\ BuiltType'
  <2>1. Next /\ ~Modifies
    BY <1>1 DEF Next, Modifies, InBody, At
  <2>2. QED
    BY <2>1, Frames, SilentSteps, ControlKeeps, BuiltTypeKeeps DEF ClosePath, Add, Control, CallType
<1>6. /\ stack'[1] = stack[1] /\ stack' # <<>>
      /\ Len(stack') > 1 => stack'[2].for = "modifies" /\ stack'[2].at = Top.at
  <2>1. /\ Below \in Seq(Frame) /\ Len(Below) = 1 /\ Below[1] = stack[1]
    BY <1>2, <1>3, PopSeq DEF Below
  <2>2. CASE stack' = Below
    <3>1. Len(Below) # 0
      BY <2>1
    <3>2. Below # <<>>
      BY <3>1, EmptySeq
    <3>3. Len(stack') = 1
      BY <2>1, <2>2
    <3>4. ~(Len(stack') > 1)
      BY <3>3
    <3>5. QED
      BY <2>1, <2>2, <3>2, <3>4
  <2>3. CASE stack' = Append(Below, [Top EXCEPT !.lo = pos + 1])
    <3> DEFINE f == [Top EXCEPT !.lo = pos + 1]
    <3>1. f.for = "modifies" /\ f.at = Top.at /\ f \in Frame /\ stack' = Append(Below, f)
      BY <1>1, <1>2, <2>3 DEF Frame
    <3> HIDE DEF f
    <3>2. stack' # <<>> /\ stack'[2] = f /\ stack'[1] = stack[1]
      BY <2>1, <3>1, Appended
    <3>3. QED
      BY <3>1, <3>2
  <2>4. QED
    BY <2>2, <2>3 DEF ClosePath, Parse, Return
<1>7. \A n \in Int : InIntent(n)' <=> InIntent(n)
  BY <1>5, <1>6, IntentReadsOn
<1>8. /\ \A m, n \in Int : InIntent(m) /\ InIntent(n) => m = n
      /\ \A n \in Int : InIntent(n) => (\E p \in parts : p.at = n) \/ stack[2].at = n
      /\ \A p \in parts : InIntent(p.at) \/ tokens[p.at] # "modifies"
  BY <1>2, <1>3 DEF OneModifies
<1>9. \A m, n \in Int : InIntent(m)' /\ InIntent(n)' => m = n
  BY <1>7, <1>8
<1>10. ThePart(FALSE).at = Top.at
  BY DEF ThePart
<1>11. \A n \in Int : InIntent(n)' => \E p \in parts' : p.at = n
  BY <1>3, <1>5, <1>7, <1>8, <1>10
<1>12. ASSUME NEW p \in parts' PROVE InIntent(p.at)' \/ tokens'[p.at] # "modifies"
  <2>1. p.at \in Int
    <3>1. parts' \subseteq Part
      BY <1>5 DEF BuiltType
    <3>2. QED
      BY <3>1 DEF Part
  <2>2. InIntent(Top.at)
    BY <1>2, <1>4 DEF InIntent
  <2>3. QED
    BY <1>2, <1>5, <1>7, <1>8, <1>10, <2>1, <2>2
<1>13. QED
  BY <1>9, <1>11, <1>12 DEF OneModifies

-----------------------------------------------------------------------------
(* Soundness: a file that is accepted is derivable. *)

LEMMA OneModifiesKeeps ==
    ASSUME Control, BuiltType, Coverage, ReadRight, OneModifies, [Next]_vars
    PROVE  OneModifies'
<1>1. CASE stack = <<>>
  BY <1>1, DeclarationOnce
<1>2. CASE stack # <<>>
  BY <1>2, OneLasts, ModifiesOnce, PathOnce
<1>3. QED
  BY <1>1, <1>2

LEMMA ReadRightKeeps ==
    ASSUME Control, ReadRight, OneModifies, Next
    PROVE  ReadRight'
<1>1. CASE \/ Atom \/ Call \/ Unary \/ Bracket \/ After \/ Quantify \/ TypedVar
  BY <1>1, AtomReads, CallReads, OperandReads, TypedVarReads
<1>2. CASE Field \/ Prime \/ Index \/ NoPostfix \/ Operator
  BY <1>2, PostfixReads, OperatorReads
<1>3. CASE CloseTail \/ CloseBinary \/ NextArgument \/ Then \/ Else
  BY <1>3, CloseOperandReads, NextArgumentReads, BranchReads
<1>4. CASE CloseBracket("(", ")") \/ CloseBracket("after", ")") \/ CloseBracket("[", "]")
  BY <1>4, CloseBracketReads
<1>5. CASE Declaration \/ EndOfBody \/ CloseTheorem \/ Invariant \/ CloseInvariant
  BY <1>5, DeclarationReads, EndOfBodyReads, CloseTheoremReads, ClauseReads, CloseInvariantReads
<1>6. CASE Clause \/ CloseClause \/ Modifies \/ ClosePath
  BY <1>6, ClauseReads, CloseClauseReads, ModifiesReads, ClosePathReads
<1>7. CASE Section \/ Binding \/ PathField \/ PathPrime \/ EndOfPath \/ CloseBinding \/ EndOfSection
  BY <1>7, SectionReads, PathReads, CloseBindingReads, EndOfSectionReads
<1>8. CASE EndOfFile \/ NoDeclaration \/ NoExpression \/ NoInvariant \/ NoClause \/ NoPath
  BY <1>8, AnswerKeeps, AnswerReads
<1>9. QED
  BY <1>1, <1>2, <1>3, <1>4, <1>5, <1>6, <1>7, <1>8 DEF Next

LEMMA FileReads ==
    ASSUME Control, ReadRight, EndOfFile
    PROVE  IsFile(tokens)
<1>1. Leads(tokens, "decls", pos, 1)
  BY DEF EndOfFile, At, ReadRight, Present
<1>2. pos = Len(tokens) + 1 /\ Len(tokens) \in Int
  <2>1. /\ tokens \in Seq(Token) /\ pos \in Nat /\ Len(tokens) \in Nat /\ DOMAIN tokens = 1..Len(tokens)
        /\ pos >= 1 /\ pos <= Len(tokens) + 1
    BY DEF Control, CallType
  <2>2. pos + 0 = pos
    BY <2>1
  <2>3. "eof" \notin Token
    BY DEF Token, Ident, Literal, Number, Header, ClauseKind, Prefix, Quantifier, Infix
  <2>4. pos \notin DOMAIN tokens
    BY <2>1, <2>2, <2>3 DEF EndOfFile, Peek, Tok
  <2>5. QED
    BY <2>1, <2>4
<1>3. Derives(tokens, "decls", pos, Len(tokens))
  BY <1>2, Rules DEF Decls
<1>4. QED
  BY <1>1, <1>2, <1>3 DEF Leads, IsFile, Derives

LEMMA OnlyEndAccepts ==
    ASSUME Next
    PROVE  outcome = "running" /\ (EndOfFile \/ outcome' = "running" \/ outcome' = "error")
<1> USE DEF OnlyCall, OnlyTree, Refuse, Finish, Add, At, InBody, Complete
<1>1. CASE Atom \/ Call \/ Unary \/ Bracket \/ After \/ Quantify \/ TypedVar
  BY <1>1 DEF Atom, Call, Unary, Bracket, After, Quantify, TypedVar
<1>2. CASE Field \/ Prime \/ Index \/ NoPostfix \/ Operator
  BY <1>2 DEF Field, Prime, Index, NoPostfix, Operator
<1>3. CASE CloseTail \/ CloseBinary \/ NextArgument \/ Then \/ Else
  BY <1>3 DEF CloseTail, CloseBinary, NextArgument, Then, Else
<1>4. CASE CloseBracket("(", ")") \/ CloseBracket("after", ")") \/ CloseBracket("[", "]")
  BY <1>4 DEF CloseBracket
<1>5. CASE Declaration \/ EndOfBody \/ CloseTheorem \/ Invariant \/ CloseInvariant
  BY <1>5 DEF Declaration, EndOfBody, CloseTheorem, Invariant, CloseInvariant
<1>6. CASE Clause \/ CloseClause \/ Modifies \/ ClosePath
  BY <1>6 DEF Clause, CloseClause, Modifies, ClosePath
<1>7. CASE Section \/ Binding \/ PathField \/ PathPrime \/ EndOfPath \/ CloseBinding \/ EndOfSection
  BY <1>7 DEF Section, Binding, PathField, PathPrime, EndOfPath, CloseBinding, EndOfSection
<1>8. CASE EndOfFile \/ NoDeclaration \/ NoExpression \/ NoInvariant \/ NoClause \/ NoPath
  BY <1>8 DEF EndOfFile, NoDeclaration, NoExpression, NoInvariant, NoClause, NoPath
<1>9. QED
  BY <1>1, <1>2, <1>3, <1>4, <1>5, <1>6, <1>7, <1>8 DEF Next

LEMMA SoundKeeps ==
    ASSUME Control, BuiltType, Coverage, Sound, [Next]_vars
    PROVE  Sound'
<1>1. tokens' = tokens
  BY Frames
<1>2. CASE UNCHANGED vars
  <2>1. UNCHANGED <<tokens, pos, doing, lo, min, stack, parts, outcome>>
    BY <1>2 DEF vars, call, built
  <2>2. Present' = Present
    BY <2>1 DEF Present, Top
  <2>3. OneModifies' = OneModifies
    BY <2>1 DEF OneModifies, InIntent
  <2>4. QED
    BY <2>1, <2>2, <2>3 DEF Sound, Parsed
<1>3. CASE Next /\ outcome = "running"
  <2>1. ReadRight /\ OneModifies
    BY <1>3 DEF Sound, ReadRight
  <2>2. ReadRight' /\ OneModifies'
    BY <1>3, <2>1, ReadRightKeeps, OneModifiesKeeps
  <2>3. CASE EndOfFile
    <3>1. IsFile(tokens)
      BY <2>1, <2>3, FileReads
    <3>2. QED
      BY <1>1, <2>2, <3>1 DEF Sound, ReadRight
  <2>4. CASE ~EndOfFile
    <3>1. outcome' # "ok"
      BY <1>3, <2>4, OnlyEndAccepts
    <3>2. QED
      BY <2>2, <3>1 DEF Sound, ReadRight, Parsed
  <2>5. QED
    BY <2>3, <2>4
<1>4. Next => outcome = "running"
  BY OnlyEndAccepts
<1>5. QED
  BY <1>2, <1>3, <1>4

LEMMA SoundInit == Init => Sound
<1>1. SUFFICES ASSUME Init PROVE Sound
  OBVIOUS
<1>2. pos = 1 /\ doing = "program" /\ stack = <<>> /\ outcome = "running"
  BY <1>1 DEF Init
<1>3. Len(stack) = 0
  BY <1>2
<1>4. Beneath(tokens, stack) /\ Present /\ OneModifies
  BY <1>2, <1>3 DEF Beneath, Present, OneModifies, Leads
<1>5. QED
  BY <1>2, <1>4 DEF Sound, Parsed

Understood == Control /\ BuiltType /\ Trees /\ Coverage /\ Sound

LEMMA UnderstoodAlways == Spec => []Understood
<1>1. Init => Understood
  BY ControlInit, TreesInit, CoverageInit, SoundInit DEF Init, BuiltType, Understood
<1>2. Understood /\ [Next]_vars => Understood'
  BY ControlKeeps, BuiltTypeKeeps, TreesKeep, CoverageKeeps, SoundKeeps DEF Understood
<1>3. QED
  BY <1>1, <1>2, PTL DEF Spec

-----------------------------------------------------------------------------
(* Completeness: an expression is a chain. *)

LEMMA ChainsGrow ==
    ASSUME NEW t, NEW O, NEW A, NEW Q, NEW B, O \subseteq Q, A \subseteq B, NEW p, NEW e
    PROVE  /\ OperandAt(t, O, A, p) => OperandAt(t, Q, B, p)
           /\ GoesOnAt(t, O, A, e, p) => GoesOnAt(t, Q, B, e, p)
<1>1. OperandAt(t, O, A, p) => OperandAt(t, Q, B, p)
  BY DEF OperandAt
<1>2. GoesOnAt(t, O, A, e, p) => GoesOnAt(t, Q, B, e, p)
  BY DEF GoesOnAt
<1>3. QED
  BY <1>1, <1>2

\* A chain goes on to e where another one, up to d, ends.
LEMMA ChainsJoin ==
    ASSUME NEW t, NEW O, NEW A, NEW d \in Int, IsChain(t, O, A, d),
           NEW Q, NEW B, NEW e \in Int, O \subseteq Q, A \subseteq B, Q \subseteq Int, B \subseteq Int,
           \A p \in Q : p \in O \/ OperandAt(t, Q, B, p),
           \A p \in B : (p \in A /\ p # d + 1) \/ GoesOnAt(t, Q, B, e, p)
    PROVE  IsChain(t, Q, B, e)
<1>1. \A p \in O : OperandAt(t, Q, B, p)
  BY ChainsGrow DEF IsChain
<1>2. ASSUME NEW p \in A, p # d + 1 PROVE GoesOnAt(t, Q, B, e, p)
  <2>1. GoesOnAt(t, O, A, d, p)
    BY DEF IsChain
  <2>2. GoesOnAt(t, O, A, e, p)
    BY <1>2, <2>1 DEF GoesOnAt
  <2>3. QED
    BY <2>2, ChainsGrow
<1>3. QED
  BY <1>1, <1>2 DEF IsChain

LEMMA StartsAlone ==
    ASSUME NEW t, NEW p \in Int, NEW e \in Int, OperandAt(t, {}, {e + 1}, p)
    PROVE  Starts(t, p, e)
<1>1. OperandAt(t, {p}, {e + 1}, p)
  BY ChainsGrow
<1>2. IsChain(t, {p}, {e + 1}, e)
  BY <1>1 DEF IsChain, GoesOnAt
<1>3. QED
  BY <1>2 DEF Starts

LEMMA StartsBefore ==
    ASSUME NEW t, NEW p \in Int, NEW q \in Int, NEW e \in Int, OperandAt(t, {q}, {}, p), Starts(t, q, e)
    PROVE  Starts(t, p, e)
<1>1. PICK O \in SUBSET Int, A \in SUBSET Int : q \in O /\ IsChain(t, O, A, e)
  BY DEF Starts
<1> DEFINE Q == O \cup {p}
<1>2. O \subseteq Q /\ Q \subseteq Int /\ A \subseteq Int /\ {q} \subseteq Q /\ p \in Q /\ \A r \in Q : r \in O \/ r = p
  BY <1>1
<1> HIDE DEF Q
<1>3. OperandAt(t, Q, A, p)
  BY <1>2, ChainsGrow
<1>4. \A r \in A : GoesOnAt(t, Q, A, e, r)
  BY <1>1, <1>2, ChainsGrow DEF IsChain
<1>5. IsChain(t, Q, A, e)
  BY <1>1, <1>2, <1>3, <1>4, ChainsJoin
<1>6. QED
  BY <1>2, <1>5 DEF Starts

LEMMA StartsBeyond ==
    ASSUME NEW t, NEW p \in Int, NEW d \in Int, NEW e \in Int, Starts(t, p, d), GoesOnAt(t, {}, {e + 1}, e, d + 1)
    PROVE  Starts(t, p, e)
<1>1. PICK O \in SUBSET Int, A \in SUBSET Int : p \in O /\ IsChain(t, O, A, d)
  BY DEF Starts
<1> DEFINE B == A \cup {e + 1}
<1>2. A \subseteq B /\ B \subseteq Int /\ {e + 1} \subseteq B /\ \A r \in B : r \in A \/ r = e + 1
  BY <1>1
<1> HIDE DEF B
<1>3. GoesOnAt(t, O, B, e, d + 1)
  BY <1>2, ChainsGrow
<1>4. \A r \in B : (r \in A /\ r # d + 1) \/ GoesOnAt(t, O, B, e, r)
  BY <1>2, <1>3 DEF GoesOnAt
<1>5. IsChain(t, O, B, e)
  BY <1>1, <1>2, <1>4, ChainsJoin
<1>6. QED
  BY <1>1, <1>5 DEF Starts

LEMMA StartsJoined ==
    ASSUME NEW t, NEW p \in Int, NEW n \in Int, NEW e \in Int, Tok(t, n) \in Infix,
           Starts(t, p, n - 1), Starts(t, n + 1, e)
    PROVE  Starts(t, p, e)
<1>1. PICK O \in SUBSET Int, A \in SUBSET Int : p \in O /\ IsChain(t, O, A, n - 1)
  BY DEF Starts
<1>2. PICK R \in SUBSET Int, C \in SUBSET Int : n + 1 \in R /\ IsChain(t, R, C, e)
  BY DEF Starts
<1> DEFINE Q == O \cup R
           B == A \cup C
<1>3. /\ O \subseteq Q /\ R \subseteq Q /\ A \subseteq B /\ C \subseteq B /\ Q \subseteq Int /\ B \subseteq Int
      /\ \A r \in Q : r \in O \/ r \in R
      /\ \A r \in B : r \in A \/ r \in C
  OBVIOUS
<1> HIDE DEF Q, B
<1>4. \A r \in R : OperandAt(t, Q, B, r)
  BY <1>2, <1>3, ChainsGrow DEF IsChain
<1>5. \A r \in C : GoesOnAt(t, Q, B, e, r)
  BY <1>2, <1>3, ChainsGrow DEF IsChain
<1>6. GoesOnAt(t, Q, B, e, n)
  BY <1>2, <1>3 DEF GoesOnAt
<1>7. \A r \in O : OperandAt(t, Q, B, r)
  BY <1>1, <1>3, ChainsGrow DEF IsChain
<1>8. ASSUME NEW r \in A PROVE GoesOnAt(t, Q, B, e, r)
  <2>1. (n - 1) + 1 = n
    OBVIOUS
  <2>2. GoesOnAt(t, O, A, n - 1, r)
    BY <1>1 DEF IsChain
  <2>3. r = n \/ GoesOnAt(t, O, A, e, r)
    BY <2>1, <2>2 DEF GoesOnAt
  <2>4. QED
    BY <1>3, <1>6, <2>3, ChainsGrow
<1>9. IsChain(t, Q, B, e)
  BY <1>3, <1>4, <1>5, <1>7, <1>8 DEF IsChain
<1>10. QED
  BY <1>1, <1>3, <1>9 DEF Starts

\* Expressions no longer than n are chains.
Flat(t, n) == \A i, j \in Int : j + 1 - i <= n /\ Derives(t, "expr", i, j) => Starts(t, i, j)

LEMMA ClosedIsFlat ==
    ASSUME NEW t, NEW i \in Int, NEW j \in Int, i <= j, Flat(t, j - i), Closed(t, Derivable(t), i, j)
    PROVE  Starts(t, i, j)
<1> DEFINE E(a, b) == Derives(t, "expr", a, b)
<1>1. ASSUME i = j, Tok(t, i) \in Ident \cup Literal PROVE Starts(t, i, j)
  <2>1. OperandAt(t, {}, {j + 1}, i)
    BY <1>1 DEF OperandAt
  <2>2. QED
    BY <2>1, StartsAlone
<1>2. ASSUME Tok(t, j) = "'", E(i, j - 1) PROVE Starts(t, i, j)
  <2> DEFINE d == j - 1
  <2>1. d \in Int /\ d + 1 = j /\ d + 1 - i <= j - i /\ E(i, d)
    BY <1>2
  <2> HIDE DEF d
  <2>2. Starts(t, i, d)
    BY <2>1 DEF Flat
  <2>3. GoesOnAt(t, {}, {j + 1}, j, d + 1)
    BY <1>2, <2>1 DEF GoesOnAt
  <2>4. QED
    BY <2>1, <2>2, <2>3, StartsBeyond
<1>3. ASSUME Tok(t, j) \in Ident, Tok(t, j - 1) = ".", E(i, j - 2) PROVE Starts(t, i, j)
  <2> DEFINE d == j - 2
  <2>1. d \in Int /\ d + 1 = j - 1 /\ d + 1 - i <= j - i /\ E(i, d) /\ (d + 1) + 1 = j /\ (d + 1) + 2 = j + 1
    BY <1>3
  <2> HIDE DEF d
  <2>2. Starts(t, i, d)
    BY <2>1 DEF Flat
  <2>3. GoesOnAt(t, {}, {j + 1}, j, d + 1)
    BY <1>3, <2>1 DEF GoesOnAt
  <2>4. QED
    BY <2>1, <2>2, <2>3, StartsBeyond
<1>4. ASSUME NEW n \in i + 1..j - 1, Tok(t, j) = "]", Tok(t, n) = "[", E(i, n - 1), E(n + 1, j - 1)
      PROVE  Starts(t, i, j)
  <2> DEFINE d == n - 1
  <2>1. d \in Int /\ d + 1 = n /\ d + 1 - i <= j - i /\ E(i, d)
    BY <1>4
  <2> HIDE DEF d
  <2>2. Starts(t, i, d)
    BY <2>1 DEF Flat
  <2>3. GoesOnAt(t, {}, {j + 1}, j, d + 1)
    BY <1>4, <2>1 DEF GoesOnAt
  <2>4. QED
    BY <2>1, <2>2, <2>3, StartsBeyond
<1>5. ASSUME Tok(t, j) = ")", Tok(t, i) = "(", E(i + 1, j - 1) PROVE Starts(t, i, j)
  <2>1. OperandAt(t, {}, {j + 1}, i)
    BY <1>5 DEF OperandAt
  <2>2. QED
    BY <2>1, StartsAlone
<1>6. ASSUME Tok(t, j) = ")", Tok(t, i) = "after", Tok(t, i + 1) = "(", E(i + 2, j - 1) PROVE Starts(t, i, j)
  <2>1. OperandAt(t, {}, {j + 1}, i)
    BY <1>6 DEF OperandAt
  <2>2. QED
    BY <2>1, StartsAlone
<1>7. ASSUME Tok(t, j) = ")", Tok(t, i) \in Ident, Tok(t, i + 1) = "(",
             j = i + 2 \/ Derives(t, "exprs", i + 2, j - 1)
      PROVE  Starts(t, i, j)
  <2>1. j = i + 2 => i + 3 = j + 1
    OBVIOUS
  <2>2. OperandAt(t, {}, {j + 1}, i)
    BY <1>7, <2>1 DEF OperandAt
  <2>3. QED
    BY <2>2, StartsAlone
<1> HIDE DEF E
<1>8. QED
  BY <1>1, <1>2, <1>3, <1>4, <1>5, <1>6, <1>7 DEF Closed, Derives, E

LEMMA OpenIsFlat ==
    ASSUME NEW t, NEW i \in Int, NEW j \in Int, i <= j, Flat(t, j - i), Open(t, Derivable(t), i, j)
    PROVE  Starts(t, i, j)
<1> DEFINE E(a, b) == Derives(t, "expr", a, b)
<1>1. ASSUME Tok(t, i) \in Prefix, E(i + 1, j) PROVE Starts(t, i, j)
  <2>1. j + 1 - (i + 1) <= j - i
    OBVIOUS
  <2>2. Starts(t, i + 1, j)
    BY <1>1, <2>1 DEF Flat
  <2>3. OperandAt(t, {i + 1}, {}, i)
    BY <1>1 DEF OperandAt
  <2>4. QED
    BY <2>2, <2>3, StartsBefore
<1>2. ASSUME NEW n \in i + 1..j - 1, Tok(t, n) \in Infix, E(i, n - 1), E(n + 1, j) PROVE Starts(t, i, j)
  <2>1. (n - 1) + 1 - i <= j - i /\ j + 1 - (n + 1) <= j - i /\ n - 1 \in Int /\ n + 1 \in Int
    OBVIOUS
  <2>2. Starts(t, i, n - 1) /\ Starts(t, n + 1, j)
    BY <1>2, <2>1 DEF Flat
  <2>3. QED
    BY <1>2, <2>2, StartsJoined
<1>3. ASSUME NEW n \in i + 1..j, NEW m \in i + 1..j, Tok(t, i) = "if", Tok(t, n) = "then", Tok(t, m) = "else",
             E(i + 1, n - 1), E(n + 1, m - 1), E(m + 1, j)
      PROVE  Starts(t, i, j)
  <2>1. j + 1 - (m + 1) <= j - i /\ m + 1 \in Int
    OBVIOUS
  <2>2. Starts(t, m + 1, j)
    BY <1>3, <2>1 DEF Flat
  <2>3. OperandAt(t, {m + 1}, {}, i)
    BY <1>3 DEF OperandAt
  <2>4. QED
    BY <2>1, <2>2, <2>3, StartsBefore
<1>4. ASSUME NEW n \in i + 1..j, Tok(t, i) \in Quantifier, Tok(t, n) = "comma", Derives(t, "typed_vars", i + 1, n - 1),
             E(n + 1, j)
      PROVE  Starts(t, i, j)
  <2>1. j + 1 - (n + 1) <= j - i /\ n + 1 \in Int
    OBVIOUS
  <2>2. Starts(t, n + 1, j)
    BY <1>4, <2>1 DEF Flat
  <2>3. OperandAt(t, {n + 1}, {}, i)
    BY <1>4 DEF OperandAt
  <2>4. QED
    BY <2>1, <2>2, <2>3, StartsBefore
<1> HIDE DEF E
<1>5. QED
  BY <1>1, <1>2, <1>3, <1>4 DEF Open, Derives, E

LEMMA Flatten ==
    ASSUME NEW t, NEW i \in Int, NEW j \in Int, Derives(t, "expr", i, j)
    PROVE  Starts(t, i, j)
<1> DEFINE S == {n \in Nat : ~Flat(t, n)}
<1>1. S = {}
  <2>1. SUFFICES ASSUME S # {} PROVE FALSE
    OBVIOUS
  <2>2. PICK m \in S : \A n \in S : m <= n
    BY <2>1, Least
  <2>3. PICK a, b \in Int : b + 1 - a <= m /\ Derives(t, "expr", a, b) /\ ~Starts(t, a, b)
    BY <2>2 DEF Flat
  <2>4. a <= b /\ b - a \in Nat /\ ~(m <= b - a)
    BY <2>2, <2>3, Extent
  <2>5. Flat(t, b - a)
    BY <2>2, <2>4
  <2>6. Closed(t, Derivable(t), a, b) \/ Open(t, Derivable(t), a, b)
    BY <2>3, Rules DEF Expr
  <2>7. QED
    BY <2>3, <2>4, <2>5, <2>6, ClosedIsFlat, OpenIsFlat
<1>2. i <= j
  BY Extent
<1>3. j + 1 - i \in Nat
  BY <1>2
<1>4. Flat(t, j + 1 - i)
  BY <1>1, <1>3
<1>5. QED
  BY <1>3, <1>4 DEF Flat

\* From where an expression that ends at e may start, and go on.
StartsTo(t, e) == {p \in Int : Starts(t, p, e)}
ContinuesTo(t, e) == {p \in Int : Continues(t, p, e)}

LEMMA WhatStarts ==
    ASSUME NEW t, NEW p, NEW e \in Int, Starts(t, p, e)
    PROVE  OperandAt(t, StartsTo(t, e), ContinuesTo(t, e), p)
<1>1. PICK O \in SUBSET Int, A \in SUBSET Int : p \in O /\ IsChain(t, O, A, e)
  BY DEF Starts
<1>2. O \subseteq StartsTo(t, e) /\ A \subseteq ContinuesTo(t, e)
  BY <1>1 DEF StartsTo, ContinuesTo, Starts, Continues
<1>3. OperandAt(t, O, A, p)
  BY <1>1 DEF IsChain
<1>4. QED
  BY <1>2, <1>3, ChainsGrow

LEMMA WhatContinues ==
    ASSUME NEW t, NEW p, NEW e \in Int, Continues(t, p, e)
    PROVE  GoesOnAt(t, StartsTo(t, e), ContinuesTo(t, e), e, p)
<1>1. PICK O \in SUBSET Int, A \in SUBSET Int : p \in A /\ IsChain(t, O, A, e)
  BY DEF Continues
<1>2. O \subseteq StartsTo(t, e) /\ A \subseteq ContinuesTo(t, e)
  BY <1>1 DEF StartsTo, ContinuesTo, Starts, Continues
<1>3. GoesOnAt(t, O, A, e, p)
  BY <1>1 DEF IsChain
<1>4. QED
  BY <1>2, <1>3, ChainsGrow

\* What an expression begins with; a name before a colon is none.
First == Ident \cup Literal \cup Prefix \cup Quantifier \cup {"(", "if", "after"}

LEMMA FirstToken ==
    ASSUME NEW t, NEW p, NEW e \in Int, Starts(t, p, e)
    PROVE  Tok(t, p) \in First
  BY WhatStarts DEF OperandAt, First

LEMMA NoLabel ==
    ASSUME NEW t, NEW p \in Int, NEW e \in Int, Starts(t, p, e), Tok(t, e + 1) \in Follow,
           Tok(t, p) \in Ident, Tok(t, p + 1) = ":"
    PROVE  FALSE
<1>1. p + 1 \in ContinuesTo(t, e)
  BY WhatStarts DEF OperandAt, Ident, Prefix, Quantifier
<1>2. GoesOnAt(t, StartsTo(t, e), ContinuesTo(t, e), e, p + 1)
  BY <1>1, WhatContinues DEF ContinuesTo
<1>3. Tok(t, e + 1) # ":"
  BY DEF Follow, ClauseKind
<1>4. QED
  BY <1>2, <1>3 DEF GoesOnAt, Infix

LEMMA FirstOfList ==
    ASSUME NEW t, NEW i \in Int, NEW j \in Int, Derives(t, "exprs", i, j)
    PROVE  \E x \in Int : Starts(t, i, x) /\ (x = j \/ (Tok(t, x + 1) = "comma" /\ Derives(t, "exprs", x + 2, j)))
<1>1. CASE Derives(t, "expr", i, j)
  BY <1>1, Flatten
<1>2. CASE \E n \in i..j : Tok(t, n) = "comma" /\ Derives(t, "expr", i, n - 1) /\ Derives(t, "exprs", n + 1, j)
  <2>1. PICK n \in i..j : Tok(t, n) = "comma" /\ Derives(t, "expr", i, n - 1) /\ Derives(t, "exprs", n + 1, j)
    BY <1>2
  <2> DEFINE x == n - 1
  <2>2. x \in Int /\ x + 1 = n /\ x + 2 = n + 1 /\ Derives(t, "expr", i, x)
    BY <2>1
  <2> HIDE DEF x
  <2>3. Starts(t, i, x)
    BY <2>2, Flatten
  <2>4. QED
    BY <2>1, <2>2, <2>3
<1>3. QED
  BY <1>1, <1>2, Rules DEF Exprs, Derives

-----------------------------------------------------------------------------
(* Completeness: how a plan goes on. *)

Under(ends, e) ==
    /\ outcome = "running" /\ ends \in [Nat -> Int] /\ e \in Int /\ e = ends[Len(stack)]
    /\ Plan(ends) /\ Ahead(e)

\* The end of the caller of the frame on top.
Caller(ends) == ends[Len(stack) - 1]

LEMMA StayUnder ==
    ASSUME NEW ends, NEW e, Under(ends, e), tokens' = tokens, stack' = stack, outcome' = outcome, Ahead(e)'
    PROVE  UnderWay'
  BY DEF Under, Plan, UnderWay

LEMMA PushUnder ==
    ASSUME CallType, NEW ends, NEW e, Under(ends, e), tokens' = tokens, outcome' = outcome,
           NEW f \in Frame, stack' = Append(stack, f),
           NEW x \in Int, EndsAt(tokens, f, x, e), Ahead(x)'
    PROVE  UnderWay'
<1>1. /\ stack \in Seq(Frame) /\ Len(stack) \in Nat /\ Len(stack') = Len(stack) + 1
      /\ \A k \in 1..Len(stack) : stack'[k] = stack[k]
      /\ stack'[Len(stack) + 1] = f
  BY AppendProperties DEF CallType
<1>0. PICK n \in Nat : n = Len(stack)
  BY <1>1
<1>2. PICK fresh \in [Nat -> Int] : fresh[n + 1] = x /\ \A k \in 0..n : fresh[k] = ends[k]
  <2> DEFINE g == [ends EXCEPT ![n + 1] = x]
  <2>1. g \in [Nat -> Int] /\ g[n + 1] = x /\ \A k \in 0..n : g[k] = ends[k]
    BY DEF Under
  <2> HIDE DEF g
  <2>2. QED
    BY <2>1
<1>3. ASSUME NEW k \in 1..n + 1 PROVE EndsAt(tokens, stack'[k], fresh[k], fresh[k - 1])
  <2>1. CASE k \in 1..n
    <3>1. fresh[k] = ends[k] /\ fresh[k - 1] = ends[k - 1] /\ stack'[k] = stack[k]
      BY <1>0, <1>1, <1>2, <2>1
    <3>2. EndsAt(tokens, stack[k], ends[k], ends[k - 1])
      BY <1>0, <2>1 DEF Under, Plan
    <3>3. QED
      BY <3>1, <3>2
  <2>2. CASE k = n + 1
    <3>1. k - 1 = n /\ fresh[n] = e
      BY <1>0, <1>2, <2>2 DEF Under
    <3>2. QED
      BY <1>0, <1>1, <1>2, <2>2, <3>1
  <2>3. k \in 1..n \/ k = n + 1
    OBVIOUS
  <2>4. QED
    BY <2>1, <2>2, <2>3
<1>4. Len(stack') = n + 1
  BY <1>0, <1>1
<1>5. Plan(fresh)'
  BY <1>3, <1>4 DEF Plan
<1>6. Ahead(fresh[Len(stack)])'
  BY <1>2, <1>4
<1>7. QED
  BY <1>2, <1>5, <1>6 DEF Under, UnderWay

LEMMA PopUnder ==
    ASSUME CallType, stack # <<>>, NEW ends, NEW e, Under(ends, e), tokens' = tokens, outcome' = outcome, stack' = Below,
           NEW x, x = Caller(ends), Ahead(x)'
    PROVE  UnderWay'
<1>1. /\ Len(stack) \in Nat /\ Len(stack) >= 1 /\ Len(stack') = Len(stack) - 1
      /\ \A k \in 1..Len(stack) - 1 : stack'[k] = stack[k]
  BY PopSeq DEF CallType, Below
<1>2. \A k \in 1..Len(stack') : EndsAt(tokens, stack'[k], ends[k], ends[k - 1])
  BY <1>1 DEF Under, Plan
<1>3. Plan(ends)'
  BY <1>2 DEF Plan
<1>4. Ahead(ends[Len(stack)])'
  BY <1>1 DEF Caller
<1>5. QED
  BY <1>3, <1>4 DEF Under, UnderWay

LEMMA SwapUnder ==
    ASSUME CallType, stack # <<>>, NEW ends, NEW e, Under(ends, e), tokens' = tokens, outcome' = outcome,
           NEW f \in Frame, stack' = Append(Below, f),
           NEW x \in Int, EndsAt(tokens, f, x, Caller(ends)), Ahead(x)'
    PROVE  UnderWay'
<1>1. /\ Len(stack) \in Nat /\ Len(stack) >= 1 /\ Below \in Seq(Frame) /\ Len(Below) = Len(stack) - 1
      /\ \A k \in 1..Len(stack) - 1 : Below[k] = stack[k]
  BY PopSeq DEF CallType, Below
<1>2. /\ Len(stack') = Len(stack) /\ stack'[Len(stack)] = f
      /\ \A k \in 1..Len(stack) - 1 : stack'[k] = stack[k]
  BY <1>1, AppendProperties
<1>0. PICK n \in Nat : n = Len(stack) /\ n >= 1
  BY <1>1
<1>3. PICK fresh \in [Nat -> Int] : fresh[n] = x /\ \A k \in 0..n - 1 : fresh[k] = ends[k]
  <2> DEFINE g == [ends EXCEPT ![n] = x]
  <2>1. g \in [Nat -> Int] /\ g[n] = x /\ \A k \in 0..n - 1 : g[k] = ends[k]
    BY DEF Under
  <2> HIDE DEF g
  <2>2. QED
    BY <2>1
<1>4. ASSUME NEW k \in 1..n PROVE EndsAt(tokens, stack'[k], fresh[k], fresh[k - 1])
  <2>1. CASE k \in 1..n - 1
    <3>1. fresh[k] = ends[k] /\ fresh[k - 1] = ends[k - 1] /\ stack'[k] = stack[k]
      BY <1>0, <1>2, <1>3, <2>1
    <3>2. EndsAt(tokens, stack[k], ends[k], ends[k - 1])
      BY <1>0, <2>1 DEF Under, Plan
    <3>3. QED
      BY <3>1, <3>2
  <2>2. CASE k = n
    <3>1. fresh[n - 1] = ends[n - 1]
      BY <1>0, <1>3
    <3>2. QED
      BY <1>0, <1>2, <1>3, <2>2, <3>1 DEF Caller
  <2>3. k \in 1..n - 1 \/ k = n
    BY <1>0
  <2>4. QED
    BY <2>1, <2>2, <2>3
<1>5. Len(stack') = n
  BY <1>0, <1>2
<1>6. Plan(fresh)'
  BY <1>4, <1>5 DEF Plan
<1>7. Ahead(fresh[Len(stack)])'
  BY <1>3, <1>5
<1>8. QED
  BY <1>3, <1>6, <1>7 DEF Under, UnderWay

\* What is ahead in an expression.
LEMMA AheadNow ==
    ASSUME NEW x, tokens' = tokens
    PROVE  /\ doing' = "prefix" /\ Starts(tokens, pos', x) => Ahead(x)'
           /\ doing' \in {"postfix", "infix"} /\ Continues(tokens, pos', x) => Ahead(x)'
  BY DEF Ahead

LEMMA TopEnds ==
    ASSUME CallType, stack # <<>>, NEW ends, NEW e, Under(ends, e)
    PROVE  /\ EndsAt(tokens, Top, e, Caller(ends)) /\ e \in Int /\ Caller(ends) \in Int
           /\ Len(stack) > 1 => EndsAt(tokens, stack[Len(stack) - 1], Caller(ends), ends[(Len(stack) - 1) - 1])
<1>1. Len(stack) \in Nat /\ Len(stack) >= 1
  BY EmptySeq DEF CallType
<1>2. Len(stack) \in 1..Len(stack) /\ Len(stack) - 1 \in Nat
  BY <1>1
<1>3. EndsAt(tokens, Top, e, Caller(ends)) /\ Caller(ends) \in Int
  BY <1>2 DEF Under, Plan, Top, Caller
<1>4. Len(stack) > 1 => Len(stack) - 1 \in 1..Len(stack)
  BY <1>1
<1>5. QED
  BY <1>3, <1>4 DEF Under, Plan, Caller

\* Facts of every step of an expression.
LEMMA AheadHere ==
    ASSUME Control, InExpression, NEW ends, NEW e, Under(ends, e)
    PROVE  /\ CallType /\ StackOK /\ stack # <<>> /\ Top \in Frame /\ outcome = "running"
           /\ e \in Int /\ pos \in Nat /\ lo \in Nat /\ min \in Nat
           /\ Peek(0) = Tok(tokens, pos) /\ Peek(1) = Tok(tokens, pos + 1) /\ Peek(2) = Tok(tokens, pos + 2)
           /\ Tok(tokens, e + 1) \in Follow /\ EndsAt(tokens, Top, e, Caller(ends)) /\ Caller(ends) \in Int
           /\ doing = "prefix" => OperandAt(tokens, StartsTo(tokens, e), ContinuesTo(tokens, e), pos)
           /\ doing # "prefix" => GoesOnAt(tokens, StartsTo(tokens, e), ContinuesTo(tokens, e), e, pos)
<1>1. /\ CallType /\ StackOK /\ stack # <<>> /\ Top \in Frame /\ pos \in Nat /\ lo \in Nat /\ min \in Nat
      /\ Top.for \in Opener \cup Starter
  BY Expression
<1>2. EndsAt(tokens, Top, e, Caller(ends)) /\ e \in Int /\ Caller(ends) \in Int
  BY <1>1, TopEnds
<1>3. Tok(tokens, e + 1) \in Follow
  BY <1>1, <1>2 DEF EndsAt
<1>4. doing = "prefix" => OperandAt(tokens, StartsTo(tokens, e), ContinuesTo(tokens, e), pos)
  BY <1>2, WhatStarts DEF Under, Ahead
<1>5. doing # "prefix" => GoesOnAt(tokens, StartsTo(tokens, e), ContinuesTo(tokens, e), e, pos)
  BY <1>2, WhatContinues DEF Under, Ahead, InExpression
<1>6. pos + 0 = pos
  BY <1>1
<1>7. QED
  BY <1>1, <1>2, <1>3, <1>4, <1>5, <1>6 DEF Under, Peek

-----------------------------------------------------------------------------
(* Completeness: the steps of an expression. *)

LEMMA AtomAhead ==
    ASSUME Control, NEW ends, NEW e, Under(ends, e), Atom
    PROVE  UnderWay'
<1>1. /\ InExpression /\ doing = "prefix" /\ Peek(0) \in Ident \cup Literal /\ ~(Peek(0) \in Ident /\ Peek(1) = "(")
      /\ pos' = pos + 1 /\ stack' = stack /\ doing' = "postfix" /\ tokens' = tokens /\ outcome' = outcome
  BY DEF Atom, At, InExpression, Value, OnlyCall
<1>2. /\ Peek(0) = Tok(tokens, pos) /\ Peek(1) = Tok(tokens, pos + 1)
      /\ OperandAt(tokens, StartsTo(tokens, e), ContinuesTo(tokens, e), pos)
  BY <1>1, AheadHere
<1>3. pos + 1 \in ContinuesTo(tokens, e)
  BY <1>1, <1>2 DEF OperandAt, Ident, Literal, Number, Prefix, Quantifier
<1>4. Ahead(e)'
  BY <1>1, <1>3, AheadNow DEF ContinuesTo
<1>5. QED
  BY <1>1, <1>4, StayUnder

\* An operand that opens a call: what it waits for ends at x.
LEMMA OpenUnder ==
    ASSUME Control, InExpression, NEW ends, NEW e, Under(ends, e), tokens' = tokens, outcome' = outcome,
           NEW for \in Opener, NEW at \in Nat, NEW from \in Nat, stack' = Append(stack, Waits(for, at, from)),
           NEW x \in Int, EndsAt(tokens, Waits(for, at, from), x, e), doing' = "prefix", Starts(tokens, pos', x)
    PROVE  UnderWay'
<1> DEFINE f == Waits(for, at, from)
<1>1. f \in Frame /\ CallType
  BY AheadHere DEF Waits, Frame, Opener
<1>2. Ahead(x)'
  BY AheadNow
<1> HIDE DEF f
<1>3. stack' = Append(stack, f) /\ EndsAt(tokens, f, x, e)
  BY DEF f
<1>4. QED
  BY <1>1, <1>2, <1>3, PushUnder

LEMMA ArgumentEnds ==
    ASSUME NEW t, NEW f, NEW j \in Int, NEW x \in Int, NEW e,
           x = j - 1 \/ (Tok(t, x + 1) = "comma" /\ Derives(t, "exprs", x + 2, j - 1)),
           Tok(t, j) = ")", Continues(t, j + 1, e), f.for = "call"
    PROVE  EndsAt(t, f, x, e)
<1>1. x = j - 1 => x + 1 = j /\ x + 2 = j + 1
  OBVIOUS
<1>2. Tok(t, x + 1) \in Follow
  BY <1>1 DEF Follow
<1>3. CallEnds(t, x, e)
  BY <1>1 DEF CallEnds
<1>4. QED
  BY <1>2, <1>3 DEF EndsAt, Header

LEMMA CallAhead ==
    ASSUME Control, NEW ends, NEW e, Under(ends, e), Call
    PROVE  UnderWay'
<1>1. /\ InExpression /\ doing = "prefix" /\ Peek(0) \in Ident /\ Peek(1) = "(" /\ tokens' = tokens /\ outcome' = outcome
  BY DEF Call, At, InExpression, OnlyCall, OnlyTree
<1>2. /\ Peek(0) = Tok(tokens, pos) /\ Peek(1) = Tok(tokens, pos + 1) /\ Peek(2) = Tok(tokens, pos + 2)
      /\ OperandAt(tokens, StartsTo(tokens, e), ContinuesTo(tokens, e), pos)
      /\ Tok(tokens, e + 1) \in Follow /\ e \in Int /\ pos \in Nat
  BY <1>1, AheadHere
<1>3. pos + 1 \notin ContinuesTo(tokens, e)
  <2>1. SUFFICES ASSUME GoesOnAt(tokens, StartsTo(tokens, e), ContinuesTo(tokens, e), e, pos + 1) PROVE FALSE
    BY <1>2, WhatContinues DEF ContinuesTo
  <2>2. Tok(tokens, e + 1) # "("
    BY <1>2 DEF Follow, ClauseKind
  <2>3. QED
    BY <1>1, <1>2, <2>1, <2>2 DEF GoesOnAt, Infix
<1>4. \/ Peek(2) = ")" /\ pos + 3 \in ContinuesTo(tokens, e)
      \/ \E q \in Int : /\ Derives(tokens, "exprs", pos + 2, q - 1) /\ Tok(tokens, q) = ")"
                        /\ q + 1 \in ContinuesTo(tokens, e)
  BY <1>1, <1>2, <1>3 DEF OperandAt, Ident, Prefix, Quantifier
<1>5. ASSUME NEW q \in Int, Derives(tokens, "exprs", pos + 2, q - 1)
      PROVE  \E x \in Int : /\ Starts(tokens, pos + 2, x)
                            /\ x = q - 1 \/ (Tok(tokens, x + 1) = "comma" /\ Derives(tokens, "exprs", x + 2, q - 1))
  BY <1>2, <1>5, FirstOfList
<1>6. CASE Peek(2) = ")"
  <2>1. pos + 3 \in ContinuesTo(tokens, e)
    <3>1. ASSUME NEW q \in Int, Derives(tokens, "exprs", pos + 2, q - 1) PROVE FALSE
      <4>1. PICK x \in Int : Starts(tokens, pos + 2, x)
        BY <1>5, <3>1
      <4>2. Tok(tokens, pos + 2) \in First
        BY <4>1, FirstToken
      <4>3. QED
        BY <1>2, <1>6, <4>2 DEF First, Ident, Literal, Number, Prefix, Quantifier
    <3>2. QED
      BY <1>4, <3>1
  <2>2. pos' = pos + 3 /\ stack' = stack /\ doing' = "postfix"
    BY <1>6 DEF Call, Value
  <2>3. Ahead(e)'
    BY <1>1, <2>1, <2>2, AheadNow DEF ContinuesTo
  <2>4. QED
    BY <1>1, <2>2, <2>3, StayUnder
<1>7. CASE Peek(2) # ")"
  <2>1. PICK q \in Int : Derives(tokens, "exprs", pos + 2, q - 1) /\ Tok(tokens, q) = ")" /\ Continues(tokens, q + 1, e)
    BY <1>4, <1>7 DEF ContinuesTo
  <2>2. PICK x \in Int : /\ Starts(tokens, pos + 2, x)
                         /\ x = q - 1 \/ (Tok(tokens, x + 1) = "comma" /\ Derives(tokens, "exprs", x + 2, q - 1))
    BY <1>5, <2>1
  <2>3. pos' = pos + 2 /\ stack' = Append(stack, Waits("call", pos, pos)) /\ doing' = "prefix"
    BY <1>7 DEF Call, Parse
  <2>4. Waits("call", pos, pos).for = "call"
    BY DEF Waits
  <2>5. EndsAt(tokens, Waits("call", pos, pos), x, e)
    BY <2>1, <2>2, <2>4, ArgumentEnds
  <2>6. QED
    BY <1>1, <1>2, <2>2, <2>3, <2>5, OpenUnder DEF Opener
<1>8. QED
  BY <1>6, <1>7

LEMMA OperandAhead ==
    ASSUME Control, NEW ends, NEW e, Under(ends, e), Unary \/ Bracket \/ After \/ Quantify
    PROVE  UnderWay'
<1>1. InExpression /\ doing = "prefix"
  BY DEF Unary, Bracket, After, Quantify, At, InExpression
<1>2. /\ Peek(0) = Tok(tokens, pos) /\ Peek(1) = Tok(tokens, pos + 1)
      /\ OperandAt(tokens, StartsTo(tokens, e), ContinuesTo(tokens, e), pos)
      /\ Tok(tokens, e + 1) \in Follow /\ e \in Int /\ pos \in Nat
  BY <1>1, AheadHere
<1>3. \A for : Waits(for, pos, pos).for = for
  BY DEF Waits
<1>4. CASE Unary
  <2>1. /\ stack' = Append(stack, Waits("tail", pos, pos)) /\ pos' = pos + 1 /\ doing' = "prefix" /\ Peek(0) \in Prefix
        /\ tokens' = tokens /\ outcome' = outcome
    BY <1>4 DEF Unary, Parse, OnlyCall
  <2>2. Starts(tokens, pos + 1, e)
    BY <1>2, <2>1 DEF OperandAt, StartsTo, Ident, Literal, Number, Prefix, Quantifier
  <2>3. EndsAt(tokens, Waits("tail", pos, pos), e, e)
    BY <1>2, <1>3 DEF EndsAt, Header
  <2>4. QED
    BY <1>1, <1>2, <2>1, <2>2, <2>3, OpenUnder DEF Opener
<1>5. CASE Bracket /\ Peek(0) = "("
  <2>1. /\ stack' = Append(stack, Waits("(", pos, pos)) /\ pos' = pos + 1 /\ doing' = "prefix"
        /\ tokens' = tokens /\ outcome' = outcome
    BY <1>5 DEF Bracket, Parse, OnlyCall
  <2>2. PICK q \in Int : Derives(tokens, "expr", pos + 1, q - 1) /\ Tok(tokens, q) = ")" /\ Continues(tokens, q + 1, e)
    BY <1>2, <1>5 DEF OperandAt, ContinuesTo, Ident, Literal, Number, Prefix, Quantifier
  <2> DEFINE x == q - 1
  <2>3. x \in Int /\ x + 1 = q /\ x + 2 = q + 1 /\ Derives(tokens, "expr", pos + 1, x)
    BY <2>2
  <2> HIDE DEF x
  <2>4. Starts(tokens, pos + 1, x)
    BY <1>2, <2>3, Flatten
  <2>5. EndsAt(tokens, Waits("(", pos, pos), x, e)
    BY <1>3, <2>2, <2>3 DEF EndsAt, Header, Follow
  <2>6. QED
    BY <1>1, <1>2, <2>1, <2>3, <2>4, <2>5, OpenUnder DEF Opener
<1>6. CASE Bracket /\ Peek(0) = "if"
  <2>1. /\ stack' = Append(stack, Waits("if", pos, pos)) /\ pos' = pos + 1 /\ doing' = "prefix"
        /\ tokens' = tokens /\ outcome' = outcome
    BY <1>6 DEF Bracket, Parse, OnlyCall
  <2>2. PICK n, m \in Int : /\ Derives(tokens, "expr", pos + 1, n - 1) /\ Tok(tokens, n) = "then"
                            /\ Derives(tokens, "expr", n + 1, m - 1) /\ Tok(tokens, m) = "else"
                            /\ Starts(tokens, m + 1, e)
    BY <1>2, <1>6 DEF OperandAt, StartsTo, Ident, Literal, Number, Prefix, Quantifier
  <2> DEFINE x == n - 1
  <2>3. x \in Int /\ x + 1 = n /\ x + 2 = n + 1 /\ Derives(tokens, "expr", pos + 1, x)
    BY <2>2
  <2> HIDE DEF x
  <2>4. Starts(tokens, pos + 1, x)
    BY <1>2, <2>3, Flatten
  <2>5. EndsAt(tokens, Waits("if", pos, pos), x, e)
    BY <1>3, <2>2, <2>3 DEF EndsAt, IfEnds, Header, Follow
  <2>6. QED
    BY <1>1, <1>2, <2>1, <2>3, <2>4, <2>5, OpenUnder DEF Opener
<1>7. CASE After
  <2>1. PICK q \in Int : /\ Tok(tokens, pos + 1) = "(" /\ Derives(tokens, "expr", pos + 2, q - 1) /\ Tok(tokens, q) = ")"
                         /\ Continues(tokens, q + 1, e)
    BY <1>2, <1>7 DEF After, OperandAt, ContinuesTo, Ident, Literal, Number, Prefix, Quantifier
  <2>2. /\ stack' = Append(stack, Waits("after", pos, pos)) /\ pos' = pos + 2 /\ doing' = "prefix"
        /\ tokens' = tokens /\ outcome' = outcome
    BY <1>2, <1>7, <2>1 DEF After, Parse, OnlyCall
  <2> DEFINE x == q - 1
  <2>3. x \in Int /\ x + 1 = q /\ x + 2 = q + 1 /\ Derives(tokens, "expr", pos + 2, x)
    BY <2>1
  <2> HIDE DEF x
  <2>4. Starts(tokens, pos + 2, x)
    BY <1>2, <2>3, Flatten
  <2>5. EndsAt(tokens, Waits("after", pos, pos), x, e)
    BY <1>3, <2>1, <2>3 DEF EndsAt, Header, Follow
  <2>6. QED
    BY <1>1, <1>2, <2>2, <2>3, <2>4, <2>5, OpenUnder DEF Opener
<1>8. CASE Quantify
  <2>1. /\ stack' = Append(stack, Waits("tail", pos, pos)) /\ pos' = pos + 1 /\ doing' = "typed_vars"
        /\ tokens' = tokens /\ outcome' = outcome /\ Peek(0) \in Quantifier
    BY <1>8 DEF Quantify, OnlyCall
  <2>2. \E n \in Int : Derives(tokens, "typed_vars", pos + 1, n - 1) /\ Tok(tokens, n) = "comma" /\ Starts(tokens, n + 1, e)
    BY <1>2, <2>1 DEF OperandAt, StartsTo, Ident, Literal, Number, Prefix, Quantifier
  <2> DEFINE f == Waits("tail", pos, pos)
  <2>3. EndsAt(tokens, f, e, e) /\ f \in Frame /\ CallType
    BY <1>1, <1>2, <1>3, AheadHere DEF EndsAt, Header, Waits, Frame
  <2> HIDE DEF f
  <2>4. Ahead(e)'
    BY <2>1, <2>2 DEF Ahead
  <2>5. QED
    BY <1>2, <2>1, <2>3, <2>4, PushUnder DEF f
<1>9. QED
  BY <1>4, <1>5, <1>6, <1>7, <1>8 DEF Bracket

LEMMA TypedVarAhead ==
    ASSUME Control, NEW ends, NEW e, Under(ends, e), TypedVar
    PROVE  UnderWay'
<1>1. doing = "typed_vars" /\ CallType /\ StackOK /\ stack # <<>> /\ Top.for = "tail" /\ pos \in Nat
  BY DEF TypedVar, At, Control, DoingOK, CallType
<1>2. Top \in Frame /\ EndsAt(tokens, Top, e, Caller(ends)) /\ e \in Int /\ Caller(ends) \in Int
  BY <1>1, TopEnds, TopType
<1>3. Tok(tokens, e + 1) \in Follow
  BY <1>1, <1>2 DEF EndsAt, Opener
<1>4. /\ pos + 0 = pos /\ pos + 1 \in Int /\ pos + 2 \in Int /\ pos + 3 \in Int /\ pos + 4 \in Int
      /\ (pos + 4) + 1 = pos + 5
  BY <1>1
<1>5. PICK n \in Int : Derives(tokens, "typed_vars", pos, n - 1) /\ Tok(tokens, n) = "comma" /\ Starts(tokens, n + 1, e)
  BY <1>1 DEF Under, Ahead
<1> DEFINE x == n - 1
<1>6. x \in Int /\ x + 1 = n /\ Derives(tokens, "typed_vars", pos, x)
  BY <1>5
<1> HIDE DEF x
<1>7. TypedVars(tokens, Derivable(tokens), pos, x)
  BY <1>1, <1>6, Rules
<1>8. x = pos + 2 => n = pos + 3 /\ n + 1 = pos + 4
  BY <1>1, <1>6
<1>9. /\ Tok(tokens, pos) \in Ident /\ Tok(tokens, pos + 1) = ":" /\ Tok(tokens, pos + 2) \in Ident
      /\ Tok(tokens, pos + 3) = "comma"
      /\ x = pos + 2 \/ Derives(tokens, "typed_vars", pos + 4, x)
  BY <1>5, <1>7, <1>8 DEF TypedVars, Derives
<1>10. CASE Peek(4) \in Ident /\ Peek(5) = ":"
  <2>1. x # pos + 2
    BY <1>1, <1>2, <1>3, <1>4, <1>5, <1>8, <1>10, NoLabel DEF Peek
  <2>2. /\ tokens' = tokens /\ outcome' = outcome /\ stack' = stack /\ doing' = "typed_vars" /\ pos' = pos + 4
    BY <1>4, <1>9, <1>10 DEF TypedVar, Peek, GoOn, OnlyCall
  <2>3. Derives(tokens, "typed_vars", pos + 4, n - 1)
    BY <1>9, <2>1 DEF x
  <2>4. Ahead(e)'
    BY <1>5, <2>2, <2>3 DEF Ahead
  <2>5. QED
    BY <2>2, <2>4, StayUnder
<1>11. CASE ~(Peek(4) \in Ident /\ Peek(5) = ":")
  <2>1. ~Derives(tokens, "typed_vars", pos + 4, x)
    BY <1>1, <1>4, <1>6, <1>11, Rules DEF TypedVars, Peek
  <2>2. Starts(tokens, pos + 4, e)
    BY <1>5, <1>8, <1>9, <2>1
  <2>3. /\ tokens' = tokens /\ outcome' = outcome /\ stack' = Append(Below, Top) /\ doing' = "prefix" /\ pos' = pos + 4
    BY <1>4, <1>9, <1>11 DEF TypedVar, Peek, Parse, OnlyCall
  <2>4. Ahead(e)'
    BY <2>2, <2>3, AheadNow
  <2>5. QED
    BY <1>1, <1>2, <2>3, <2>4, SwapUnder
<1>12. QED
  BY <1>10, <1>11

LEMMA NoExpressionAhead ==
    ASSUME Control, NEW ends, NEW e, Under(ends, e), NoExpression
    PROVE  FALSE
<1>1. InExpression /\ doing = "prefix"
  BY DEF NoExpression, At, InExpression
<1>2. Peek(0) = Tok(tokens, pos) /\ OperandAt(tokens, StartsTo(tokens, e), ContinuesTo(tokens, e), pos)
  BY <1>1, AheadHere
<1>3. QED
  BY <1>2 DEF OperandAt, NoExpression

LEMMA PostfixAhead ==
    ASSUME Control, NEW ends, NEW e, Under(ends, e), Field \/ Prime \/ Index \/ NoPostfix
    PROVE  UnderWay'
<1>1. InExpression /\ doing = "postfix" /\ doing # "prefix"
  BY DEF Field, Prime, Index, NoPostfix, At, InExpression
<1>2. /\ Peek(0) = Tok(tokens, pos) /\ Peek(1) = Tok(tokens, pos + 1)
      /\ GoesOnAt(tokens, StartsTo(tokens, e), ContinuesTo(tokens, e), e, pos)
      /\ Tok(tokens, e + 1) \in Follow /\ e \in Int /\ pos \in Nat /\ lo \in Nat
  BY <1>1, AheadHere
<1>3. Peek(0) \in {".", "'", "["} => pos # e + 1 /\ Peek(0) \notin Infix
  BY <1>2 DEF Follow, ClauseKind, Infix
<1>4. CASE Field
  <2>1. Peek(1) \in Ident /\ Continues(tokens, pos + 2, e)
    BY <1>2, <1>3, <1>4 DEF Field, GoesOnAt, ContinuesTo
  <2>2. tokens' = tokens /\ outcome' = outcome /\ stack' = stack /\ doing' = "postfix" /\ pos' = pos + 2
    BY <1>4, <2>1 DEF Field, GoOn, OnlyTree
  <2>3. Ahead(e)'
    BY <2>1, <2>2, AheadNow
  <2>4. QED
    BY <2>2, <2>3, StayUnder
<1>5. CASE Prime
  <2>1. Continues(tokens, pos + 1, e)
    BY <1>2, <1>3, <1>5 DEF Prime, GoesOnAt, ContinuesTo
  <2>2. tokens' = tokens /\ outcome' = outcome /\ stack' = stack /\ doing' = "postfix" /\ pos' = pos + 1
    BY <1>5 DEF Prime, GoOn, OnlyTree
  <2>3. Ahead(e)'
    BY <2>1, <2>2, AheadNow
  <2>4. QED
    BY <2>2, <2>3, StayUnder
<1>6. CASE Index
  <2>1. PICK q \in Int : Derives(tokens, "expr", pos + 1, q - 1) /\ Tok(tokens, q) = "]" /\ Continues(tokens, q + 1, e)
    BY <1>2, <1>3, <1>6 DEF Index, GoesOnAt, ContinuesTo
  <2>2. /\ tokens' = tokens /\ outcome' = outcome /\ stack' = Append(stack, Waits("[", pos, lo))
        /\ doing' = "prefix" /\ pos' = pos + 1
    BY <1>6 DEF Index, Parse, OnlyCall
  <2> DEFINE x == q - 1
  <2>3. x \in Int /\ x + 1 = q /\ x + 2 = q + 1 /\ Derives(tokens, "expr", pos + 1, x)
    BY <2>1
  <2> HIDE DEF x
  <2>4. Starts(tokens, pos + 1, x)
    BY <1>2, <2>3, Flatten
  <2>5. Waits("[", pos, lo).for = "["
    BY DEF Waits
  <2>6. EndsAt(tokens, Waits("[", pos, lo), x, e)
    BY <2>1, <2>3, <2>5 DEF EndsAt, Header, Follow
  <2>7. QED
    BY <1>1, <1>2, <2>2, <2>3, <2>4, <2>6, OpenUnder DEF Opener
<1>7. CASE NoPostfix
  <2>1. tokens' = tokens /\ outcome' = outcome /\ stack' = stack /\ doing' = "infix" /\ pos' = pos
    BY <1>7 DEF NoPostfix, GoOn, OnlyCall
  <2>2. Ahead(e)'
    BY <1>1, <2>1, AheadNow DEF Under, Ahead
  <2>3. QED
    BY <2>1, <2>2, StayUnder
<1>8. QED
  BY <1>4, <1>5, <1>6, <1>7

LEMMA OperatorAhead ==
    ASSUME Control, NEW ends, NEW e, Under(ends, e), Operator
    PROVE  UnderWay'
<1>1. InExpression /\ doing = "infix" /\ doing # "prefix" /\ Peek(0) \in Infix
  BY DEF Operator, At, InExpression, Binds
<1>2. /\ Peek(0) = Tok(tokens, pos) /\ GoesOnAt(tokens, StartsTo(tokens, e), ContinuesTo(tokens, e), e, pos)
      /\ Tok(tokens, e + 1) \in Follow /\ e \in Int /\ pos \in Nat /\ lo \in Nat /\ CallType
  BY <1>1, AheadHere
<1>3. pos # e + 1
  BY <1>1, <1>2 DEF Follow, ClauseKind, Infix
<1>4. Starts(tokens, pos + 1, e)
  BY <1>1, <1>2, <1>3 DEF GoesOnAt, StartsTo, Infix
<1>5. /\ tokens' = tokens /\ outcome' = outcome /\ stack' = Append(stack, Waits("binary", pos, lo))
      /\ doing' = "prefix" /\ pos' = pos + 1
  BY DEF Operator, Parse, OnlyCall
<1>6. Waits("binary", pos, lo).for = "binary"
  BY DEF Waits
<1>7. EndsAt(tokens, Waits("binary", pos, lo), e, e)
  BY <1>2, <1>6 DEF EndsAt, Header
<1>8. QED
  BY <1>1, <1>2, <1>4, <1>5, <1>7, OpenUnder DEF Opener

\* The caller of a sign, an if, a quantifier or an operator ends where they do.
LEMMA OperandEndAhead ==
    ASSUME Control, NEW ends, NEW e, Under(ends, e), CloseTail \/ CloseBinary
    PROVE  UnderWay'
<1>1. InExpression /\ doing = "infix" /\ doing # "prefix" /\ Top.for \in {"tail", "binary"}
  BY DEF CloseTail, CloseBinary, Complete, At, InExpression
<1>2. EndsAt(tokens, Top, e, Caller(ends)) /\ CallType /\ stack # <<>>
  BY <1>1, AheadHere
<1>3. e = Caller(ends)
  BY <1>1, <1>2 DEF EndsAt
<1>4. Continues(tokens, pos, e)
  BY <1>1 DEF Under, Ahead
<1>5. tokens' = tokens /\ outcome' = outcome /\ stack' = Below /\ doing' \in {"postfix", "infix"} /\ pos' = pos
  BY DEF CloseTail, CloseBinary, ValueTo, OnlyTree
<1>6. Ahead(e)'
  BY <1>4, <1>5, AheadNow
<1>7. QED
  BY <1>2, <1>3, <1>5, <1>6, PopUnder

\* Elsewhere every operator binds, so the loop stops at the end only.
LEMMA AtItsEnd ==
    ASSUME Control, NEW ends, NEW e, Under(ends, e), NEW for, Complete(for), for \notin {"tail", "binary"}
    PROVE  /\ InExpression /\ CallType /\ StackOK /\ stack # <<>> /\ Top \in Frame /\ Top.for = for
           /\ EndsAt(tokens, Top, e, Caller(ends)) /\ e \in Int /\ Caller(ends) \in Int
           /\ pos = e + 1 /\ pos + 1 = e + 2 /\ pos + 2 = e + 3 /\ pos \in Nat
           /\ Peek(0) = Tok(tokens, e + 1) /\ Peek(1) = Tok(tokens, e + 2)
           /\ Tok(tokens, e + 1) \in Follow
<1>1. InExpression /\ doing = "infix" /\ doing # "prefix" /\ Top.for = for /\ ~Binds
  BY DEF Complete, At, InExpression
<1>2. /\ CallType /\ StackOK /\ stack # <<>> /\ Top \in Frame /\ pos \in Nat /\ e \in Int
      /\ Peek(0) = Tok(tokens, pos) /\ Peek(1) = Tok(tokens, pos + 1)
      /\ EndsAt(tokens, Top, e, Caller(ends)) /\ Caller(ends) \in Int /\ Tok(tokens, e + 1) \in Follow
      /\ GoesOnAt(tokens, StartsTo(tokens, e), ContinuesTo(tokens, e), e, pos)
  BY <1>1, AheadHere
<1>3. min = 0
  BY <1>1, Expression DEF Power, IsSign
<1>4. Peek(0) \notin Infix
  BY <1>1, <1>3, PowerType DEF Binds
<1>5. Peek(0) \notin {".", "'", "["}
  BY <1>1 DEF Control, DoingOK
<1>6. pos = e + 1
  BY <1>2, <1>4, <1>5 DEF GoesOnAt
<1>7. pos + 1 = e + 2 /\ pos + 2 = e + 3
  BY <1>2, <1>6
<1>8. QED
  BY <1>1, <1>2, <1>6, <1>7

LEMMA BracketEndAhead ==
    ASSUME Control, NEW ends, NEW e, Under(ends, e),
           CloseBracket("(", ")") \/ CloseBracket("after", ")") \/ CloseBracket("[", "]")
    PROVE  UnderWay'
<1>1. ASSUME NEW for, NEW close, CloseBracket(for, close),
             (for \in {"(", "after"} /\ close = ")") \/ (for = "[" /\ close = "]")
      PROVE  UnderWay'
  <2>2. Complete(for) /\ for \notin {"tail", "binary"}
    BY <1>1 DEF CloseBracket
  <2>3. /\ CallType /\ stack # <<>> /\ Top.for = for /\ EndsAt(tokens, Top, e, Caller(ends))
        /\ pos + 1 = e + 2 /\ Peek(0) = Tok(tokens, e + 1)
    BY <2>2, AtItsEnd
  <2>4. Tok(tokens, e + 1) = close /\ Continues(tokens, e + 2, Caller(ends))
    BY <1>1, <2>3 DEF EndsAt
  <2>5. tokens' = tokens /\ outcome' = outcome /\ stack' = Below /\ doing' = "postfix" /\ pos' = pos + 1
    BY <1>1, <2>3, <2>4 DEF CloseBracket, ValueTo, OnlyTree
  <2>6. PICK x : x = Caller(ends)
    OBVIOUS
  <2>7. Ahead(x)'
    BY <2>3, <2>4, <2>5, <2>6, AheadNow
  <2>8. QED
    BY <2>3, <2>5, <2>6, <2>7, PopUnder
<1>2. QED
  BY <1>1

LEMMA NextArgumentAhead ==
    ASSUME Control, NEW ends, NEW e, Under(ends, e), NextArgument
    PROVE  UnderWay'
<1>1. Complete("call")
  BY DEF NextArgument
<1>2. /\ CallType /\ stack # <<>> /\ Top \in Frame /\ Top.for = "call" /\ EndsAt(tokens, Top, e, Caller(ends))
      /\ pos + 1 = e + 2 /\ e + 2 \in Int /\ Peek(0) = Tok(tokens, e + 1) /\ Caller(ends) \in Int
  BY <1>1, AtItsEnd
<1>3. CallEnds(tokens, e, Caller(ends))
  BY <1>2 DEF EndsAt
<1>4. PICK c \in Int : c = Caller(ends)
  BY <1>2
<1>5. CASE Tok(tokens, e + 1) = ")"
  <2>1. Continues(tokens, e + 2, c)
    BY <1>3, <1>4, <1>5 DEF CallEnds
  <2>2. tokens' = tokens /\ outcome' = outcome /\ stack' = Below /\ doing' = "postfix" /\ pos' = pos + 1
    BY <1>2, <1>5 DEF NextArgument, ValueTo, OnlyTree
  <2>3. Ahead(c)'
    BY <1>2, <2>1, <2>2, AheadNow
  <2>4. QED
    BY <1>2, <1>4, <2>2, <2>3, PopUnder
<1>6. CASE Tok(tokens, e + 1) # ")"
  <2>1. PICK q \in Int : /\ Tok(tokens, e + 1) = "comma" /\ Derives(tokens, "exprs", e + 2, q - 1)
                         /\ Tok(tokens, q) = ")" /\ Continues(tokens, q + 1, c)
    BY <1>3, <1>4, <1>6 DEF CallEnds
  <2> DEFINE y == q - 1
  <2>2. y \in Int /\ Derives(tokens, "exprs", e + 2, y)
    BY <2>1
  <2> HIDE DEF y
  <2>3. PICK x \in Int : /\ Starts(tokens, e + 2, x)
                         /\ x = y \/ (Tok(tokens, x + 1) = "comma" /\ Derives(tokens, "exprs", x + 2, y))
    BY <1>2, <2>2, FirstOfList
  <2>4. EndsAt(tokens, Top, x, c)
    BY <1>2, <2>1, <2>3, ArgumentEnds DEF y
  <2>5. tokens' = tokens /\ outcome' = outcome /\ stack' = Append(Below, Top) /\ doing' = "prefix" /\ pos' = pos + 1
    BY <1>2, <2>1 DEF NextArgument, Parse, OnlyCall
  <2>6. Ahead(x)'
    BY <1>2, <2>3, <2>5, AheadNow
  <2>7. QED
    BY <1>2, <1>4, <2>4, <2>5, <2>6, SwapUnder
<1>7. QED
  BY <1>5, <1>6

LEMMA BranchAhead ==
    ASSUME Control, NEW ends, NEW e, Under(ends, e), Then \/ Else
    PROVE  UnderWay'
<1>1. CASE Then
  <2>1. Complete("if")
    BY <1>1 DEF Then
  <2>2. /\ CallType /\ stack # <<>> /\ Top \in Frame /\ Top.for = "if" /\ EndsAt(tokens, Top, e, Caller(ends))
        /\ pos + 1 = e + 2 /\ e + 2 \in Int /\ Peek(0) = Tok(tokens, e + 1) /\ Caller(ends) \in Int
    BY <2>1, AtItsEnd
  <2>3. PICK c \in Int : c = Caller(ends)
    BY <2>2
  <2>4. PICK m \in Int : /\ Tok(tokens, e + 1) = "then" /\ Derives(tokens, "expr", e + 2, m - 1)
                         /\ Tok(tokens, m) = "else" /\ Starts(tokens, m + 1, c)
    BY <2>2, <2>3 DEF EndsAt, IfEnds
  <2> DEFINE x == m - 1
             f == [Top EXCEPT !.for = "then"]
  <2>5. x \in Int /\ x + 1 = m /\ x + 2 = m + 1 /\ Derives(tokens, "expr", e + 2, x)
    BY <2>4
  <2>6. f \in Frame /\ f.for = "then"
    BY <2>2 DEF Frame
  <2>7. tokens' = tokens /\ outcome' = outcome /\ stack' = Append(Below, f) /\ doing' = "prefix" /\ pos' = pos + 1
    BY <1>1, <2>2, <2>4 DEF Then, Parse, OnlyCall
  <2> HIDE DEF x, f
  <2>8. Starts(tokens, e + 2, x)
    BY <2>2, <2>5, Flatten
  <2>9. EndsAt(tokens, f, x, c)
    BY <2>4, <2>5, <2>6 DEF EndsAt, Header, Follow
  <2>10. Ahead(x)'
    BY <2>2, <2>7, <2>8, AheadNow
  <2>11. QED
    BY <2>2, <2>3, <2>5, <2>6, <2>7, <2>9, <2>10, SwapUnder
<1>2. CASE Else
  <2>1. Complete("then")
    BY <1>2 DEF Else
  <2>2. /\ CallType /\ StackOK /\ stack # <<>> /\ Top \in Frame /\ Top.for = "then" /\ EndsAt(tokens, Top, e, Caller(ends))
        /\ pos + 1 = e + 2 /\ e + 2 \in Int /\ Peek(0) = Tok(tokens, e + 1) /\ Caller(ends) \in Int
    BY <2>1, AtItsEnd
  <2>3. PICK c \in Int : c = Caller(ends)
    BY <2>2
  <2>4. Tok(tokens, e + 1) = "else" /\ Starts(tokens, e + 2, c)
    BY <2>2, <2>3 DEF EndsAt
  <2> DEFINE f == [Top EXCEPT !.for = "tail"]
  <2>5. f \in Frame /\ f.for = "tail"
    BY <2>2 DEF Frame
  <2>6. tokens' = tokens /\ outcome' = outcome /\ stack' = Append(Below, f) /\ doing' = "prefix" /\ pos' = pos + 1
    BY <1>2, <2>2, <2>4 DEF Else, Parse, OnlyCall
  <2> HIDE DEF f
  <2>7. Tok(tokens, c + 1) \in Follow
    <3>1. Len(stack) > 1 /\ stack[Len(stack) - 1].for \in Opener \cup Starter
      <4>1. Len(stack) \in Nat /\ Len(stack) >= 1 /\ Len(stack) # 1
        BY <2>2, TopType DEF Header
      <4>2. \A n \in Nat : n >= 1 /\ n # 1 => n > 1
        OBVIOUS
      <4>3. Len(stack) > 1
        BY <4>1, <4>2
      <4>4. QED
        BY <2>2, <4>3, TopType DEF StandsOn, Opener
    <3>2. EndsAt(tokens, stack[Len(stack) - 1], c, ends[(Len(stack) - 1) - 1])
      BY <2>2, <2>3, <3>1, TopEnds
    <3>3. QED
      BY <3>1, <3>2 DEF EndsAt
  <2>8. EndsAt(tokens, f, c, c)
    BY <2>5, <2>7 DEF EndsAt, Header
  <2>9. Ahead(c)'
    BY <2>2, <2>4, <2>6, AheadNow
  <2>10. QED
    BY <2>2, <2>3, <2>5, <2>6, <2>8, <2>9, SwapUnder
<1>3. QED
  BY <1>1, <1>2

-----------------------------------------------------------------------------
(* Completeness: declarations and their bodies. *)

LEMMA DeclarationAhead ==
    ASSUME Control, NEW ends, NEW e, Under(ends, e), Declaration \/ NoDeclaration
    PROVE  Declaration /\ UnderWay'
<1>1. doing = "program" /\ Peek(0) # "eof"
  BY DEF Declaration, NoDeclaration, At, Header
<1>2. /\ CallType /\ stack = <<>> /\ pos \in Nat /\ Len(tokens) \in Nat /\ e \in Int
      /\ Peek(0) = Tok(tokens, pos) /\ pos + 0 = pos /\ tokens \in Seq(Token)
  BY <1>1 DEF Control, DoingOK, CallType, Peek, Under
<1>3. pos # Len(tokens) + 1
  <2>1. pos \in DOMAIN tokens
    BY <1>1, <1>2 DEF Tok
  <2>2. QED
    BY <1>2, <2>1
<1>4. Derives(tokens, "decls", pos, Len(tokens))
  BY <1>1 DEF Under, Ahead
<1>5. PICK n \in pos..Len(tokens) : /\ ADecl(tokens, Derivable(tokens), pos, n)
                                    /\ Derives(tokens, "decls", n + 1, Len(tokens))
  BY <1>2, <1>3, <1>4, Rules DEF Decls, Derives
<1> DEFINE x == n - 1
<1>6. x \in Int /\ x + 1 = n /\ x + 2 = n + 1 /\ x <= n
  BY <1>2, <1>5
<1>7. /\ Tok(tokens, n) = "rbrace"
      /\ \/ /\ Tok(tokens, pos) = "intent" /\ Derives(tokens, "clauses", pos + 1, x)
            /\ \A k, l \in pos..n : Tok(tokens, k) = "modifies" /\ Tok(tokens, l) = "modifies" => k = l
         \/ Tok(tokens, pos) = "safety" /\ Derives(tokens, "invariants", pos + 1, x)
         \/ Tok(tokens, pos) = "theorem" /\ Derives(tokens, "expr", pos + 1, x)
         \/ Tok(tokens, pos) = "example" /\ Derives(tokens, "sections", pos + 1, x)
  BY <1>5 DEF ADecl, Derives
<1> HIDE DEF x
<1>8. Declaration /\ Peek(0) \in Header
  BY <1>2, <1>7 DEF NoDeclaration, Header
<1>9. tokens' = tokens /\ outcome' = outcome /\ pos' = pos + 1
  BY <1>8 DEF Declaration, Parse, OnlyCall
<1>10. ASSUME NEW f \in Frame, f.for = Peek(0), f.at = pos
       PROVE  EndsAt(tokens, f, x, e)
  <2>1. f.for = "intent" =>
          \A k, l \in Int : pos <= k /\ k <= x /\ pos <= l /\ l <= x
                            /\ Tok(tokens, k) = "modifies" /\ Tok(tokens, l) = "modifies" => k = l
    <3>1. SUFFICES ASSUME f.for = "intent", NEW k \in Int, NEW l \in Int, pos <= k, k <= x, pos <= l, l <= x,
                          Tok(tokens, k) = "modifies", Tok(tokens, l) = "modifies"
                   PROVE  k = l
      OBVIOUS
    <3>2. k \in pos..n /\ l \in pos..n
      BY <1>2, <1>5, <1>6, <3>1
    <3>3. Tok(tokens, pos) = "intent"
      BY <1>2, <1>10, <3>1
    <3>4. QED
      BY <1>7, <3>1, <3>2, <3>3
  <2>2. DeclEnds(tokens, f, x)
    BY <1>5, <1>6, <1>7, <1>10, <2>1 DEF DeclEnds
  <2>3. Tok(tokens, x + 1) \in Follow
    BY <1>6, <1>7 DEF Follow
  <2>4. QED
    BY <1>8, <1>10, <2>2, <2>3 DEF EndsAt, Header
<1>11. CASE Peek(0) = "theorem"
  <2> DEFINE f == Waits("theorem", pos, pos + 1)
  <2>1. f \in Frame /\ f.for = Peek(0) /\ f.at = pos
    BY <1>2, <1>11 DEF Waits, Frame, CallType, Header
  <2>2. stack' = Append(stack, f) /\ doing' = "prefix"
    BY <1>8, <1>11 DEF Declaration, Parse
  <2> HIDE DEF f
  <2>3. Derives(tokens, "expr", pos + 1, x)
    BY <1>2, <1>7, <1>11
  <2>4. Starts(tokens, pos + 1, x)
    BY <1>2, <1>6, <2>3, Flatten
  <2>5. Ahead(x)'
    BY <1>9, <2>2, <2>4, AheadNow
  <2>6. EndsAt(tokens, f, x, e)
    BY <1>10, <2>1
  <2>7. QED
    BY <1>2, <1>6, <1>8, <1>9, <2>1, <2>2, <2>5, <2>6, PushUnder
<1>12. CASE Peek(0) # "theorem"
  <2> DEFINE f == Waits(Peek(0), pos, pos)
  <2>1. f \in Frame /\ f.for = Peek(0) /\ f.at = pos
    BY <1>2, <1>8 DEF Waits, Frame, CallType
  <2>2. stack' = Append(stack, f) /\ doing' = "body"
    BY <1>8, <1>12 DEF Declaration
  <2> HIDE DEF f
  <2>3. Top' = f
    BY <1>2, <2>1, <2>2, AppendProperties DEF Top, CallType
  <2>4. /\ f.for = "intent" => Derives(tokens, "clauses", pos + 1, x)
        /\ f.for = "safety" => Derives(tokens, "invariants", pos + 1, x)
        /\ f.for = "example" => Derives(tokens, "sections", pos + 1, x)
    BY <1>2, <1>7, <2>1
  <2>5. Ahead(x)'
    BY <1>9, <2>2, <2>3, <2>4 DEF Ahead
  <2>6. EndsAt(tokens, f, x, e)
    BY <1>10, <2>1
  <2>7. QED
    BY <1>2, <1>6, <1>8, <1>9, <2>1, <2>2, <2>5, <2>6, PushUnder
<1>13. QED
  BY <1>11, <1>12

\* Facts of every step of a body.
LEMMA BodyAhead ==
    ASSUME Control, doing = "body", NEW ends, NEW e, Under(ends, e)
    PROVE  /\ CallType /\ StackOK /\ stack # <<>> /\ Top \in Frame /\ Top = stack[1] /\ Len(stack) = 1
           /\ pos \in Nat /\ min \in Nat /\ e \in Int /\ Caller(ends) \in Int /\ e + 1 \in Int
           /\ Peek(0) = Tok(tokens, pos) /\ Peek(1) = Tok(tokens, pos + 1) /\ Peek(2) = Tok(tokens, pos + 2)
           /\ DeclEnds(tokens, Top, e) /\ Tok(tokens, e + 1) = "rbrace"
           /\ Top.for \in {"intent", "safety", "example"}
           /\ Top.for = "intent" => Clauses(tokens, Derivable(tokens), pos, e)
           /\ Top.for = "safety" => Invariants(tokens, Derivable(tokens), pos, e)
           /\ Top.for = "example" => Sections(tokens, Derivable(tokens), pos, e)
<1>1. /\ CallType /\ StackOK /\ stack # <<>> /\ Top \in Frame /\ pos \in Nat /\ Len(stack) = 1 /\ min \in Nat
  BY InLoop
<1>2. Top = stack[1] /\ Top.for \in {"intent", "safety", "example"}
  BY <1>1 DEF Top, Control, DoingOK
<1>3. EndsAt(tokens, Top, e, Caller(ends)) /\ e \in Int /\ Caller(ends) \in Int
  BY <1>1, TopEnds
<1>4. DeclEnds(tokens, Top, e) /\ Tok(tokens, e + 1) = "rbrace"
  BY <1>2, <1>3 DEF EndsAt, DeclEnds, Header
<1>5. /\ Top.for = "intent" => Derives(tokens, "clauses", pos, e)
      /\ Top.for = "safety" => Derives(tokens, "invariants", pos, e)
      /\ Top.for = "example" => Derives(tokens, "sections", pos, e)
  BY DEF Under, Ahead
<1>6. pos + 0 = pos /\ pos \in Int /\ e + 1 \in Int
  BY <1>1, <1>3
<1>7. /\ Top.for = "intent" => Clauses(tokens, Derivable(tokens), pos, e)
      /\ Top.for = "safety" => Invariants(tokens, Derivable(tokens), pos, e)
      /\ Top.for = "example" => Sections(tokens, Derivable(tokens), pos, e)
  BY <1>3, <1>5, <1>6, Rules
<1>8. QED
  BY <1>1, <1>2, <1>3, <1>4, <1>6, <1>7 DEF Peek

\* A declaration is complete.
LEMMA DeclDone ==
    ASSUME CallType, stack # <<>>, NEW ends, NEW e, Under(ends, e), e \in Int, DeclEnds(tokens, Top, e), pos = e + 1,
           tokens' = tokens, outcome' = outcome, Return("program", pos + 1)
    PROVE  UnderWay'
<1>1. pos' = e + 2 /\ doing' = "program" /\ stack' = Below
  BY DEF Return
<1>2. Derives(tokens, "decls", e + 2, Len(tokens))
  BY DEF DeclEnds
<1>3. PICK x : x = Caller(ends)
  OBVIOUS
<1>4. Ahead(x)'
  BY <1>1, <1>2 DEF Ahead
<1>5. QED
  BY <1>1, <1>3, <1>4, PopUnder

LEMMA EndOfDeclAhead ==
    ASSUME Control, NEW ends, NEW e, Under(ends, e), EndOfBody \/ CloseTheorem
    PROVE  UnderWay'
<1>1. CASE EndOfBody
  <2>1. /\ doing = "body" /\ Peek(0) = "rbrace" /\ tokens' = tokens /\ outcome' = outcome /\ Return("program", pos + 1)
    BY <1>1 DEF EndOfBody, At, Finish
  <2>2. pos = e + 1
    BY <2>1, BodyAhead DEF Clauses, Invariants, Sections, AClause, ASection, ClauseKind
  <2>3. QED
    BY <2>1, <2>2, BodyAhead, DeclDone
<1>2. CASE CloseTheorem
  <2>1. Complete("theorem")
    BY <1>2 DEF CloseTheorem
  <2>2. /\ CallType /\ stack # <<>> /\ Top.for = "theorem" /\ EndsAt(tokens, Top, e, Caller(ends)) /\ e \in Int
        /\ pos = e + 1 /\ Peek(0) = Tok(tokens, e + 1)
    BY <2>1, AtItsEnd
  <2>3. DeclEnds(tokens, Top, e)
    BY <2>2 DEF EndsAt, Header
  <2>4. tokens' = tokens /\ outcome' = outcome /\ Return("program", pos + 1)
    BY <1>2, <2>2, <2>3 DEF CloseTheorem, DeclEnds, Finish
  <2>5. QED
    BY <2>2, <2>3, <2>4, DeclDone
<1>3. QED
  BY <1>1, <1>2

\* A part is complete, and the body goes on.
LEMMA PartDone ==
    ASSUME Control, stack # <<>>, NEW ends, NEW e, Under(ends, e), tokens' = tokens, outcome' = outcome,
           NEW n, Return("body", n),
           \/ Top.for \in {"clause", "modifies"} /\ Derives(tokens, "clauses", n, Caller(ends))
           \/ Top.for = "invariant" /\ Derives(tokens, "invariants", n, Caller(ends))
           \/ Top.for = "section" /\ Derives(tokens, "sections", n, Caller(ends))
    PROVE  UnderWay'
<1>1. CallType /\ StackOK
  BY DEF Control
<1>2. Len(stack) = 2 /\ stack[1].for = IF Top.for = "invariant" THEN "safety"
                                       ELSE IF Top.for = "section" THEN "example" ELSE "intent"
  BY <1>1, UnderPart
<1>3. pos' = n /\ doing' = "body" /\ stack' = Below
  BY DEF Return
<1>4. Top' = stack[1]
  <2>1. Len(Below) = Len(stack) - 1 /\ \A k \in 1..Len(stack) - 1 : Below[k] = stack[k]
    BY <1>1, PopSeq DEF CallType, Below
  <2>2. Len(Below) = 1 /\ Below[1] = stack[1]
    BY <1>2, <2>1
  <2>3. QED
    BY <1>3, <2>2 DEF Top
<1>5. PICK x : x = Caller(ends)
  OBVIOUS
<1>6. Ahead(x)'
  BY <1>2, <1>3, <1>4, <1>5 DEF Ahead
<1>7. QED
  BY <1>1, <1>3, <1>5, <1>6, PopUnder

LEMMA InvariantAhead ==
    ASSUME Control, NEW ends, NEW e, Under(ends, e), Invariant \/ CloseInvariant \/ NoInvariant
    PROVE  UnderWay'
<1>1. CASE Invariant
  <2>1. /\ doing = "body" /\ Top.for = "safety" /\ Peek(0) = "invariant" /\ pos' = pos + 1 /\ doing' = "prefix"
        /\ stack' = Append(stack, Waits("invariant", pos, pos + 1)) /\ tokens' = tokens /\ outcome' = outcome
    BY <1>1 DEF Invariant, InBody, At, Parse, OnlyCall
  <2>2. /\ CallType /\ pos \in Nat /\ min \in Nat /\ e \in Int /\ Peek(0) = Tok(tokens, pos)
        /\ Tok(tokens, e + 1) = "rbrace" /\ Invariants(tokens, Derivable(tokens), pos, e)
    BY <2>1, BodyAhead
  <2>3. PICK x \in pos..e : Derives(tokens, "expr", pos + 1, x) /\ Derives(tokens, "invariants", x + 1, e)
    BY <2>1, <2>2 DEF Invariants, Derives
  <2>4. x \in Int /\ x + 1 \in Int /\ pos + 1 \in Int
    BY <2>2, <2>3
  <2>5. Tok(tokens, x + 1) \in {"rbrace", "invariant"}
    BY <2>2, <2>3, <2>4, Rules DEF Invariants
  <2> DEFINE f == Waits("invariant", pos, pos + 1)
  <2>6. f \in Frame /\ f.for = "invariant"
    BY <2>2 DEF Waits, Frame
  <2> HIDE DEF f
  <2>7. EndsAt(tokens, f, x, e)
    BY <2>3, <2>5, <2>6 DEF EndsAt, Header, Follow, ClauseKind
  <2>8. Starts(tokens, pos + 1, x)
    BY <2>3, <2>4, Flatten
  <2>9. Ahead(x)'
    BY <2>1, <2>8, AheadNow
  <2>10. QED
    BY <2>1, <2>2, <2>4, <2>6, <2>7, <2>9, PushUnder DEF f
<1>2. CASE CloseInvariant
  <2>1. Complete("invariant") /\ tokens' = tokens /\ outcome' = outcome /\ Return("body", pos)
    BY <1>2 DEF CloseInvariant, Add
  <2>2. /\ stack # <<>> /\ Top.for = "invariant" /\ EndsAt(tokens, Top, e, Caller(ends)) /\ pos = e + 1
    BY <2>1, AtItsEnd
  <2>3. Derives(tokens, "invariants", pos, Caller(ends))
    BY <2>2 DEF EndsAt
  <2>4. QED
    BY <2>1, <2>2, <2>3, PartDone
<1>3. CASE NoInvariant
  <2>1. doing = "body" /\ Top.for = "safety" /\ Peek(0) \notin {"invariant", "rbrace"}
    BY <1>3 DEF NoInvariant, InBody, At
  <2>2. QED
    BY <2>1, BodyAhead DEF Invariants
<1>4. QED
  BY <1>1, <1>2, <1>3

-----------------------------------------------------------------------------
(* Completeness: the clauses of an intent. *)

\* What a clause ends before.
LEMMA AfterAClause ==
    ASSUME NEW t, NEW i \in Int, NEW j \in Int, Derives(t, "clauses", i, j), Tok(t, j + 1) = "rbrace"
    PROVE  Tok(t, i) \in ClauseKind \cup {"modifies", "rbrace"} /\ Tok(t, i) \in Follow
<1>1. Clauses(t, Derivable(t), i, j)
  BY Rules
<1>2. Tok(t, i) \in ClauseKind \cup {"modifies", "rbrace"}
  BY <1>1 DEF Clauses, AClause, ClauseKind
<1>3. QED
  BY <1>2 DEF Follow

\* The body of the declaration goes on to its brace.
LEMMA BelowPart ==
    ASSUME Control, stack # <<>>, NEW ends, NEW e, Under(ends, e), Top.for \in {"clause", "modifies", "invariant", "section"}
    PROVE  Tok(tokens, Caller(ends) + 1) = "rbrace"
<1>1. CallType /\ StackOK
  BY DEF Control
<1>2. Len(stack) = 2 /\ stack[1].for \in Header
  BY <1>1, UnderPart DEF Header
<1>3. Len(stack) > 1 /\ Len(stack) - 1 = 1
  BY <1>2
<1>4. EndsAt(tokens, stack[1], Caller(ends), ends[1 - 1])
  BY <1>1, <1>3, TopEnds
<1>5. QED
  BY <1>2, <1>4 DEF EndsAt, DeclEnds

LEMMA ClauseAhead ==
    ASSUME Control, NEW ends, NEW e, Under(ends, e), Clause
    PROVE  UnderWay'
<1>1. /\ doing = "body" /\ Top.for = "intent" /\ Peek(0) \in ClauseKind /\ tokens' = tokens /\ outcome' = outcome
      /\ stack' = Append(stack, Waits("clause", pos, pos + 1)) /\ doing' = "prefix"
      /\ pos' = IF Peek(1) \in Ident /\ Peek(2) = ":" THEN pos + 3 ELSE pos + 1
  BY DEF Clause, InBody, At, Parse, OnlyCall
<1>2. /\ CallType /\ pos \in Nat /\ min \in Nat /\ e \in Int /\ Peek(0) = Tok(tokens, pos)
      /\ Peek(1) = Tok(tokens, pos + 1) /\ Peek(2) = Tok(tokens, pos + 2)
      /\ Tok(tokens, e + 1) = "rbrace" /\ Clauses(tokens, Derivable(tokens), pos, e)
  BY <1>1, BodyAhead
<1>3. PICK n \in pos..e : AClause(tokens, Derivable(tokens), pos, n) /\ Derives(tokens, "clauses", n + 1, e)
  BY <1>1, <1>2 DEF Clauses, Derives, ClauseKind
<1>4. PICK x \in Int :
          /\ Labelled(tokens, Derivable(tokens), pos + 1, x)
          /\ \/ Derives(tokens, "clauses", x + 1, e)
             \/ /\ Tok(tokens, pos) = "require" /\ Tok(tokens, x + 1) = "else" /\ Tok(tokens, x + 2) = "reject"
                /\ Derives(tokens, "clauses", x + 3, e)
  <2>1. n \in Int
    BY <1>2, <1>3
  <2>2. CASE Labelled(tokens, Derivable(tokens), pos + 1, n)
    BY <1>3, <2>1, <2>2
  <2>3. CASE /\ Tok(tokens, pos) = "require" /\ Tok(tokens, n - 1) = "else" /\ Tok(tokens, n) = "reject"
             /\ Labelled(tokens, Derivable(tokens), pos + 1, n - 2)
    <3> DEFINE y == n - 2
    <3>1. y \in Int /\ y + 1 = n - 1 /\ y + 2 = n /\ y + 3 = n + 1 /\ Labelled(tokens, Derivable(tokens), pos + 1, y)
      BY <2>1, <2>3
    <3> HIDE DEF y
    <3>2. QED
      BY <1>3, <2>3, <3>1
  <2>4. QED
    BY <1>1, <1>2, <1>3, <2>2, <2>3 DEF AClause, ClauseKind
<1>5. x + 1 \in Int
  OBVIOUS
<1>6. Tok(tokens, x + 1) \in Follow
  BY <1>2, <1>4, <1>5, AfterAClause DEF Follow
<1> DEFINE f == Waits("clause", pos, pos + 1)
<1>7. f \in Frame /\ f.for = "clause" /\ f.at = pos
  BY <1>2 DEF Waits, Frame
<1>8. stack' = Append(stack, f)
  BY <1>1
<1> HIDE DEF f
<1>9. EndsAt(tokens, f, x, e)
  BY <1>4, <1>6, <1>7 DEF EndsAt, ClauseEnds, Header
<1>10. pos + 1 \in Int /\ (pos + 1) + 1 = pos + 2 /\ pos + 3 \in Int /\ (pos + 1) + 2 = pos + 3
  BY <1>2
<1>11. \/ Derives(tokens, "expr", pos + 1, x)
       \/ /\ Tok(tokens, pos + 1) \in Ident /\ Tok(tokens, pos + 2) = ":"
          /\ Derives(tokens, "expr", pos + 3, x)
  BY <1>4, <1>10 DEF Labelled, Derives
<1>12. Starts(tokens, pos', x)
  <2>1. CASE Tok(tokens, pos + 1) \in Ident /\ Tok(tokens, pos + 2) = ":"
    <3>1. ~Starts(tokens, pos + 1, x)
      BY <1>6, <1>10, <2>1, NoLabel
    <3>2. Starts(tokens, pos + 3, x)
      BY <1>10, <1>11, <3>1, Flatten
    <3>3. pos' = pos + 3
      BY <1>1, <1>2, <2>1
    <3>4. QED
      BY <3>2, <3>3
  <2>2. CASE ~(Tok(tokens, pos + 1) \in Ident /\ Tok(tokens, pos + 2) = ":")
    <3>1. Starts(tokens, pos + 1, x)
      BY <1>10, <1>11, <2>2, Flatten
    <3>2. pos' = pos + 1
      BY <1>1, <1>2, <2>2
    <3>3. QED
      BY <3>1, <3>2
  <2>3. QED
    BY <2>1, <2>2
<1>13. Ahead(x)'
  BY <1>1, <1>12, AheadNow
<1>14. QED
  BY <1>1, <1>2, <1>7, <1>8, <1>9, <1>13, PushUnder

LEMMA CloseClauseAhead ==
    ASSUME Control, NEW ends, NEW e, Under(ends, e), CloseClause
    PROVE  UnderWay'
<1>1. Complete("clause")
  BY DEF CloseClause
<1>2. /\ CallType /\ StackOK /\ stack # <<>> /\ Top.for = "clause" /\ EndsAt(tokens, Top, e, Caller(ends))
      /\ pos = e + 1 /\ pos + 2 = e + 3 /\ Peek(0) = Tok(tokens, e + 1) /\ Peek(1) = Tok(tokens, e + 2)
      /\ e \in Int /\ Caller(ends) \in Int /\ e + 1 \in Int
  BY <1>1, AtItsEnd
<1>3. PICK c \in Int : c = Caller(ends)
  BY <1>2
<1>4. ClauseEnds(tokens, Top, e, c)
  BY <1>2, <1>3 DEF EndsAt
<1>5. Tok(tokens, e + 1) = "else" => ~Derives(tokens, "clauses", e + 1, c)
  BY <1>2, <1>3, BelowPart, AfterAClause DEF ClauseKind
<1>6. Tok(tokens, Top.at) = tokens[Top.at]
  BY <1>2, TopType DEF FrameOK, Tok
<1>7. CASE Tok(tokens, e + 1) # "else"
  <2>1. tokens' = tokens /\ outcome' = outcome /\ Return("body", pos)
    BY <1>2, <1>7 DEF CloseClause, Add
  <2>2. Derives(tokens, "clauses", pos, Caller(ends))
    BY <1>2, <1>3, <1>4, <1>7 DEF ClauseEnds
  <2>3. QED
    BY <1>2, <2>1, <2>2, PartDone
<1>8. CASE Tok(tokens, e + 1) = "else"
  <2>1. /\ Tok(tokens, Top.at) = "require" /\ Tok(tokens, e + 2) = "reject" /\ Derives(tokens, "clauses", e + 3, c)
    BY <1>4, <1>5, <1>8 DEF ClauseEnds
  <2>2. tokens' = tokens /\ outcome' = outcome /\ Return("body", pos + 2)
    BY <1>2, <1>6, <1>8, <2>1 DEF CloseClause, Add
  <2>3. Derives(tokens, "clauses", pos + 2, Caller(ends))
    BY <1>2, <1>3, <2>1
  <2>4. QED
    BY <1>2, <2>2, <2>3, PartDone
<1>9. QED
  BY <1>7, <1>8

\* Where the first path of a `modifies` ends.
LEMMA PathsEnd ==
    ASSUME NEW t, NEW f, f.for = "modifies", NEW i \in Int, NEW n \in Int, NEW e \in Int,
           Derives(t, "exprs", i, n), Derives(t, "clauses", n + 1, e), Tok(t, e + 1) = "rbrace"
    PROVE  \E x \in Int : Starts(t, i, x) /\ EndsAt(t, f, x, e)
<1>1. PICK x \in Int : Starts(t, i, x) /\ (x = n \/ (Tok(t, x + 1) = "comma" /\ Derives(t, "exprs", x + 2, n)))
  BY FirstOfList
<1>2. x + 1 \in Int
  OBVIOUS
<1>3. ModifiesEnds(t, x, e)
  BY <1>1 DEF ModifiesEnds
<1>4. Tok(t, x + 1) \in Follow
  BY <1>1, <1>2, AfterAClause DEF Follow
<1>5. EndsAt(t, f, x, e)
  BY <1>3, <1>4 DEF EndsAt, Header
<1>6. QED
  BY <1>1, <1>5

LEMMA ModifiesAhead ==
    ASSUME Control, Sound, NEW ends, NEW e, Under(ends, e), Modifies
    PROVE  UnderWay'
<1>1. doing = "body" /\ Top.for = "intent" /\ Peek(0) = "modifies"
  BY DEF Modifies, InBody, At
<1>2. /\ CallType /\ pos \in Nat /\ min \in Nat /\ e \in Int /\ Peek(0) = Tok(tokens, pos) /\ Peek(1) = Tok(tokens, pos + 1)
      /\ Tok(tokens, e + 1) = "rbrace" /\ Clauses(tokens, Derivable(tokens), pos, e)
      /\ Top = stack[1] /\ stack # <<>> /\ DeclEnds(tokens, Top, e) /\ Top \in Frame
  BY <1>1, BodyAhead
<1>3. PICK n \in pos..e : AClause(tokens, Derivable(tokens), pos, n) /\ Derives(tokens, "clauses", n + 1, e)
  BY <1>1, <1>2 DEF Clauses, Derives
<1>4. n \in Int /\ pos <= e /\ pos + 1 \in Int
  BY <1>2, <1>3
<1>5. (n = pos + 1 /\ Tok(tokens, n) = "*") \/ Derives(tokens, "exprs", pos + 1, n)
  BY <1>1, <1>2, <1>3 DEF AClause, Derives, ClauseKind
<1>6. \A p \in parts : tokens[p.at] # "modifies"
  <2>1. SUFFICES ASSUME NEW p \in parts, tokens[p.at] = "modifies" PROVE FALSE
    OBVIOUS
  <2>2. OneModifies
    BY DEF Sound, Under
  <2>3. InIntent(p.at)
    BY <1>1, <1>2, <2>1, <2>2 DEF OneModifies
  <2>4. PICK m : m = p.at
    OBVIOUS
  <2>5. stack[1].at <= m /\ m < pos /\ Tok(tokens, m) = "modifies"
    BY <2>3, <2>4 DEF InIntent
  <2>6. m \in Int /\ Top.at \in Int
    <3>1. m \in DOMAIN tokens
      BY <2>5 DEF Tok
    <3>2. DOMAIN tokens = 1..Len(tokens)
      BY <1>2 DEF CallType
    <3>3. QED
      BY <1>2, <3>1, <3>2, FrameType
  <2>7. Top.at <= m /\ m <= e /\ Top.at <= pos /\ m # pos
    BY <1>2, <1>4, <2>5, <2>6
  <2>8. \A k, l \in Int : Top.at <= k /\ k <= e /\ Top.at <= l /\ l <= e
                          /\ Tok(tokens, k) = "modifies" /\ Tok(tokens, l) = "modifies" => k = l
    BY <1>1, <1>2 DEF DeclEnds
  <2>9. QED
    BY <1>1, <1>2, <1>4, <2>5, <2>6, <2>7, <2>8
<1>7. CASE Peek(1) = "*"
  <2>1. ~Derives(tokens, "exprs", pos + 1, n)
    <3>1. SUFFICES ASSUME Derives(tokens, "exprs", pos + 1, n) PROVE FALSE
      OBVIOUS
    <3>2. PICK x \in Int : Starts(tokens, pos + 1, x)
      BY <1>4, <3>1, FirstOfList
    <3>3. Tok(tokens, pos + 1) \in First
      BY <3>2, FirstToken
    <3>4. QED
      BY <1>2, <1>7, <3>3 DEF First, Ident, Literal, Number, Prefix, Quantifier
  <2>2. n + 1 = pos + 2
    BY <1>2, <1>5, <2>1
  <2>3. /\ tokens' = tokens /\ outcome' = outcome /\ stack' = stack /\ doing' = "body" /\ pos' = pos + 2
    BY <1>6, <1>7 DEF Modifies, GoOn
  <2>4. Ahead(e)'
    BY <1>1, <1>3, <2>2, <2>3 DEF Ahead, Top
  <2>5. QED
    BY <2>3, <2>4, StayUnder
<1>8. CASE Peek(1) # "*"
  <2> DEFINE f == Waits("modifies", pos, pos + 1)
  <2>1. f \in Frame /\ f.for = "modifies"
    BY <1>2 DEF Waits, Frame
  <2>2. tokens' = tokens /\ outcome' = outcome /\ stack' = Append(stack, f) /\ doing' = "prefix" /\ pos' = pos + 1
    BY <1>6, <1>8 DEF Modifies, Parse, OnlyCall
  <2> HIDE DEF f
  <2>3. Derives(tokens, "exprs", pos + 1, n)
    BY <1>2, <1>5, <1>8
  <2>4. PICK x \in Int : Starts(tokens, pos + 1, x) /\ EndsAt(tokens, f, x, e)
    BY <1>2, <1>3, <1>4, <2>1, <2>3, PathsEnd
  <2>5. Ahead(x)'
    BY <2>2, <2>4, AheadNow
  <2>6. QED
    BY <1>2, <2>1, <2>2, <2>4, <2>5, PushUnder
<1>9. QED
  BY <1>7, <1>8

LEMMA ClosePathAhead ==
    ASSUME Control, NEW ends, NEW e, Under(ends, e), ClosePath
    PROVE  UnderWay'
<1>1. Complete("modifies") /\ tokens' = tokens /\ outcome' = outcome
  BY DEF ClosePath, Add
<1>2. /\ CallType /\ StackOK /\ stack # <<>> /\ Top \in Frame /\ Top.for = "modifies" /\ EndsAt(tokens, Top, e, Caller(ends))
      /\ pos = e + 1 /\ pos + 1 = e + 2 /\ Peek(0) = Tok(tokens, e + 1) /\ pos \in Nat
      /\ e \in Int /\ Caller(ends) \in Int /\ e + 1 \in Int /\ e + 2 \in Int
  BY <1>1, AtItsEnd
<1>3. PICK c \in Int : c = Caller(ends)
  BY <1>2
<1>4. ModifiesEnds(tokens, e, c)
  BY <1>2, <1>3 DEF EndsAt
<1>5. Tok(tokens, c + 1) = "rbrace"
  BY <1>2, <1>3, BelowPart
<1>6. CASE Tok(tokens, e + 1) = "comma"
  <2>1. ~Derives(tokens, "clauses", e + 1, c)
    BY <1>2, <1>5, <1>6, AfterAClause DEF ClauseKind
  <2>2. PICK n \in Int : Derives(tokens, "exprs", e + 2, n) /\ Derives(tokens, "clauses", n + 1, c)
    BY <1>4, <2>1 DEF ModifiesEnds
  <2> DEFINE f == [Top EXCEPT !.lo = pos + 1]
  <2>3. f \in Frame /\ f.for = "modifies"
    BY <1>2 DEF Frame
  <2>4. stack' = Append(Below, f) /\ doing' = "prefix" /\ pos' = pos + 1
    BY <1>2, <1>6 DEF ClosePath, Parse
  <2> HIDE DEF f
  <2>5. PICK x \in Int : Starts(tokens, e + 2, x) /\ EndsAt(tokens, f, x, c)
    BY <1>2, <1>5, <2>2, <2>3, PathsEnd
  <2>6. Ahead(x)'
    BY <1>1, <1>2, <2>4, <2>5, AheadNow
  <2>7. QED
    BY <1>1, <1>2, <1>3, <2>3, <2>4, <2>5, <2>6, SwapUnder
<1>7. CASE Tok(tokens, e + 1) # "comma"
  <2>1. Return("body", pos)
    BY <1>2, <1>7 DEF ClosePath
  <2>2. Derives(tokens, "clauses", pos, Caller(ends))
    BY <1>2, <1>3, <1>4, <1>7 DEF ModifiesEnds
  <2>3. QED
    BY <1>1, <1>2, <2>1, <2>2, PartDone
<1>8. QED
  BY <1>6, <1>7

LEMMA NoClauseAhead ==
    ASSUME Control, NEW ends, NEW e, Under(ends, e), NoClause
    PROVE  FALSE
<1>1. doing = "body" /\ Top.for = "intent" /\ Peek(0) \notin ClauseKind \cup {"modifies", "rbrace"}
  BY DEF NoClause, InBody, At
<1>2. QED
  BY <1>1, BodyAhead DEF Clauses, AClause, ClauseKind

-----------------------------------------------------------------------------
(* Completeness: the sections of an example. *)

LEMMA SectionAhead ==
    ASSUME Control, NEW ends, NEW e, Under(ends, e), Section
    PROVE  UnderWay'
<1>1. doing = "body" /\ Top.for = "example" /\ Peek(0) # "rbrace"
  BY DEF Section, InBody, At
<1>2. /\ CallType /\ pos \in Nat /\ min \in Nat /\ e \in Int /\ Peek(0) = Tok(tokens, pos) /\ Peek(1) = Tok(tokens, pos + 1)
      /\ Peek(2) = Tok(tokens, pos + 2)
      /\ Tok(tokens, e + 1) = "rbrace" /\ Sections(tokens, Derivable(tokens), pos, e)
  BY <1>1, BodyAhead
<1>3. PICK n \in pos..e : ASection(tokens, Derivable(tokens), pos, n) /\ Derives(tokens, "sections", n + 1, e)
  BY <1>1, <1>2 DEF Sections, Derives
<1>4. PICK m \in {n, n - 1} : /\ Tok(tokens, m) = "rbrace" /\ Derives(tokens, "bindings", pos + 3, m - 1)
                              /\ n = m \/ Tok(tokens, n) = "comma"
  BY <1>3 DEF ASection, Derives
<1>5. /\ Tok(tokens, pos) \in {"given", "expect"} /\ Tok(tokens, pos + 1) = ":" /\ Tok(tokens, pos + 2) = "lbrace"
  BY <1>3 DEF ASection
<1> DEFINE x == m - 1
           f == Waits("section", pos, pos)
<1>6. /\ x \in Int /\ x + 1 = m /\ Derives(tokens, "bindings", pos + 3, x)
      /\ (n = m /\ x + 2 = n + 1) \/ (n = m + 1 /\ x + 2 = n /\ x + 3 = n + 1)
  BY <1>2, <1>3, <1>4
<1>7. f \in Frame /\ f.for = "section" /\ f.at = pos
  BY <1>2 DEF Waits, Frame
<1>8. stack' = Append(stack, f) /\ pos' = pos + 3 /\ doing' = "bindings" /\ tokens' = tokens /\ outcome' = outcome
  BY <1>2, <1>5 DEF Section, OnlyCall, Ident
<1> HIDE DEF x, f
<1>9. n = m + 1 => n # m
  BY <1>2, <1>3
<1>10. SectionEnds(tokens, f, x, e)
  BY <1>3, <1>4, <1>5, <1>6, <1>7, <1>9 DEF SectionEnds
<1>11. EndsAt(tokens, f, x, e)
  BY <1>7, <1>10 DEF EndsAt, Opener, Starter, Header
<1>12. Ahead(x)'
  BY <1>6, <1>8 DEF Ahead
<1>13. QED
  BY <1>2, <1>6, <1>7, <1>8, <1>11, <1>12, PushUnder

\* Facts of every step of a section.
LEMMA BindingsAhead ==
    ASSUME Control, doing = "bindings", NEW ends, NEW e, Under(ends, e)
    PROVE  /\ CallType /\ StackOK /\ stack # <<>> /\ Top \in Frame /\ Top.for = "section"
           /\ pos \in Nat /\ min \in Nat /\ e \in Int /\ Caller(ends) \in Int
           /\ Peek(0) = Tok(tokens, pos) /\ Peek(1) = Tok(tokens, pos + 1)
           /\ SectionEnds(tokens, Top, e, Caller(ends)) /\ Tok(tokens, e + 1) = "rbrace"
           /\ Bindings(tokens, Derivable(tokens), pos, e)
<1>1. CallType /\ StackOK /\ stack # <<>> /\ Top \in Frame /\ Top.for = "section" /\ pos \in Nat /\ min \in Nat
  BY InLoop
<1>2. EndsAt(tokens, Top, e, Caller(ends)) /\ e \in Int /\ Caller(ends) \in Int
  BY <1>1, TopEnds
<1>3. SectionEnds(tokens, Top, e, Caller(ends)) /\ Tok(tokens, e + 1) = "rbrace"
  BY <1>1, <1>2 DEF EndsAt, SectionEnds
<1>4. Bindings(tokens, Derivable(tokens), pos, e)
  BY <1>1, <1>2, Rules DEF Under, Ahead
<1>5. pos + 0 = pos
  BY <1>1
<1>6. QED
  BY <1>1, <1>2, <1>3, <1>4, <1>5 DEF Peek

LEMMA BindingAhead ==
    ASSUME Control, NEW ends, NEW e, Under(ends, e), Binding
    PROVE  UnderWay'
<1>1. doing = "bindings" /\ Peek(0) # "rbrace"
  BY DEF Binding, At
<1>2. /\ CallType /\ pos \in Nat /\ min \in Nat /\ e \in Int /\ Peek(0) = Tok(tokens, pos) /\ Top \in Frame
      /\ Tok(tokens, e + 1) = "rbrace" /\ Bindings(tokens, Derivable(tokens), pos, e)
  BY <1>1, BindingsAhead
<1>3. pos # e + 1
  BY <1>1, <1>2
<1>4. PICK x \in Int : /\ ABinding(tokens, Derivable(tokens), pos, x)
                       /\ x = e \/ (Tok(tokens, x + 1) = "comma" /\ Derives(tokens, "bindings", x + 2, e))
  <2>1. CASE ABinding(tokens, Derivable(tokens), pos, e)
    BY <1>2, <2>1
  <2>2. CASE \E n \in pos..e : /\ Tok(tokens, n) = "comma" /\ ABinding(tokens, Derivable(tokens), pos, n - 1)
                               /\ Is(Derivable(tokens), "bindings", n + 1, e)
    <3>1. PICK n \in pos..e : /\ Tok(tokens, n) = "comma" /\ ABinding(tokens, Derivable(tokens), pos, n - 1)
                              /\ Derives(tokens, "bindings", n + 1, e)
      BY <2>2 DEF Derives
    <3> DEFINE y == n - 1
    <3>2. y \in Int /\ y + 1 = n /\ y + 2 = n + 1 /\ ABinding(tokens, Derivable(tokens), pos, y)
      BY <1>2, <3>1
    <3> HIDE DEF y
    <3>3. QED
      BY <3>1, <3>2
  <2>3. QED
    BY <1>2, <1>3, <2>1, <2>2 DEF Bindings
<1>5. PICK n \in pos + 1..x - 1 : /\ Tok(tokens, n) = ":" /\ Derives(tokens, "path", pos + 1, n - 1)
                                  /\ Derives(tokens, "expr", n + 1, x)
  BY <1>4 DEF ABinding, Derives
<1>6. Tok(tokens, pos) \in Ident
  BY <1>4 DEF ABinding
<1> DEFINE f == Waits("binding", Top.at, pos)
<1>7. f \in Frame /\ f.for = "binding"
  BY <1>2, FrameType DEF Waits, Frame
<1>8. stack' = Append(stack, f) /\ pos' = pos + 1 /\ doing' = "path" /\ tokens' = tokens /\ outcome' = outcome
  BY <1>2, <1>6 DEF Binding, OnlyCall
<1> HIDE DEF f
<1>9. Tok(tokens, x + 1) \in Follow
  BY <1>2, <1>4 DEF Follow
<1>10. EndsAt(tokens, f, x, e)
  BY <1>4, <1>7, <1>9 DEF EndsAt, Header
<1>11. n \in Int /\ n + 1 \in Int
  BY <1>2, <1>5
<1>12. Starts(tokens, n + 1, x)
  BY <1>5, <1>11, Flatten
<1>13. Ahead(x)'
  BY <1>5, <1>8, <1>11, <1>12 DEF Ahead
<1>14. QED
  BY <1>2, <1>7, <1>8, <1>10, <1>13, PushUnder

LEMMA PathAhead ==
    ASSUME Control, NEW ends, NEW e, Under(ends, e), PathField \/ PathPrime \/ EndOfPath \/ NoPath
    PROVE  UnderWay'
<1>1. doing = "path"
  BY DEF PathField, PathPrime, EndOfPath, NoPath, At
<1>2. CallType /\ stack # <<>> /\ pos \in Nat /\ Top \in Frame
  BY <1>1, InLoop
<1>3. EndsAt(tokens, Top, e, Caller(ends)) /\ e \in Int /\ Caller(ends) \in Int
  BY <1>2, TopEnds
<1>4. PICK n \in Int : Derives(tokens, "path", pos, n - 1) /\ Tok(tokens, n) = ":" /\ Starts(tokens, n + 1, e)
  BY <1>1 DEF Under, Ahead
<1> DEFINE x == n - 1
<1>5. x \in Int /\ x + 1 = n
  BY <1>4
<1>6. Derives(tokens, "path", pos, x)
  BY <1>4
<1> HIDE DEF x
<1>7. \/ pos = n
      \/ Tok(tokens, pos) = "'" /\ Derives(tokens, "path", pos + 1, x)
      \/ Tok(tokens, pos) = "." /\ Tok(tokens, pos + 1) \in Ident /\ Derives(tokens, "path", pos + 2, x)
  BY <1>2, <1>5, <1>6, Rules DEF Path, Derives
<1>8. Peek(0) = Tok(tokens, pos) /\ Peek(1) = Tok(tokens, pos + 1)
  BY <1>2 DEF Peek
<1>9. ASSUME NEW k, GoOn("path", k), OnlyCall, Derives(tokens, "path", k, x)
      PROVE  UnderWay'
  <2>1. tokens' = tokens /\ outcome' = outcome /\ stack' = stack /\ doing' = "path" /\ pos' = k
    BY <1>9 DEF GoOn, OnlyCall
  <2>2. Derives(tokens, "path", k, n - 1)
    BY <1>9 DEF x
  <2>3. Ahead(e)'
    BY <1>4, <2>1, <2>2 DEF Ahead
  <2>4. QED
    BY <2>1, <2>3, StayUnder
<1>10. CASE PathField
  BY <1>4, <1>7, <1>8, <1>9, <1>10 DEF PathField
<1>11. CASE PathPrime
  BY <1>4, <1>7, <1>8, <1>9, <1>11 DEF PathPrime
<1>12. CASE EndOfPath
  <2>1. /\ tokens' = tokens /\ outcome' = outcome /\ stack' = Append(Below, Top) /\ doing' = "prefix" /\ pos' = pos + 1
        /\ Peek(0) = ":"
    BY <1>12 DEF EndOfPath, Parse, OnlyCall
  <2>2. Starts(tokens, pos + 1, e)
    BY <1>4, <1>7, <1>8, <2>1
  <2>3. Ahead(e)'
    BY <2>1, <2>2, AheadNow
  <2>4. QED
    BY <1>2, <1>3, <2>1, <2>3, SwapUnder
<1>13. CASE NoPath
  BY <1>4, <1>7, <1>8, <1>13 DEF NoPath
<1>14. QED
  BY <1>10, <1>11, <1>12, <1>13

LEMMA CloseBindingAhead ==
    ASSUME Control, NEW ends, NEW e, Under(ends, e), CloseBinding
    PROVE  UnderWay'
<1>1. Complete("binding")
  BY DEF CloseBinding
<1>2. /\ CallType /\ StackOK /\ stack # <<>> /\ Top.for = "binding" /\ EndsAt(tokens, Top, e, Caller(ends))
      /\ pos = e + 1 /\ pos + 1 = e + 2 /\ Peek(0) = Tok(tokens, e + 1)
      /\ e \in Int /\ Caller(ends) \in Int /\ e + 1 \in Int
  BY <1>1, AtItsEnd
<1>3. PICK c \in Int : c = Caller(ends)
  BY <1>2
<1>4. e = c \/ (Tok(tokens, e + 1) = "comma" /\ Derives(tokens, "bindings", e + 2, c))
  BY <1>2, <1>3 DEF EndsAt
<1>5. Tok(tokens, c + 1) = "rbrace"
  <2>1. Len(stack) = 3 /\ stack[2].for = "section"
    BY <1>2, UnderBinding
  <2>2. Len(stack) > 1 /\ Len(stack) - 1 = 2
    BY <2>1
  <2>3. EndsAt(tokens, stack[2], c, ends[2 - 1])
    BY <1>2, <1>3, <2>2, TopEnds
  <2>4. QED
    BY <2>1, <2>3 DEF EndsAt, SectionEnds
<1>6. /\ tokens' = tokens /\ outcome' = outcome /\ stack' = Below /\ doing' = "bindings"
      /\ pos' = IF Tok(tokens, e + 1) = "comma" THEN e + 2 ELSE e + 1
  BY <1>2, <1>4, <1>5 DEF CloseBinding, Return
<1>7. Derives(tokens, "bindings", pos', c)
  <2>1. CASE Tok(tokens, e + 1) = "comma"
    BY <1>4, <1>5, <1>6, <2>1
  <2>2. CASE Tok(tokens, e + 1) # "comma"
    <3>1. pos' = c + 1 /\ c + 1 \in Int
      BY <1>4, <1>6, <2>2
    <3>2. Derives(tokens, "bindings", c + 1, c)
      BY <3>1, Rules DEF Bindings
    <3>3. QED
      BY <3>1, <3>2
  <2>3. QED
    BY <2>1, <2>2
<1>8. Ahead(c)'
  BY <1>6, <1>7 DEF Ahead
<1>9. QED
  BY <1>2, <1>3, <1>6, <1>8, PopUnder

LEMMA EndOfSectionAhead ==
    ASSUME Control, NEW ends, NEW e, Under(ends, e), EndOfSection
    PROVE  UnderWay'
<1>1. doing = "bindings" /\ Peek(0) = "rbrace"
  BY DEF EndOfSection, At
<1>2. /\ CallType /\ StackOK /\ stack # <<>> /\ Top \in Frame /\ Top.for = "section" /\ pos \in Nat /\ e \in Int
      /\ Peek(0) = Tok(tokens, pos) /\ Peek(1) = Tok(tokens, pos + 1) /\ Caller(ends) \in Int
      /\ SectionEnds(tokens, Top, e, Caller(ends)) /\ Bindings(tokens, Derivable(tokens), pos, e)
  BY <1>1, BindingsAhead
<1>3. pos = e + 1
  BY <1>1, <1>2 DEF Bindings, ABinding, Ident
<1>4. PICK c \in Int : c = Caller(ends)
  BY <1>2
<1>5. Tok(tokens, c + 1) = "rbrace"
  BY <1>2, <1>4, BelowPart
<1>6. pos + 1 = e + 2 /\ pos + 2 = e + 3 /\ e + 2 \in Int
  BY <1>2, <1>3
<1>7. Tok(tokens, e + 2) = "comma" => ~Derives(tokens, "sections", e + 2, c)
  <2>1. SUFFICES ASSUME Tok(tokens, e + 2) = "comma", Sections(tokens, Derivable(tokens), e + 2, c) PROVE FALSE
    BY <1>6, Rules
  <2>2. QED
    BY <1>5, <2>1 DEF Sections, ASection
<1>8. Tok(tokens, Top.at) = tokens[Top.at]
  BY <1>2, TopType DEF FrameOK, Tok
<1> DEFINE n == IF Peek(1) = "comma" THEN pos + 2 ELSE pos + 1
<1>9. tokens' = tokens /\ outcome' = outcome /\ Return("body", n)
  BY <1>2, <1>8 DEF EndOfSection, SectionEnds
<1>10. Derives(tokens, "sections", n, Caller(ends))
  <2>1. CASE Tok(tokens, e + 2) = "comma"
    BY <1>2, <1>4, <1>6, <1>7, <2>1 DEF SectionEnds
  <2>2. CASE Tok(tokens, e + 2) # "comma"
    BY <1>2, <1>6, <2>2 DEF SectionEnds
  <2>3. QED
    BY <2>1, <2>2
<1> HIDE DEF n
<1>11. QED
  BY <1>2, <1>9, <1>10, PartDone

-----------------------------------------------------------------------------
(* A file that is derivable is accepted. *)

LEMMA UnderWayKeeps ==
    ASSUME Control, Sound, NEW ends, NEW e, Under(ends, e), Next, ~EndOfFile
    PROVE  UnderWay'
<1>1. CASE Atom \/ Call \/ Unary \/ Bracket \/ After \/ Quantify \/ TypedVar \/ NoExpression
  BY <1>1, AtomAhead, CallAhead, OperandAhead, TypedVarAhead, NoExpressionAhead
<1>2. CASE Field \/ Prime \/ Index \/ NoPostfix \/ Operator
  BY <1>2, PostfixAhead, OperatorAhead
<1>3. CASE CloseTail \/ CloseBinary \/ NextArgument \/ Then \/ Else
  BY <1>3, OperandEndAhead, NextArgumentAhead, BranchAhead
<1>4. CASE CloseBracket("(", ")") \/ CloseBracket("after", ")") \/ CloseBracket("[", "]")
  BY <1>4, BracketEndAhead
<1>5. CASE Declaration \/ NoDeclaration \/ EndOfBody \/ CloseTheorem
  BY <1>5, DeclarationAhead, EndOfDeclAhead
<1>6. CASE Invariant \/ CloseInvariant \/ NoInvariant
  BY <1>6, InvariantAhead
<1>7. CASE Clause \/ CloseClause \/ Modifies \/ ClosePath \/ NoClause
  BY <1>7, ClauseAhead, CloseClauseAhead, ModifiesAhead, ClosePathAhead, NoClauseAhead
<1>8. CASE Section \/ Binding \/ PathField \/ PathPrime \/ EndOfPath \/ NoPath \/ CloseBinding \/ EndOfSection
  BY <1>8, SectionAhead, BindingAhead, PathAhead, CloseBindingAhead, EndOfSectionAhead
<1>9. QED
  BY <1>1, <1>2, <1>3, <1>4, <1>5, <1>6, <1>7, <1>8 DEF Next

LEMMA OnItsWayKeeps ==
    ASSUME Control, Sound, OnItsWay, [Next]_vars
    PROVE  OnItsWay'
<1>1. tokens' = tokens
  BY Frames
<1>2. SUFFICES ASSUME IsFile(tokens), Parsed \/ UnderWay PROVE Parsed' \/ UnderWay'
  BY <1>1 DEF OnItsWay
<1>3. CASE UNCHANGED vars
  <2>1. UNCHANGED <<tokens, pos, doing, stack, outcome>>
    BY <1>3 DEF vars, call
  <2>2. CASE Parsed
    BY <2>1, <2>2 DEF Parsed
  <2>3. CASE UnderWay
    <3>1. PICK ends \in [Nat -> Int] : Plan(ends) /\ Ahead(ends[Len(stack)])
      BY <2>3 DEF UnderWay
    <3>2. Plan(ends)' /\ Ahead(ends[Len(stack)])'
      BY <2>1, <3>1 DEF Plan, Ahead, Top
    <3>3. QED
      BY <2>1, <2>3, <3>2 DEF UnderWay
  <2>4. QED
    BY <1>2, <2>2, <2>3
<1>4. CASE Next
  <2>1. outcome = "running"
    BY <1>4, OnlyEndAccepts
  <2>2. PICK ends \in [Nat -> Int] : Plan(ends) /\ Ahead(ends[Len(stack)])
    BY <1>2, <2>1 DEF Parsed, UnderWay
  <2>3. Len(stack) \in Nat
    BY DEF Control, CallType
  <2>4. PICK e : e = ends[Len(stack)]
    OBVIOUS
  <2>5. Under(ends, e)
    BY <2>1, <2>2, <2>3, <2>4 DEF Under
  <2>6. CASE EndOfFile
    BY <2>6 DEF EndOfFile, Parsed
  <2>7. CASE ~EndOfFile
    BY <1>4, <2>5, <2>7, UnderWayKeeps
  <2>8. QED
    BY <2>6, <2>7
<1>5. QED
  BY <1>3, <1>4

LEMMA OnItsWayInit == Init => OnItsWay
<1>1. SUFFICES ASSUME Init, IsFile(tokens) PROVE UnderWay
  BY DEF OnItsWay
<1>2. pos = 1 /\ doing = "program" /\ stack = <<>> /\ outcome = "running"
  BY <1>1 DEF Init
<1>3. Len(stack) = 0
  BY <1>2
<1> DEFINE ends == [k \in Nat |-> 0]
<1>4. ends \in [Nat -> Int]
  OBVIOUS
<1> HIDE DEF ends
<1>5. Plan(ends)
  BY <1>3 DEF Plan
<1>6. Ahead(ends[Len(stack)])
  BY <1>1, <1>2 DEF Ahead, IsFile, Derives
<1>7. QED
  BY <1>2, <1>4, <1>5, <1>6 DEF UnderWay

\* No binding power, no look-ahead and no early stop of the parser makes a
\* difference to what is legal: whatever the tokens, once parse_program answers,
\* it has accepted them if they are a file of the grammar, and refused them if
\* they are not.
THEOREM AcceptsExactlyTheGrammar == Spec => []AcceptsTheGrammar
<1>1. Init => OnItsWay
  BY OnItsWayInit
<1>2. Understood /\ OnItsWay /\ [Next]_vars => OnItsWay'
  BY OnItsWayKeeps DEF Understood
<1>3. Understood /\ OnItsWay => AcceptsTheGrammar
  BY DEF Understood, Sound, OnItsWay, UnderWay, AcceptsTheGrammar, Ended
<1>4. QED
  BY <1>1, <1>2, <1>3, UnderstoodAlways, PTL DEF Spec
=============================================================================
