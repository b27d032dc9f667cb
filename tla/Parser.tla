------------------------------- MODULE Parser -------------------------------
(***************************************************************************)
(* The recursive-descent parser of crates/intent-lang-syntax/src/parser.rs, *)
(* its calls on a stack of their own: declarations with clauses or          *)
(* examples, and the Pratt parser of their expressions.  A tree is the set  *)
(* of its inner nodes, each with the tokens it spans.                       *)
(***************************************************************************)
EXTENDS Grammar

CONSTANT Sources      \* files, as sequences of tokens

ASSUME SourcesAssumption == Sources \subseteq Seq(Token)

VARIABLES
    tokens, pos,
    doing,            \* the loop or function that looks at the next token
    lo,               \* where the expression read last begins; it ends before pos
    min,              \* its minimum binding power
    stack,            \* callers that wait for an expression
    nodes,
    parts, bindings,  \* of the open declaration, of the open section
    decls,
    outcome

call == <<pos, doing, lo, min, stack>>
built == <<parts, bindings, decls>>
vars == <<tokens, call, nodes, built, outcome>>

Peek(n) == Tok(tokens, pos + n)

\* A call in progress: what it reads, the token it is about, where the
\* expression it completes begins, and the binding power to go back to.
Frame == [for : {"tail", "binary", "(", "after", "[", "if", "then", "call",
                 "clause", "modifies", "invariant", "section", "binding"} \cup Header,
          at : Nat, lo : Nat, min : Nat]
TheNode == [op : Token \cup {"call"}, at : Nat, lo : Nat, hi : Nat]
\* A clause, a path of `modifies` or a binding: its keyword, its name if
\* from < lo, its expression.
Part == [at : Nat, from : Nat, lo : Nat, hi : Nat, elseReject : BOOLEAN]
Decl == [at : Nat, parts : SUBSET Part]

Init ==
    /\ tokens \in Sources /\ pos = 1
    /\ doing = "program" /\ lo = 0 /\ min = 0 /\ stack = <<>>
    /\ nodes = {} /\ parts = {} /\ bindings = {} /\ decls = <<>>
    /\ outcome = "running"

At(where) == outcome = "running" /\ doing = where
Top == stack[Len(stack)]
Below == SubSeq(stack, 1, Len(stack) - 1)
Waits(for, at, from) == [for |-> for, at |-> at, lo |-> from, min |-> min]

\* parse_pratt(power) from token n on, for the caller f.
Parse(f, base, power, n) ==
    /\ stack' = Append(base, f) /\ min' = power /\ pos' = n /\ doing' = "prefix"
    /\ UNCHANGED lo
\* An operand is complete: the caller goes on at token n.
Value(from, where, n) ==
    /\ lo' = from /\ pos' = n /\ doing' = where
    /\ UNCHANGED <<min, stack>>
ValueTo(f, where, n) ==
    /\ lo' = f.lo /\ min' = f.min /\ stack' = Below /\ pos' = n /\ doing' = where
GoOn(where, n) == pos' = n /\ doing' = where /\ UNCHANGED <<lo, min, stack>>
Return(where, n) == pos' = n /\ doing' = where /\ stack' = Below /\ UNCHANGED <<lo, min>>

Node(op, at, from, to) == nodes' = nodes \cup {[op |-> op, at |-> at, lo |-> from, hi |-> to]}
Refuse == outcome' = "error" /\ UNCHANGED <<tokens, call, nodes, built>>
OnlyCall == UNCHANGED <<tokens, nodes, built, outcome>>
OnlyTree == UNCHANGED <<tokens, built, outcome>>

-----------------------------------------------------------------------------
(* parse_prefix *)

Atom ==
    /\ At("prefix") /\ Peek(0) \in Ident \cup Literal
    /\ ~(Peek(0) \in Ident /\ Peek(1) = "(")
    /\ Value(pos, "postfix", pos + 1) /\ OnlyCall

Call ==
    /\ At("prefix") /\ Peek(0) \in Ident /\ Peek(1) = "("
    /\ IF Peek(2) = ")"
       THEN Node("call", pos, pos, pos + 2) /\ Value(pos, "postfix", pos + 3) /\ OnlyTree
       ELSE Parse(Waits("call", pos, pos), stack, 0, pos + 2) /\ OnlyCall

PREFIX_BP == 15
Unary ==
    /\ At("prefix") /\ Peek(0) \in Prefix
    /\ Parse(Waits("tail", pos, pos), stack, PREFIX_BP, pos + 1) /\ OnlyCall

Bracket ==
    /\ At("prefix") /\ Peek(0) \in {"(", "if"}
    /\ Parse(Waits(Peek(0), pos, pos), stack, 0, pos + 1) /\ OnlyCall

\* The parenthesis is taken for granted.
AfterUnchecked ==
    /\ At("prefix") /\ Peek(0) = "after"
    /\ Parse(Waits("after", pos, pos), stack, 0, pos + 2) /\ OnlyCall

After ==
    /\ At("prefix") /\ Peek(0) = "after"
    /\ IF Peek(1) = "(" THEN Parse(Waits("after", pos, pos), stack, 0, pos + 2) /\ OnlyCall ELSE Refuse

Quantify ==
    /\ At("prefix") /\ Peek(0) \in Quantifier
    /\ stack' = Append(stack, Waits("tail", pos, pos))
    /\ pos' = pos + 1 /\ doing' = "typed_vars"
    /\ UNCHANGED <<lo, min>> /\ OnlyCall

\* After a comma comes another variable only if a colon follows.
TypedVar ==
    /\ At("typed_vars")
    /\ IF ~(Peek(0) \in Ident /\ Peek(1) = ":" /\ Peek(2) \in Ident /\ Peek(3) = "comma") THEN Refuse
       ELSE IF Peek(4) \in Ident /\ Peek(5) = ":" THEN GoOn("typed_vars", pos + 4) /\ OnlyCall
       ELSE Parse(Top, Below, 0, pos + 4) /\ OnlyCall

NoExpression ==
    /\ At("prefix")
    /\ Peek(0) \notin Ident \cup Literal \cup Prefix \cup Quantifier \cup {"(", "if", "after"}
    /\ Refuse

-----------------------------------------------------------------------------
(* parse_pratt: postfix forms, then operators that bind strongly enough. *)

Field ==
    /\ At("postfix") /\ Peek(0) = "."
    /\ IF Peek(1) \in Ident
       THEN Node(".", pos, lo, pos + 1) /\ GoOn("postfix", pos + 2) /\ OnlyTree
       ELSE Refuse

Prime ==
    /\ At("postfix") /\ Peek(0) = "'"
    /\ Node("'", pos, lo, pos) /\ GoOn("postfix", pos + 1) /\ OnlyTree

Index ==
    /\ At("postfix") /\ Peek(0) = "["
    /\ Parse(Waits("[", pos, lo), stack, 0, pos + 1) /\ OnlyCall

NoPostfix ==
    /\ At("postfix") /\ Peek(0) \notin {".", "'", "["}
    /\ GoOn("infix", pos) /\ OnlyCall

LeftPower(op) ==
    CASE op = "==>" -> 2
      [] op = "||" -> 3
      [] op = "&&" -> 5
      [] op \in {"==", "!="} -> 7
      [] op \in {"<", "<=", ">", ">="} -> 9
      [] op \in {"+", "-"} -> 11
      [] op \in {"*", "/", "%"} -> 13
\* Implication like the rest.
RightPowerOfAll(op) == LeftPower(op) + 1
RightPower(op) == IF op = "==>" THEN 1 ELSE LeftPower(op) + 1

Binds == Peek(0) \in Infix /\ LeftPower(Peek(0)) >= min

Operator ==
    /\ At("infix") /\ Binds
    /\ Parse(Waits("binary", pos, lo), stack, RightPower(Peek(0)), pos + 1) /\ OnlyCall

-----------------------------------------------------------------------------
(* An expression is complete, and its caller goes on. *)

Complete(for) == At("infix") /\ ~Binds /\ Top.for = for

\* What ends with its last operand: a sign, an if, a quantifier.  A negative
\* number keeps the node of its sign.
CloseTail ==
    /\ Complete("tail")
    /\ Node(tokens[Top.at], Top.at, Top.lo, pos - 1) /\ ValueTo(Top, "postfix", pos) /\ OnlyTree

CloseBinary ==
    /\ Complete("binary")
    /\ Node(tokens[Top.at], Top.at, Top.lo, pos - 1) /\ ValueTo(Top, "infix", pos) /\ OnlyTree

CloseBracket(for, close) ==
    /\ Complete(for)
    /\ IF Peek(0) = close
       THEN Node(for, Top.at, Top.lo, pos) /\ ValueTo(Top, "postfix", pos + 1) /\ OnlyTree
       ELSE Refuse

\* The comma is seen and not read.
NextArgumentUnread ==
    /\ Complete("call")
    /\ IF Peek(0) = "comma" THEN Parse(Top, Below, 0, pos) /\ OnlyCall
       ELSE IF Peek(0) = ")"
       THEN Node("call", Top.at, Top.lo, pos) /\ ValueTo(Top, "postfix", pos + 1) /\ OnlyTree
       ELSE Refuse

NextArgument ==
    /\ Complete("call")
    /\ IF Peek(0) = "comma" THEN Parse(Top, Below, 0, pos + 1) /\ OnlyCall
       ELSE IF Peek(0) = ")"
       THEN Node("call", Top.at, Top.lo, pos) /\ ValueTo(Top, "postfix", pos + 1) /\ OnlyTree
       ELSE Refuse

\* if: the condition, then one branch, then the other.
Then ==
    /\ Complete("if")
    /\ IF Peek(0) = "then"
       THEN Parse([Top EXCEPT !.for = "then"], Below, 0, pos + 1) /\ OnlyCall ELSE Refuse

Else ==
    /\ Complete("then")
    /\ IF Peek(0) = "else"
       THEN Parse([Top EXCEPT !.for = "tail"], Below, 0, pos + 1) /\ OnlyCall ELSE Refuse

-----------------------------------------------------------------------------
(* parse_program and the declarations; the frame of the open one is at the   *)
(* bottom of the stack.                                                      *)

EndOfFile == At("program") /\ Peek(0) = "eof" /\ outcome' = "ok" /\ UNCHANGED <<tokens, call, nodes, built>>

Declaration ==
    /\ At("program") /\ Peek(0) \in Header
    /\ IF Peek(0) = "theorem"
       THEN Parse(Waits("theorem", pos, pos + 1), stack, 0, pos + 1)
       ELSE /\ stack' = Append(stack, Waits(Peek(0), pos, pos))
            /\ pos' = pos + 1 /\ doing' = "body" /\ UNCHANGED <<lo, min>>
    /\ OnlyCall

NoDeclaration == At("program") /\ Peek(0) \notin Header \cup {"eof"} /\ Refuse

ThePart(elseReject) == [at |-> Top.at, from |-> Top.lo, lo |-> lo, hi |-> pos - 1, elseReject |-> elseReject]
Add(elseReject) ==
    /\ parts' = parts \cup {ThePart(elseReject)}
    /\ UNCHANGED <<tokens, nodes, bindings, decls, outcome>>
Finish(content) ==
    /\ decls' = Append(decls, [at |-> Top.at, parts |-> content]) /\ parts' = {}
    /\ Return("program", pos + 1)
    /\ UNCHANGED <<tokens, nodes, bindings, outcome>>

InBody(kind) == At("body") /\ Top.for = kind
EndOfBody == At("body") /\ Peek(0) = "rbrace" /\ Finish(parts)

CloseTheorem == Complete("theorem") /\ IF Peek(0) = "rbrace" THEN Finish({ThePart(FALSE)}) ELSE Refuse

Invariant ==
    /\ InBody("safety") /\ Peek(0) = "invariant"
    /\ Parse(Waits("invariant", pos, pos + 1), stack, 0, pos + 1) /\ OnlyCall
CloseInvariant == Complete("invariant") /\ Add(FALSE) /\ Return("body", pos)
NoInvariant == InBody("safety") /\ Peek(0) \notin {"invariant", "rbrace"} /\ Refuse

-----------------------------------------------------------------------------
(* parse_intent_decl *)

Clause ==
    /\ InBody("intent") /\ Peek(0) \in ClauseKind
    /\ Parse(Waits("clause", pos, pos + 1), stack, 0,
             IF Peek(1) \in Ident /\ Peek(2) = ":" THEN pos + 3 ELSE pos + 1)
    /\ OnlyCall

\* `else reject` is read after any clause.
CloseClauseOfAnyKind ==
    /\ Complete("clause")
    /\ IF Peek(0) # "else" THEN Add(FALSE) /\ Return("body", pos)
       ELSE IF Peek(1) = "reject" THEN Add(TRUE) /\ Return("body", pos + 2)
       ELSE Refuse

CloseClause ==
    /\ Complete("clause")
    /\ IF Peek(0) # "else" THEN Add(FALSE) /\ Return("body", pos)
       ELSE IF tokens[Top.at] = "require" /\ Peek(1) = "reject" THEN Add(TRUE) /\ Return("body", pos + 2)
       ELSE Refuse

Modifies ==
    /\ InBody("intent") /\ Peek(0) = "modifies"
    /\ IF \E p \in parts : tokens[p.at] = "modifies" THEN Refuse
       ELSE IF Peek(1) = "*"
       THEN /\ parts' = parts \cup {[at |-> pos, from |-> pos + 1, lo |-> pos + 1, hi |-> pos + 1,
                                     elseReject |-> FALSE]}
            /\ GoOn("body", pos + 2)
            /\ UNCHANGED <<tokens, nodes, bindings, decls, outcome>>
       ELSE Parse(Waits("modifies", pos, pos + 1), stack, 0, pos + 1) /\ OnlyCall

ClosePath ==
    /\ Complete("modifies") /\ Add(FALSE)
    /\ IF Peek(0) = "comma" THEN Parse([Top EXCEPT !.lo = pos + 1], Below, 0, pos + 1) ELSE Return("body", pos)

\* At the end of the file the loop looks for its brace again.
NoClauseSpins ==
    /\ InBody("intent") /\ Peek(0) \notin ClauseKind \cup {"modifies", "rbrace"}
    /\ IF Peek(0) = "eof" THEN UNCHANGED vars ELSE Refuse
NoClause == InBody("intent") /\ Peek(0) \notin ClauseKind \cup {"modifies", "rbrace"} /\ Refuse

-----------------------------------------------------------------------------
(* parse_example_decl, parse_example_bindings, parse_binding_path *)

Section ==
    /\ InBody("example") /\ Peek(0) # "rbrace"
    /\ IF Peek(0) \in Ident /\ Peek(1) = ":" /\ Peek(2) = "lbrace"
       THEN /\ stack' = Append(stack, Waits("section", pos, pos))
            /\ pos' = pos + 3 /\ doing' = "bindings" /\ UNCHANGED <<lo, min>>
            /\ OnlyCall
       ELSE Refuse

Binding ==
    /\ At("bindings") /\ Peek(0) # "rbrace"
    /\ IF Peek(0) \in Ident
       THEN /\ stack' = Append(stack, Waits("binding", Top.at, pos))
            /\ pos' = pos + 1 /\ doing' = "path" /\ UNCHANGED <<lo, min>>
            /\ OnlyCall
       ELSE Refuse

PathField == At("path") /\ Peek(0) = "." /\ Peek(1) \in Ident /\ GoOn("path", pos + 2) /\ OnlyCall
PathPrime == At("path") /\ Peek(0) = "'" /\ GoOn("path", pos + 1) /\ OnlyCall
EndOfPath == At("path") /\ Peek(0) = ":" /\ Parse(Top, Below, 0, pos + 1) /\ OnlyCall
NoPath ==
    /\ At("path") /\ Peek(0) \notin {"'", ":"} /\ ~(Peek(0) = "." /\ Peek(1) \in Ident)
    /\ Refuse

\* Each binding takes the place of the one before.
CloseBindingAlone ==
    /\ Complete("binding")
    /\ IF Peek(0) \in {"comma", "rbrace"}
       THEN /\ bindings' = {ThePart(FALSE)}
            /\ Return("bindings", IF Peek(0) = "comma" THEN pos + 1 ELSE pos)
            /\ UNCHANGED <<tokens, nodes, parts, decls, outcome>>
       ELSE Refuse

CloseBinding ==
    /\ Complete("binding")
    /\ IF Peek(0) \in {"comma", "rbrace"}
       THEN /\ bindings' = bindings \cup {ThePart(FALSE)}
            /\ Return("bindings", IF Peek(0) = "comma" THEN pos + 1 ELSE pos)
            /\ UNCHANGED <<tokens, nodes, parts, decls, outcome>>
       ELSE Refuse

\* The name is looked at last; a section takes the place of an earlier one.
EndOfSection ==
    /\ At("bindings") /\ Peek(0) = "rbrace"
    /\ IF tokens[Top.at] \in {"given", "expect"}
       THEN /\ parts' = {p \in parts : tokens[p.at] # tokens[Top.at]} \cup bindings
            /\ bindings' = {}
            /\ Return("body", IF Peek(1) = "comma" THEN pos + 2 ELSE pos + 1)
            /\ UNCHANGED <<tokens, nodes, decls, outcome>>
       ELSE Refuse

-----------------------------------------------------------------------------

Next ==
    \/ Atom \/ Call \/ Unary \/ Bracket \/ After \/ Quantify \/ TypedVar \/ NoExpression
    \/ Field \/ Prime \/ Index \/ NoPostfix \/ Operator
    \/ CloseTail \/ CloseBinary \/ NextArgument \/ Then \/ Else
    \/ CloseBracket("(", ")") \/ CloseBracket("after", ")") \/ CloseBracket("[", "]")
    \/ EndOfFile \/ Declaration \/ NoDeclaration \/ EndOfBody \/ CloseTheorem
    \/ Invariant \/ CloseInvariant \/ NoInvariant
    \/ Clause \/ CloseClause \/ Modifies \/ ClosePath \/ NoClause
    \/ Section \/ Binding \/ PathField \/ PathPrime \/ EndOfPath \/ NoPath
    \/ CloseBinding \/ EndOfSection

Spec == Init /\ [][Next]_vars /\ WF_vars(Next)

-----------------------------------------------------------------------------
(* Properties. *)

TypeOK ==
    /\ tokens \in Seq(Token) /\ pos \in 1..Len(tokens) + 1
    /\ doing \in {"program", "body", "bindings", "path", "prefix", "typed_vars", "postfix", "infix"}
    /\ lo \in 0..pos - 1 /\ min \in Nat
    /\ stack \in Seq(Frame)
    /\ nodes \subseteq TheNode
    /\ parts \subseteq Part /\ bindings \subseteq Part /\ decls \in Seq(Decl)
    /\ outcome \in {"running", "ok", "error"}

Ended == outcome # "running"
Parsed == outcome = "ok"
AllParts == UNION {decls[n].parts : n \in DOMAIN decls}

Spans(n, i, j) == n.lo = i /\ n.hi = j
Operand(i, j) == (i = j /\ tokens[i] \in Ident \cup Literal) \/ \E n \in nodes : Spans(n, i, j)

IsInfix(n) == n.lo < n.at /\ n.op \in Infix
IsPrefix(n) == n.lo = n.at /\ n.op \in Prefix
IsPostfix(n) == n.op \in {".", "'", "["}
IsOpen(n) == n.op \in {"if"} \cup Quantifier

\* SPEC.md 9, "precedence (low to high)": the operands of an operator are
\* complete expressions and bind more strongly than it, those of equal level on
\* the side it associates to excepted; a sign takes no operator into its operand
\* and a postfix form no sign; and an `if` or a quantifier reaches as far to the
\* right as it can, so no operator follows one in its left operand.  (The table
\* gives comparisons no associativity; the parser lets them associate to the left.)
TreesFollowTheTable ==
    Ended => \A n \in nodes :
        /\ IsInfix(n) =>
              /\ Operand(n.lo, n.at - 1) /\ Operand(n.at + 1, n.hi)
              /\ \A m \in nodes : IsInfix(m) =>
                    /\ Spans(m, n.lo, n.at - 1) => TighterOnLeft(m.op, n.op)
                    /\ Spans(m, n.at + 1, n.hi) => TighterOnRight(m.op, n.op)
              /\ \A m \in nodes : IsOpen(m) => ~(n.lo <= m.lo /\ m.hi = n.at - 1)
        /\ IsPrefix(n) =>
              /\ Operand(n.at + 1, n.hi)
              /\ \A m \in nodes : Spans(m, n.at + 1, n.hi) => ~IsInfix(m)
        /\ IsPostfix(n) =>
              /\ Operand(n.lo, n.at - 1)
              /\ \A m \in nodes : Spans(m, n.lo, n.at - 1) => ~IsInfix(m) /\ ~IsPrefix(m) /\ ~IsOpen(m)

IsSectionName(n) == tokens[n] \in {"given", "expect"} /\ Tok(tokens, n + 1) = ":" /\ Tok(tokens, n + 2) = "lbrace"
SectionsOnce ==
    \A m, n \in DOMAIN tokens :
        m < n /\ IsSectionName(m) /\ IsSectionName(n) /\ tokens[m] = tokens[n] =>
            \E h \in m..n : tokens[h] \in Header

\* A file that is accepted is in the tree from end to end: no clause is swallowed
\* by the expression before it, no `else reject` goes to another clause, no
\* binding is lost, as long as no example repeats a section (the earlier one is
\* then dropped without a word, parse_example_decl).
Holds(p, n) == n = p.at \/ n \in p.from..p.hi + (IF p.elseReject THEN 2 ELSE 0)
EveryTokenCounts ==
    Parsed /\ SectionsOnce =>
        /\ \A n \in DOMAIN tokens :
              \/ tokens[n] \in {"lbrace", "rbrace", "comma", ":"} \/ IsSectionName(n)
              \/ \E d \in DOMAIN decls : decls[d].at = n
              \/ \E p \in AllParts : Holds(p, n)
        /\ \A p \in AllParts : tokens[p.lo] = "*" \/ Operand(p.lo, p.hi)
        /\ \A p, q \in AllParts : p = q \/ p.hi < q.from \/ q.hi < p.from

\* No binding power, no look-ahead and no early stop makes a difference to what
\* is legal: a file is accepted exactly when it is derived by the grammar, which
\* knows nothing of them (SPEC.md 9, with the clauses, labels, `else reject`
\* and sections of parse_intent_decl and parse_example_decl).
AcceptsTheGrammar == Ended => (Parsed <=> IsFile(tokens))

\* No token is looked at for ever: every step, whatever it reads, leaves less to
\* do, so that n tokens take at most 4n + 1 steps (the loops of parse_program,
\* parse_intent_decl, parse_example_decl and parse_pratt).  A call costs two steps,
\* one to wait for its operand and one to return.
StepsLeft ==
    IF Ended THEN 0
    ELSE 1 + 4 * (Len(tokens) + 1 - pos) + 2 * Len(stack) + (IF doing = "postfix" THEN 1 ELSE 0)
BoundedWork == [][StepsLeft' \in 0..StepsLeft - 1]_vars

\* The parser comes to an end on every input, the end of file in the middle of
\* a body included.
Terminates == <>Ended

=============================================================================
