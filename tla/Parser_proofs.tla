--------------------------- MODULE Parser_proofs ---------------------------
(***************************************************************************)
(* The parser reads every file right: its state is well typed, the trees it *)
(* builds follow the table of precedences, and no token of a file it        *)
(* accepts is lost.                                                         *)
(***************************************************************************)
EXTENDS Parser, SequenceTheorems, TLAPS

-----------------------------------------------------------------------------
(* The calls of the parser: each waits for what the one above it reads. *)

\* Frames that read an expression as a part of another one, and those whose
\* expression is whole.
Opener == {"tail", "binary", "(", "after", "[", "if", "then", "call"}
Starter == {"theorem", "clause", "modifies", "invariant", "binding"}

\* The binding power an operand is read with, and whether it comes right after
\* the token its frame is about.
IsSign(t, f) == f.for = "tail" /\ t[f.at] \in Prefix
Power(t, f) == IF IsSign(t, f) THEN PREFIX_BP ELSE IF f.for = "binary" THEN RightPower(t[f.at]) ELSE 0
Adjacent(t, f) == IsSign(t, f) \/ f.for \in {"binary", "(", "["}
Follows(t, f, n) == f.at < n /\ (Adjacent(t, f) => n = f.at + 1)

\* A frame of a parser that is at token p of t.
FrameOK(t, p, f) ==
    /\ f.at \in DOMAIN t /\ f.at < p /\ f.lo <= p
    /\ f.for \in Opener => 1 <= f.lo /\ f.lo <= f.at
    /\ f.for = "tail" => f.lo = f.at /\ t[f.at] \in Prefix \cup Quantifier \cup {"if"}
    /\ f.for = "binary" => f.lo < f.at /\ t[f.at] \in Infix /\ LeftPower(t[f.at]) >= f.min
    /\ f.for \in {"if", "then"} => f.lo = f.at /\ t[f.at] = "if"
    /\ f.for = "[" => f.lo < f.at
    /\ f.for = "section" => Tok(t, f.at + 1) = ":" /\ Tok(t, f.at + 2) = "lbrace"

\* Frame f may stand on frame g.
StandsOn(t, f, g) ==
    /\ f.for \notin Header
    /\ f.for \in {"clause", "modifies"} => g.for = "intent"
    /\ f.for = "invariant" => g.for = "safety"
    /\ f.for = "section" => g.for = "example"
    /\ f.for = "binding" => g.for = "section" /\ f.at = g.at
    /\ f.for \in Opener => g.for \in Opener \cup Starter /\ f.min = Power(t, g) /\ Follows(t, g, f.lo)

\* The declaration is at the bottom, and every call stands on its caller.
InOrder(t, p, s) ==
    /\ s # <<>> => s[1].for \in Header
    /\ \A k \in 1..Len(s) : FrameOK(t, p, s[k])
    /\ \A k \in 2..Len(s) : StandsOn(t, s[k], s[k - 1])
StackOK == InOrder(tokens, pos, stack)

\* What the parser is doing goes with the frame on top.
InExpression == doing \in {"prefix", "postfix", "infix"}
DoingOK ==
    /\ doing = "program" => stack = <<>>
    /\ doing # "program" => stack # <<>>
    /\ doing = "body" => Len(stack) = 1 /\ Top.for \in {"intent", "safety", "example"}
    /\ doing = "bindings" => Len(stack) = 2 /\ Top.for = "section"
    /\ doing = "path" => Len(stack) = 3 /\ Top.for = "binding"
    /\ doing = "typed_vars" => Top.for = "tail" /\ tokens[Top.at] \in Quantifier
    /\ InExpression => Top.for \in Opener \cup Starter /\ min = Power(tokens, Top)
    /\ doing = "prefix" => Follows(tokens, Top, pos)
    /\ doing \in {"postfix", "infix"} => Follows(tokens, Top, lo)
    /\ doing = "infix" => Peek(0) \notin {".", "'", "["}

\* The part of TypeOK that is about the calls.
CallType ==
    /\ tokens \in Seq(Token) /\ pos \in 1..Len(tokens) + 1
    /\ doing \in {"program", "body", "bindings", "path", "prefix", "typed_vars", "postfix", "infix"}
    /\ lo \in 0..pos - 1 /\ min \in Nat
    /\ stack \in Seq(Frame)
BuiltType ==
    /\ nodes \subseteq TheNode
    /\ parts \subseteq Part /\ bindings \subseteq Part /\ decls \in Seq(Decl)
    /\ outcome \in {"running", "ok", "error"}

Control == CallType /\ StackOK /\ DoingOK

-----------------------------------------------------------------------------
(* The nodes N of a parser at token p of t: the expression read last ends   *)
(* before p.                                                                *)

NodeOK(p, n) == n \in TheNode /\ 1 <= n.lo /\ n.lo <= n.at /\ n.at <= n.hi /\ n.hi < p

Whole(t, N, i, j) == (i = j /\ t[i] \in Ident \cup Literal) \/ \E n \in N : Spans(n, i, j)

\* TreesFollowTheTable, one node at a time.
InfixOK(t, N, n) ==
    /\ Whole(t, N, n.lo, n.at - 1) /\ Whole(t, N, n.at + 1, n.hi)
    /\ \A m \in N : IsInfix(m) =>
          /\ Spans(m, n.lo, n.at - 1) => TighterOnLeft(m.op, n.op)
          /\ Spans(m, n.at + 1, n.hi) => TighterOnRight(m.op, n.op)
    /\ \A m \in N : IsOpen(m) => ~(n.lo <= m.lo /\ m.hi = n.at - 1)
PrefixOK(t, N, n) ==
    /\ Whole(t, N, n.at + 1, n.hi)
    /\ \A m \in N : Spans(m, n.at + 1, n.hi) => ~IsInfix(m)
PostfixOK(t, N, n) ==
    /\ Whole(t, N, n.lo, n.at - 1)
    /\ \A m \in N : Spans(m, n.lo, n.at - 1) => ~IsInfix(m) /\ ~IsPrefix(m) /\ ~IsOpen(m)
TreeOK(t, N, n) ==
    /\ IsInfix(n) => InfixOK(t, N, n)
    /\ IsPrefix(n) => PrefixOK(t, N, n)
    /\ IsPostfix(n) => PostfixOK(t, N, n)

\* What a frame knows of the operand before its operator.
LeftOK(t, N, f) ==
    /\ f.for = "binary" =>
          /\ Whole(t, N, f.lo, f.at - 1)
          /\ \A m \in N : IsInfix(m) /\ Spans(m, f.lo, f.at - 1) => TighterOnLeft(m.op, t[f.at])
          /\ \A m \in N : IsOpen(m) => ~(f.lo <= m.lo /\ m.hi = f.at - 1)
    /\ f.for = "[" =>
          /\ Whole(t, N, f.lo, f.at - 1)
          /\ \A m \in N : Spans(m, f.lo, f.at - 1) => ~IsInfix(m) /\ ~IsPrefix(m) /\ ~IsOpen(m)

\* What stands after a sign, an if or a quantifier.
Ends(t, p, n) ==
    n.hi = p - 1 => /\ IsPrefix(n) \/ IsOpen(n) => Tok(t, p) \notin {".", "'", "["}
                    /\ IsOpen(n) => Tok(t, p) \notin Infix

\* What the loops of parse_pratt know of the expression l .. p - 1.
InfixRead(t, p, power, where, m) ==
    /\ where = "infix" /\ LeftPower(m.op) >= power
    /\ Tok(t, p) \in Infix => LeftPower(Tok(t, p)) < RightPower(m.op)
ReadOK(t, N, p, l, power, where) ==
    /\ Whole(t, N, l, p - 1)
    /\ \A m \in N : m.hi = p - 1 => m.lo >= l
    /\ \A m \in N : IsInfix(m) /\ Spans(m, l, p - 1) => InfixRead(t, p, power, where, m)

Trees ==
    /\ \A n \in nodes : NodeOK(pos, n) /\ TreeOK(tokens, nodes, n) /\ Ends(tokens, pos, n)
    /\ \A k \in 1..Len(stack) : LeftOK(tokens, nodes, stack[k])
    /\ doing \in {"postfix", "infix"} => ReadOK(tokens, nodes, pos, lo, min, doing)

-----------------------------------------------------------------------------
(* The coverage of the file: every token read is accounted for, in a part   *)
(* that is complete or by a call that is open.                              *)

\* The open calls of a stack that are not for a part of an expression.
Base(s) == {s[k] : k \in {i \in 1..Len(s) : s[i].for \notin Opener}}
Marks == Base(stack)

AnyPart == AllParts \cup parts \cup bindings

Accounted(n) ==
    \/ tokens[n] \in {"lbrace", "rbrace", "comma", ":"} \/ IsSectionName(n)
    \/ \E d \in DOMAIN decls : decls[d].at = n
    \/ \E p \in AnyPart : Holds(p, n)
    \/ \E f \in Marks : f.at = n \/ (f.for \in Starter /\ f.lo <= n)

Inside == doing \in {"path", "prefix", "typed_vars", "postfix", "infix"}
Anchored == Inside => \E f \in Marks : f.for \in Starter

PartsApart ==
    /\ \A p \in AnyPart : p.hi < pos /\ (tokens[p.lo] = "*" \/ Operand(p.lo, p.hi))
    /\ \A p, q \in AnyPart : p = q \/ p.hi < q.from \/ q.hi < p.from
    /\ \A p \in AnyPart, f \in Marks : f.for \in Starter => p.hi < f.lo

\* The parts of the open declaration, and the sections of an example.
PartsOpen ==
    /\ bindings # {} => \E f \in Marks : f.for = "section"
    /\ parts # {} => \E h \in Marks : h.for \in Header /\ h.for # "theorem"
SectionOpen(f) ==
    /\ \A h \in Marks : h.for \in Header => h.at < f.at
    /\ \A p \in bindings : p.at = f.at
    /\ \A p \in parts : p.at < f.at
ExampleOpen(h) == \A p \in parts : h.at < p.at /\ p.at < pos /\ IsSectionName(p.at)
DeclOpen(h) == \A n \in DOMAIN tokens : h.at < n /\ n < pos => tokens[n] \notin Header
SectionsSeen ==
    /\ \A f \in Marks : f.for = "section" => SectionOpen(f)
    /\ \A h \in Marks : h.for = "example" => ExampleOpen(h)
    /\ \A h \in Marks : h.for \in Header => DeclOpen(h)

AllAccounted == SectionsOnce => \A n \in DOMAIN tokens : n < pos => Accounted(n)
AtEnd == Parsed => doing = "program" /\ pos = Len(tokens) + 1

Coverage == Anchored /\ PartsApart /\ PartsOpen /\ SectionsSeen /\ AllAccounted /\ AtEnd

-----------------------------------------------------------------------------
(* Tokens and stacks. *)

LEMMA PeekIn ==
    ASSUME CallType, NEW n \in Nat, Peek(n) # "eof"
    PROVE  /\ pos + n \in DOMAIN tokens /\ pos + n \in 1..Len(tokens)
           /\ Peek(n) = tokens[pos + n] /\ Peek(n) \in Token
  BY DEF CallType, Peek, Tok

LEMMA PowerType ==
    ASSUME NEW op \in Infix
    PROVE  /\ LeftPower(op) \in 2..13 /\ RightPower(op) \in 1..14
  BY DEF Infix, LeftPower, RightPower

LEMMA PopSeq ==
    ASSUME NEW s \in Seq(Frame), s # <<>>
    PROVE  /\ Len(s) \in Nat /\ Len(s) >= 1
           /\ SubSeq(s, 1, Len(s) - 1) \in Seq(Frame) /\ Len(SubSeq(s, 1, Len(s) - 1)) = Len(s) - 1
           /\ \A k \in 1..Len(s) - 1 : SubSeq(s, 1, Len(s) - 1)[k] = s[k]
<1> DEFINE m == Len(s) - 1
           r == SubSeq(s, 1, m)
<1>1. Len(s) \in Nat /\ Len(s) >= 1 /\ m \in Nat
  OBVIOUS
<1> HIDE DEF m
<1>2. \A k \in 1..m : s[k] \in Frame
  BY <1>1, ElementOfSeq DEF m
<1>3. /\ r \in Seq(Frame) /\ Len(r) = IF 1 <= m THEN m - 1 + 1 ELSE 0
      /\ \A k \in 1..m - 1 + 1 : r[k] = s[1 + k - 1]
  BY <1>1, <1>2, SubSeqProperties
<1> HIDE DEF r
<1>4. Len(r) = m /\ \A k \in 1..m : r[k] = s[k]
  BY <1>1, <1>3
<1>5. QED
  BY <1>1, <1>3, <1>4 DEF m, r

LEMMA FrameType ==
    ASSUME NEW f \in Frame
    PROVE  f.at \in Nat /\ f.lo \in Nat /\ f.min \in Nat
  BY DEF Frame

\* A frame stays in order while the parser moves on.
LEMMA FramesLast ==
    ASSUME NEW t, NEW p \in Nat, NEW q \in Nat, p <= q, NEW f \in Frame, FrameOK(t, p, f)
    PROVE  FrameOK(t, q, f)
<1>1. f.at \in Nat /\ f.lo \in Nat
  BY FrameType
<1>2. f.at < p /\ f.lo <= p
  BY DEF FrameOK
<1>3. f.at < q /\ f.lo <= q
  BY <1>1, <1>2
<1>4. QED
  BY <1>3 DEF FrameOK

LEMMA TopType ==
    ASSUME CallType, StackOK, stack # <<>>
    PROVE  /\ Len(stack) \in DOMAIN stack /\ Len(stack) \in Nat /\ Len(stack) >= 1
           /\ Top \in Frame /\ FrameOK(tokens, pos, Top)
           /\ Top.for \in Header <=> Len(stack) = 1
           /\ Len(stack) > 1 => /\ StandsOn(tokens, Top, stack[Len(stack) - 1])
                                /\ stack[Len(stack) - 1] \in Frame
<1>0. Len(stack) \in Nat /\ Len(stack) >= 1
  BY EmptySeq DEF CallType
<1>1. /\ Len(stack) \in DOMAIN stack /\ Top \in Frame
      /\ Len(stack) > 1 => stack[Len(stack) - 1] \in Frame
  BY <1>0 DEF CallType, Top
<1>2. FrameOK(tokens, pos, Top)
  BY <1>0 DEF StackOK, InOrder, Top
<1>3. Len(stack) > 1 => StandsOn(tokens, Top, stack[Len(stack) - 1])
  BY <1>0 DEF StackOK, InOrder, Top
<1>4. Len(stack) > 1 => Top.for \notin Header
  BY <1>3 DEF StandsOn
<1>5. Len(stack) = 1 => Top.for \in Header
  BY DEF StackOK, InOrder, Top
<1>6. \A n \in Nat : n >= 1 => n = 1 \/ n > 1
  OBVIOUS
<1>7. QED
  BY <1>0, <1>1, <1>2, <1>3, <1>4, <1>5, <1>6

LEMMA OrderLasts ==
    ASSUME NEW t, NEW p \in Nat, NEW q \in Nat, p <= q, NEW s \in Seq(Frame), InOrder(t, p, s)
    PROVE  InOrder(t, q, s)
<1>1. \A k \in 1..Len(s) : s[k] \in Frame
  BY ElementOfSeq
<1>2. QED
  BY <1>1, FramesLast DEF InOrder

LEMMA PushInOrder ==
    ASSUME NEW t, NEW p, NEW s \in Seq(Frame), InOrder(t, p, s), NEW f \in Frame, FrameOK(t, p, f),
           s = <<>> => f.for \in Header,
           s # <<>> => StandsOn(t, f, s[Len(s)])
    PROVE  InOrder(t, p, Append(s, f))
<1> DEFINE r == Append(s, f)
<1>1. /\ Len(s) \in Nat /\ Len(r) = Len(s) + 1
      /\ \A k \in 1..Len(s) : r[k] = s[k]
      /\ r[Len(s) + 1] = f
      /\ s # <<>> => Len(s) >= 1
      /\ s = <<>> => Len(s) = 0
  BY AppendProperties, EmptySeq
<1> HIDE DEF r
<1>2. r[1].for \in Header
  BY <1>1 DEF InOrder
<1>3. \A k \in 1..Len(r) : FrameOK(t, p, r[k])
  BY <1>1 DEF InOrder
<1>4. ASSUME NEW k \in 2..Len(r) PROVE StandsOn(t, r[k], r[k - 1])
  <2>1. CASE k \in 2..Len(s)
    <3>1. r[k] = s[k] /\ r[k - 1] = s[k - 1]
      BY <1>1, <2>1
    <3>2. QED
      BY <2>1, <3>1 DEF InOrder
  <2>2. CASE k = Len(s) + 1
    <3>1. r[k] = f /\ r[k - 1] = s[Len(s)] /\ s # <<>>
      BY <1>1, <2>2
    <3>2. QED
      BY <3>1
  <2>3. QED
    BY <1>1, <2>1, <2>2
<1>5. QED
  BY <1>2, <1>3, <1>4 DEF InOrder, r

LEMMA PopInOrder ==
    ASSUME NEW t, NEW p, NEW s \in Seq(Frame), s # <<>>, InOrder(t, p, s)
    PROVE  InOrder(t, p, SubSeq(s, 1, Len(s) - 1))
<1> DEFINE r == SubSeq(s, 1, Len(s) - 1)
<1>1. /\ Len(s) \in Nat /\ Len(s) >= 1 /\ r \in Seq(Frame) /\ Len(r) = Len(s) - 1
      /\ \A k \in 1..Len(s) - 1 : r[k] = s[k]
      /\ r # <<>> => Len(r) >= 1
  BY PopSeq, EmptySeq
<1> HIDE DEF r
<1>2. r # <<>> => r[1].for \in Header
  BY <1>1 DEF InOrder
<1>3. \A k \in 1..Len(r) : FrameOK(t, p, r[k])
  BY <1>1 DEF InOrder
<1>4. ASSUME NEW k \in 2..Len(r) PROVE StandsOn(t, r[k], r[k - 1])
  <2>1. r[k] = s[k] /\ r[k - 1] = s[k - 1] /\ k \in 2..Len(s)
    BY <1>1
  <2>2. QED
    BY <2>1 DEF InOrder
<1>5. QED
  BY <1>2, <1>3, <1>4 DEF InOrder, r

\* The effect of a call and of a return on the stack.
LEMMA PushOK ==
    ASSUME CallType, StackOK, tokens' = tokens, pos' \in Nat, pos <= pos',
           NEW f \in Frame, stack' = Append(stack, f), FrameOK(tokens, pos', f),
           stack = <<>> => f.for \in Header,
           stack # <<>> => StandsOn(tokens, f, Top)
    PROVE  /\ stack' \in Seq(Frame) /\ InOrder(tokens', pos', stack')
           /\ stack' # <<>> /\ Len(stack') = Len(stack) + 1
           /\ \A k \in 1..Len(stack) : stack'[k] = stack[k]
           /\ Top' = f
<1>1. stack \in Seq(Frame) /\ pos \in Nat
  BY DEF CallType
<1>2. InOrder(tokens, pos', stack)
  BY <1>1, OrderLasts DEF StackOK
<1>3. InOrder(tokens', pos', stack')
  BY <1>1, <1>2, PushInOrder DEF Top
<1>4. QED
  BY <1>1, <1>3, AppendProperties DEF Top

LEMMA PopOK ==
    ASSUME CallType, StackOK, stack # <<>>, tokens' = tokens, pos' \in Nat, pos <= pos',
           stack' = Below
    PROVE  /\ stack' \in Seq(Frame) /\ InOrder(tokens', pos', stack') /\ Len(stack') = Len(stack) - 1
           /\ \A k \in 1..Len(stack) - 1 : stack'[k] = stack[k]
           /\ stack' = <<>> <=> Len(stack) = 1
           /\ Len(stack) > 1 => Top' = stack[Len(stack) - 1]
<1>1. stack \in Seq(Frame) /\ pos \in Nat
  BY DEF CallType
<1>2. InOrder(tokens, pos', stack)
  BY <1>1, OrderLasts DEF StackOK
<1>3. InOrder(tokens', pos', stack')
  BY <1>1, <1>2, PopInOrder DEF Below
<1>4. /\ Len(stack) \in Nat /\ Len(stack) >= 1 /\ stack' \in Seq(Frame) /\ Len(stack') = Len(stack) - 1
      /\ \A k \in 1..Len(stack) - 1 : stack'[k] = stack[k]
  BY <1>1, PopSeq DEF Below
<1>5. QED
  BY <1>3, <1>4, EmptySeq DEF Top

LEMMA SwapOK ==
    ASSUME CallType, StackOK, stack # <<>>, tokens' = tokens, pos' \in Nat, pos <= pos',
           NEW f \in Frame, stack' = Append(Below, f), FrameOK(tokens, pos', f),
           Len(stack) = 1 => f.for \in Header,
           Len(stack) > 1 => StandsOn(tokens, f, stack[Len(stack) - 1])
    PROVE  /\ stack' \in Seq(Frame) /\ InOrder(tokens', pos', stack')
           /\ stack' # <<>> /\ Len(stack') = Len(stack)
           /\ \A k \in 1..Len(stack) - 1 : stack'[k] = stack[k]
           /\ Top' = f
<1>1. stack \in Seq(Frame) /\ pos \in Nat
  BY DEF CallType
<1>2. InOrder(tokens, pos', stack)
  BY <1>1, OrderLasts DEF StackOK
<1>3. /\ Len(stack) \in Nat /\ Len(stack) >= 1 /\ Below \in Seq(Frame) /\ Len(Below) = Len(stack) - 1
      /\ \A k \in 1..Len(stack) - 1 : Below[k] = stack[k]
  BY <1>1, PopSeq DEF Below
<1>4. InOrder(tokens, pos', Below)
  BY <1>1, <1>2, PopInOrder DEF Below
<1>5. (Below = <<>> => Len(stack) = 1) /\ (Below # <<>> => Len(stack) > 1 /\ Below[Len(Below)] = stack[Len(stack) - 1])
  BY <1>3, EmptySeq
<1>6. InOrder(tokens', pos', stack')
  BY <1>3, <1>4, <1>5, PushInOrder
<1>7. /\ stack' \in Seq(Frame) /\ stack' # <<>> /\ Len(stack') = Len(Below) + 1
      /\ \A k \in 1..Len(Below) : stack'[k] = Below[k]
      /\ stack'[Len(Below) + 1] = f
  BY <1>3, AppendProperties
<1>8. QED
  BY <1>3, <1>6, <1>7 DEF Top

-----------------------------------------------------------------------------
(* The steps of a call of parse_pratt. *)

LEMMA PowerOfFrame ==
    ASSUME NEW t, NEW p, NEW f \in Frame, FrameOK(t, p, f)
    PROVE  Power(t, f) \in 0..15
<1>1. CASE f.for = "binary"
  <2>1. t[f.at] \in Infix /\ ~IsSign(t, f)
    BY <1>1 DEF FrameOK, IsSign
  <2>2. Power(t, f) = RightPower(t[f.at])
    BY <1>1, <2>1 DEF Power
  <2>3. QED
    BY <2>1, <2>2, PowerType
<1>2. CASE f.for # "binary"
  BY <1>2 DEF Power, PREFIX_BP
<1>3. QED
  BY <1>1, <1>2

\* What is left to show when a step ends within an expression.
LEMMA InExpressionOK ==
    ASSUME CallType, tokens' = tokens, stack' # <<>>, stack' \in Seq(Frame), InOrder(tokens', pos', stack'),
           pos' \in 1..Len(tokens) + 1, lo' \in 0..pos' - 1,
           doing' \in {"prefix", "postfix", "infix"},
           Top' \in Frame, FrameOK(tokens, pos', Top'),
           Top'.for \in Opener \cup Starter, min' = Power(tokens, Top'),
           doing' = "prefix" => Follows(tokens, Top', pos'),
           doing' # "prefix" => Follows(tokens, Top', lo'),
           doing' = "infix" => Tok(tokens, pos' + 0) \notin {".", "'", "["}
    PROVE  Control'
<1>1. min' \in Nat
  BY PowerOfFrame
<1>2. CallType'
  BY <1>1 DEF CallType
<1>3. StackOK'
  BY DEF StackOK
<1>4. DoingOK'
  BY DEF DoingOK, InExpression, Peek
<1>5. QED
  BY <1>2, <1>3, <1>4 DEF Control

\* parse_pratt is called for a new frame, or again for the one on top.
LEMMA EnterPush ==
    ASSUME Control, tokens' = tokens, NEW f \in Frame, NEW n \in pos..Len(tokens) + 1,
           Parse(f, stack, Power(tokens, f), n), FrameOK(tokens, n, f),
           f.for \in Opener \cup Starter, Follows(tokens, f, n),
           stack = <<>> => f.for \in Header,
           stack # <<>> => StandsOn(tokens, f, Top)
    PROVE  Control'
<1>1. /\ CallType /\ StackOK /\ pos \in Nat /\ Len(tokens) \in Nat /\ pos >= 1
      /\ pos' = n /\ doing' = "prefix" /\ lo' = lo /\ min' = Power(tokens, f) /\ stack' = Append(stack, f)
  BY DEF Control, CallType, Parse
<1>2. n \in Nat /\ pos <= n /\ n \in 1..Len(tokens) + 1 /\ lo \in 0..n - 1
  BY <1>1 DEF CallType
<1>3. stack' \in Seq(Frame) /\ InOrder(tokens', pos', stack') /\ stack' # <<>> /\ Top' = f
  BY <1>1, <1>2, PushOK
<1>4. QED
  BY <1>1, <1>2, <1>3, InExpressionOK

LEMMA EnterSwap ==
    ASSUME Control, tokens' = tokens, stack # <<>>, NEW f \in Frame, NEW n \in pos..Len(tokens) + 1,
           Parse(f, Below, Power(tokens, f), n), FrameOK(tokens, n, f),
           f.for \in Opener \cup Starter, Follows(tokens, f, n),
           Len(stack) = 1 => f.for \in Header,
           Len(stack) > 1 => StandsOn(tokens, f, stack[Len(stack) - 1])
    PROVE  Control'
<1>1. /\ CallType /\ StackOK /\ pos \in Nat /\ Len(tokens) \in Nat /\ pos >= 1
      /\ pos' = n /\ doing' = "prefix" /\ lo' = lo /\ min' = Power(tokens, f) /\ stack' = Append(Below, f)
  BY DEF Control, CallType, Parse
<1>2. n \in Nat /\ pos <= n /\ n \in 1..Len(tokens) + 1 /\ lo \in 0..n - 1
  BY <1>1 DEF CallType
<1>3. stack' \in Seq(Frame) /\ InOrder(tokens', pos', stack') /\ stack' # <<>> /\ Top' = f
  BY <1>1, <1>2, SwapOK
<1>4. QED
  BY <1>1, <1>2, <1>3, InExpressionOK

\* An operand is read, or goes on, under the frame on top.
LEMMA ValueKeeps ==
    ASSUME Control, tokens' = tokens, stack' = stack, min' = min, InExpression,
           pos' \in pos..Len(tokens) + 1, lo' \in 0..pos' - 1,
           doing' \in {"postfix", "infix"}, Follows(tokens, Top, lo'),
           doing' = "infix" => Tok(tokens, pos' + 0) \notin {".", "'", "["}
    PROVE  Control'
<1>1. /\ CallType /\ StackOK /\ pos \in Nat /\ Len(tokens) \in Nat /\ pos >= 1
      /\ stack # <<>> /\ Top.for \in Opener \cup Starter /\ min = Power(tokens, Top)
  BY DEF Control, CallType, DoingOK, InExpression
<1>2. pos' \in Nat /\ pos <= pos' /\ pos' \in 1..Len(tokens) + 1
  BY <1>1
<1>3. Top \in Frame /\ FrameOK(tokens, pos, Top) /\ Top' = Top /\ stack \in Seq(Frame)
  BY <1>1, TopType DEF Top, CallType
<1>4. FrameOK(tokens, pos', Top) /\ InOrder(tokens, pos', stack)
  BY <1>1, <1>2, <1>3, FramesLast, OrderLasts DEF StackOK
<1>5. QED
  BY <1>1, <1>2, <1>3, <1>4, InExpressionOK

\* The expression of the frame on top is complete, and so is an operand of the
\* frame below.
LEMMA ValueToKeeps ==
    ASSUME Control, tokens' = tokens, InExpression, Top.for \in Opener,
           NEW where \in {"postfix", "infix"}, NEW n \in pos..Len(tokens) + 1, ValueTo(Top, where, n),
           where = "infix" => Tok(tokens, n + 0) \notin {".", "'", "["}
    PROVE  Control'
<1>1. /\ CallType /\ StackOK /\ pos \in Nat /\ Len(tokens) \in Nat /\ pos >= 1 /\ stack # <<>>
      /\ pos' = n /\ doing' = where /\ lo' = Top.lo /\ min' = Top.min /\ stack' = Below
  BY DEF Control, CallType, DoingOK, InExpression, ValueTo
<1>2. pos' \in Nat /\ pos <= pos' /\ pos' \in 1..Len(tokens) + 1
  BY <1>1
<1>3. /\ Top \in Frame /\ FrameOK(tokens, pos, Top) /\ Len(stack) > 1 /\ Len(stack) \in Nat
      /\ StandsOn(tokens, Top, stack[Len(stack) - 1]) /\ stack[Len(stack) - 1] \in Frame
  <2>1. Top.for \notin Header
    BY DEF Opener, Header
  <2>2. \A k \in Nat : k >= 1 => k = 1 \/ k > 1
    OBVIOUS
  <2>3. QED
    BY <1>1, <2>1, <2>2, TopType
<1> DEFINE g == stack[Len(stack) - 1]
<1>4. /\ stack' \in Seq(Frame) /\ InOrder(tokens', pos', stack') /\ Top' = g
      /\ stack' # <<>>
  BY <1>1, <1>2, <1>3, PopOK
<1>5. FrameOK(tokens, pos', g)
  <2>1. FrameOK(tokens, pos, g)
    BY <1>3, <1>1 DEF StackOK, InOrder
  <2>2. QED
    BY <1>1, <1>2, <1>3, <2>1, FramesLast
<1>6. g.for \in Opener \cup Starter /\ Top.min = Power(tokens, g) /\ Follows(tokens, g, Top.lo)
  BY <1>3 DEF StandsOn
<1>7. Top.lo \in 0..pos' - 1
  <2>1. Top.lo \in Nat /\ Top.at \in Nat
    BY <1>3, FrameType
  <2>2. Top.lo <= Top.at /\ Top.at < pos
    BY <1>3 DEF FrameOK
  <2>3. QED
    BY <1>1, <1>2, <2>1, <2>2
<1>8. QED
  BY <1>1, <1>2, <1>3, <1>4, <1>5, <1>6, <1>7, InExpressionOK

LEMMA UnchangedKeeps ==
    ASSUME Control, UNCHANGED <<tokens, call>>
    PROVE  Control'
  BY DEF Control, CallType, StackOK, DoingOK, InExpression, call, Top, Peek

\* Facts of every step that starts in an expression.
LEMMA Expression ==
    ASSUME Control, InExpression
    PROVE  /\ CallType /\ StackOK /\ stack # <<>> /\ stack \in Seq(Frame)
           /\ pos \in Nat /\ pos >= 1 /\ pos <= Len(tokens) + 1 /\ Len(tokens) \in Nat
           /\ lo \in Nat /\ lo < pos /\ min \in Nat
           /\ Top \in Frame /\ FrameOK(tokens, pos, Top)
           /\ Top.for \in Opener \cup Starter /\ min = Power(tokens, Top)
           /\ doing = "prefix" => Follows(tokens, Top, pos)
           /\ doing # "prefix" => Follows(tokens, Top, lo)
<1>1. CallType /\ StackOK /\ DoingOK
  BY DEF Control
<1>2. stack # <<>>
  BY <1>1 DEF DoingOK, InExpression
<1>3. QED
  BY <1>1, <1>2, TopType DEF CallType, DoingOK, InExpression

\* An operand that starts with another call of parse_pratt.
LEMMA OpenStep ==
    ASSUME Control, InExpression, tokens' = tokens,
           NEW for \in Opener, NEW at \in Nat, NEW from \in Nat, NEW n \in pos..Len(tokens) + 1,
           NEW power, power = Power(tokens, Waits(for, at, from)),
           Parse(Waits(for, at, from), stack, power, n),
           FrameOK(tokens, n, Waits(for, at, from)), Follows(tokens, Waits(for, at, from), n),
           Follows(tokens, Top, from)
    PROVE  Control'
<1> DEFINE f == Waits(for, at, from)
<1>1. f \in Frame /\ f.for = for /\ f.at = at /\ f.lo = from /\ f.min = min
  BY Expression DEF Waits, Frame, Opener
<1>2. StandsOn(tokens, f, Top)
  <2>1. for \notin Header /\ for \notin {"clause", "modifies", "invariant", "section", "binding"}
    BY DEF Opener, Header
  <2>2. Top.for \in Opener \cup Starter /\ min = Power(tokens, Top)
    BY Expression
  <2>3. QED
    BY <1>1, <2>1, <2>2 DEF StandsOn
<1>3. QED
  BY <1>1, <1>2, EnterPush, Expression

LEMMA AtomKeeps ==
    ASSUME Control, Atom
    PROVE  Control'
<1>1. /\ InExpression /\ doing = "prefix" /\ tokens' = tokens /\ stack' = stack /\ min' = min
      /\ pos' = pos + 1 /\ lo' = pos /\ doing' = "postfix"
  BY DEF Atom, At, Value, OnlyCall, InExpression
<1>2. pos + 0 \in 1..Len(tokens)
  BY <1>1, Expression, PeekIn DEF Atom, Ident, Literal, Number
<1>3. QED
  BY <1>1, <1>2, Expression, ValueKeeps

LEMMA CallKeeps ==
    ASSUME Control, Call
    PROVE  Control'
<1>1. /\ InExpression /\ doing = "prefix" /\ tokens' = tokens /\ Follows(tokens, Top, pos)
      /\ pos \in Nat /\ pos >= 1 /\ Len(tokens) \in Nat
  BY Expression DEF Call, At, OnlyCall, OnlyTree, InExpression
<1>2. pos + 1 \in 1..Len(tokens) /\ pos \in DOMAIN tokens
  BY <1>1, Expression, PeekIn DEF Call
<1>3. CASE Peek(2) = ")"
  <2>1. pos + 2 \in 1..Len(tokens)
    BY <1>1, <1>3, Expression, PeekIn
  <2>2. stack' = stack /\ min' = min /\ pos' = pos + 3 /\ lo' = pos /\ doing' = "postfix"
    BY <1>3 DEF Call, Value
  <2>3. QED
    BY <1>1, <2>1, <2>2, ValueKeeps
<1>4. CASE Peek(2) # ")"
  <2> DEFINE f == Waits("call", pos, pos)
  <2>1. Parse(f, stack, 0, pos + 2) /\ pos + 2 \in pos..Len(tokens) + 1
    BY <1>1, <1>2, <1>4 DEF Call
  <2>2. FrameOK(tokens, pos + 2, f) /\ Follows(tokens, f, pos + 2) /\ Power(tokens, f) = 0
    BY <1>1, <1>2 DEF FrameOK, Follows, Adjacent, IsSign, Power, Waits
  <2>3. QED
    BY <1>1, <2>1, <2>2, OpenStep DEF Opener
<1>5. QED
  BY <1>3, <1>4

LEMMA UnaryKeeps ==
    ASSUME Control, Unary
    PROVE  Control'
<1> DEFINE f == Waits("tail", pos, pos)
<1>1. /\ InExpression /\ doing = "prefix" /\ tokens' = tokens /\ Follows(tokens, Top, pos)
      /\ pos \in Nat /\ pos >= 1 /\ Len(tokens) \in Nat
  BY Expression DEF Unary, At, OnlyCall, InExpression
<1>2. pos + 0 \in 1..Len(tokens) /\ pos \in DOMAIN tokens /\ tokens[pos] \in Prefix
  BY <1>1, Expression, PeekIn DEF Unary, Prefix
<1>3. Parse(f, stack, PREFIX_BP, pos + 1) /\ pos + 1 \in pos..Len(tokens) + 1
  BY <1>1, <1>2 DEF Unary
<1>4. FrameOK(tokens, pos + 1, f) /\ Follows(tokens, f, pos + 1) /\ Power(tokens, f) = PREFIX_BP
  BY <1>1, <1>2 DEF FrameOK, Follows, Adjacent, IsSign, Power, Waits
<1>5. QED
  BY <1>1, <1>3, <1>4, OpenStep DEF Opener

LEMMA BracketKeeps ==
    ASSUME Control, Bracket
    PROVE  Control'
<1> DEFINE f == Waits(Peek(0), pos, pos)
<1>1. /\ InExpression /\ doing = "prefix" /\ tokens' = tokens /\ Follows(tokens, Top, pos)
      /\ pos \in Nat /\ pos >= 1 /\ Len(tokens) \in Nat
  BY Expression DEF Bracket, At, OnlyCall, InExpression
<1>2. /\ pos + 0 \in 1..Len(tokens) /\ pos \in DOMAIN tokens /\ Peek(0) = tokens[pos]
      /\ Peek(0) \in {"(", "if"} /\ Peek(0) \in Opener
  BY <1>1, Expression, PeekIn DEF Bracket, Opener
<1>3. Parse(f, stack, 0, pos + 1) /\ pos + 1 \in pos..Len(tokens) + 1
  BY <1>1, <1>2 DEF Bracket
<1>4. f.for \in {"(", "if"} /\ f.for = tokens[pos] /\ f.at = pos /\ f.lo = pos
  BY <1>2 DEF Waits
<1> HIDE DEF f
<1>5. FrameOK(tokens, pos + 1, f) /\ Follows(tokens, f, pos + 1) /\ Power(tokens, f) = 0
  <2>1. CASE f.for = "("
    BY <1>1, <1>2, <1>4, <2>1 DEF FrameOK, Follows, IsSign, Power
  <2>2. CASE f.for = "if"
    BY <1>1, <1>2, <1>4, <2>2 DEF FrameOK, Follows, Adjacent, IsSign, Power
  <2>3. QED
    BY <1>4, <2>1, <2>2
<1>6. QED
  BY <1>1, <1>2, <1>3, <1>5, OpenStep DEF f

LEMMA AfterKeeps ==
    ASSUME Control, After
    PROVE  Control'
<1> DEFINE f == Waits("after", pos, pos)
<1>1. CASE Peek(1) = "("
  <2>1. /\ InExpression /\ doing = "prefix" /\ tokens' = tokens /\ Follows(tokens, Top, pos)
        /\ pos \in Nat /\ pos >= 1 /\ Len(tokens) \in Nat
    BY <1>1, Expression DEF After, At, OnlyCall, InExpression
  <2>2. pos + 1 \in 1..Len(tokens) /\ pos \in DOMAIN tokens
    BY <1>1, <2>1, Expression, PeekIn
  <2>3. Parse(f, stack, 0, pos + 2) /\ pos + 2 \in pos..Len(tokens) + 1
    BY <1>1, <2>1, <2>2 DEF After
  <2>4. FrameOK(tokens, pos + 2, f) /\ Follows(tokens, f, pos + 2) /\ Power(tokens, f) = 0
    BY <2>1, <2>2 DEF FrameOK, Follows, Adjacent, IsSign, Power, Waits
  <2>5. QED
    BY <2>1, <2>3, <2>4, OpenStep DEF Opener
<1>2. CASE Peek(1) # "("
  BY <1>2, UnchangedKeeps DEF After, Refuse
<1>3. QED
  BY <1>1, <1>2

LEMMA IndexKeeps ==
    ASSUME Control, Index
    PROVE  Control'
<1> DEFINE f == Waits("[", pos, lo)
<1>1. /\ InExpression /\ doing = "postfix" /\ tokens' = tokens /\ Follows(tokens, Top, lo)
      /\ pos \in Nat /\ pos >= 1 /\ Len(tokens) \in Nat /\ lo \in Nat /\ lo < pos
      /\ Top.at \in Nat /\ Top.at < lo
  BY Expression, FrameType DEF Index, At, OnlyCall, InExpression, Follows
<1>2. pos + 0 \in 1..Len(tokens) /\ pos \in DOMAIN tokens /\ lo >= 1
  BY <1>1, Expression, PeekIn DEF Index
<1>3. Parse(f, stack, 0, pos + 1) /\ pos + 1 \in pos..Len(tokens) + 1
  BY <1>1, <1>2 DEF Index
<1>4. FrameOK(tokens, pos + 1, f) /\ Follows(tokens, f, pos + 1) /\ Power(tokens, f) = 0
  BY <1>1, <1>2 DEF FrameOK, Follows, Adjacent, IsSign, Power, Waits
<1>5. QED
  BY <1>1, <1>3, <1>4, OpenStep DEF Opener

LEMMA OperatorKeeps ==
    ASSUME Control, Operator
    PROVE  Control'
<1> DEFINE f == Waits("binary", pos, lo)
<1>1. /\ InExpression /\ doing = "infix" /\ tokens' = tokens /\ Follows(tokens, Top, lo)
      /\ pos \in Nat /\ pos >= 1 /\ Len(tokens) \in Nat /\ lo \in Nat /\ lo < pos
      /\ Top.at \in Nat /\ Top.at < lo
  BY Expression, FrameType DEF Operator, At, OnlyCall, InExpression, Follows
<1>2. /\ pos + 0 \in 1..Len(tokens) /\ pos \in DOMAIN tokens /\ lo >= 1
      /\ Peek(0) = tokens[pos] /\ tokens[pos] \in Infix /\ LeftPower(tokens[pos]) >= min
  BY <1>1, Expression, PeekIn DEF Operator, Binds, Infix
<1>3. Parse(f, stack, RightPower(tokens[pos]), pos + 1) /\ pos + 1 \in pos..Len(tokens) + 1
  BY <1>1, <1>2 DEF Operator
<1>4. FrameOK(tokens, pos + 1, f) /\ Follows(tokens, f, pos + 1) /\ Power(tokens, f) = RightPower(tokens[pos])
  BY <1>1, <1>2 DEF FrameOK, Follows, Adjacent, IsSign, Power, Waits
<1>5. QED
  BY <1>1, <1>3, <1>4, OpenStep DEF Opener

LEMMA QuantifyKeeps ==
    ASSUME Control, Quantify
    PROVE  Control'
<1> DEFINE f == Waits("tail", pos, pos)
<1>1. /\ InExpression /\ doing = "prefix" /\ tokens' = tokens /\ Follows(tokens, Top, pos)
      /\ stack' = Append(stack, f) /\ pos' = pos + 1 /\ doing' = "typed_vars" /\ lo' = lo /\ min' = min
  BY Expression DEF Quantify, At, OnlyCall, InExpression
<1>2. pos \in DOMAIN tokens /\ pos \in 1..Len(tokens) /\ tokens[pos] \in Quantifier
  BY <1>1, Expression, PeekIn DEF Quantify, Quantifier
<1>3. f \in Frame /\ f.for = "tail" /\ f.at = pos /\ f.lo = pos /\ f.min = min
  BY <1>1, Expression DEF Waits, Frame
<1>4. FrameOK(tokens, pos', f)
  <2>1. pos \in Nat /\ pos >= 1 /\ pos' = pos + 1
    BY <1>1, Expression
  <2> HIDE DEF f
  <2>2. QED
    BY <1>2, <1>3, <2>1 DEF FrameOK
<1>5. StandsOn(tokens, f, Top)
  BY <1>1, <1>3, Expression DEF StandsOn, Header
<1>6. stack' \in Seq(Frame) /\ InOrder(tokens', pos', stack') /\ stack' # <<>> /\ Top' = f
  BY <1>1, <1>3, <1>4, <1>5, Expression, PushOK
<1>7. CallType'
  BY <1>1, <1>2, <1>6, Expression DEF CallType
<1>8. DoingOK'
  BY <1>1, <1>2, <1>3, <1>6 DEF DoingOK, InExpression
<1>9. QED
  BY <1>6, <1>7, <1>8 DEF Control, StackOK

LEMMA TypedVarKeeps ==
    ASSUME Control, TypedVar
    PROVE  Control'
<1>1. /\ CallType /\ StackOK /\ DoingOK /\ doing = "typed_vars" /\ stack # <<>> /\ stack \in Seq(Frame)
      /\ Top.for = "tail" /\ tokens[Top.at] \in Quantifier
      /\ pos \in Nat /\ pos >= 1 /\ Len(tokens) \in Nat /\ lo \in Nat /\ lo < pos
  <2>1. CallType /\ StackOK /\ DoingOK /\ doing = "typed_vars"
    BY DEF TypedVar, At, Control
  <2>2. QED
    BY <2>1 DEF DoingOK, CallType
<1>2. /\ Top \in Frame /\ FrameOK(tokens, pos, Top) /\ Len(stack) \in Nat
      /\ Top.for \in Header <=> Len(stack) = 1
      /\ Len(stack) > 1 => StandsOn(tokens, Top, stack[Len(stack) - 1])
      /\ Top.at \in Nat /\ Top.at < pos
  BY <1>1, TopType, FrameType DEF FrameOK
<1>3. CASE ~(Peek(0) \in Ident /\ Peek(1) = ":" /\ Peek(2) \in Ident /\ Peek(3) = "comma")
  BY <1>3, UnchangedKeeps DEF TypedVar, Refuse
<1>4. CASE Peek(0) \in Ident /\ Peek(1) = ":" /\ Peek(2) \in Ident /\ Peek(3) = "comma"
  <2>1. tokens' = tokens /\ pos + 3 \in 1..Len(tokens)
    BY <1>1, <1>4, PeekIn DEF TypedVar, OnlyCall, Refuse
  <2>2. CASE Peek(4) \in Ident /\ Peek(5) = ":"
    <3>1. pos' = pos + 4 /\ doing' = "typed_vars" /\ stack' = stack /\ lo' = lo /\ min' = min
      BY <1>4, <2>2 DEF TypedVar, GoOn
    <3>2. InOrder(tokens, pos', stack)
      BY <1>1, <3>1, OrderLasts DEF StackOK
    <3>3. CallType'
      BY <1>1, <2>1, <3>1 DEF CallType
    <3>4. Top' = Top
      BY <3>1 DEF Top
    <3>5. DoingOK'
      BY <1>1, <2>1, <3>1, <3>4 DEF DoingOK, InExpression
    <3>6. QED
      BY <2>1, <3>1, <3>2, <3>3, <3>5 DEF Control, StackOK
  <2>3. CASE ~(Peek(4) \in Ident /\ Peek(5) = ":")
    <3>1. Parse(Top, Below, 0, pos + 4)
      BY <1>4, <2>3 DEF TypedVar
    <3>2. pos + 4 \in pos..Len(tokens) + 1 /\ pos + 4 \in Nat /\ pos <= pos + 4 /\ pos \in Nat
      BY <1>1, <2>1
    <3>3. FrameOK(tokens, pos + 4, Top)
      BY <1>2, <3>2, FramesLast
    <3>4. tokens[Top.at] \notin Prefix
      BY <1>1 DEF Quantifier, Prefix
    <3>5. Power(tokens, Top) = 0 /\ Follows(tokens, Top, pos + 4)
      BY <1>1, <1>2, <3>4 DEF Power, Follows, Adjacent, IsSign
    <3>6. Top.for \in Opener /\ Top.for \notin Header
      BY <1>1 DEF Opener, Header
    <3>7. QED
      BY <1>1, <1>2, <2>1, <3>1, <3>2, <3>3, <3>5, <3>6, EnterSwap
  <2>4. QED
    BY <2>2, <2>3
<1>5. QED
  BY <1>3, <1>4

LEMMA FieldKeeps ==
    ASSUME Control, Field
    PROVE  Control'
<1>1. CASE Peek(1) \in Ident
  <2>1. /\ InExpression /\ doing = "postfix" /\ tokens' = tokens /\ stack' = stack /\ min' = min
        /\ pos' = pos + 2 /\ lo' = lo /\ doing' = "postfix"
    BY <1>1 DEF Field, At, GoOn, OnlyTree, InExpression
  <2>2. pos + 1 \in 1..Len(tokens)
    BY <1>1, <2>1, Expression, PeekIn DEF Ident
  <2>3. QED
    BY <2>1, <2>2, Expression, ValueKeeps
<1>2. CASE Peek(1) \notin Ident
  BY <1>2, UnchangedKeeps DEF Field, Refuse
<1>3. QED
  BY <1>1, <1>2

LEMMA PrimeKeeps ==
    ASSUME Control, Prime
    PROVE  Control'
<1>1. /\ InExpression /\ doing = "postfix" /\ tokens' = tokens /\ stack' = stack /\ min' = min
      /\ pos' = pos + 1 /\ lo' = lo /\ doing' = "postfix"
  BY DEF Prime, At, GoOn, OnlyTree, InExpression
<1>2. pos + 0 \in 1..Len(tokens)
  BY <1>1, Expression, PeekIn DEF Prime
<1>3. QED
  BY <1>1, <1>2, Expression, ValueKeeps

LEMMA NoPostfixKeeps ==
    ASSUME Control, NoPostfix
    PROVE  Control'
<1>1. /\ InExpression /\ doing = "postfix" /\ tokens' = tokens /\ stack' = stack /\ min' = min
      /\ pos' = pos /\ lo' = lo /\ doing' = "infix" /\ Tok(tokens, pos + 0) \notin {".", "'", "["}
  BY DEF NoPostfix, At, GoOn, OnlyCall, InExpression, Peek
<1>2. QED
  BY <1>1, Expression, ValueKeeps

LEMMA CloseTailKeeps ==
    ASSUME Control, CloseTail
    PROVE  Control'
<1>1. InExpression /\ tokens' = tokens /\ Top.for \in Opener /\ ValueTo(Top, "postfix", pos)
  BY DEF CloseTail, Complete, At, OnlyTree, InExpression, Opener
<1>2. QED
  BY <1>1, Expression, ValueToKeeps

LEMMA CloseBinaryKeeps ==
    ASSUME Control, CloseBinary
    PROVE  Control'
<1>1. /\ InExpression /\ tokens' = tokens /\ Top.for \in Opener /\ ValueTo(Top, "infix", pos)
      /\ Tok(tokens, pos + 0) \notin {".", "'", "["}
  BY DEF CloseBinary, Complete, At, OnlyTree, InExpression, Opener, Control, DoingOK, Peek
<1>2. QED
  BY <1>1, Expression, ValueToKeeps

LEMMA CloseBracketKeeps ==
    ASSUME Control, NEW for \in {"(", "after", "["}, NEW close \in {")", "]"}, CloseBracket(for, close)
    PROVE  Control'
<1>1. CASE Peek(0) = close
  <2>1. InExpression /\ tokens' = tokens /\ Top.for \in Opener /\ ValueTo(Top, "postfix", pos + 1)
    BY <1>1 DEF CloseBracket, Complete, At, OnlyTree, InExpression, Opener
  <2>2. pos + 0 \in 1..Len(tokens)
    BY <1>1, <2>1, Expression, PeekIn
  <2>3. QED
    BY <2>1, <2>2, Expression, ValueToKeeps
<1>2. CASE Peek(0) # close
  BY <1>2, UnchangedKeeps DEF CloseBracket, Refuse
<1>3. QED
  BY <1>1, <1>2

\* The frame on top reads on: what it stands on stays what it was.
LEMMA OverStep ==
    ASSUME Control, InExpression, tokens' = tokens, Top.for \in Opener \cup {"modifies", "binding"},
           Peek(0) # "eof",
           NEW f \in Frame, f.for \in Opener \cup Starter, f.for \notin Header, Parse(f, Below, 0, pos + 1),
           FrameOK(tokens, pos + 1, f), Power(tokens, f) = 0, Follows(tokens, f, pos + 1),
           NEW g \in {Top}, StandsOn(tokens, g, stack[Len(stack) - 1]) => StandsOn(tokens, f, stack[Len(stack) - 1])
    PROVE  Control'
<1>1. pos + 0 \in 1..Len(tokens) /\ pos + 1 \in pos..Len(tokens) + 1
  BY Expression, PeekIn
<1>2. /\ Len(stack) \in Nat /\ (Top.for \in Header <=> Len(stack) = 1)
      /\ Len(stack) > 1 => StandsOn(tokens, Top, stack[Len(stack) - 1])
  BY Expression, TopType
<1>3. Top.for \notin Header
  BY DEF Opener, Header
<1>4. Len(stack) > 1 => StandsOn(tokens, f, stack[Len(stack) - 1])
  BY <1>2
<1>5. QED
  BY <1>1, <1>2, <1>3, <1>4, Expression, EnterSwap

LEMMA TopReadsOn ==
    ASSUME Control, InExpression
    PROVE  Top \in Frame /\ FrameOK(tokens, pos + 1, Top) /\ Top.at \in Nat /\ Top.at < pos
<1>1. Top \in Frame /\ FrameOK(tokens, pos, Top) /\ pos \in Nat /\ pos + 1 \in Nat /\ pos <= pos + 1
  BY Expression
<1>2. FrameOK(tokens, pos + 1, Top)
  BY <1>1, FramesLast
<1>3. QED
  BY <1>1, <1>2, FrameType DEF FrameOK

LEMMA NextArgumentKeeps ==
    ASSUME Control, NextArgument
    PROVE  Control'
<1>1. InExpression /\ Top.for = "call"
  BY DEF NextArgument, Complete, At, InExpression
<1>2. CASE Peek(0) = "comma"
  <2>1. tokens' = tokens /\ Parse(Top, Below, 0, pos + 1)
    BY <1>2 DEF NextArgument, OnlyCall
  <2>2. Top \in Frame /\ FrameOK(tokens, pos + 1, Top) /\ Top.at \in Nat /\ Top.at < pos
    BY <1>1, TopReadsOn
  <2>3. Power(tokens, Top) = 0 /\ Follows(tokens, Top, pos + 1)
    BY <1>1, <2>2, Expression DEF Power, Follows, Adjacent, IsSign
  <2>4. QED
    BY <1>1, <1>2, <2>1, <2>2, <2>3, OverStep DEF Opener, Header
<1>3. CASE Peek(0) = ")"
  <2>1. tokens' = tokens /\ Top.for \in Opener /\ ValueTo(Top, "postfix", pos + 1)
    BY <1>1, <1>3 DEF NextArgument, OnlyTree, Opener
  <2>2. pos + 0 \in 1..Len(tokens)
    BY <1>1, <1>3, Expression, PeekIn
  <2>3. QED
    BY <1>1, <2>1, <2>2, Expression, ValueToKeeps
<1>4. CASE Peek(0) \notin {"comma", ")"}
  BY <1>4, UnchangedKeeps DEF NextArgument, Refuse
<1>5. QED
  BY <1>2, <1>3, <1>4

LEMMA ThenKeeps ==
    ASSUME Control, Then
    PROVE  Control'
<1>1. InExpression /\ Top.for = "if" /\ Top.for \in Opener
  BY DEF Then, Complete, At, InExpression, Opener
<1>2. CASE Peek(0) = "then"
  <2> DEFINE f == [Top EXCEPT !.for = "then"]
  <2>1. tokens' = tokens /\ Parse(f, Below, 0, pos + 1)
    BY <1>2 DEF Then, OnlyCall
  <2>2. Top \in Frame /\ FrameOK(tokens, pos + 1, Top) /\ Top.at \in Nat /\ Top.at < pos
    BY <1>1, TopReadsOn
  <2>3. f \in Frame /\ f.for = "then" /\ f.at = Top.at /\ f.lo = Top.lo /\ f.min = Top.min
    BY <2>2 DEF Frame
  <2> HIDE DEF f
  <2>4. FrameOK(tokens, pos + 1, f) /\ f.for \in Opener /\ f.for \notin Header
    BY <1>1, <2>2, <2>3 DEF FrameOK, Opener, Header
  <2>5. Power(tokens, f) = 0 /\ Follows(tokens, f, pos + 1)
    BY <2>2, <2>3, <1>1, Expression DEF Power, Follows, Adjacent, IsSign
  <2>6. StandsOn(tokens, Top, stack[Len(stack) - 1]) => StandsOn(tokens, f, stack[Len(stack) - 1])
    BY <1>1, <2>3, <2>4 DEF StandsOn
  <2>7. QED
    BY <1>1, <1>2, <2>1, <2>3, <2>4, <2>5, <2>6, OverStep
<1>3. CASE Peek(0) # "then"
  BY <1>3, UnchangedKeeps DEF Then, Refuse
<1>4. QED
  BY <1>2, <1>3

LEMMA ElseKeeps ==
    ASSUME Control, Else
    PROVE  Control'
<1>1. InExpression /\ Top.for = "then" /\ Top.for \in Opener
  BY DEF Else, Complete, At, InExpression, Opener
<1>2. CASE Peek(0) = "else"
  <2> DEFINE f == [Top EXCEPT !.for = "tail"]
  <2>1. tokens' = tokens /\ Parse(f, Below, 0, pos + 1)
    BY <1>2 DEF Else, OnlyCall
  <2>2. Top \in Frame /\ FrameOK(tokens, pos + 1, Top) /\ Top.at \in Nat /\ Top.at < pos
    BY <1>1, TopReadsOn
  <2>3. f \in Frame /\ f.for = "tail" /\ f.at = Top.at /\ f.lo = Top.lo /\ f.min = Top.min
    BY <2>2 DEF Frame
  <2> HIDE DEF f
  <2>4. tokens[f.at] = "if" /\ f.lo = f.at
    BY <1>1, <2>2, <2>3 DEF FrameOK
  <2>5. FrameOK(tokens, pos + 1, f) /\ f.for \in Opener /\ f.for \notin Header
    BY <1>1, <2>2, <2>3, <2>4 DEF FrameOK, Opener, Header
  <2>6. ~IsSign(tokens, f)
    BY <2>4 DEF IsSign, Prefix
  <2>7. Power(tokens, f) = 0 /\ Follows(tokens, f, pos + 1)
    BY <2>2, <2>3, <2>6, <1>1, Expression DEF Power, Follows, Adjacent
  <2>8. StandsOn(tokens, Top, stack[Len(stack) - 1]) => StandsOn(tokens, f, stack[Len(stack) - 1])
    BY <1>1, <2>3, <2>5 DEF StandsOn
  <2>9. QED
    BY <1>1, <1>2, <2>1, <2>3, <2>5, <2>7, <2>8, OverStep
<1>3. CASE Peek(0) # "else"
  BY <1>3, UnchangedKeeps DEF Else, Refuse
<1>4. QED
  BY <1>2, <1>3

-----------------------------------------------------------------------------
(* The steps of the declarations. *)

\* Only the declaration stands at the bottom.
LEMMA HeaderFirst ==
    ASSUME CallType, StackOK, stack # <<>>, NEW k \in 1..Len(stack)
    PROVE  /\ stack[k].for \in Header <=> k = 1
           /\ stack[k] \in Frame /\ FrameOK(tokens, pos, stack[k])
           /\ \/ k = 1 /\ stack[k].for \in Header
              \/ /\ k > 1 /\ stack[k].for \notin Header
                 /\ k - 1 \in 1..Len(stack) /\ StandsOn(tokens, stack[k], stack[k - 1])
<1>1. Len(stack) \in Nat /\ k \in Nat /\ k >= 1
  BY DEF CallType
<1>2. stack[1].for \in Header /\ FrameOK(tokens, pos, stack[k]) /\ stack[k] \in Frame
  BY ElementOfSeq DEF StackOK, InOrder, CallType
<1>3. k > 1 => StandsOn(tokens, stack[k], stack[k - 1]) /\ k - 1 \in 1..Len(stack)
  BY <1>1 DEF StackOK, InOrder
<1>4. k > 1 => stack[k].for \notin Header
  BY <1>3 DEF StandsOn
<1>5. \A n \in Nat : n >= 1 => n = 1 \/ n > 1
  OBVIOUS
<1>6. QED
  BY <1>1, <1>2, <1>3, <1>4, <1>5

\* What a frame of a declaration stands on.
LEMMA UnderPart ==
    ASSUME CallType, StackOK, stack # <<>>, Top.for \in {"clause", "modifies", "invariant", "section"}
    PROVE  /\ Len(stack) = 2 /\ stack[1].for = IF Top.for = "invariant" THEN "safety"
                                               ELSE IF Top.for = "section" THEN "example" ELSE "intent"
<1> DEFINE m == Len(stack)
<1>1. m \in Nat /\ m \in 1..m /\ Top = stack[m]
  BY TopType DEF Top, CallType
<1> HIDE DEF m
<1>2. stack[m].for \notin Header
  BY <1>1 DEF Header
<1>3. m > 1 /\ StandsOn(tokens, Top, stack[m - 1]) /\ m - 1 \in 1..m
  BY <1>1, <1>2, HeaderFirst DEF m
<1>4. stack[m - 1].for = IF Top.for = "invariant" THEN "safety"
                         ELSE IF Top.for = "section" THEN "example" ELSE "intent"
  BY <1>3 DEF StandsOn
<1>5. stack[m - 1].for \in Header
  BY <1>4 DEF Header
<1>6. m - 1 = 1
  BY <1>3, <1>5, HeaderFirst DEF m
<1>7. m = 2 /\ stack[m - 1] = stack[1]
  BY <1>1, <1>6
<1>8. QED
  BY <1>4, <1>7 DEF m

LEMMA UnderBinding ==
    ASSUME CallType, StackOK, stack # <<>>, Top.for = "binding"
    PROVE  /\ Len(stack) = 3 /\ stack[1].for = "example"
           /\ stack[2].for = "section" /\ stack[2].at = Top.at
<1> DEFINE m == Len(stack)
<1>1. m \in Nat /\ m \in 1..m /\ Top = stack[m]
  BY TopType DEF Top, CallType
<1> HIDE DEF m
<1>2. stack[m].for \notin Header
  BY <1>1 DEF Header
<1>3. m > 1 /\ StandsOn(tokens, Top, stack[m - 1]) /\ m - 1 \in 1..m
  BY <1>1, <1>2, HeaderFirst DEF m
<1>4. stack[m - 1].for = "section" /\ stack[m - 1].at = Top.at
  BY <1>3 DEF StandsOn
<1>5. stack[m - 1].for \notin Header
  BY <1>4 DEF Header
<1>6. m - 1 > 1 /\ StandsOn(tokens, stack[m - 1], stack[m - 1 - 1]) /\ m - 1 - 1 \in 1..m
  BY <1>3, <1>5, HeaderFirst DEF m
<1>7. stack[m - 1 - 1].for = "example"
  BY <1>4, <1>6 DEF StandsOn
<1>8. m - 1 - 1 = 1
  BY <1>6, <1>7, HeaderFirst DEF Header, m
<1>9. m = 3 /\ stack[m - 1] = stack[2] /\ stack[m - 1 - 1] = stack[1]
  BY <1>1, <1>8
<1>10. QED
  BY <1>4, <1>7, <1>9 DEF m

\* A part of a declaration is read, and the loop that called for it goes on.
LEMMA ReturnStep ==
    ASSUME Control, stack # <<>>, tokens' = tokens,
           NEW where \in {"program", "body", "bindings"}, NEW n \in pos..Len(tokens) + 1, Return(where, n),
           where = "program" => Len(stack) = 1,
           where = "body" => Len(stack) = 2 /\ stack[1].for \in {"intent", "safety", "example"},
           where = "bindings" => Len(stack) = 3 /\ stack[2].for = "section"
    PROVE  Control'
<1>1. /\ CallType /\ StackOK /\ pos \in Nat /\ pos >= 1 /\ Len(tokens) \in Nat /\ Len(stack) \in Nat
      /\ pos' = n /\ doing' = where /\ stack' = Below /\ lo' = lo /\ min' = min
  BY DEF Control, CallType, Return
<1>2. pos' \in Nat /\ pos <= pos' /\ pos' \in 1..Len(tokens) + 1 /\ lo' \in 0..pos' - 1
  BY <1>1 DEF CallType
<1>3. /\ stack' \in Seq(Frame) /\ InOrder(tokens', pos', stack') /\ Len(stack') = Len(stack) - 1
      /\ stack' = <<>> <=> Len(stack) = 1
      /\ Len(stack) > 1 => Top' = stack[Len(stack) - 1]
  BY <1>1, <1>2, PopOK
<1>4. CallType'
  BY <1>1, <1>2, <1>3 DEF CallType
<1>5. DoingOK'
  <2>1. CASE where = "program"
    BY <1>1, <1>3, <2>1 DEF DoingOK, InExpression
  <2>2. CASE where = "body"
    <3>1. Len(stack) = 2 /\ Len(stack) > 1 /\ Len(stack) - 1 = 1 /\ Len(stack) # 1
      <4>1. \A k \in Nat : k = 2 => k > 1 /\ k - 1 = 1 /\ k # 1
        OBVIOUS
      <4>2. QED
        BY <1>1, <2>2, <4>1
    <3>2. Len(stack') = 1 /\ Top' = stack[1] /\ stack' # <<>>
      BY <1>3, <3>1
    <3>3. QED
      BY <1>1, <2>2, <3>2 DEF DoingOK, InExpression
  <2>3. CASE where = "bindings"
    <3>1. Len(stack) = 3 /\ Len(stack) > 1 /\ Len(stack) - 1 = 2 /\ Len(stack) # 1
      <4>1. \A k \in Nat : k = 3 => k > 1 /\ k - 1 = 2 /\ k # 1
        OBVIOUS
      <4>2. QED
        BY <1>1, <2>3, <4>1
    <3>2. Len(stack') = 2 /\ Top' = stack[2] /\ stack' # <<>>
      BY <1>3, <3>1
    <3>3. QED
      BY <1>1, <2>3, <3>2 DEF DoingOK, InExpression
  <2>4. QED
    BY <2>1, <2>2, <2>3
<1>6. QED
  BY <1>3, <1>4, <1>5 DEF Control, StackOK

LEMMA PlainFrame ==
    ASSUME NEW t, NEW n \in Nat, NEW f \in Frame, f.for \notin Opener \cup {"section"},
           f.at \in DOMAIN t, f.at < n, f.lo <= n
    PROVE  FrameOK(t, n, f)
  BY DEF FrameOK, Opener

LEMMA DeclarationKeeps ==
    ASSUME Control, Declaration
    PROVE  Control'
<1>1. /\ CallType /\ StackOK /\ doing = "program" /\ stack = <<>> /\ tokens' = tokens
      /\ Peek(0) \in Header
  BY DEF Control, DoingOK, Declaration, At, OnlyCall
<1>2. pos + 0 \in 1..Len(tokens) /\ pos \in DOMAIN tokens /\ Peek(0) = tokens[pos] /\ pos \in Nat /\ Len(tokens) \in Nat
  BY <1>1, PeekIn DEF Header, CallType
<1>3. CASE Peek(0) = "theorem"
  <2> DEFINE f == Waits("theorem", pos, pos + 1)
  <2>1. Parse(f, stack, 0, pos + 1) /\ pos + 1 \in pos..Len(tokens) + 1
    BY <1>2, <1>3 DEF Declaration
  <2>2. /\ f \in Frame /\ FrameOK(tokens, pos + 1, f) /\ Follows(tokens, f, pos + 1) /\ Power(tokens, f) = 0
    BY <1>1, <1>2 DEF FrameOK, Follows, Adjacent, IsSign, Power, Waits, Frame, Header, Opener, CallType
  <2>3. f.for \in Starter /\ f.for \in Header
    BY DEF Waits, Starter, Header
  <2>4. QED
    BY <1>1, <2>1, <2>2, <2>3, EnterPush
<1>4. CASE Peek(0) # "theorem"
  <2> DEFINE f == Waits(Peek(0), pos, pos)
  <2>1. stack' = Append(stack, f) /\ pos' = pos + 1 /\ doing' = "body" /\ lo' = lo /\ min' = min
    BY <1>4 DEF Declaration
  <2>2. f.for \in {"intent", "safety", "example"} /\ f.at = pos /\ f.lo = pos /\ f \in Frame
    BY <1>1, <1>2, <1>4 DEF Waits, Header, Frame, CallType
  <2> HIDE DEF f
  <2>3. FrameOK(tokens, pos', f) /\ f.for \in Header
    <3>1. f.for \in Header /\ f.for \notin Opener \cup {"section"}
      BY <2>2 DEF Header, Opener
    <3>2. QED
      BY <1>2, <2>1, <2>2, <3>1, PlainFrame
  <2>4. /\ stack' \in Seq(Frame) /\ InOrder(tokens', pos', stack') /\ stack' # <<>> /\ Top' = f
        /\ Len(stack') = Len(stack) + 1
    BY <1>1, <1>2, <2>1, <2>2, <2>3, PushOK
  <2>5. Len(stack') = 1
    BY <1>1, <2>4
  <2>6. CallType'
    BY <1>1, <1>2, <2>1, <2>4 DEF CallType
  <2>7. DoingOK'
    BY <2>1, <2>2, <2>4, <2>5 DEF DoingOK, InExpression
  <2>8. QED
    BY <2>4, <2>6, <2>7 DEF Control, StackOK
<1>5. QED
  BY <1>3, <1>4

LEMMA TokenRead ==
    ASSUME Control, Peek(0) # "eof"
    PROVE  /\ pos + 1 \in pos..Len(tokens) + 1 /\ pos \in DOMAIN tokens /\ pos \in Nat
           /\ Len(tokens) \in Nat /\ Peek(0) = tokens[pos]
<1>1. CallType
  BY DEF Control
<1>2. pos + 0 \in 1..Len(tokens) /\ pos + 0 \in DOMAIN tokens /\ pos \in Nat /\ Len(tokens) \in Nat
  BY <1>1, PeekIn DEF CallType
<1>3. Peek(0) = tokens[pos + 0]
  BY <1>1, PeekIn
<1>4. QED
  BY <1>2, <1>3

LEMMA FinishKeeps ==
    ASSUME Control, NEW content, Finish(content), stack # <<>>, Len(stack) = 1, Peek(0) = "rbrace"
    PROVE  Control'
<1>1. tokens' = tokens /\ Return("program", pos + 1)
  BY DEF Finish
<1>2. pos + 1 \in pos..Len(tokens) + 1
  BY TokenRead
<1>3. QED
  BY <1>1, <1>2, ReturnStep

LEMMA EndOfBodyKeeps ==
    ASSUME Control, EndOfBody
    PROVE  Control'
  BY FinishKeeps DEF EndOfBody, At, Control, DoingOK

LEMMA CloseTheoremKeeps ==
    ASSUME Control, CloseTheorem
    PROVE  Control'
<1>1. /\ InExpression /\ Top.for \in Header
  BY DEF CloseTheorem, Complete, At, InExpression, Header
<1>2. Len(stack) = 1 /\ stack # <<>>
  BY <1>1, Expression, TopType
<1>3. CASE Peek(0) = "rbrace"
  BY <1>2, <1>3, FinishKeeps DEF CloseTheorem
<1>4. CASE Peek(0) # "rbrace"
  BY <1>4, UnchangedKeeps DEF CloseTheorem, Refuse
<1>5. QED
  BY <1>3, <1>4

\* A declaration calls parse_pratt for one of its parts.
LEMMA StartStep ==
    ASSUME Control, doing = "body", tokens' = tokens, Peek(0) # "eof",
           NEW for \in {"clause", "modifies", "invariant"},
           Top.for = IF for = "invariant" THEN "safety" ELSE "intent",
           NEW n \in pos + 1..Len(tokens) + 1,
           Parse(Waits(for, pos, pos + 1), stack, 0, n)
    PROVE  Control'
<1> DEFINE f == Waits(for, pos, pos + 1)
<1>1. CallType /\ StackOK /\ stack # <<>>
  BY DEF Control, DoingOK
<1>2. pos \in DOMAIN tokens /\ pos \in Nat /\ Len(tokens) \in Nat /\ min \in Nat /\ n \in Nat /\ pos + 1 <= n
  BY <1>1, PeekIn DEF CallType
<1>3. f.for = for /\ f.at = pos /\ f.lo = pos + 1 /\ f \in Frame
  BY <1>2 DEF Waits, Frame
<1>4. Parse(f, stack, 0, n)
  OBVIOUS
<1> HIDE DEF f
<1>5. f.for \in Starter /\ f.for \notin Header /\ f.for \notin Opener
  BY <1>3 DEF Starter, Header, Opener
<1>6. FrameOK(tokens, n, f)
  BY <1>2, <1>3, <1>5, PlainFrame
<1>7. Follows(tokens, f, n) /\ Power(tokens, f) = 0
  BY <1>2, <1>3 DEF Follows, Adjacent, IsSign, Power
<1>8. StandsOn(tokens, f, Top)
  BY <1>3, <1>5 DEF StandsOn
<1>9. n \in pos..Len(tokens) + 1
  BY <1>2
<1>10. QED
  BY <1>1, <1>3, <1>4, <1>5, <1>6, <1>7, <1>8, <1>9, EnterPush

LEMMA InvariantKeeps ==
    ASSUME Control, Invariant
    PROVE  Control'
<1>1. doing = "body" /\ tokens' = tokens /\ Peek(0) = "invariant" /\ Top.for = "safety"
      /\ Parse(Waits("invariant", pos, pos + 1), stack, 0, pos + 1)
  BY DEF Invariant, InBody, At, OnlyCall
<1>2. pos + 0 \in 1..Len(tokens) /\ pos \in Nat /\ Len(tokens) \in Nat
  BY <1>1, PeekIn DEF Control, CallType
<1>3. pos + 1 \in pos + 1..Len(tokens) + 1
  BY <1>2
<1>4. QED
  BY <1>1, <1>3, StartStep

LEMMA ClauseKeeps ==
    ASSUME Control, Clause
    PROVE  Control'
<1> DEFINE n == IF Peek(1) \in Ident /\ Peek(2) = ":" THEN pos + 3 ELSE pos + 1
<1>1. doing = "body" /\ tokens' = tokens /\ Peek(0) \in ClauseKind /\ Top.for = "intent"
      /\ Parse(Waits("clause", pos, pos + 1), stack, 0, n)
  BY DEF Clause, InBody, At, OnlyCall
<1>2. pos + 0 \in 1..Len(tokens) /\ pos \in Nat /\ Len(tokens) \in Nat
  BY <1>1, PeekIn DEF Control, CallType, ClauseKind
<1>3. n \in pos + 1..Len(tokens) + 1
  <2>1. CASE Peek(1) \in Ident /\ Peek(2) = ":"
    <3>1. pos + 2 \in 1..Len(tokens)
      BY <2>1, PeekIn DEF Control
    <3>2. QED
      BY <1>2, <2>1, <3>1
  <2>2. CASE ~(Peek(1) \in Ident /\ Peek(2) = ":")
    BY <1>2, <2>2
  <2>3. QED
    BY <2>1, <2>2
<1> HIDE DEF n
<1>4. QED
  BY <1>1, <1>3, StartStep DEF ClauseKind

LEMMA ModifiesKeeps ==
    ASSUME Control, Modifies
    PROVE  Control'
<1>1. doing = "body" /\ Peek(0) = "modifies" /\ Top.for = "intent" /\ CallType /\ StackOK /\ DoingOK
  BY DEF Modifies, InBody, At, Control
<1>2. pos + 0 \in 1..Len(tokens) /\ pos \in Nat /\ pos >= 1 /\ Len(tokens) \in Nat /\ lo \in Nat /\ lo < pos
  BY <1>1, PeekIn DEF CallType
<1>3. CASE \E p \in parts : tokens[p.at] = "modifies"
  BY <1>3, UnchangedKeeps DEF Modifies, Refuse
<1>4. CASE ~(\E p \in parts : tokens[p.at] = "modifies") /\ Peek(1) = "*"
  <2>1. /\ pos' = pos + 2 /\ doing' = "body" /\ stack' = stack /\ lo' = lo /\ min' = min /\ tokens' = tokens
    BY <1>4 DEF Modifies, GoOn
  <2>2. pos + 1 \in 1..Len(tokens)
    BY <1>1, <1>4, PeekIn
  <2>3. CallType' /\ Top' = Top
    BY <1>1, <1>2, <2>1, <2>2 DEF CallType, Top
  <2>4. InOrder(tokens, pos', stack)
    BY <1>1, <1>2, <2>1, OrderLasts DEF StackOK, CallType
  <2>5. DoingOK'
    BY <1>1, <2>1, <2>3 DEF DoingOK, InExpression
  <2>6. QED
    BY <2>1, <2>3, <2>4, <2>5 DEF Control, StackOK
<1>5. CASE ~(\E p \in parts : tokens[p.at] = "modifies") /\ Peek(1) # "*"
  <2>1. tokens' = tokens /\ Parse(Waits("modifies", pos, pos + 1), stack, 0, pos + 1)
    BY <1>5 DEF Modifies, OnlyCall
  <2>2. pos + 1 \in pos + 1..Len(tokens) + 1
    BY <1>2
  <2>3. QED
    BY <1>1, <2>1, <2>2, StartStep
<1>6. QED
  BY <1>3, <1>4, <1>5

LEMMA CloseInvariantKeeps ==
    ASSUME Control, CloseInvariant
    PROVE  Control'
<1>1. InExpression /\ Top.for = "invariant" /\ tokens' = tokens /\ Return("body", pos)
  BY DEF CloseInvariant, Complete, At, Add, InExpression
<1>2. Len(stack) = 2 /\ stack[1].for = "safety" /\ stack # <<>> /\ pos \in pos..Len(tokens) + 1
  BY <1>1, Expression, UnderPart
<1>3. QED
  BY <1>1, <1>2, ReturnStep

LEMMA CloseClauseKeeps ==
    ASSUME Control, CloseClause
    PROVE  Control'
<1>1. InExpression /\ Top.for = "clause"
  BY DEF CloseClause, Complete, At, InExpression
<1>2. /\ Len(stack) = 2 /\ stack[1].for = "intent" /\ stack # <<>> /\ pos \in pos..Len(tokens) + 1
      /\ pos \in Nat /\ Len(tokens) \in Nat /\ CallType
  BY <1>1, Expression, UnderPart
<1>3. CASE Peek(0) # "else"
  <2>1. tokens' = tokens /\ Return("body", pos)
    BY <1>3 DEF CloseClause, Add
  <2>2. QED
    BY <1>2, <2>1, ReturnStep
<1>4. CASE Peek(0) = "else" /\ tokens[Top.at] = "require" /\ Peek(1) = "reject"
  <2>1. tokens' = tokens /\ Return("body", pos + 2)
    BY <1>4 DEF CloseClause, Add
  <2>2. pos + 1 \in 1..Len(tokens)
    BY <1>2, <1>4, PeekIn
  <2>3. pos + 2 \in pos..Len(tokens) + 1
    BY <1>2, <2>2
  <2>4. QED
    BY <1>2, <2>1, <2>3, ReturnStep
<1>5. CASE Peek(0) = "else" /\ ~(tokens[Top.at] = "require" /\ Peek(1) = "reject")
  BY <1>5, UnchangedKeeps DEF CloseClause, Refuse
<1>6. QED
  BY <1>3, <1>4, <1>5

LEMMA ClosePathKeeps ==
    ASSUME Control, ClosePath
    PROVE  Control'
<1>1. InExpression /\ Top.for = "modifies" /\ tokens' = tokens
  BY DEF ClosePath, Complete, At, Add, InExpression
<1>2. /\ Len(stack) = 2 /\ stack[1].for = "intent" /\ stack # <<>> /\ pos \in pos..Len(tokens) + 1
      /\ pos \in Nat /\ Len(tokens) \in Nat
  BY <1>1, Expression, UnderPart
<1>3. CASE Peek(0) # "comma"
  <2>1. Return("body", pos)
    BY <1>3 DEF ClosePath
  <2>2. QED
    BY <1>1, <1>2, <2>1, ReturnStep
<1>4. CASE Peek(0) = "comma"
  <2> DEFINE f == [Top EXCEPT !.lo = pos + 1]
  <2>1. Parse(f, Below, 0, pos + 1)
    BY <1>4 DEF ClosePath
  <2>2. Top \in Frame /\ FrameOK(tokens, pos + 1, Top) /\ Top.at \in Nat /\ Top.at < pos
    BY <1>1, TopReadsOn
  <2>3. f \in Frame /\ f.for = "modifies" /\ f.at = Top.at /\ f.lo = pos + 1 /\ f.min = Top.min
    BY <1>1, <1>2, <2>2 DEF Frame
  <2> HIDE DEF f
  <2>4. FrameOK(tokens, pos + 1, f)
    BY <1>1, <1>2, <2>2, <2>3 DEF FrameOK, Opener
  <2>5. Power(tokens, f) = 0 /\ Follows(tokens, f, pos + 1)
    BY <1>2, <2>2, <2>3 DEF Power, Follows, Adjacent, IsSign
  <2>6. f.for \in Starter /\ f.for \notin Header
    BY <2>3 DEF Starter, Header
  <2>7. StandsOn(tokens, Top, stack[Len(stack) - 1]) => StandsOn(tokens, f, stack[Len(stack) - 1])
    BY <1>1, <2>3, <2>6 DEF StandsOn, Opener
  <2>8. QED
    BY <1>1, <1>4, <2>1, <2>3, <2>4, <2>5, <2>6, <2>7, OverStep
<1>5. QED
  BY <1>3, <1>4

\* The loops of a declaration look at the frame on top.
LEMMA InLoop ==
    ASSUME Control, doing \in {"body", "bindings", "path"}
    PROVE  /\ CallType /\ StackOK /\ stack # <<>> /\ stack \in Seq(Frame) /\ min \in Nat
           /\ pos \in Nat /\ pos >= 1 /\ Len(tokens) \in Nat /\ lo \in Nat /\ lo < pos
           /\ Len(stack) = IF doing = "body" THEN 1 ELSE IF doing = "bindings" THEN 2 ELSE 3
           /\ doing = "bindings" => Top.for = "section"
           /\ doing = "path" => Top.for = "binding"
           /\ Top \in Frame /\ FrameOK(tokens, pos, Top) /\ Top.at \in Nat /\ Top.at < pos
           /\ Top.at \in DOMAIN tokens
<1>1. CallType /\ StackOK /\ DoingOK
  BY DEF Control
<1>2. stack # <<>>
  BY <1>1 DEF DoingOK
<1>3. Top \in Frame /\ FrameOK(tokens, pos, Top)
  BY <1>1, <1>2, TopType
<1>4. Top.at \in Nat /\ Top.at < pos /\ Top.at \in DOMAIN tokens
  BY <1>3, FrameType DEF FrameOK
<1>5. /\ Len(stack) = IF doing = "body" THEN 1 ELSE IF doing = "bindings" THEN 2 ELSE 3
      /\ doing = "bindings" => Top.for = "section"
      /\ doing = "path" => Top.for = "binding"
  BY <1>1 DEF DoingOK
<1>6. QED
  BY <1>1, <1>2, <1>3, <1>4, <1>5 DEF CallType

LEMMA SectionKeeps ==
    ASSUME Control, Section
    PROVE  Control'
<1>1. doing = "body" /\ Top.for = "example" /\ CallType /\ StackOK /\ stack # <<>> /\ Len(stack) = 1
  BY InLoop DEF Section, InBody, At
<1>2. CASE Peek(0) \in Ident /\ Peek(1) = ":" /\ Peek(2) = "lbrace"
  <2> DEFINE f == Waits("section", pos, pos)
  <2>1. /\ tokens' = tokens /\ stack' = Append(stack, f) /\ pos' = pos + 3 /\ doing' = "bindings"
        /\ lo' = lo /\ min' = min
    BY <1>2 DEF Section, OnlyCall
  <2>2. pos \in DOMAIN tokens /\ pos \in Nat /\ Len(tokens) \in Nat
    BY <1>2, TokenRead DEF Ident
  <2>0. pos + 2 \in 1..Len(tokens)
    BY <1>1, <1>2, PeekIn
  <2>3. Tok(tokens, pos + 1) = ":" /\ Tok(tokens, pos + 2) = "lbrace"
    BY <1>2 DEF Peek
  <2>4. f \in Frame /\ f.for = "section" /\ f.at = pos /\ f.lo = pos /\ f.min = min
    BY <1>1, <2>2 DEF Waits, Frame, CallType
  <2> HIDE DEF f
  <2>5. pos' \in Nat /\ pos <= pos' /\ pos' \in 1..Len(tokens) + 1 /\ pos < pos' /\ f.at < pos'
    <3>1. pos + 2 <= Len(tokens) /\ pos >= 1
      BY <2>0, <2>2
    <3>2. pos' = pos + 3 /\ f.at = pos
      BY <2>1, <2>4
    <3>3. QED
      BY <2>2, <3>1, <3>2
  <2>6. FrameOK(tokens, pos', f)
    BY <2>2, <2>3, <2>4, <2>5 DEF FrameOK, Opener
  <2>7. StandsOn(tokens, f, Top)
    BY <1>1, <2>4 DEF StandsOn, Header, Opener
  <2>8. /\ stack' \in Seq(Frame) /\ InOrder(tokens', pos', stack') /\ stack' # <<>> /\ Top' = f
        /\ Len(stack') = Len(stack) + 1
    BY <1>1, <2>1, <2>4, <2>5, <2>6, <2>7, PushOK
  <2>9. Len(stack') = 2
    BY <1>1, <2>8
  <2>10. CallType'
    BY <1>1, <2>1, <2>5, <2>8 DEF CallType
  <2>11. DoingOK'
    BY <2>1, <2>4, <2>8, <2>9 DEF DoingOK, InExpression
  <2>12. QED
    BY <2>8, <2>10, <2>11 DEF Control, StackOK
<1>3. CASE ~(Peek(0) \in Ident /\ Peek(1) = ":" /\ Peek(2) = "lbrace")
  BY <1>3, UnchangedKeeps DEF Section, Refuse
<1>4. QED
  BY <1>2, <1>3

LEMMA BindingKeeps ==
    ASSUME Control, Binding
    PROVE  Control'
<1>1. doing = "bindings" /\ CallType /\ StackOK /\ stack # <<>> /\ Len(stack) = 2 /\ Top.for = "section"
  BY InLoop DEF Binding, At
<1>2. CASE Peek(0) \in Ident
  <2> DEFINE f == Waits("binding", Top.at, pos)
  <2>1. /\ tokens' = tokens /\ stack' = Append(stack, f) /\ pos' = pos + 1 /\ doing' = "path"
        /\ lo' = lo /\ min' = min
    BY <1>2 DEF Binding, OnlyCall
  <2>2. pos + 1 \in pos..Len(tokens) + 1 /\ pos \in Nat /\ Len(tokens) \in Nat
    BY <1>2, TokenRead DEF Ident
  <2>3. Top.at \in Nat /\ Top.at < pos /\ Top.at \in DOMAIN tokens /\ min \in Nat
    BY <1>1, InLoop
  <2>4. f \in Frame /\ f.for = "binding" /\ f.at = Top.at /\ f.lo = pos /\ f.min = min
    BY <2>2, <2>3 DEF Waits, Frame
  <2> HIDE DEF f
  <2>5. pos' \in Nat /\ pos <= pos' /\ pos' \in 1..Len(tokens) + 1 /\ f.at < pos' /\ f.lo <= pos'
    BY <1>1, <2>1, <2>2, <2>3, <2>4
  <2>6. FrameOK(tokens, pos', f)
    BY <2>3, <2>4, <2>5, PlainFrame DEF Opener
  <2>7. StandsOn(tokens, f, Top)
    BY <1>1, <2>4 DEF StandsOn, Header, Opener
  <2>8. /\ stack' \in Seq(Frame) /\ InOrder(tokens', pos', stack') /\ stack' # <<>> /\ Top' = f
        /\ Len(stack') = Len(stack) + 1
    BY <1>1, <2>1, <2>4, <2>5, <2>6, <2>7, PushOK
  <2>9. Len(stack') = 3
    BY <1>1, <2>8
  <2>10. CallType'
    BY <1>1, <2>1, <2>2, <2>5, <2>8 DEF CallType
  <2>11. DoingOK'
    BY <2>1, <2>4, <2>8, <2>9 DEF DoingOK, InExpression
  <2>12. QED
    BY <2>8, <2>10, <2>11 DEF Control, StackOK
<1>3. CASE Peek(0) \notin Ident
  BY <1>3, UnchangedKeeps DEF Binding, Refuse
<1>4. QED
  BY <1>2, <1>3

LEMMA PathGoesOn ==
    ASSUME Control, doing = "path", tokens' = tokens, NEW n \in pos..Len(tokens) + 1, GoOn("path", n)
    PROVE  Control'
<1>1. /\ CallType /\ StackOK /\ pos \in Nat /\ pos >= 1 /\ Len(tokens) \in Nat /\ stack \in Seq(Frame)
      /\ stack # <<>> /\ Top.for = "binding" /\ Len(stack) = 3
      /\ pos' = n /\ doing' = "path" /\ stack' = stack /\ lo' = lo /\ min' = min
  BY InLoop DEF GoOn
<1>2. pos' \in Nat /\ pos <= pos' /\ pos' \in 1..Len(tokens) + 1
  BY <1>1
<1>3. InOrder(tokens, pos', stack)
  BY <1>1, <1>2, OrderLasts DEF StackOK
<1>4. CallType'
  BY <1>1, <1>2 DEF CallType
<1>5. Top' = Top
  BY <1>1 DEF Top
<1>6. DoingOK'
  BY <1>1, <1>5 DEF DoingOK, InExpression
<1>7. QED
  BY <1>1, <1>3, <1>4, <1>6 DEF Control, StackOK

LEMMA PathFieldKeeps ==
    ASSUME Control, PathField
    PROVE  Control'
<1>1. doing = "path" /\ tokens' = tokens /\ GoOn("path", pos + 2) /\ Peek(1) \in Ident
  BY DEF PathField, At, OnlyCall
<1>2. pos + 1 \in 1..Len(tokens) /\ pos \in Nat /\ Len(tokens) \in Nat
  BY <1>1, InLoop, PeekIn DEF Ident
<1>3. pos + 2 \in pos..Len(tokens) + 1
  BY <1>2
<1>4. QED
  BY <1>1, <1>3, PathGoesOn

LEMMA PathPrimeKeeps ==
    ASSUME Control, PathPrime
    PROVE  Control'
<1>1. doing = "path" /\ tokens' = tokens /\ GoOn("path", pos + 1) /\ Peek(0) = "'"
  BY DEF PathPrime, At, OnlyCall
<1>2. pos + 1 \in pos..Len(tokens) + 1
  BY <1>1, TokenRead
<1>3. QED
  BY <1>1, <1>2, PathGoesOn

LEMMA EndOfPathKeeps ==
    ASSUME Control, EndOfPath
    PROVE  Control'
<1>1. doing = "path" /\ tokens' = tokens /\ Parse(Top, Below, 0, pos + 1) /\ Peek(0) = ":"
  BY DEF EndOfPath, At, OnlyCall
<1>2. pos + 1 \in pos..Len(tokens) + 1
  BY <1>1, TokenRead
<1>3. /\ CallType /\ StackOK /\ stack # <<>> /\ Top.for = "binding" /\ Top \in Frame /\ FrameOK(tokens, pos, Top)
      /\ pos \in Nat /\ Top.at \in Nat /\ Top.at < pos
  BY <1>1, InLoop
<1>4. pos + 1 \in Nat /\ pos <= pos + 1
  BY <1>3
<1>5. FrameOK(tokens, pos + 1, Top)
  BY <1>3, <1>4, FramesLast
<1>6. Power(tokens, Top) = 0 /\ Follows(tokens, Top, pos + 1)
  BY <1>3 DEF Power, Follows, Adjacent, IsSign
<1>7. Top.for \in Starter /\ Top.for \notin Header
  BY <1>3 DEF Starter, Header
<1>8. /\ Top.for \in Header <=> Len(stack) = 1
      /\ Len(stack) > 1 => StandsOn(tokens, Top, stack[Len(stack) - 1])
  BY <1>3, TopType
<1>9. QED
  BY <1>1, <1>2, <1>3, <1>5, <1>6, <1>7, <1>8, EnterSwap

LEMMA CloseBindingKeeps ==
    ASSUME Control, CloseBinding
    PROVE  Control'
<1>1. InExpression /\ Top.for = "binding"
  BY DEF CloseBinding, Complete, At, InExpression
<1>2. CASE Peek(0) \in {"comma", "rbrace"}
  <2> DEFINE n == IF Peek(0) = "comma" THEN pos + 1 ELSE pos
  <2>1. tokens' = tokens /\ Return("bindings", n)
    BY <1>2 DEF CloseBinding
  <2>2. n \in pos..Len(tokens) + 1
    <3>1. pos + 1 \in pos..Len(tokens) + 1 /\ pos \in Nat /\ Len(tokens) \in Nat
      BY <1>2, TokenRead
    <3>2. n = pos \/ n = pos + 1
      OBVIOUS
    <3> HIDE DEF n
    <3>3. QED
      BY <3>1, <3>2
  <2>3. Len(stack) = 3 /\ stack[2].for = "section" /\ stack # <<>>
    BY <1>1, Expression, UnderBinding
  <2> HIDE DEF n
  <2>4. QED
    BY <2>1, <2>2, <2>3, ReturnStep
<1>3. CASE Peek(0) \notin {"comma", "rbrace"}
  BY <1>3, UnchangedKeeps DEF CloseBinding, Refuse
<1>4. QED
  BY <1>2, <1>3

LEMMA EndOfSectionKeeps ==
    ASSUME Control, EndOfSection
    PROVE  Control'
<1>1. doing = "bindings" /\ Peek(0) = "rbrace"
  BY DEF EndOfSection, At
<1>2. CASE tokens[Top.at] \in {"given", "expect"}
  <2> DEFINE n == IF Peek(1) = "comma" THEN pos + 2 ELSE pos + 1
  <2>1. tokens' = tokens /\ Return("body", n)
    BY <1>2 DEF EndOfSection
  <2>2. n \in pos..Len(tokens) + 1
    <3>1. pos + 1 \in pos..Len(tokens) + 1 /\ pos \in Nat /\ Len(tokens) \in Nat
      BY <1>1, TokenRead
    <3>2. (Peek(1) = "comma" /\ n = pos + 2) \/ n = pos + 1
      OBVIOUS
    <3>3. Peek(1) = "comma" => pos + 1 \in 1..Len(tokens)
      BY <1>1, InLoop, PeekIn
    <3>4. (pos + 1 \in 1..Len(tokens) /\ n = pos + 2) \/ n = pos + 1
      BY <3>2, <3>3
    <3> HIDE DEF n
    <3>5. QED
      BY <3>1, <3>4
  <2>3. CallType /\ StackOK /\ stack # <<>> /\ Top.for = "section"
    BY <1>1, InLoop
  <2>4. Len(stack) = 2 /\ stack[1].for = "example"
    BY <2>3, UnderPart
  <2> HIDE DEF n
  <2>5. QED
    BY <2>1, <2>2, <2>3, <2>4, ReturnStep
<1>3. CASE tokens[Top.at] \notin {"given", "expect"}
  BY <1>3, UnchangedKeeps DEF EndOfSection, Refuse
<1>4. QED
  BY <1>2, <1>3

\* The steps that only give an answer.
LEMMA AnswerKeeps ==
    ASSUME Control, EndOfFile \/ NoDeclaration \/ NoExpression \/ NoInvariant \/ NoClause \/ NoPath
    PROVE  UNCHANGED <<tokens, call, nodes, built>> /\ Control'
<1>1. UNCHANGED <<tokens, call, nodes, built>>
  BY DEF EndOfFile, NoDeclaration, NoExpression, NoInvariant, NoClause, NoPath, Refuse
<1>2. QED
  BY <1>1, UnchangedKeeps

LEMMA ControlKeeps ==
    ASSUME Control, [Next]_vars
    PROVE  Control'
<1>1. CASE Atom \/ Call \/ Unary \/ Bracket \/ After \/ Quantify \/ TypedVar
  BY <1>1, AtomKeeps, CallKeeps, UnaryKeeps, BracketKeeps, AfterKeeps, QuantifyKeeps, TypedVarKeeps
<1>2. CASE Field \/ Prime \/ Index \/ NoPostfix \/ Operator
  BY <1>2, FieldKeeps, PrimeKeeps, IndexKeeps, NoPostfixKeeps, OperatorKeeps
<1>3. CASE CloseTail \/ CloseBinary \/ NextArgument \/ Then \/ Else
  BY <1>3, CloseTailKeeps, CloseBinaryKeeps, NextArgumentKeeps, ThenKeeps, ElseKeeps
<1>4. CASE CloseBracket("(", ")") \/ CloseBracket("after", ")") \/ CloseBracket("[", "]")
  BY <1>4, CloseBracketKeeps
<1>5. CASE Declaration \/ EndOfBody \/ CloseTheorem \/ Invariant \/ CloseInvariant
  BY <1>5, DeclarationKeeps, EndOfBodyKeeps, CloseTheoremKeeps, InvariantKeeps, CloseInvariantKeeps
<1>6. CASE Clause \/ CloseClause \/ Modifies \/ ClosePath
  BY <1>6, ClauseKeeps, CloseClauseKeeps, ModifiesKeeps, ClosePathKeeps
<1>7. CASE Section \/ Binding \/ PathField \/ PathPrime \/ EndOfPath \/ CloseBinding \/ EndOfSection
  BY <1>7, SectionKeeps, BindingKeeps, PathFieldKeeps, PathPrimeKeeps, EndOfPathKeeps, CloseBindingKeeps,
     EndOfSectionKeeps
<1>8. CASE EndOfFile \/ NoDeclaration \/ NoExpression \/ NoInvariant \/ NoClause \/ NoPath
  BY <1>8, AnswerKeeps
<1>9. CASE UNCHANGED vars
  BY <1>9, UnchangedKeeps DEF vars
<1>10. QED
  BY <1>1, <1>2, <1>3, <1>4, <1>5, <1>6, <1>7, <1>8, <1>9 DEF Next

LEMMA ControlInit ==
    ASSUME Init
    PROVE  Control
<1>1. tokens \in Seq(Token) /\ stack = <<>> /\ pos = 1 /\ lo = 0 /\ min = 0 /\ doing = "program"
  BY SourcesAssumption DEF Init
<1>2. stack \in Seq(Frame) /\ Len(stack) = 0
  BY <1>1, EmptySeq
<1>3. Len(tokens) \in Nat
  BY <1>1
<1>4. CallType
  BY <1>1, <1>2, <1>3 DEF CallType
<1>5. StackOK
  BY <1>1, <1>2 DEF StackOK, InOrder
<1>6. DoingOK
  BY <1>1 DEF DoingOK, InExpression
<1>7. QED
  BY <1>4, <1>5, <1>6 DEF Control

-----------------------------------------------------------------------------
(* Types. *)

LEMMA NodeType ==
    ASSUME nodes \subseteq TheNode, NEW op \in Token \cup {"call"}, NEW at \in Nat, NEW from \in Nat, NEW to \in Nat,
           Node(op, at, from, to)
    PROVE  nodes' \subseteq TheNode
  BY DEF Node, TheNode

\* The steps that add a node.
AddsNode ==
    \/ Call \/ Field \/ Prime \/ CloseTail \/ CloseBinary \/ NextArgument
    \/ CloseBracket("(", ")") \/ CloseBracket("after", ")") \/ CloseBracket("[", "]")

\* The types of the frame on top and of the operator it may be for.
LEMMA TopNumbers ==
    ASSUME Control, InExpression
    PROVE  /\ Top.at \in Nat /\ Top.lo \in Nat /\ pos \in Nat /\ pos - 1 \in Nat /\ lo \in Nat
           /\ pos + 1 \in Nat /\ pos + 2 \in Nat
           /\ tokens[Top.at] \in Token
<1>1. Top \in Frame /\ FrameOK(tokens, pos, Top) /\ pos \in Nat /\ pos >= 1 /\ lo \in Nat /\ tokens \in Seq(Token)
  BY Expression DEF CallType
<1>2. Top.at \in Nat /\ Top.lo \in Nat /\ Top.at \in DOMAIN tokens
  BY <1>1, FrameType DEF FrameOK
<1>3. tokens[Top.at] \in Token
  BY <1>1, <1>2
<1>4. QED
  BY <1>1, <1>2, <1>3

LEMMA NodesTyped ==
    ASSUME Control, BuiltType, AddsNode
    PROVE  nodes' \subseteq TheNode
<1>1. nodes \subseteq TheNode
  BY DEF BuiltType
<1>2. InExpression
  BY DEF AddsNode, Call, Field, Prime, CloseTail, CloseBinary, NextArgument, CloseBracket, Complete, At, InExpression
<1>3. /\ Top.at \in Nat /\ Top.lo \in Nat /\ pos \in Nat /\ pos - 1 \in Nat /\ lo \in Nat
      /\ pos + 1 \in Nat /\ pos + 2 \in Nat
      /\ tokens[Top.at] \in Token
  BY <1>2, TopNumbers
<1>4. {".", "'", "[", "(", "after"} \subseteq Token
  BY DEF Token
<1>5. CASE Call
  <2>1. Node("call", pos, pos, pos + 2) \/ nodes' = nodes
    BY <1>5 DEF Call, OnlyCall
  <2>2. QED
    BY <1>1, <1>3, <2>1, NodeType
<1>6. CASE Field
  <2>1. Node(".", pos, lo, pos + 1) \/ nodes' = nodes
    BY <1>6 DEF Field, Refuse
  <2>2. QED
    BY <1>1, <1>3, <1>4, <2>1, NodeType
<1>7. CASE Prime
  BY <1>1, <1>3, <1>4, <1>7, NodeType DEF Prime
<1>8. CASE CloseTail \/ CloseBinary
  <2>1. Node(tokens[Top.at], Top.at, Top.lo, pos - 1)
    BY <1>8 DEF CloseTail, CloseBinary
  <2>2. QED
    BY <1>1, <1>3, <2>1, NodeType
<1>9. CASE NextArgument
  <2>1. Node("call", Top.at, Top.lo, pos) \/ nodes' = nodes
    BY <1>9 DEF NextArgument, OnlyCall, Refuse
  <2>2. QED
    BY <1>1, <1>3, <2>1, NodeType
<1>10. ASSUME NEW for \in {"(", "after", "["}, NEW close \in {")", "]"}, CloseBracket(for, close)
       PROVE  nodes' \subseteq TheNode
  <2>1. Node(for, Top.at, Top.lo, pos) \/ nodes' = nodes
    BY <1>10 DEF CloseBracket, Refuse
  <2>2. QED
    BY <1>1, <1>3, <1>4, <2>1, NodeType
<1>11. QED
  BY <1>5, <1>6, <1>7, <1>8, <1>9, <1>10 DEF AddsNode

LEMMA PartType ==
    ASSUME Control, InExpression, NEW elseReject \in BOOLEAN
    PROVE  ThePart(elseReject) \in Part
  BY TopNumbers DEF ThePart, Part

\* The steps that add a part of a declaration, or the declaration itself.
AddsPart == CloseInvariant \/ CloseClause \/ ClosePath \/ CloseTheorem \/ CloseBinding \/ Modifies \/ EndOfBody \/ EndOfSection

LEMMA PartsTyped ==
    ASSUME Control, BuiltType, AddsPart
    PROVE  parts' \subseteq Part /\ bindings' \subseteq Part /\ decls' \in Seq(Decl)
<1>1. parts \subseteq Part /\ bindings \subseteq Part /\ decls \in Seq(Decl)
  BY DEF BuiltType
<1>2. ASSUME NEW elseReject \in BOOLEAN, Add(elseReject), InExpression
      PROVE  parts' \subseteq Part /\ bindings' \subseteq Part /\ decls' \in Seq(Decl)
  BY <1>1, <1>2, PartType DEF Add
<1>3. ASSUME NEW content \in SUBSET Part, Finish(content), Top.at \in Nat
      PROVE  parts' \subseteq Part /\ bindings' \subseteq Part /\ decls' \in Seq(Decl)
  <2>1. [at |-> Top.at, parts |-> content] \in Decl
    BY <1>3 DEF Decl
  <2>2. QED
    BY <1>1, <1>3, <2>1 DEF Finish
<1>4. CASE Complete(Top.for) /\ (CloseInvariant \/ CloseClause \/ ClosePath)
  <2>1. InExpression
    BY <1>4 DEF Complete, At, InExpression
  <2>2. (\E elseReject \in BOOLEAN : Add(elseReject)) \/ UNCHANGED <<parts, bindings, decls>>
    BY <1>4 DEF CloseInvariant, CloseClause, ClosePath, Refuse, built
  <2>3. QED
    BY <1>1, <1>2, <2>1, <2>2
<1>5. CASE CloseTheorem
  <2>1. InExpression
    BY <1>5 DEF CloseTheorem, Complete, At, InExpression
  <2>2. Finish({ThePart(FALSE)}) \/ UNCHANGED <<parts, bindings, decls>>
    BY <1>5 DEF CloseTheorem, Refuse, built
  <2>3. {ThePart(FALSE)} \in SUBSET Part /\ Top.at \in Nat
    BY <2>1, PartType, TopNumbers
  <2>4. QED
    BY <1>1, <1>3, <2>2, <2>3
<1>6. CASE CloseBinding
  <2>1. InExpression
    BY <1>6 DEF CloseBinding, Complete, At, InExpression
  <2>2. ThePart(FALSE) \in Part
    BY <2>1, PartType
  <2>3. QED
    BY <1>1, <1>6, <2>2 DEF CloseBinding, Refuse, built
<1>7. CASE Modifies
  <2> DEFINE p == [at |-> pos, from |-> pos + 1, lo |-> pos + 1, hi |-> pos + 1, elseReject |-> FALSE]
  <2>1. pos \in Nat
    BY DEF Control, CallType
  <2>2. p \in Part
    BY <2>1 DEF Part
  <2>3. /\ parts' = parts \/ parts' = parts \cup {p}
        /\ bindings' = bindings /\ decls' = decls
    BY <1>7 DEF Modifies, Refuse, OnlyCall, built
  <2>4. QED
    BY <1>1, <2>2, <2>3
<1>8. CASE EndOfBody
  <2>1. Top.at \in Nat
    BY <1>8, InLoop DEF EndOfBody, At
  <2>2. QED
    BY <1>1, <1>3, <1>8, <2>1 DEF EndOfBody
<1>9. CASE EndOfSection
  BY <1>1, <1>9 DEF EndOfSection, Refuse, built
<1>10. Complete(Top.for) \/ ~(CloseInvariant \/ CloseClause \/ ClosePath)
  BY DEF CloseInvariant, CloseClause, ClosePath, Complete
<1>11. QED
  BY <1>4, <1>5, <1>6, <1>7, <1>8, <1>9, <1>10 DEF AddsPart

\* What the steps leave alone.
LEMMA Frames ==
    ASSUME [Next]_vars
    PROVE  /\ tokens' = tokens
           /\ AddsNode \/ nodes' = nodes
           /\ AddsPart \/ UNCHANGED <<parts, bindings, decls>>
           /\ outcome' = outcome \/ outcome' \in {"ok", "error"}
<1> USE DEF OnlyCall, OnlyTree, Refuse, built, Add, Finish
<1>1. CASE Atom \/ Call \/ Unary \/ Bracket \/ After \/ Quantify \/ TypedVar
  BY <1>1 DEF Atom, Call, Unary, Bracket, After, Quantify, TypedVar, AddsNode
<1>2. CASE Field \/ Prime \/ Index \/ NoPostfix \/ Operator
  BY <1>2 DEF Field, Prime, Index, NoPostfix, Operator, AddsNode
<1>3. CASE CloseTail \/ CloseBinary \/ NextArgument \/ Then \/ Else
  BY <1>3 DEF CloseTail, CloseBinary, NextArgument, Then, Else, AddsNode
<1>4. CASE CloseBracket("(", ")") \/ CloseBracket("after", ")") \/ CloseBracket("[", "]")
  BY <1>4 DEF CloseBracket, AddsNode
<1>5. CASE Declaration \/ EndOfBody \/ CloseTheorem \/ Invariant \/ CloseInvariant
  BY <1>5 DEF Declaration, EndOfBody, CloseTheorem, Invariant, CloseInvariant, AddsPart
<1>6. CASE Clause \/ CloseClause \/ Modifies \/ ClosePath
  BY <1>6 DEF Clause, CloseClause, Modifies, ClosePath, AddsPart
<1>7. CASE Section \/ Binding \/ PathField \/ PathPrime \/ EndOfPath \/ CloseBinding \/ EndOfSection
  BY <1>7 DEF Section, Binding, PathField, PathPrime, EndOfPath, CloseBinding, EndOfSection, AddsPart
<1>8. CASE EndOfFile \/ NoDeclaration \/ NoExpression \/ NoInvariant \/ NoClause \/ NoPath
  BY <1>8 DEF EndOfFile, NoDeclaration, NoExpression, NoInvariant, NoClause, NoPath
<1>9. CASE UNCHANGED vars
  BY <1>9 DEF vars
<1>10. QED
  BY <1>1, <1>2, <1>3, <1>4, <1>5, <1>6, <1>7, <1>8, <1>9 DEF Next

LEMMA BuiltTypeKeeps ==
    ASSUME Control, BuiltType, [Next]_vars
    PROVE  BuiltType'
<1>1. nodes' \subseteq TheNode
  BY Frames, NodesTyped DEF BuiltType
<1>2. parts' \subseteq Part /\ bindings' \subseteq Part /\ decls' \in Seq(Decl)
  BY Frames, PartsTyped DEF BuiltType
<1>3. outcome' \in {"running", "ok", "error"}
  BY Frames DEF BuiltType
<1>4. QED
  BY <1>1, <1>2, <1>3 DEF BuiltType

LEMMA ControlAlways == Spec => [](Control /\ BuiltType)
<1>1. Init => Control /\ BuiltType
  BY ControlInit DEF Init, BuiltType
<1>2. Control /\ BuiltType /\ [Next]_vars => (Control /\ BuiltType)'
  BY ControlKeeps, BuiltTypeKeeps
<1>3. QED
  BY <1>1, <1>2, PTL DEF Spec

\* The parser stays within its types whatever the file: no call returns to a
\* caller that is not there (parse_pratt and the parse_* functions above it).
THEOREM TypeCorrect == Spec => []TypeOK
<1>1. Control /\ BuiltType => TypeOK
  BY DEF Control, CallType, BuiltType, TypeOK
<1>2. QED
  BY <1>1, ControlAlways, PTL

-----------------------------------------------------------------------------
(* The cost. *)

LEMMA Longer ==
    ASSUME NEW s \in Seq(Frame), NEW f
    PROVE  Len(s) \in Nat /\ Len(Append(s, f)) = Len(s) + 1
<1>1. s \in Seq(Frame \cup {f}) /\ f \in Frame \cup {f}
  <2>1. Frame \subseteq Frame \cup {f}
    OBVIOUS
  <2>2. QED
    BY <2>1, SeqMonotonic
<1> HIDE DEF Frame
<1>2. QED
  BY <1>1

\* A step that ends the parser, one that reads a token and calls at most once,
\* one that returns, or the end of the postfix forms.
Advances == pos + 1 <= pos' /\ Len(stack') <= Len(stack) + 1
Leaves == pos <= pos' /\ Len(stack') = Len(stack) - 1
EndsPostfix == pos' = pos /\ stack' = stack /\ doing = "postfix" /\ doing' = "infix"
Pays == outcome' # "running" \/ Advances \/ Leaves \/ EndsPostfix

LEMMA PaysToAdvance ==
    ASSUME Control, pos' \in {pos + 1, pos + 2, pos + 3, pos + 4},
           \/ stack' = stack
           \/ \E f : stack' = Append(stack, f) \/ (stack # <<>> /\ stack' = Append(Below, f))
           \/ stack # <<>> /\ stack' = Below
    PROVE  Advances
<1>1. pos \in Nat /\ stack \in Seq(Frame) /\ Len(stack) \in Nat
  BY DEF Control, CallType
<1>2. pos + 1 <= pos'
  BY <1>1
<1>3. stack # <<>> => Below \in Seq(Frame) /\ Len(Below) = Len(stack) - 1
  BY <1>1, PopSeq DEF Below
<1>4. Len(stack') <= Len(stack) + 1
  <2>1. CASE stack' = stack
    BY <1>1, <2>1
  <2>2. CASE stack # <<>> /\ stack' = Below
    BY <1>1, <1>3, <2>2
  <2>3. ASSUME NEW f, stack' = Append(stack, f) \/ (stack # <<>> /\ stack' = Append(Below, f))
        PROVE  Len(stack') <= Len(stack) + 1
    <3>1. CASE stack' = Append(stack, f)
      BY <1>1, <3>1, Longer
    <3>2. CASE stack # <<>> /\ stack' = Append(Below, f)
      <4>1. Len(Append(Below, f)) = Len(Below) + 1
        BY <1>3, <3>2, Longer
      <4>2. QED
        BY <1>1, <1>3, <3>2, <4>1
    <3>3. QED
      BY <2>3, <3>1, <3>2
  <2>4. QED
    BY <2>1, <2>2, <2>3
<1>5. QED
  BY <1>2, <1>4 DEF Advances

LEMMA PaysToLeave ==
    ASSUME Control, stack # <<>>, stack' = Below, pos' \in {pos, pos + 1, pos + 2}
    PROVE  Leaves
<1>1. pos \in Nat /\ stack \in Seq(Frame)
  BY DEF Control, CallType
<1>2. Len(Below) = Len(stack) - 1
  BY <1>1, PopSeq DEF Below
<1>3. QED
  BY <1>1, <1>2 DEF Leaves

LEMMA StepPays ==
    ASSUME Control, Next
    PROVE  Pays
<1> USE DEF OnlyCall, OnlyTree, Refuse, Finish, Parse, Value, ValueTo, GoOn, Return, call
<1>1. doing # "program" => stack # <<>>
  BY DEF Control, DoingOK
<1>2. CASE Atom \/ Call \/ Unary \/ Bracket \/ After \/ Quantify \/ TypedVar
  BY <1>1, <1>2, PaysToAdvance DEF Atom, Call, Unary, Bracket, After, Quantify, TypedVar, At, Pays
<1>3. CASE Field \/ Prime \/ Index \/ Operator
  BY <1>3, PaysToAdvance DEF Field, Prime, Index, Operator, Pays
<1>4. CASE NoPostfix
  BY <1>4 DEF NoPostfix, At, EndsPostfix, Pays
<1>5. CASE CloseTail \/ CloseBinary
  BY <1>1, <1>5, PaysToLeave DEF CloseTail, CloseBinary, Complete, At, Pays
<1>6. CASE NextArgument \/ Then \/ Else
  BY <1>1, <1>6, PaysToAdvance DEF NextArgument, Then, Else, Complete, At, Pays
<1>7. CASE CloseBracket("(", ")") \/ CloseBracket("after", ")") \/ CloseBracket("[", "]")
  BY <1>1, <1>7, PaysToLeave DEF CloseBracket, Complete, At, Pays
<1>8. CASE Declaration \/ Invariant \/ Clause \/ Section \/ Binding
  BY <1>8, PaysToAdvance DEF Declaration, Invariant, Clause, Section, Binding, Pays
<1>9. CASE EndOfBody \/ CloseTheorem \/ CloseInvariant \/ CloseClause \/ CloseBinding \/ EndOfSection
  BY <1>1, <1>9, PaysToLeave
     DEF EndOfBody, CloseTheorem, CloseInvariant, CloseClause, CloseBinding, EndOfSection, Complete, At, Pays
<1>10. CASE Modifies
  BY <1>10, PaysToAdvance DEF Modifies, Pays
<1>11. CASE ClosePath
  BY <1>1, <1>11, PaysToAdvance, PaysToLeave DEF ClosePath, Complete, At, Pays
<1>12. CASE PathField \/ PathPrime \/ EndOfPath
  BY <1>1, <1>12, PaysToAdvance DEF PathField, PathPrime, EndOfPath, At, Pays
<1>13. CASE EndOfFile \/ NoDeclaration \/ NoExpression \/ NoInvariant \/ NoClause \/ NoPath
  BY <1>13 DEF EndOfFile, NoDeclaration, NoExpression, NoInvariant, NoClause, NoPath, Pays
<1>14. QED
  BY <1>2, <1>3, <1>4, <1>5, <1>6, <1>7, <1>8, <1>9, <1>10, <1>11, <1>12, <1>13 DEF Next

LEMMA StartsRunning ==
    ASSUME Next
    PROVE  outcome = "running"
  BY DEF Next, Atom, Call, Unary, Bracket, After, Quantify, TypedVar, NoExpression, Field, Prime, Index,
     NoPostfix, Operator, CloseTail, CloseBinary, NextArgument, Then, Else, CloseBracket, EndOfFile,
     Declaration, NoDeclaration, EndOfBody, CloseTheorem, Invariant, CloseInvariant, NoInvariant, Clause,
     CloseClause, Modifies, ClosePath, NoClause, Section, Binding, PathField, PathPrime, EndOfPath, NoPath,
     CloseBinding, EndOfSection, InBody, Complete, At

LEMMA CostType ==
    ASSUME Control
    PROVE  StepsLeft \in Nat /\ (~Ended => StepsLeft >= 1)
<1>1. pos \in 1..Len(tokens) + 1 /\ Len(tokens) \in Nat /\ Len(stack) \in Nat
  BY DEF Control, CallType
<1>2. QED
  BY <1>1 DEF StepsLeft

\* StepsLeft of n tokens at token p with k callers.
Cost(n, p, k, i) == 1 + 4 * (n + 1 - p) + 2 * k + i

LEMMA Cheaper ==
    ASSUME NEW n \in Nat, NEW p \in Nat, NEW q \in Nat, NEW k \in Nat, NEW m \in Nat, NEW i \in 0..1, NEW j \in 0..1,
           q <= n + 1,
           \/ p + 1 <= q /\ m <= k + 1
           \/ p <= q /\ m = k - 1
           \/ q = p /\ m = k /\ i = 1 /\ j = 0
    PROVE  Cost(n, q, m, j) \in 0..Cost(n, p, k, i) - 1
  BY DEF Cost

\* The parser's work is linear in the file, whatever the file: no loop of
\* parse_program and of the functions under it goes round without reading on
\* or returning.
THEOREM WorkIsBounded == Spec => BoundedWork
<1>1. Control /\ Next => StepsLeft' \in 0..StepsLeft - 1
  <2> SUFFICES ASSUME Control, Next
               PROVE  StepsLeft' \in 0..StepsLeft - 1
    OBVIOUS
  <2>1. Control' /\ tokens' = tokens /\ Pays /\ ~Ended
    BY ControlKeeps, Frames, StepPays, StartsRunning DEF Ended
  <2>2. StepsLeft \in Nat /\ StepsLeft >= 1
    BY <2>1, CostType
  <2>3. CASE outcome' # "running"
    BY <2>2, <2>3 DEF StepsLeft, Ended
  <2>4. CASE outcome' = "running"
    <3> DEFINE i == IF doing = "postfix" THEN 1 ELSE 0
               j == IF doing' = "postfix" THEN 1 ELSE 0
    <3>1. pos \in Nat /\ Len(tokens) \in Nat /\ Len(stack) \in Nat /\ i \in 0..1 /\ j \in 0..1
      BY DEF Control, CallType
    <3>2. pos' \in Nat /\ pos' <= Len(tokens) + 1 /\ Len(stack') \in Nat
      BY <2>1, <3>1 DEF Control, CallType
    <3>3. /\ StepsLeft = Cost(Len(tokens), pos, Len(stack), i)
          /\ StepsLeft' = Cost(Len(tokens), pos', Len(stack'), j)
      BY <2>1, <2>4 DEF StepsLeft, Ended, Cost
    <3>4. \/ pos + 1 <= pos' /\ Len(stack') <= Len(stack) + 1
          \/ pos <= pos' /\ Len(stack') = Len(stack) - 1
          \/ pos' = pos /\ Len(stack') = Len(stack) /\ i = 1 /\ j = 0
      BY <2>1, <2>4 DEF Pays, Advances, Leaves, EndsPostfix
    <3> HIDE DEF i, j
    <3>5. QED
      BY <3>1, <3>2, <3>3, <3>4, Cheaper
  <2>5. QED
    BY <2>3, <2>4
<1>2. Control /\ [Next]_vars => [StepsLeft' \in 0..StepsLeft - 1]_vars
  BY <1>1
<1>3. QED
  BY <1>2, ControlAlways, PTL DEF Spec, BoundedWork

-----------------------------------------------------------------------------
(* The trees. *)

\* A node that ends where the parser is, or beyond, is no operand of an earlier
\* one.
Beyond(N, p, x) ==
    /\ x \in TheNode /\ 1 <= x.lo /\ x.lo <= x.at /\ x.at <= x.hi /\ p - 1 <= x.hi
    /\ \A n \in N : n.hi = x.hi => x.lo < n.lo

LEMMA NodeNumbers ==
    ASSUME NEW p \in Nat, NEW n, NodeOK(p, n)
    PROVE  /\ n.lo \in Nat /\ n.at \in Nat /\ n.hi \in Nat
           /\ 1 <= n.lo /\ n.lo <= n.at /\ n.at <= n.hi /\ n.hi < p
  BY DEF NodeOK, TheNode

LEMMA BeyondNumbers ==
    ASSUME NEW p \in Nat, NEW N, NEW x, Beyond(N, p, x)
    PROVE  /\ x.lo \in Nat /\ x.at \in Nat /\ x.hi \in Nat
           /\ 1 <= x.lo /\ x.lo <= x.at /\ x.at <= x.hi /\ p - 1 <= x.hi
  BY DEF Beyond, TheNode

LEMMA WholeGrows ==
    ASSUME NEW t, NEW N, NEW M, N \subseteq M, NEW i, NEW j, Whole(t, N, i, j)
    PROVE  Whole(t, M, i, j)
  BY DEF Whole

LEMMA TreeGrows ==
    ASSUME NEW t, NEW N, NEW p \in Nat, NEW x, Beyond(N, p, x), NEW n \in N, NodeOK(p, n), TreeOK(t, N, n)
    PROVE  TreeOK(t, N \cup {x}, n)
<1> DEFINE M == N \cup {x}
<1>1. /\ n.lo \in Nat /\ n.at \in Nat /\ n.hi \in Nat /\ n.lo <= n.at /\ n.at <= n.hi /\ n.hi < p
      /\ x.lo \in Nat /\ x.at \in Nat /\ x.hi \in Nat /\ p - 1 <= x.hi
  BY NodeNumbers, BeyondNumbers
<1>2. x.hi # n.at - 1
  BY <1>1
<1>3. x.hi = n.hi => x.lo # n.at + 1
  <2>1. x.hi = n.hi => x.lo < n.lo
    BY DEF Beyond
  <2>2. QED
    BY <1>1, <2>1
<1>4. /\ ~Spans(x, n.lo, n.at - 1) /\ ~Spans(x, n.at + 1, n.hi)
  BY <1>2, <1>3 DEF Spans
<1>5. IsInfix(n) => InfixOK(t, M, n)
  <2>1. SUFFICES ASSUME InfixOK(t, N, n) PROVE InfixOK(t, M, n)
    BY DEF TreeOK
  <2>2. Whole(t, M, n.lo, n.at - 1) /\ Whole(t, M, n.at + 1, n.hi)
    BY <2>1, WholeGrows DEF InfixOK
  <2>3. QED
    BY <1>2, <1>4, <2>1, <2>2 DEF InfixOK
<1>6. IsPrefix(n) => PrefixOK(t, M, n)
  BY <1>4, WholeGrows DEF TreeOK, PrefixOK
<1>7. IsPostfix(n) => PostfixOK(t, M, n)
  BY <1>4, WholeGrows DEF TreeOK, PostfixOK
<1>8. QED
  BY <1>5, <1>6, <1>7 DEF TreeOK

LEMMA TreeOfNew ==
    ASSUME NEW t, NEW N, NEW p \in Nat, NEW x, Beyond(N, p, x), TreeOK(t, N, x)
    PROVE  TreeOK(t, N \cup {x}, x)
<1>1. x.lo \in Nat /\ x.at \in Nat /\ x.hi \in Nat /\ x.lo <= x.at /\ x.at <= x.hi
  BY BeyondNumbers
<1>2. x.hi # x.at - 1 /\ x.lo # x.at + 1
  BY <1>1
<1>3. ~Spans(x, x.lo, x.at - 1) /\ ~Spans(x, x.at + 1, x.hi)
  BY <1>2 DEF Spans
<1>4. IsInfix(x) => InfixOK(t, N \cup {x}, x)
  BY <1>2, <1>3, WholeGrows DEF TreeOK, InfixOK
<1>5. IsPrefix(x) => PrefixOK(t, N \cup {x}, x)
  BY <1>3, WholeGrows DEF TreeOK, PrefixOK
<1>6. IsPostfix(x) => PostfixOK(t, N \cup {x}, x)
  BY <1>3, WholeGrows DEF TreeOK, PostfixOK
<1>7. QED
  BY <1>4, <1>5, <1>6 DEF TreeOK

LEMMA LeftGrows ==
    ASSUME NEW t, NEW N, NEW p \in Nat, NEW x, Beyond(N, p, x), NEW f \in Frame, f.at < p, LeftOK(t, N, f)
    PROVE  LeftOK(t, N \cup {x}, f)
<1>1. f.at \in Nat /\ x.hi \in Nat /\ p - 1 <= x.hi
  BY FrameType, BeyondNumbers
<1>2. x.hi # f.at - 1
  BY <1>1
<1>3. ~Spans(x, f.lo, f.at - 1)
  BY <1>2 DEF Spans
<1>4. QED
  BY <1>2, <1>3, WholeGrows DEF LeftOK

\* No node but the new one ends where the parser has moved on to.
LEMMA OnlyLast ==
    ASSUME NEW p \in Nat, NEW q \in Nat, p < q, NEW n, NodeOK(p, n)
    PROVE  n.hi # q - 1
<1>1. n.hi \in Nat /\ n.hi < p
  BY NodeNumbers
<1>2. QED
  BY <1>1

\* The parser moves on: a node, and what follows it.
LEMMA NodeLasts ==
    ASSUME NEW t, NEW p \in Nat, NEW q \in Nat, p <= q, NEW n, NodeOK(p, n), Ends(t, p, n)
    PROVE  NodeOK(q, n) /\ Ends(t, q, n)
<1>1. n.hi \in Nat /\ n.hi < p
  BY NodeNumbers
<1>2. n.hi < q
  BY <1>1
<1>3. NodeOK(q, n)
  BY <1>2 DEF NodeOK
<1>4. CASE p = q
  BY <1>3, <1>4
<1>5. CASE p < q
  BY <1>3, <1>5, OnlyLast DEF Ends
<1>6. QED
  BY <1>4, <1>5

\* The frames that stay, and one that may be new.
LEMMA LeftsStay ==
    ASSUME CallType, NEW t, NEW N, \A k \in 1..Len(stack) : LeftOK(t, N, stack[k]),
           NEW f, LeftOK(t, N, f),
           \/ stack' = stack \/ stack' = Append(stack, f)
           \/ stack # <<>> /\ (stack' = Below \/ stack' = Append(Below, f))
    PROVE  \A k \in 1..Len(stack') : LeftOK(t, N, stack'[k])
<1>1. stack \in Seq(Frame) /\ Len(stack) \in Nat
  BY DEF CallType
<1>2. ASSUME NEW s, NEW S, s \in Seq(S), \A k \in 1..Len(s) : LeftOK(t, N, s[k])
      PROVE  \A k \in 1..Len(Append(s, f)) : LeftOK(t, N, Append(s, f)[k])
  <2>1. /\ Len(s) \in Nat /\ Len(Append(s, f)) = Len(s) + 1 /\ Append(s, f)[Len(s) + 1] = f
        /\ \A k \in 1..Len(s) : Append(s, f)[k] = s[k]
    <3>1. s \in Seq(S \cup {f})
      BY <1>2
    <3>2. QED
      BY <3>1, AppendProperties
  <2>2. QED
    BY <1>2, <2>1
<1>3. CASE stack' = stack
  BY <1>3
<1>4. CASE stack' = Append(stack, f)
  BY <1>1, <1>2, <1>4
<1>5. CASE stack # <<>> /\ (stack' = Below \/ stack' = Append(Below, f))
  <2>1. /\ Below \in Seq(Frame) /\ Len(Below) = Len(stack) - 1
        /\ \A k \in 1..Len(stack) - 1 : Below[k] = stack[k]
    BY <1>1, <1>5, PopSeq DEF Below
  <2>2. \A k \in 1..Len(Below) : LeftOK(t, N, Below[k])
    BY <1>1, <2>1
  <2>3. QED
    BY <1>2, <1>5, <2>1, <2>2
<1>6. QED
  BY <1>3, <1>4, <1>5

\* A step that adds no node and leaves no operand.
LEMMA TreesLast ==
    ASSUME Control, Trees, tokens' = tokens, nodes' = nodes, pos' \in Nat, pos <= pos',
           doing' \notin {"postfix", "infix"},
           NEW f, LeftOK(tokens, nodes, f),
           \/ stack' = stack \/ stack' = Append(stack, f)
           \/ stack # <<>> /\ (stack' = Below \/ stack' = Append(Below, f))
    PROVE  Trees'
<1>1. CallType /\ pos \in Nat
  BY DEF Control, CallType
<1>2. \A n \in nodes : NodeOK(pos', n) /\ TreeOK(tokens, nodes, n) /\ Ends(tokens, pos', n)
  BY <1>1, NodeLasts DEF Trees
<1>3. \A k \in 1..Len(stack') : LeftOK(tokens, nodes, stack'[k])
  BY <1>1, LeftsStay DEF Trees
<1>4. QED
  BY <1>2, <1>3 DEF Trees

\* A step that adds a node and goes on after it.
LEMMA TreesGrow ==
    ASSUME Control, Trees, tokens' = tokens, pos' \in Nat, pos <= pos',
           NEW x, nodes' = nodes \cup {x}, Beyond(nodes, pos, x), x.hi = pos' - 1,
           TreeOK(tokens, nodes, x), Ends(tokens, pos', x),
           stack' = stack \/ (stack # <<>> /\ stack' = Below),
           lo' = x.lo, doing' \in {"postfix", "infix"},
           IsInfix(x) => InfixRead(tokens, pos', min', doing', x)
    PROVE  Trees'
<1>1. CallType /\ StackOK /\ pos \in Nat
  BY DEF Control, CallType
<1>2. /\ x.lo \in Nat /\ x.at \in Nat /\ x.hi \in Nat
      /\ 1 <= x.lo /\ x.lo <= x.at /\ x.at <= x.hi
  BY <1>1, BeyondNumbers
<1>3. NodeOK(pos', x)
  <2>1. \A i \in Nat : \A j \in Nat : i = j - 1 => i < j
    OBVIOUS
  <2>2. x \in TheNode /\ x.hi < pos'
    BY <1>2, <2>1 DEF Beyond
  <2>3. QED
    BY <1>2, <2>2 DEF NodeOK
<1>4. /\ \A n \in nodes : NodeOK(pos', n) /\ TreeOK(tokens, nodes', n) /\ Ends(tokens, pos', n)
      /\ TreeOK(tokens, nodes', x)
  BY <1>1, NodeLasts, TreeGrows, TreeOfNew DEF Trees
<1>5. \A k \in 1..Len(stack) : LeftOK(tokens, nodes', stack[k])
  <2>1. ASSUME NEW k \in 1..Len(stack) PROVE LeftOK(tokens, nodes', stack[k])
    <3>1. stack[k] \in Frame /\ FrameOK(tokens, pos, stack[k]) /\ LeftOK(tokens, nodes, stack[k])
      BY <1>1, ElementOfSeq DEF Trees, StackOK, InOrder, CallType
    <3>2. stack[k].at < pos
      BY <3>1 DEF FrameOK
    <3>3. QED
      BY <1>1, <3>1, <3>2, LeftGrows
  <2>2. QED
    BY <2>1
<1>6. \A k \in 1..Len(stack') : LeftOK(tokens, nodes', stack'[k])
  <2>1. CASE stack' = stack
    BY <1>5, <2>1
  <2>2. CASE stack # <<>> /\ stack' = Below
    <3>1. /\ Len(stack') = Len(stack) - 1 /\ Len(stack) \in Nat
          /\ \A k \in 1..Len(stack) - 1 : stack'[k] = stack[k]
      BY <1>1, <2>2, PopSeq DEF Below, CallType
    <3>2. \A k \in 1..Len(stack') : k \in 1..Len(stack) /\ stack'[k] = stack[k]
      BY <3>1
    <3>3. QED
      BY <1>5, <3>2
  <2>3. QED
    BY <2>1, <2>2
<1>7. ReadOK(tokens, nodes', pos', lo', min', doing')
  <2>1. Whole(tokens, nodes', lo', pos' - 1)
    BY DEF Whole, Spans
  <2>2. ASSUME NEW m \in nodes', m.hi = pos' - 1
        PROVE  m = x \/ (m.lo > lo' /\ m.lo # lo' /\ m.lo >= lo')
    <3>1. SUFFICES ASSUME m \in nodes PROVE m.lo > lo' /\ m.lo # lo' /\ m.lo >= lo'
      OBVIOUS
    <3>2. x.lo < m.lo /\ m.lo \in Nat
      BY <1>1, <2>2, <3>1, NodeNumbers DEF Beyond, Trees
    <3>3. QED
      BY <1>2, <3>2
  <2>3. \A m \in nodes' : m.hi = pos' - 1 => m.lo >= lo'
    BY <1>2, <2>2
  <2>4. \A m \in nodes' : IsInfix(m) /\ Spans(m, lo', pos' - 1) => m = x
    BY <2>2 DEF Spans
  <2>5. QED
    BY <2>1, <2>3, <2>4 DEF ReadOK
<1>8. QED
  BY <1>3, <1>4, <1>6, <1>7 DEF Trees

\* The binding powers are the levels of the table.
LEMMA PowerLevel ==
    ASSUME NEW op \in Infix
    PROVE  /\ Level(op) \in 1..7
           /\ op = "==>" => Level(op) = 1 /\ LeftPower(op) = 2 /\ RightPower(op) = 1
           /\ op # "==>" => Level(op) > 1 /\ LeftPower(op) = 2 * Level(op) - 1 /\ RightPower(op) = 2 * Level(op)
  BY DEF Infix, Level, LeftPower, RightPower

LEMMA BindsLess ==
    ASSUME NEW l \in Infix, NEW op \in Infix, LeftPower(op) < RightPower(l)
    PROVE  TighterOnLeft(l, op)
<1>1. CASE l = "==>"
  BY <1>1, PowerLevel
<1>2. CASE l # "==>" /\ op = "==>"
  BY <1>2, PowerLevel DEF TighterOnLeft
<1>3. CASE l # "==>" /\ op # "==>"
  BY <1>3, PowerLevel DEF TighterOnLeft
<1>4. QED
  BY <1>1, <1>2, <1>3

LEMMA BindsMore ==
    ASSUME NEW r \in Infix, NEW op \in Infix, LeftPower(r) >= RightPower(op)
    PROVE  TighterOnRight(r, op)
<1>1. CASE r = "==>" /\ op = "==>"
  BY <1>1, PowerLevel DEF TighterOnRight
<1>2. CASE r = "==>" /\ op # "==>"
  BY <1>2, PowerLevel
<1>3. CASE r # "==>" /\ op = "==>"
  BY <1>3, PowerLevel DEF TighterOnRight
<1>4. CASE r # "==>" /\ op # "==>"
  BY <1>4, PowerLevel DEF TighterOnRight
<1>5. QED
  BY <1>1, <1>2, <1>3, <1>4

\* What is known while an operand is read.
LEMMA Reading ==
    ASSUME Control, Trees, doing \in {"postfix", "infix"}
    PROVE  /\ InExpression /\ ReadOK(tokens, nodes, pos, lo, min, doing)
           /\ Peek(0) = Tok(tokens, pos)
           /\ pos \in Nat /\ lo \in Nat /\ 1 <= lo /\ lo < pos /\ lo <= pos - 1 /\ pos - 1 \in Nat
           /\ Top \in Frame /\ FrameOK(tokens, pos, Top) /\ Follows(tokens, Top, lo)
           /\ Top.at \in Nat /\ Top.lo \in Nat /\ Top.at < lo /\ Top.at < pos
           /\ tokens[Top.at] \in Token /\ stack # <<>>
           /\ \A n \in nodes : NodeOK(pos, n) /\ Ends(tokens, pos, n)
           /\ doing = "infix" => Tok(tokens, pos) \notin {".", "'", "["}
<1>1. InExpression
  BY DEF InExpression
<1>2. /\ pos \in Nat /\ lo \in Nat /\ lo < pos /\ Top \in Frame /\ FrameOK(tokens, pos, Top) /\ Follows(tokens, Top, lo)
      /\ stack # <<>>
  BY <1>1, Expression
<1>3. Top.at \in Nat /\ Top.lo \in Nat /\ pos - 1 \in Nat /\ tokens[Top.at] \in Token
  BY <1>1, TopNumbers
<1>4. Top.at < lo /\ Top.at < pos
  BY <1>2 DEF Follows, FrameOK
<1>5. 1 <= lo /\ lo <= pos - 1 /\ pos + 0 = pos
  BY <1>2, <1>3, <1>4
<1>6. Peek(0) = Tok(tokens, pos)
  BY <1>5 DEF Peek
<1>7. doing = "infix" => Peek(0) \notin {".", "'", "["}
  BY DEF Control, DoingOK
<1>8. QED
  BY <1>1, <1>2, <1>3, <1>4, <1>5, <1>6, <1>7 DEF Trees

\* An operand that starts anew: no node ends there.
LEMMA AtomTrees ==
    ASSUME Control, Trees, Atom
    PROVE  Trees'
<1>1. /\ tokens' = tokens /\ nodes' = nodes /\ stack' = stack /\ lo' = pos /\ pos' = pos + 1 /\ doing' = "postfix"
      /\ CallType /\ pos \in Nat /\ Peek(0) \in Ident \cup Literal
  BY DEF Atom, OnlyCall, Value, Control, CallType
<1>2. pos' \in Nat /\ pos <= pos' /\ pos < pos' /\ pos' - 1 = pos
  BY <1>1
<1>3. tokens[pos] \in Ident \cup Literal
  BY <1>1, TokenRead DEF Ident, Literal, Number
<1>4. \A n \in nodes : NodeOK(pos', n) /\ TreeOK(tokens, nodes, n) /\ Ends(tokens, pos', n) /\ n.hi # pos' - 1
  BY <1>1, <1>2, NodeLasts, OnlyLast DEF Trees
<1>5. ReadOK(tokens, nodes, pos', pos, min', doing')
  BY <1>2, <1>3, <1>4 DEF ReadOK, Whole, Spans
<1>6. QED
  BY <1>1, <1>4, <1>5 DEF Trees

LEMMA NoPostfixTrees ==
    ASSUME Control, Trees, NoPostfix
    PROVE  Trees'
<1>1. /\ tokens' = tokens /\ nodes' = nodes /\ stack' = stack /\ lo' = lo /\ pos' = pos /\ min' = min
      /\ doing = "postfix" /\ doing' = "infix"
  BY DEF NoPostfix, At, OnlyCall, GoOn
<1>2. ReadOK(tokens, nodes, pos, lo, min, doing)
  BY <1>1, Reading
<1>3. ReadOK(tokens, nodes, pos, lo, min, "infix")
  BY <1>1, <1>2 DEF ReadOK, InfixRead
<1>4. QED
  BY <1>1, <1>3 DEF Trees

\* A node that ends at the token looked at, or after it.
LEMMA BeyondHere ==
    ASSUME Control, Trees, NEW op \in Token \cup {"call"}, NEW at \in Nat, NEW from \in Nat, NEW to \in Nat,
           1 <= from, from <= at, at <= to, pos <= to
    PROVE  Beyond(nodes, pos, [op |-> op, at |-> at, lo |-> from, hi |-> to])
<1> DEFINE x == [op |-> op, at |-> at, lo |-> from, hi |-> to]
<1>1. x \in TheNode /\ x.lo = from /\ x.at = at /\ x.hi = to
  BY DEF TheNode
<1>2. pos \in Nat
  BY DEF Control, CallType
<1>3. \A n \in nodes : n.hi # to
  BY <1>2, NodeNumbers DEF Trees
<1>4. pos - 1 <= to
  BY <1>2
<1> HIDE DEF x
<1>5. QED
  BY <1>1, <1>3, <1>4 DEF Beyond, x

\* A call without arguments, and what is closed by a bracket.
LEMMA ClosedTrees ==
    ASSUME Control, Trees, tokens' = tokens, NEW op \in {"call", "(", "after"}, NEW at \in Nat, NEW from \in Nat,
           NEW to \in Nat, 1 <= from, from <= at, at <= to, pos <= to, pos' = to + 1,
           Node(op, at, from, to), stack' = stack \/ (stack # <<>> /\ stack' = Below),
           lo' = from, doing' = "postfix"
    PROVE  Trees'
<1> DEFINE x == [op |-> op, at |-> at, lo |-> from, hi |-> to]
<1>1. op \in Token \cup {"call"}
  BY DEF Token
<1>2. Beyond(nodes, pos, x) /\ nodes' = nodes \cup {x}
  BY <1>1, BeyondHere DEF Node
<1>3. x.hi = to /\ x.lo = from /\ ~IsInfix(x) /\ ~IsPrefix(x) /\ ~IsPostfix(x) /\ ~IsOpen(x)
  BY DEF IsInfix, IsPrefix, IsPostfix, IsOpen, Infix, Prefix, Quantifier
<1>4. pos' \in Nat /\ pos <= pos' /\ to = pos' - 1
  BY DEF Control, CallType
<1> HIDE DEF x
<1>5. TreeOK(tokens, nodes, x) /\ Ends(tokens, pos', x)
  BY <1>3 DEF TreeOK, Ends
<1>6. x.hi = pos' - 1 /\ lo' = x.lo
  BY <1>3, <1>4
<1>7. QED
  BY <1>2, <1>3, <1>4, <1>5, <1>6, TreesGrow

LEMMA PostfixTrees ==
    ASSUME Control, Trees, doing = "postfix", tokens' = tokens, NEW op \in {".", "'"}, Peek(0) = op,
           NEW to \in Nat, pos <= to, Node(op, pos, lo, to),
           pos' = to + 1, stack' = stack, lo' = lo, doing' = "postfix"
    PROVE  Trees'
<1> DEFINE x == [op |-> op, at |-> pos, lo |-> lo, hi |-> to]
<1>1. /\ pos \in Nat /\ lo \in Nat /\ 1 <= lo /\ lo <= pos /\ Tok(tokens, pos) = op
      /\ ReadOK(tokens, nodes, pos, lo, min, "postfix")
      /\ \A n \in nodes : Ends(tokens, pos, n)
  BY Reading
<1>2. op \in Token \cup {"call"}
  BY DEF Token
<1>3. Beyond(nodes, pos, x) /\ nodes' = nodes \cup {x}
  BY <1>1, <1>2, BeyondHere DEF Node
<1>4. /\ x.hi = to /\ x.lo = lo /\ x.at = pos /\ ~IsInfix(x) /\ ~IsPrefix(x) /\ ~IsOpen(x)
  BY DEF IsInfix, IsPrefix, IsOpen, Infix, Prefix, Quantifier
<1>5. pos' \in Nat /\ pos <= pos' /\ to = pos' - 1
  BY <1>1
<1> HIDE DEF x
<1>6. PostfixOK(tokens, nodes, x)
  <2>1. Whole(tokens, nodes, x.lo, x.at - 1)
    BY <1>1, <1>4 DEF ReadOK
  <2>2. ASSUME NEW m \in nodes, Spans(m, x.lo, x.at - 1)
        PROVE  ~IsInfix(m) /\ ~IsPrefix(m) /\ ~IsOpen(m)
    <3>1. Spans(m, lo, pos - 1) /\ m.hi = pos - 1
      BY <1>4, <2>2 DEF Spans
    <3>2. ~IsInfix(m)
      BY <1>1, <3>1 DEF ReadOK, InfixRead
    <3>3. QED
      BY <1>1, <3>1, <3>2 DEF Ends
  <2>3. QED
    BY <2>1, <2>2 DEF PostfixOK
<1>7. TreeOK(tokens, nodes, x) /\ Ends(tokens, pos', x)
  BY <1>4, <1>6 DEF TreeOK, Ends
<1>8. x.hi = pos' - 1 /\ lo' = x.lo
  BY <1>4, <1>5
<1>9. QED
  BY <1>3, <1>4, <1>5, <1>7, <1>8, TreesGrow

\* a[i]: the operand before the bracket is known by its frame.
LEMMA IndexedTrees ==
    ASSUME Control, Trees, doing = "infix", tokens' = tokens, Top.for = "[",
           Node("[", Top.at, Top.lo, pos), ValueTo(Top, "postfix", pos + 1)
    PROVE  Trees'
<1> DEFINE x == [op |-> "[", at |-> Top.at, lo |-> Top.lo, hi |-> pos]
<1>1. /\ pos \in Nat /\ Top.at \in Nat /\ Top.lo \in Nat /\ Top.at < pos /\ FrameOK(tokens, pos, Top) /\ stack # <<>>
      /\ \A n \in nodes : NodeOK(pos, n)
  BY Reading
<1>2. 1 <= Top.lo /\ Top.lo <= Top.at /\ Top.at <= pos
  BY <1>1 DEF FrameOK, Opener
<1>3. "[" \in Token \cup {"call"}
  BY DEF Token
<1>4. Beyond(nodes, pos, x) /\ nodes' = nodes \cup {x}
  <2>1. nodes' = nodes \cup {x}
    BY DEF Node
  <2> HIDE DEF x
  <2>2. pos <= pos
    BY <1>1
  <2>3. Beyond(nodes, pos, x)
    BY <1>1, <1>2, <1>3, <2>2, BeyondHere DEF x
  <2>4. QED
    BY <2>1, <2>3
<1>5. /\ x.hi = pos /\ x.lo = Top.lo /\ x.at = Top.at /\ ~IsInfix(x) /\ ~IsPrefix(x) /\ ~IsOpen(x)
  BY DEF IsInfix, IsPrefix, IsOpen, Infix, Prefix, Quantifier
<1>6. pos' = pos + 1 /\ stack' = Below /\ lo' = Top.lo /\ doing' = "postfix"
  BY DEF ValueTo
<1>7. pos' \in Nat /\ pos <= pos' /\ pos = pos' - 1
  BY <1>1, <1>6
<1> HIDE DEF x
<1>8. LeftOK(tokens, nodes, Top)
  <2>1. Len(stack) \in 1..Len(stack)
    BY <1>1, TopType DEF Control
  <2>2. QED
    BY <2>1 DEF Trees, Top
<1>9. PostfixOK(tokens, nodes, x)
  BY <1>5, <1>8 DEF LeftOK, PostfixOK
<1>10. TreeOK(tokens, nodes, x) /\ Ends(tokens, pos', x)
  BY <1>5, <1>9 DEF TreeOK, Ends
<1>11. x.hi = pos' - 1 /\ lo' = x.lo
  BY <1>5, <1>6, <1>7
<1>12. QED
  BY <1>1, <1>4, <1>5, <1>6, <1>7, <1>10, <1>11, TreesGrow

\* A node that ends with the operand read last.
LEMMA BeyondOperand ==
    ASSUME Control, Trees, doing = "infix", 1 <= Top.lo, Top.lo <= Top.at
    PROVE  LET x == [op |-> tokens[Top.at], at |-> Top.at, lo |-> Top.lo, hi |-> pos - 1]
           IN  Beyond(nodes, pos, x)
<1> DEFINE x == [op |-> tokens[Top.at], at |-> Top.at, lo |-> Top.lo, hi |-> pos - 1]
<1>1. /\ pos \in Nat /\ pos - 1 \in Nat /\ Top.at \in Nat /\ Top.lo \in Nat /\ Top.at < lo /\ lo \in Nat /\ lo <= pos - 1
      /\ tokens[Top.at] \in Token /\ ReadOK(tokens, nodes, pos, lo, min, doing)
      /\ \A n \in nodes : NodeOK(pos, n)
  BY Reading
<1>2. x \in TheNode /\ x.lo = Top.lo /\ x.at = Top.at /\ x.hi = pos - 1
  BY <1>1 DEF TheNode
<1> HIDE DEF x
<1>3. x.at <= x.hi /\ x.lo < lo /\ pos - 1 <= x.hi
  BY <1>1, <1>2
<1>4. ASSUME NEW n \in nodes, n.hi = x.hi PROVE x.lo < n.lo
  <2>1. n.lo >= lo /\ n.lo \in Nat
    BY <1>1, <1>2, <1>4, NodeNumbers DEF ReadOK
  <2>2. QED
    BY <1>1, <1>2, <1>3, <2>1
<1>5. Beyond(nodes, pos, x)
  BY <1>2, <1>3, <1>4 DEF Beyond
<1>6. QED
  BY <1>5 DEF x

\* An operator that does not bind ends the operand.
LEMMA EndOfOperand ==
    ASSUME Control, Trees, doing = "infix", ~Binds
    PROVE  /\ Tok(tokens, pos) \in Infix => LeftPower(Tok(tokens, pos)) < min
           /\ min = Power(tokens, Top)
<1>1. Peek(0) = Tok(tokens, pos) /\ InExpression
  BY Reading
<1>2. min = Power(tokens, Top) /\ min \in Nat
  BY <1>1, Expression
<1>3. Tok(tokens, pos) \in Infix => LeftPower(Tok(tokens, pos)) \in Nat
  BY PowerType
<1>4. QED
  BY <1>1, <1>2, <1>3 DEF Binds

LEMMA CloseTailTrees ==
    ASSUME Control, Trees, CloseTail
    PROVE  Trees'
<1> DEFINE x == [op |-> tokens[Top.at], at |-> Top.at, lo |-> Top.lo, hi |-> pos - 1]
<1>1. /\ doing = "infix" /\ ~Binds /\ Top.for = "tail" /\ tokens' = tokens /\ nodes' = nodes \cup {x}
      /\ pos' = pos /\ stack' = Below /\ lo' = Top.lo /\ min' = Top.min /\ doing' = "postfix"
  BY DEF CloseTail, Complete, At, Node, ValueTo, OnlyTree
<1>2. /\ pos \in Nat /\ pos - 1 \in Nat /\ Top.at \in Nat /\ Top.lo \in Nat /\ Top.at < lo /\ lo \in Nat /\ lo <= pos - 1
      /\ FrameOK(tokens, pos, Top) /\ Follows(tokens, Top, lo) /\ stack # <<>>
      /\ ReadOK(tokens, nodes, pos, lo, min, doing)
      /\ \A n \in nodes : NodeOK(pos, n)
      /\ Tok(tokens, pos) \notin {".", "'", "["}
  BY <1>1, Reading
<1>3. Top.lo = Top.at /\ 1 <= Top.lo /\ Top.lo <= Top.at /\ tokens[Top.at] \in Prefix \cup Quantifier \cup {"if"}
  BY <1>1, <1>2 DEF FrameOK, Opener
<1>4. Beyond(nodes, pos, x)
  BY <1>1, <1>3, BeyondOperand
<1>5. x.op = tokens[Top.at] /\ x.hi = pos - 1 /\ x.lo = Top.lo /\ x.at = Top.at
  OBVIOUS
<1> HIDE DEF x
<1>6. ~IsInfix(x) /\ ~IsPostfix(x)
  <2>1. x.lo = x.at
    BY <1>3, <1>5
  <2>2. ~(x.lo < x.at)
    BY <1>2, <1>5, <2>1
  <2>3. x.op \notin {".", "'", "["}
    BY <1>3, <1>5 DEF Prefix, Quantifier
  <2>4. QED
    BY <2>2, <2>3 DEF IsInfix, IsPostfix
<1>7. IsPrefix(x) => PrefixOK(tokens, nodes, x)
  <2>1. SUFFICES ASSUME IsPrefix(x) PROVE PrefixOK(tokens, nodes, x)
    OBVIOUS
  <2>2. IsSign(tokens, Top)
    BY <1>1, <1>5, <2>1 DEF IsPrefix, IsSign
  <2>3. lo = x.at + 1 /\ min = 15
    BY <1>1, <1>2, <1>5, <2>2, EndOfOperand DEF Follows, Adjacent, Power, PREFIX_BP
  <2>4. Whole(tokens, nodes, x.at + 1, x.hi)
    BY <1>2, <1>5, <2>3 DEF ReadOK
  <2>5. ASSUME NEW m \in nodes, Spans(m, x.at + 1, x.hi), IsInfix(m) PROVE FALSE
    <3>1. Spans(m, lo, pos - 1)
      BY <1>5, <2>3, <2>5
    <3>2. LeftPower(m.op) >= 15
      BY <1>2, <2>3, <2>5, <3>1 DEF ReadOK, InfixRead
    <3>3. m.op \in Infix
      BY <2>5 DEF IsInfix
    <3>4. QED
      BY <3>2, <3>3, PowerType
  <2>6. QED
    BY <2>4, <2>5 DEF PrefixOK
<1>8. TreeOK(tokens, nodes, x)
  BY <1>6, <1>7 DEF TreeOK
<1>9. Ends(tokens, pos', x)
  <2>1. SUFFICES ASSUME IsOpen(x), Tok(tokens, pos) \in Infix PROVE FALSE
    BY <1>1, <1>2 DEF Ends
  <2>2. tokens[Top.at] \notin Prefix
    BY <1>5, <2>1 DEF IsOpen, Quantifier, Prefix
  <2>3. min = 0
    BY <1>1, <2>2, EndOfOperand DEF Power, IsSign
  <2>4. LeftPower(Tok(tokens, pos)) < 0
    BY <1>1, <2>1, <2>3, EndOfOperand
  <2>5. QED
    BY <2>1, <2>4, PowerType
<1>10. pos' \in Nat /\ pos <= pos' /\ x.hi = pos' - 1 /\ lo' = x.lo
  BY <1>1, <1>2, <1>5
<1>11. QED
  BY <1>1, <1>2, <1>4, <1>6, <1>8, <1>9, <1>10, TreesGrow

LEMMA CloseBinaryTrees ==
    ASSUME Control, Trees, CloseBinary
    PROVE  Trees'
<1> DEFINE x == [op |-> tokens[Top.at], at |-> Top.at, lo |-> Top.lo, hi |-> pos - 1]
<1>1. /\ doing = "infix" /\ ~Binds /\ Top.for = "binary" /\ tokens' = tokens /\ nodes' = nodes \cup {x}
      /\ pos' = pos /\ stack' = Below /\ lo' = Top.lo /\ min' = Top.min /\ doing' = "infix"
  BY DEF CloseBinary, Complete, At, Node, ValueTo, OnlyTree
<1>2. /\ pos \in Nat /\ pos - 1 \in Nat /\ Top.at \in Nat /\ Top.lo \in Nat /\ Top.at < lo /\ lo \in Nat /\ lo <= pos - 1
      /\ FrameOK(tokens, pos, Top) /\ Follows(tokens, Top, lo) /\ stack # <<>>
      /\ ReadOK(tokens, nodes, pos, lo, min, doing)
      /\ \A n \in nodes : NodeOK(pos, n)
  BY <1>1, Reading
<1>3. /\ 1 <= Top.lo /\ Top.lo <= Top.at /\ Top.lo < Top.at
      /\ tokens[Top.at] \in Infix /\ LeftPower(tokens[Top.at]) >= Top.min
  BY <1>1, <1>2 DEF FrameOK, Opener
<1>4. Beyond(nodes, pos, x)
  BY <1>1, <1>3, BeyondOperand
<1>5. x.op = tokens[Top.at] /\ x.hi = pos - 1 /\ x.lo = Top.lo /\ x.at = Top.at
  OBVIOUS
<1> HIDE DEF x
<1>6. ~IsPrefix(x) /\ ~IsPostfix(x) /\ ~IsOpen(x) /\ x.op \in Infix
  <2>1. ~(x.lo = x.at)
    BY <1>2, <1>3, <1>5
  <2>2. x.op \notin {".", "'", "[", "if"} \cup Quantifier /\ x.op \in Infix
    BY <1>3, <1>5 DEF Infix, Quantifier
  <2>3. QED
    BY <2>1, <2>2 DEF IsPrefix, IsPostfix, IsOpen
<1>7. min = RightPower(x.op) /\ lo = x.at + 1
  <2>1. ~IsSign(tokens, Top)
    BY <1>1 DEF IsSign
  <2>2. QED
    BY <1>1, <1>2, <1>5, <2>1, EndOfOperand DEF Power, Follows, Adjacent
<1>8. LeftOK(tokens, nodes, Top)
  <2>1. Len(stack) \in 1..Len(stack)
    BY <1>2, TopType DEF Control
  <2>2. QED
    BY <2>1 DEF Trees, Top
<1>9. InfixOK(tokens, nodes, x)
  <2>1. /\ Whole(tokens, nodes, x.lo, x.at - 1)
        /\ \A m \in nodes : IsInfix(m) /\ Spans(m, x.lo, x.at - 1) => TighterOnLeft(m.op, x.op)
        /\ \A m \in nodes : IsOpen(m) => ~(x.lo <= m.lo /\ m.hi = x.at - 1)
    BY <1>1, <1>5, <1>8 DEF LeftOK
  <2>2. Whole(tokens, nodes, x.at + 1, x.hi)
    BY <1>2, <1>5, <1>7 DEF ReadOK
  <2>3. ASSUME NEW m \in nodes, IsInfix(m), Spans(m, x.at + 1, x.hi) PROVE TighterOnRight(m.op, x.op)
    <3>1. Spans(m, lo, pos - 1)
      BY <1>5, <1>7, <2>3
    <3>2. LeftPower(m.op) >= RightPower(x.op)
      BY <1>2, <1>7, <2>3, <3>1 DEF ReadOK, InfixRead
    <3>3. m.op \in Infix
      BY <2>3 DEF IsInfix
    <3>4. QED
      BY <1>6, <3>2, <3>3, BindsMore
  <2>4. QED
    BY <2>1, <2>2, <2>3 DEF InfixOK
<1>10. TreeOK(tokens, nodes, x) /\ Ends(tokens, pos', x)
  BY <1>6, <1>9 DEF TreeOK, Ends
<1>11. InfixRead(tokens, pos', min', doing', x)
  <2>1. Tok(tokens, pos) \in Infix => LeftPower(Tok(tokens, pos)) < RightPower(x.op)
    BY <1>1, <1>7, EndOfOperand
  <2>2. QED
    BY <1>1, <1>3, <1>5, <2>1 DEF InfixRead
<1>12. pos' \in Nat /\ pos <= pos' /\ x.hi = pos' - 1 /\ lo' = x.lo
  BY <1>1, <1>2, <1>5
<1>13. QED
  BY <1>1, <1>2, <1>4, <1>10, <1>11, <1>12, TreesGrow

LEMMA UnchangedTrees ==
    ASSUME Trees, UNCHANGED <<tokens, call, nodes>>
    PROVE  Trees'
  BY DEF Trees, call

\* The parser only moves forward.
LEMMA Forward ==
    ASSUME Control, [Next]_vars
    PROVE  pos' \in Nat /\ pos <= pos' /\ pos \in Nat
<1> USE DEF OnlyCall, OnlyTree, Refuse, Finish, Parse, Value, ValueTo, GoOn, Return, call
<1> DEFINE Steps == {pos, pos + 1, pos + 2, pos + 3, pos + 4}
<1>1. CASE Atom \/ Call \/ Unary \/ Bracket \/ After \/ Quantify \/ TypedVar
  <2>1. pos' \in Steps
    BY <1>1 DEF Atom, Call, Unary, Bracket, After, Quantify, TypedVar
  <2>2. QED
    BY <2>1 DEF Control, CallType
<1>2. CASE Field \/ Prime \/ Index \/ NoPostfix \/ Operator
  <2>1. pos' \in Steps
    BY <1>2 DEF Field, Prime, Index, NoPostfix, Operator
  <2>2. QED
    BY <2>1 DEF Control, CallType
<1>3. CASE CloseTail \/ CloseBinary \/ NextArgument \/ Then \/ Else
  <2>1. pos' \in Steps
    BY <1>3 DEF CloseTail, CloseBinary, NextArgument, Then, Else
  <2>2. QED
    BY <2>1 DEF Control, CallType
<1>4. CASE CloseBracket("(", ")") \/ CloseBracket("after", ")") \/ CloseBracket("[", "]")
  <2>1. pos' \in Steps
    BY <1>4 DEF CloseBracket
  <2>2. QED
    BY <2>1 DEF Control, CallType
<1>5. CASE Declaration \/ EndOfBody \/ CloseTheorem \/ Invariant \/ CloseInvariant
  <2>1. pos' \in Steps
    BY <1>5 DEF Declaration, EndOfBody, CloseTheorem, Invariant, CloseInvariant
  <2>2. QED
    BY <2>1 DEF Control, CallType
<1>6. CASE Clause \/ CloseClause \/ Modifies \/ ClosePath
  <2>1. pos' \in Steps
    BY <1>6 DEF Clause, CloseClause, Modifies, ClosePath
  <2>2. QED
    BY <2>1 DEF Control, CallType
<1>7. CASE Section \/ Binding \/ PathField \/ PathPrime \/ EndOfPath \/ CloseBinding \/ EndOfSection
  <2>1. pos' \in Steps
    BY <1>7 DEF Section, Binding, PathField, PathPrime, EndOfPath, CloseBinding, EndOfSection
  <2>2. QED
    BY <2>1 DEF Control, CallType
<1>8. CASE \/ EndOfFile \/ NoDeclaration \/ NoExpression \/ NoInvariant \/ NoClause \/ NoPath
           \/ UNCHANGED vars
  <2>1. pos' = pos
    BY <1>8 DEF EndOfFile, NoDeclaration, NoExpression, NoInvariant, NoClause, NoPath, vars
  <2>2. QED
    BY <2>1 DEF Control, CallType
<1>9. QED
  BY <1>1, <1>2, <1>3, <1>4, <1>5, <1>6, <1>7, <1>8 DEF Next

\* The steps that read no operand: they call parse_pratt, or are those of a
\* declaration.
Quiet ==
    /\ nodes' = nodes /\ doing' \notin {"postfix", "infix"}
    /\ \E f : /\ f.for \notin {"binary", "["}
              /\ \/ stack' = stack \/ stack' = Append(stack, f)
                 \/ stack # <<>> /\ (stack' = Below \/ stack' = Append(Below, f))

LEMMA QuietTrees ==
    ASSUME Control, Trees, [Next]_vars, Quiet
    PROVE  Trees'
<1>1. tokens' = tokens /\ pos' \in Nat /\ pos <= pos'
  BY Frames, Forward
<1>2. PICK f : /\ f.for \notin {"binary", "["}
               /\ \/ stack' = stack \/ stack' = Append(stack, f)
                  \/ stack # <<>> /\ (stack' = Below \/ stack' = Append(Below, f))
  BY DEF Quiet
<1>3. LeftOK(tokens, nodes, f)
  BY <1>2 DEF LeftOK
<1>4. QED
  BY <1>1, <1>2, <1>3, TreesLast DEF Quiet

LEMMA Pushes ==
    ASSUME nodes' = nodes, doing' \notin {"postfix", "infix"}, NEW f, stack' = Append(stack, f),
           f.for \notin {"binary", "["}
    PROVE  Quiet
  BY DEF Quiet

LEMMA Swaps ==
    ASSUME nodes' = nodes, doing' \notin {"postfix", "infix"}, stack # <<>>, NEW f, stack' = Append(Below, f),
           f.for \notin {"binary", "["}
    PROVE  Quiet
  BY DEF Quiet

LEMMA Pops ==
    ASSUME nodes' = nodes, doing' \notin {"postfix", "infix"},
           stack' = stack \/ (stack # <<>> /\ stack' = Below)
    PROVE  Quiet
<1>1. Waits("(", 0, 0).for \notin {"binary", "["}
  BY DEF Waits
<1>2. QED
  BY <1>1 DEF Quiet

LEMMA CallTrees ==
    ASSUME Control, Trees, Call
    PROVE  Trees'
<1>1. [Next]_vars
  BY DEF Next
<1>2. CASE Peek(2) = ")"
  <2>1. Node("call", pos, pos, pos + 2) /\ Value(pos, "postfix", pos + 3) /\ OnlyTree
    BY <1>2 DEF Call
  <2>2. pos \in Nat /\ pos >= 1
    BY DEF Control, CallType
  <2>3. pos + 2 \in Nat /\ 1 <= pos /\ pos <= pos /\ pos <= pos + 2 /\ pos + 3 = pos + 2 + 1
    BY <2>2
  <2>4. QED
    BY <2>1, <2>2, <2>3, ClosedTrees DEF Value, OnlyTree
<1>3. CASE Peek(2) # ")"
  <2>1. Parse(Waits("call", pos, pos), stack, 0, pos + 2) /\ OnlyCall
    BY <1>3 DEF Call
  <2>2. QED
    BY <1>1, <2>1, Pushes, QuietTrees DEF Parse, OnlyCall, Waits
<1>4. QED
  BY <1>2, <1>3

LEMMA EnterTrees ==
    ASSUME Control, Trees, Unary \/ Bracket \/ After \/ Quantify
    PROVE  Trees'
<1>1. [Next]_vars
  BY DEF Next
<1>2. CASE Unary \/ Bracket \/ Quantify
  <2>1. nodes' = nodes /\ doing' \notin {"postfix", "infix"}
    BY <1>2 DEF Unary, Bracket, Quantify, Parse, OnlyCall
  <2>2. \E f : stack' = Append(stack, f) /\ f.for \in {"tail", "(", "if"}
    BY <1>2 DEF Unary, Bracket, Quantify, Parse, Waits
  <2>3. QED
    BY <1>1, <2>1, <2>2, Pushes, QuietTrees
<1>3. CASE After
  <2>1. CASE Peek(1) = "("
    <3>1. Parse(Waits("after", pos, pos), stack, 0, pos + 2) /\ OnlyCall
      BY <1>3, <2>1 DEF After
    <3>2. QED
      BY <1>1, <3>1, Pushes, QuietTrees DEF Parse, OnlyCall, Waits
  <2>2. CASE Peek(1) # "("
    BY <1>3, <2>2, UnchangedTrees DEF After, Refuse
  <2>3. QED
    BY <2>1, <2>2
<1>4. QED
  BY <1>2, <1>3

LEMMA FieldTrees ==
    ASSUME Control, Trees, Field
    PROVE  Trees'
<1>1. CASE Peek(1) \in Ident
  <2>1. /\ doing = "postfix" /\ Peek(0) = "." /\ Node(".", pos, lo, pos + 1)
        /\ tokens' = tokens /\ pos' = pos + 2 /\ stack' = stack /\ lo' = lo /\ doing' = "postfix"
    BY <1>1 DEF Field, At, GoOn, OnlyTree
  <2>2. pos + 1 \in Nat /\ pos <= pos + 1 /\ pos + 2 = pos + 1 + 1
    BY DEF Control, CallType
  <2>3. QED
    BY <2>1, <2>2, PostfixTrees
<1>2. CASE Peek(1) \notin Ident
  BY <1>2, UnchangedTrees DEF Field, Refuse
<1>3. QED
  BY <1>1, <1>2

LEMMA PrimeTrees ==
    ASSUME Control, Trees, Prime
    PROVE  Trees'
<1>1. /\ doing = "postfix" /\ Peek(0) = "'" /\ Node("'", pos, lo, pos)
      /\ tokens' = tokens /\ pos' = pos + 1 /\ stack' = stack /\ lo' = lo /\ doing' = "postfix"
  BY DEF Prime, At, GoOn, OnlyTree
<1>2. pos \in Nat /\ pos <= pos
  BY DEF Control, CallType
<1>3. QED
  BY <1>1, <1>2, PostfixTrees

LEMMA IndexTrees ==
    ASSUME Control, Trees, Index
    PROVE  Trees'
<1> DEFINE f == Waits("[", pos, lo)
<1>1. /\ doing = "postfix" /\ Peek(0) = "[" /\ tokens' = tokens /\ nodes' = nodes
      /\ stack' = Append(stack, f) /\ pos' = pos + 1 /\ doing' = "prefix"
  BY DEF Index, At, Parse, OnlyCall
<1>2. /\ pos \in Nat /\ ReadOK(tokens, nodes, pos, lo, min, doing) /\ Tok(tokens, pos) = "["
      /\ \A n \in nodes : Ends(tokens, pos, n)
  BY <1>1, Reading
<1>3. f.for = "[" /\ f.at = pos /\ f.lo = lo
  BY DEF Waits
<1> HIDE DEF f
<1>4. LeftOK(tokens, nodes, f)
  <2>1. Whole(tokens, nodes, lo, pos - 1)
    BY <1>2 DEF ReadOK
  <2>2. ASSUME NEW m \in nodes, Spans(m, lo, pos - 1) PROVE ~IsInfix(m) /\ ~IsPrefix(m) /\ ~IsOpen(m)
    <3>1. ~IsInfix(m)
      BY <1>1, <1>2, <2>2 DEF ReadOK, InfixRead
    <3>2. QED
      BY <1>2, <2>2, <3>1 DEF Ends, Spans
  <2>3. QED
    BY <1>3, <2>1, <2>2 DEF LeftOK
<1>5. pos' \in Nat /\ pos <= pos'
  BY <1>1, <1>2
<1>6. QED
  BY <1>1, <1>4, <1>5, TreesLast

LEMMA OperatorTrees ==
    ASSUME Control, Trees, Operator
    PROVE  Trees'
<1> DEFINE f == Waits("binary", pos, lo)
<1>1. /\ doing = "infix" /\ Binds /\ tokens' = tokens /\ nodes' = nodes
      /\ stack' = Append(stack, f) /\ pos' = pos + 1 /\ doing' = "prefix"
  BY DEF Operator, At, Parse, OnlyCall
<1>2. /\ pos \in Nat /\ ReadOK(tokens, nodes, pos, lo, min, doing) /\ Peek(0) = Tok(tokens, pos)
      /\ \A n \in nodes : Ends(tokens, pos, n)
  BY <1>1, Reading
<1>3. f.for = "binary" /\ f.at = pos /\ f.lo = lo
  BY DEF Waits
<1> HIDE DEF f
<1>4. Tok(tokens, pos) \in Infix /\ tokens[pos] = Tok(tokens, pos)
  <2>1. Peek(0) \in Infix
    BY <1>1 DEF Binds
  <2>2. QED
    BY <1>2, <2>1, TokenRead DEF Infix
<1>5. LeftOK(tokens, nodes, f)
  <2>1. Whole(tokens, nodes, lo, pos - 1)
    BY <1>2 DEF ReadOK
  <2>2. ASSUME NEW m \in nodes, IsInfix(m), Spans(m, lo, pos - 1) PROVE TighterOnLeft(m.op, tokens[pos])
    <3>1. LeftPower(tokens[pos]) < RightPower(m.op) /\ m.op \in Infix
      BY <1>2, <1>4, <2>2 DEF ReadOK, InfixRead, IsInfix
    <3>2. QED
      BY <1>4, <3>1, BindsLess
  <2>3. \A m \in nodes : IsOpen(m) => ~(lo <= m.lo /\ m.hi = pos - 1)
    BY <1>2, <1>4 DEF Ends
  <2>4. QED
    BY <1>3, <2>1, <2>2, <2>3 DEF LeftOK
<1>6. pos' \in Nat /\ pos <= pos'
  BY <1>1, <1>2
<1>7. QED
  BY <1>1, <1>5, <1>6, TreesLast

LEMMA CloseParenTrees ==
    ASSUME Control, Trees, doing = "infix", tokens' = tokens, NEW op \in {"call", "(", "after"}, Top.for = op,
           Node(op, Top.at, Top.lo, pos), ValueTo(Top, "postfix", pos + 1)
    PROVE  Trees'
<1>1. /\ pos \in Nat /\ Top.at \in Nat /\ Top.lo \in Nat /\ Top.at < pos /\ FrameOK(tokens, pos, Top) /\ stack # <<>>
  BY Reading
<1>2. 1 <= Top.lo /\ Top.lo <= Top.at /\ Top.at <= pos /\ pos <= pos
  <2>1. Top.for \in Opener
    BY DEF Opener
  <2>2. 1 <= Top.lo /\ Top.lo <= Top.at
    BY <1>1, <2>1 DEF FrameOK
  <2>3. QED
    BY <1>1, <2>2
<1>3. pos' = pos + 1 /\ stack' = Below /\ lo' = Top.lo /\ doing' = "postfix"
  BY DEF ValueTo
<1>4. QED
  BY <1>1, <1>2, <1>3, ClosedTrees

LEMMA CloseBracketTrees ==
    ASSUME Control, Trees, NEW for \in {"(", "after", "["}, NEW close, CloseBracket(for, close)
    PROVE  Trees'
<1>1. CASE Peek(0) = close
  <2>1. /\ doing = "infix" /\ Top.for = for /\ tokens' = tokens
        /\ Node(for, Top.at, Top.lo, pos) /\ ValueTo(Top, "postfix", pos + 1)
    BY <1>1 DEF CloseBracket, Complete, At, OnlyTree
  <2>2. CASE for = "["
    BY <2>1, <2>2, IndexedTrees
  <2>3. CASE for \in {"(", "after"}
    BY <2>1, <2>3, CloseParenTrees
  <2>4. QED
    BY <2>2, <2>3
<1>2. CASE Peek(0) # close
  BY <1>2, UnchangedTrees DEF CloseBracket, Refuse
<1>3. QED
  BY <1>1, <1>2

LEMMA NextArgumentTrees ==
    ASSUME Control, Trees, NextArgument
    PROVE  Trees'
<1>1. doing = "infix" /\ Top.for = "call"
  BY DEF NextArgument, Complete, At
<1>2. CASE Peek(0) = "comma"
  <2>1. Parse(Top, Below, 0, pos + 1) /\ OnlyCall /\ [Next]_vars /\ stack # <<>>
    BY <1>1, <1>2, Reading DEF NextArgument, Next
  <2>2. QED
    BY <1>1, <2>1, Swaps, QuietTrees DEF Parse, OnlyCall
<1>3. CASE Peek(0) = ")"
  BY <1>1, <1>3, CloseParenTrees DEF NextArgument, OnlyTree
<1>4. CASE Peek(0) \notin {"comma", ")"}
  BY <1>4, UnchangedTrees DEF NextArgument, Refuse
<1>5. QED
  BY <1>2, <1>3, <1>4

\* The branches of an if.
LEMMA BranchTrees ==
    ASSUME Control, Trees, Then \/ Else
    PROVE  Trees'
<1>1. doing = "infix" /\ [Next]_vars
  BY DEF Then, Else, Complete, At, Next
<1>2. stack # <<>> /\ Top \in Frame
  BY <1>1, Reading
<1>3. ASSUME NEW for \in {"then", "tail"}, Parse([Top EXCEPT !.for = for], Below, 0, pos + 1), OnlyCall
      PROVE  Trees'
  <2>1. [Top EXCEPT !.for = for].for = for
    BY <1>2 DEF Frame
  <2>2. QED
    BY <1>1, <1>2, <1>3, <2>1, Swaps, QuietTrees DEF Parse, OnlyCall
<1>4. CASE UNCHANGED <<tokens, call, nodes>>
  BY <1>4, UnchangedTrees
<1>5. QED
  BY <1>3, <1>4 DEF Then, Else, Refuse

LEMMA TypedVarTrees ==
    ASSUME Control, Trees, TypedVar
    PROVE  Trees'
<1>1. doing = "typed_vars" /\ [Next]_vars
  BY DEF TypedVar, At, Next
<1>2. stack # <<>> /\ Top.for = "tail"
  BY <1>1 DEF Control, DoingOK
<1>3. CASE UNCHANGED <<tokens, call, nodes>>
  BY <1>3, UnchangedTrees
<1>4. CASE OnlyCall /\ GoOn("typed_vars", pos + 4)
  BY <1>1, <1>4, Pops, QuietTrees DEF GoOn, OnlyCall
<1>5. CASE OnlyCall /\ Parse(Top, Below, 0, pos + 4)
  BY <1>1, <1>2, <1>5, Swaps, QuietTrees DEF Parse, OnlyCall
<1>6. QED
  BY <1>3, <1>4, <1>5 DEF TypedVar, Refuse

LEMMA DeclarationTrees ==
    ASSUME Control, Trees, Declaration \/ Invariant \/ Clause \/ Section \/ Binding
    PROVE  Trees'
<1>1. [Next]_vars
  BY DEF Next
<1>2. CASE UNCHANGED <<tokens, call, nodes>>
  BY <1>2, UnchangedTrees
<1>3. ASSUME OnlyCall, doing' \notin {"postfix", "infix"},
             NEW for, for \notin {"binary", "["}, NEW at, NEW from, stack' = Append(stack, Waits(for, at, from))
      PROVE  Trees'
  <2>1. Waits(for, at, from).for = for
    BY DEF Waits
  <2>2. QED
    BY <1>1, <1>3, <2>1, Pushes, QuietTrees DEF OnlyCall
<1>4. CASE Declaration
  <2>1. OnlyCall /\ doing' \notin {"postfix", "infix"} /\ Peek(0) \in Header
    BY <1>4 DEF Declaration, Parse
  <2>2. stack' = Append(stack, Waits("theorem", pos, pos + 1)) \/ stack' = Append(stack, Waits(Peek(0), pos, pos))
    BY <1>4 DEF Declaration, Parse
  <2>3. Peek(0) \notin {"binary", "["}
    BY <2>1 DEF Header
  <2>4. QED
    BY <1>3, <2>1, <2>2, <2>3
<1>5. CASE Invariant \/ Clause
  <2>1. OnlyCall /\ doing' \notin {"postfix", "infix"}
    BY <1>5 DEF Invariant, Clause, Parse
  <2>2. \E for \in {"invariant", "clause"} : stack' = Append(stack, Waits(for, pos, pos + 1))
    BY <1>5 DEF Invariant, Clause, Parse
  <2>3. QED
    BY <1>3, <2>1, <2>2
<1>6. CASE Section
  BY <1>2, <1>3, <1>6 DEF Section, Refuse
<1>7. CASE Binding
  BY <1>2, <1>3, <1>7 DEF Binding, Refuse
<1>8. QED
  BY <1>4, <1>5, <1>6, <1>7

LEMMA PartTrees ==
    ASSUME Control, Trees,
           EndOfBody \/ CloseTheorem \/ CloseInvariant \/ CloseClause \/ CloseBinding \/ EndOfSection
    PROVE  Trees'
<1>1. [Next]_vars
  BY DEF Next
<1>2. CASE UNCHANGED <<tokens, call, nodes>>
  BY <1>2, UnchangedTrees
<1>3. doing \notin {"program"} => stack # <<>>
  BY DEF Control, DoingOK
<1>4. ASSUME nodes' = nodes, NEW where \in {"program", "body", "bindings"}, NEW n, Return(where, n), stack # <<>>
      PROVE  Trees'
  BY <1>1, <1>4, Pops, QuietTrees DEF Return
<1>5. CASE EndOfBody
  BY <1>3, <1>4, <1>5 DEF EndOfBody, Finish, At
<1>6. CASE CloseTheorem
  BY <1>2, <1>3, <1>4, <1>6 DEF CloseTheorem, Finish, Complete, At, Refuse
<1>7. CASE CloseInvariant \/ CloseClause
  BY <1>2, <1>3, <1>4, <1>7 DEF CloseInvariant, CloseClause, Add, Complete, At, Refuse
<1>8. CASE CloseBinding
  BY <1>2, <1>3, <1>4, <1>8 DEF CloseBinding, Complete, At, Refuse
<1>9. CASE EndOfSection
  BY <1>2, <1>3, <1>4, <1>9 DEF EndOfSection, At, Refuse
<1>10. QED
  BY <1>5, <1>6, <1>7, <1>8, <1>9

LEMMA PathTrees ==
    ASSUME Control, Trees, Modifies \/ ClosePath \/ PathField \/ PathPrime \/ EndOfPath
    PROVE  Trees'
<1>1. [Next]_vars
  BY DEF Next
<1>2. CASE UNCHANGED <<tokens, call, nodes>>
  BY <1>2, UnchangedTrees
<1>3. CASE Modifies
  <2>1. CASE GoOn("body", pos + 2) /\ nodes' = nodes
    BY <1>1, <2>1, Pops, QuietTrees DEF GoOn
  <2>2. CASE Parse(Waits("modifies", pos, pos + 1), stack, 0, pos + 1) /\ OnlyCall
    BY <1>1, <2>2, Pushes, QuietTrees DEF Parse, OnlyCall, Waits
  <2>3. QED
    BY <1>2, <1>3, <2>1, <2>2 DEF Modifies, Refuse
<1>4. CASE ClosePath
  <2>1. doing = "infix" /\ Top.for = "modifies" /\ nodes' = nodes
    BY <1>4 DEF ClosePath, Complete, At, Add
  <2>2. stack # <<>> /\ Top \in Frame
    BY <2>1, Reading
  <2>3. CASE Return("body", pos)
    BY <1>1, <2>1, <2>2, <2>3, Pops, QuietTrees DEF Return
  <2>4. CASE Parse([Top EXCEPT !.lo = pos + 1], Below, 0, pos + 1)
    <3>1. [Top EXCEPT !.lo = pos + 1].for = "modifies"
      BY <2>1, <2>2 DEF Frame
    <3>2. QED
      BY <1>1, <2>1, <2>2, <2>4, <3>1, Swaps, QuietTrees DEF Parse
  <2>5. QED
    BY <1>4, <2>3, <2>4 DEF ClosePath
<1>5. CASE PathField \/ PathPrime
  <2>1. nodes' = nodes /\ stack' = stack /\ doing' = "path"
    BY <1>5 DEF PathField, PathPrime, GoOn, OnlyCall
  <2>2. QED
    BY <1>1, <2>1, Pops, QuietTrees
<1>6. CASE EndOfPath
  <2>1. doing = "path" /\ Parse(Top, Below, 0, pos + 1) /\ OnlyCall
    BY <1>6 DEF EndOfPath, At
  <2>2. stack # <<>> /\ Top.for = "binding"
    BY <2>1, InLoop
  <2>3. QED
    BY <1>1, <2>1, <2>2, Swaps, QuietTrees DEF Parse, OnlyCall
<1>7. QED
  BY <1>3, <1>4, <1>5, <1>6

LEMMA TreesKeep ==
    ASSUME Control, Trees, [Next]_vars
    PROVE  Trees'
<1>1. CASE Atom \/ Call \/ Unary \/ Bracket \/ After \/ Quantify \/ TypedVar
  BY <1>1, AtomTrees, CallTrees, EnterTrees, TypedVarTrees
<1>2. CASE Field \/ Prime \/ Index \/ NoPostfix \/ Operator
  BY <1>2, FieldTrees, PrimeTrees, IndexTrees, NoPostfixTrees, OperatorTrees
<1>3. CASE CloseTail \/ CloseBinary \/ NextArgument \/ Then \/ Else
  BY <1>3, CloseTailTrees, CloseBinaryTrees, NextArgumentTrees, BranchTrees
<1>4. CASE CloseBracket("(", ")") \/ CloseBracket("after", ")") \/ CloseBracket("[", "]")
  BY <1>4, CloseBracketTrees
<1>5. CASE Declaration \/ Invariant \/ Clause \/ Section \/ Binding
  BY <1>5, DeclarationTrees
<1>6. CASE EndOfBody \/ CloseTheorem \/ CloseInvariant \/ CloseClause \/ CloseBinding \/ EndOfSection
  BY <1>6, PartTrees
<1>7. CASE Modifies \/ ClosePath \/ PathField \/ PathPrime \/ EndOfPath
  BY <1>7, PathTrees
<1>8. CASE EndOfFile \/ NoDeclaration \/ NoExpression \/ NoInvariant \/ NoClause \/ NoPath
  BY <1>8, AnswerKeeps, UnchangedTrees
<1>9. CASE UNCHANGED vars
  BY <1>9, UnchangedTrees DEF vars
<1>10. QED
  BY <1>1, <1>2, <1>3, <1>4, <1>5, <1>6, <1>7, <1>8, <1>9 DEF Next

LEMMA TreesInit == Init => Trees
<1>1. SUFFICES ASSUME Init PROVE Trees
  OBVIOUS
<1>2. nodes = {} /\ doing = "program" /\ stack = <<>>
  BY <1>1 DEF Init
<1>3. 1..Len(stack) = {}
  BY <1>2, EmptySeq
<1>4. QED
  BY <1>2, <1>3 DEF Trees

LEMMA TreesAlways == Spec => [](Control /\ Trees)
<1>1. Init => Control /\ Trees
  BY ControlInit, TreesInit
<1>2. Control /\ Trees /\ [Next]_vars => (Control /\ Trees)'
  BY ControlKeeps, TreesKeep
<1>3. QED
  BY <1>1, <1>2, PTL DEF Spec

\* SPEC.md 9 for every file: the tree of an expression follows the table of
\* precedences (parse_pratt with left_bp and right_bp, parse_prefix).
THEOREM TreesAlwaysFollowTheTable == Spec => []TreesFollowTheTable
<1>1. Trees => TreesFollowTheTable
  <2>1. SUFFICES ASSUME Trees, NEW n \in nodes, TreeOK(tokens, nodes, n)
                 PROVE  /\ IsInfix(n) => InfixOK(tokens, nodes, n)
                        /\ IsPrefix(n) => PrefixOK(tokens, nodes, n)
                        /\ IsPostfix(n) => PostfixOK(tokens, nodes, n)
    BY DEF Trees, TreesFollowTheTable, InfixOK, PrefixOK, PostfixOK, Operand, Whole
  <2>2. QED
    BY <2>1 DEF TreeOK
<1>2. QED
  BY <1>1, TreesAlways, PTL

-----------------------------------------------------------------------------
(* The coverage: the open calls that count. *)

LEMMA BaseAppend ==
    ASSUME NEW S, NEW s \in Seq(S), NEW f
    PROVE  Base(Append(s, f)) = Base(s) \cup (IF f.for \in Opener THEN {} ELSE {f})
<1> DEFINE r == Append(s, f)
<1>1. /\ Len(s) \in Nat /\ Len(r) = Len(s) + 1 /\ r[Len(s) + 1] = f
      /\ \A k \in 1..Len(s) : r[k] = s[k]
  <2>1. s \in Seq(S \cup {f})
    OBVIOUS
  <2>2. QED
    BY <2>1, AppendProperties
<1> HIDE DEF r
<1>2. Base(r) \subseteq Base(s) \cup (IF f.for \in Opener THEN {} ELSE {f})
  <2>1. ASSUME NEW k \in 1..Len(r), r[k].for \notin Opener
        PROVE  r[k] \in Base(s) \cup (IF f.for \in Opener THEN {} ELSE {f})
    <3>1. k \in 1..Len(s) \/ k = Len(s) + 1
      BY <1>1
    <3>2. CASE k \in 1..Len(s)
      BY <1>1, <2>1, <3>2 DEF Base
    <3>3. CASE k = Len(s) + 1
      BY <1>1, <2>1, <3>3
    <3>4. QED
      BY <3>1, <3>2, <3>3
  <2>2. QED
    BY <2>1 DEF Base
<1>3. Base(s) \subseteq Base(r)
  <2>1. ASSUME NEW k \in 1..Len(s), s[k].for \notin Opener PROVE s[k] \in Base(r)
    <3>1. k \in 1..Len(r) /\ r[k] = s[k]
      BY <1>1
    <3>2. QED
      BY <2>1, <3>1 DEF Base
  <2>2. QED
    BY <2>1 DEF Base
<1>4. f.for \notin Opener => f \in Base(r)
  <2>1. Len(s) + 1 \in 1..Len(r)
    BY <1>1
  <2>2. QED
    BY <1>1, <2>1 DEF Base
<1>5. QED
  BY <1>2, <1>3, <1>4 DEF r

LEMMA BaseSplit ==
    ASSUME NEW s \in Seq(Frame), s # <<>>
    PROVE  LET r == SubSeq(s, 1, Len(s) - 1)
               f == s[Len(s)]
           IN  Base(s) = Base(r) \cup (IF f.for \in Opener THEN {} ELSE {f})
<1> DEFINE r == SubSeq(s, 1, Len(s) - 1)
           f == s[Len(s)]
<1>1. /\ Len(s) \in Nat /\ Len(s) >= 1 /\ Len(r) = Len(s) - 1
      /\ \A k \in 1..Len(s) - 1 : r[k] = s[k]
  BY PopSeq
<1> HIDE DEF r
<1>2. Base(s) \subseteq Base(r) \cup (IF f.for \in Opener THEN {} ELSE {f})
  <2>1. ASSUME NEW k \in 1..Len(s), s[k].for \notin Opener
        PROVE  s[k] \in Base(r) \cup (IF f.for \in Opener THEN {} ELSE {f})
    <3>1. k \in 1..Len(r) \/ k = Len(s)
      BY <1>1
    <3>2. CASE k \in 1..Len(r)
      BY <1>1, <2>1, <3>2 DEF Base
    <3>3. CASE k = Len(s)
      BY <2>1, <3>3
    <3>4. QED
      BY <3>1, <3>2, <3>3
  <2>2. QED
    BY <2>1 DEF Base
<1>3. Base(r) \subseteq Base(s)
  <2>1. ASSUME NEW k \in 1..Len(r), r[k].for \notin Opener PROVE r[k] \in Base(s)
    <3>1. k \in 1..Len(s) /\ r[k] = s[k]
      BY <1>1
    <3>2. QED
      BY <2>1, <3>1 DEF Base
  <2>2. QED
    BY <2>1 DEF Base
<1>4. f.for \notin Opener => f \in Base(s)
  <2>1. Len(s) \in 1..Len(s)
    BY <1>1
  <2>2. QED
    BY <2>1 DEF Base
<1>5. QED
  BY <1>2, <1>3, <1>4 DEF r

LEMMA BaseEmpty == Base(<<>>) = {}
<1>1. 1..Len(<<>>) = {}
  BY EmptySeq
<1>2. QED
  BY <1>1 DEF Base

LEMMA BaseShort ==
    ASSUME NEW s \in Seq(Frame), NEW m \in {1, 2, 3}, Len(s) = m, \A k \in 1..m : s[k].for \notin Opener
    PROVE  Base(s) = {s[k] : k \in 1..m}
  BY DEF Base

LEMMA MarkTypes ==
    ASSUME CallType, StackOK, NEW f \in Marks
    PROVE  /\ f \in Frame /\ FrameOK(tokens, pos, f) /\ f.for \in Starter \cup Header \cup {"section"}
           /\ f.at \in Nat /\ f.lo \in Nat /\ f.at < pos /\ f.lo <= pos /\ f.at \in DOMAIN tokens
<1>1. PICK k \in 1..Len(stack) : f = stack[k] /\ stack[k].for \notin Opener
  BY DEF Marks, Base
<1>2. f \in Frame /\ FrameOK(tokens, pos, f)
  BY <1>1, ElementOfSeq DEF StackOK, InOrder, CallType
<1>3. f.for \in Starter \cup Header \cup {"section"}
  BY <1>1, <1>2 DEF Frame, Starter, Header, Opener
<1>4. QED
  BY <1>2, <1>3, FrameType DEF FrameOK

\* The calls that count while the parser is in a loop of a declaration, or
\* completes a part of one.
LEMMA MarksAtBottom ==
    ASSUME CallType, StackOK, Len(stack) = 1
    PROVE  Marks = {stack[1]} /\ Top = stack[1] /\ stack[1].for \in Header /\ stack # <<>>
<1>1. stack \in Seq(Frame) /\ stack # <<>>
  <2>1. stack = <<>> => Len(stack) = 0
    BY EmptySeq
  <2>2. \A k \in {0, 1} : k = 1 => k # 0
    OBVIOUS
  <2>3. QED
    BY <2>1, <2>2 DEF CallType
<1>2. stack[1].for \in Header
  BY <1>1 DEF StackOK, InOrder
<1>3. \A k \in 1..1 : stack[k].for \notin Opener
  BY <1>2 DEF Opener, Header
<1>4. Marks = {stack[k] : k \in 1..1}
  BY <1>1, <1>3, BaseShort DEF Marks
<1>5. QED
  BY <1>1, <1>2, <1>4 DEF Top

LEMMA MarksOfPart ==
    ASSUME CallType, StackOK, stack # <<>>, Top.for \in {"clause", "modifies", "invariant", "section"}
    PROVE  /\ Marks = {stack[1], Top} /\ Base(Below) = {stack[1]}
           /\ stack[1].for = IF Top.for = "invariant" THEN "safety"
                             ELSE IF Top.for = "section" THEN "example" ELSE "intent"
<1>1. /\ Len(stack) = 2 /\ stack[1].for = IF Top.for = "invariant" THEN "safety"
                                          ELSE IF Top.for = "section" THEN "example" ELSE "intent"
  BY UnderPart
<1>2. Below \in Seq(Frame) /\ Len(Below) = Len(stack) - 1 /\ \A k \in 1..Len(stack) - 1 : Below[k] = stack[k]
  BY PopSeq DEF Below, CallType
<1>3. Len(Below) = 1 /\ Below[1] = stack[1]
  BY <1>1, <1>2
<1>4. stack[1].for \notin Opener /\ Top.for \notin Opener
  BY <1>1 DEF Opener
<1>5. Base(Below) = {stack[1]}
  <2>1. \A k \in 1..1 : Below[k].for \notin Opener
    BY <1>3, <1>4
  <2>2. Base(Below) = {Below[k] : k \in 1..1}
    BY <1>2, <1>3, <2>1, BaseShort
  <2>3. QED
    BY <1>3, <2>2
<1>6. Marks = Base(Below) \cup {Top}
  BY <1>4, BaseSplit DEF Marks, Below, Top, CallType
<1>7. QED
  BY <1>1, <1>5, <1>6

LEMMA MarksOfBinding ==
    ASSUME CallType, StackOK, stack # <<>>, Top.for = "binding"
    PROVE  /\ Marks = {stack[1], stack[2], Top} /\ Base(Below) = {stack[1], stack[2]}
           /\ stack[1].for = "example" /\ stack[2].for = "section" /\ stack[2].at = Top.at
<1>1. Len(stack) = 3 /\ stack[1].for = "example" /\ stack[2].for = "section" /\ stack[2].at = Top.at
  BY UnderBinding
<1>2. Below \in Seq(Frame) /\ Len(Below) = Len(stack) - 1 /\ \A k \in 1..Len(stack) - 1 : Below[k] = stack[k]
  BY PopSeq DEF Below, CallType
<1>3. Len(Below) = 2 /\ Below[1] = stack[1] /\ Below[2] = stack[2]
  BY <1>1, <1>2
<1>4. stack[1].for \notin Opener /\ stack[2].for \notin Opener /\ Top.for \notin Opener
  BY <1>1 DEF Opener
<1>5. Base(Below) = {stack[1], stack[2]}
  <2>1. \A k \in 1..2 : Below[k].for \notin Opener
    BY <1>3, <1>4
  <2>2. Base(Below) = {Below[k] : k \in 1..2}
    BY <1>2, <1>3, <2>1, BaseShort
  <2>3. QED
    BY <1>3, <2>2
<1>6. Marks = Base(Below) \cup {Top}
  BY <1>4, BaseSplit DEF Marks, Below, Top, CallType
<1>7. QED
  BY <1>1, <1>5, <1>6

\* A step that reads no head of a declaration.
Plain(n) == Peek(n) \notin Header
Skip ==
    \/ pos' = pos
    \/ pos' = pos + 1 /\ Plain(0)
    \/ pos' = pos + 2 /\ Plain(0) /\ Plain(1)
    \/ pos' = pos + 3 /\ Plain(0) /\ Plain(1) /\ Plain(2)
    \/ pos' = pos + 4 /\ Plain(0) /\ Plain(1) /\ Plain(2) /\ Plain(3)
Reads(n) == n \in DOMAIN tokens /\ pos <= n /\ n < pos'

LEMMA Skipped ==
    ASSUME CallType, Skip, NEW n, Reads(n)
    PROVE  tokens[n] \notin Header
<1>1. n \in Nat /\ n \in DOMAIN tokens /\ pos <= n /\ n < pos' /\ pos \in Nat
  BY DEF CallType, Reads
<1>2. ASSUME NEW j \in Nat, n = pos + j, Plain(j) PROVE tokens[n] \notin Header
  BY <1>1, <1>2 DEF Plain, Peek, Tok
<1>3. CASE pos' = pos
  BY <1>1, <1>3
<1>4. CASE pos' = pos + 1 /\ Plain(0)
  <2>1. n = pos + 0
    BY <1>1, <1>4
  <2>2. QED
    BY <1>2, <1>4, <2>1
<1>5. CASE pos' = pos + 2 /\ Plain(0) /\ Plain(1)
  <2>1. n = pos + 0 \/ n = pos + 1
    BY <1>1, <1>5
  <2>2. QED
    BY <1>2, <1>5, <2>1
<1>6. CASE pos' = pos + 3 /\ Plain(0) /\ Plain(1) /\ Plain(2)
  <2>1. n = pos + 0 \/ n = pos + 1 \/ n = pos + 2
    BY <1>1, <1>6
  <2>2. QED
    BY <1>2, <1>6, <2>1
<1>7. CASE pos' = pos + 4 /\ Plain(0) /\ Plain(1) /\ Plain(2) /\ Plain(3)
  <2>1. n = pos + 0 \/ n = pos + 1 \/ n = pos + 2 \/ n = pos + 3
    BY <1>1, <1>7
  <2>2. QED
    BY <1>2, <1>7, <2>1
<1>8. QED
  BY <1>3, <1>4, <1>5, <1>6, <1>7 DEF Skip

\* A step under which the calls that count stay what they are.
Within ==
    \/ stack' = stack \/ stack' = Append(Below, Top)
    \/ \E f : f.for \in Opener /\ stack' = Append(stack, f)
    \/ Top.for \in Opener /\ (stack' = Below \/ \E f : f.for \in Opener /\ stack' = Append(Below, f))

LEMMA MarksStay ==
    ASSUME CallType, stack # <<>>, Within
    PROVE  Marks' = Marks
<1>1. stack \in Seq(Frame) /\ Below \in Seq(Frame)
  BY PopSeq DEF CallType, Below
<1>2. Marks = Base(Below) \cup (IF Top.for \in Opener THEN {} ELSE {Top})
  BY <1>1, BaseSplit DEF Marks, Below, Top
<1>3. CASE stack' = stack
  BY <1>3 DEF Marks
<1>4. CASE stack' = Append(Below, Top)
  BY <1>1, <1>2, <1>4, BaseAppend DEF Marks
<1>5. CASE \E f : f.for \in Opener /\ stack' = Append(stack, f)
  <2>1. PICK f : f.for \in Opener /\ stack' = Append(stack, f)
    BY <1>5
  <2>2. Base(Append(stack, f)) = Base(stack) \cup {}
    BY <1>1, <2>1, BaseAppend
  <2>3. QED
    BY <2>1, <2>2 DEF Marks
<1>6. CASE Top.for \in Opener /\ stack' = Below
  BY <1>2, <1>6 DEF Marks
<1>7. CASE Top.for \in Opener /\ \E f : f.for \in Opener /\ stack' = Append(Below, f)
  BY <1>1, <1>2, <1>7, BaseAppend DEF Marks
<1>8. QED
  BY <1>3, <1>4, <1>5, <1>6, <1>7 DEF Within

LEMMA OperandGrows ==
    ASSUME tokens' = tokens, nodes \subseteq nodes', NEW i, NEW j, Operand(i, j)
    PROVE  Operand(i, j)'
  BY DEF Operand, Spans

LEMMA PartsAreParts ==
    ASSUME BuiltType
    PROVE  AnyPart \subseteq Part
<1>1. decls \in Seq(Decl) /\ parts \subseteq Part /\ bindings \subseteq Part
  BY DEF BuiltType
<1>2. ASSUME NEW d \in DOMAIN decls PROVE decls[d].parts \subseteq Part
  <2>1. decls[d] \in Decl
    BY <1>1
  <2>2. QED
    BY <2>1 DEF Decl
<1>3. QED
  BY <1>1, <1>2 DEF AnyPart, AllParts

\* What a part of a declaration keeps while the parser moves on.
LEMMA PartLasts ==
    ASSUME BuiltType, NEW p \in AnyPart, tokens' = tokens, nodes \subseteq nodes', pos \in Nat, pos' \in Nat, pos <= pos',
           p.hi < pos, tokens[p.lo] = "*" \/ Operand(p.lo, p.hi)
    PROVE  /\ p \in Part /\ p.hi \in Nat /\ p.hi < pos'
           /\ tokens'[p.lo] = "*" \/ Operand(p.lo, p.hi)'
<1>1. p \in Part
  BY PartsAreParts
<1>2. p.hi \in Nat
  BY <1>1 DEF Part
<1>3. QED
  BY <1>1, <1>2, OperandGrows

\* The step inside an expression or a path.
LEMMA InsideKeeps ==
    ASSUME Control, BuiltType, Coverage, Inside, Within, Skip,
           tokens' = tokens, nodes \subseteq nodes', UNCHANGED built, outcome = "running", outcome' # "ok",
           pos' \in Nat, pos <= pos'
    PROVE  Coverage'
<1>1. CallType /\ StackOK /\ stack # <<>> /\ pos \in Nat
  BY DEF Control, CallType, DoingOK, Inside
<1>2. Marks' = Marks /\ parts' = parts /\ bindings' = bindings /\ decls' = decls
  BY <1>1, MarksStay DEF built
<1>3. AnyPart' = AnyPart
  BY <1>2 DEF AnyPart, AllParts
<1>4. PICK g \in Marks : g.for \in Starter
  BY DEF Coverage, Anchored
<1>5. Anchored'
  BY <1>2, <1>4 DEF Anchored
<1>6. PartsApart'
  BY <1>1, <1>2, <1>3, PartLasts DEF Coverage, PartsApart
<1>7. PartsOpen'
  BY <1>2 DEF Coverage, PartsOpen
<1>8. SectionsSeen'
  <2>1. ASSUME NEW f \in Marks, f.for = "section" PROVE SectionOpen(f)'
    BY <1>2, <2>1 DEF SectionOpen, Coverage, SectionsSeen
  <2>2. ASSUME NEW h \in Marks, h.for = "example" PROVE ExampleOpen(h)'
    <3>1. \A p \in parts : h.at < p.at /\ p.at < pos /\ IsSectionName(p.at) /\ p.at \in Nat
      BY <2>2 DEF ExampleOpen, Coverage, SectionsSeen, BuiltType, Part
    <3>2. \A p \in parts : p.at < pos'
      BY <1>1, <3>1
    <3>3. \A p \in parts : IsSectionName(p.at)'
      BY <3>1 DEF IsSectionName
    <3>4. QED
      BY <1>2, <3>1, <3>2, <3>3 DEF ExampleOpen
  <2>3. ASSUME NEW h \in Marks, h.for \in Header PROVE DeclOpen(h)'
    <3>1. ASSUME NEW n \in DOMAIN tokens, h.at < n, n < pos' PROVE tokens[n] \notin Header
      <4>1. CASE n < pos
        BY <2>3, <3>1, <4>1 DEF DeclOpen, Coverage, SectionsSeen
      <4>2. CASE ~(n < pos)
        <5>1. n \in Nat
          BY <1>1 DEF CallType
        <5>2. Reads(n)
          BY <1>1, <3>1, <4>2, <5>1 DEF Reads
        <5>3. QED
          BY <1>1, <5>2, Skipped
      <4>3. QED
        BY <4>1, <4>2
    <3>2. QED
      BY <3>1 DEF DeclOpen
  <2>4. QED
    BY <1>2, <2>1, <2>2, <2>3 DEF SectionsSeen
<1>9. AllAccounted'
  <2>1. SUFFICES ASSUME SectionsOnce', NEW n \in DOMAIN tokens, n < pos' PROVE Accounted(n)'
    BY DEF AllAccounted
  <2>2. SectionsOnce
    BY <2>1 DEF SectionsOnce, IsSectionName
  <2>3. CASE n < pos
    <3>1. Accounted(n)
      BY <2>2, <2>3 DEF Coverage, AllAccounted
    <3>2. QED
      BY <1>2, <1>3, <3>1 DEF Accounted, IsSectionName
  <2>4. CASE ~(n < pos)
    <3>1. n \in Nat /\ g.lo \in Nat /\ g.lo <= pos
      BY <1>1, MarkTypes DEF CallType
    <3>2. g.lo <= n
      BY <1>1, <2>4, <3>1
    <3>3. QED
      BY <1>2, <1>4, <3>2 DEF Accounted
  <2>5. QED
    BY <2>3, <2>4
<1>10. AtEnd'
  BY DEF AtEnd, Parsed
<1>11. QED
  BY <1>5, <1>6, <1>7, <1>8, <1>9, <1>10 DEF Coverage

\* A step that changes the answer only.
LEMMA AnswerLeaves ==
    ASSUME Coverage, UNCHANGED <<tokens, call, nodes, built>>, outcome' # "ok" \/ outcome' = outcome
    PROVE  Coverage'
<1>1. /\ tokens' = tokens /\ pos' = pos /\ doing' = doing /\ stack' = stack /\ nodes' = nodes
      /\ parts' = parts /\ bindings' = bindings /\ decls' = decls
  BY DEF call, built
<1>2. Marks' = Marks /\ AnyPart' = AnyPart
  BY <1>1 DEF Marks, AnyPart, AllParts
<1>3. Anchored' /\ PartsOpen' /\ AtEnd'
  BY <1>1, <1>2 DEF Coverage, Anchored, Inside, PartsOpen, AtEnd, Parsed
<1>4. PartsApart'
  BY <1>1, <1>2 DEF Coverage, PartsApart, Operand, Spans
<1>5. SectionsSeen'
  BY <1>1, <1>2 DEF Coverage, SectionsSeen, SectionOpen, ExampleOpen, DeclOpen, IsSectionName
<1>6. AllAccounted'
  BY <1>1, <1>2 DEF Coverage, AllAccounted, SectionsOnce, Accounted, IsSectionName
<1>7. QED
  BY <1>3, <1>4, <1>5, <1>6 DEF Coverage

LEMMA NodesGrow ==
    ASSUME [Next]_vars
    PROVE  tokens' = tokens /\ nodes \subseteq nodes'
<1> USE DEF OnlyCall, OnlyTree, Refuse, Node
<1>1. CASE Call \/ Field \/ Prime
  BY <1>1 DEF Call, Field, Prime
<1>2. CASE CloseTail \/ CloseBinary \/ NextArgument
  BY <1>2 DEF CloseTail, CloseBinary, NextArgument
<1>3. CASE CloseBracket("(", ")") \/ CloseBracket("after", ")") \/ CloseBracket("[", "]")
  BY <1>3 DEF CloseBracket
<1>4. tokens' = tokens /\ (AddsNode \/ nodes' = nodes)
  BY Frames
<1>5. QED
  BY <1>1, <1>2, <1>3, <1>4 DEF AddsNode

LEMMA InsideStep ==
    ASSUME Control, BuiltType, Coverage, [Next]_vars, Inside, outcome = "running",
           Within, Skip, UNCHANGED <<built, outcome>>
    PROVE  Coverage'
<1>1. tokens' = tokens /\ nodes \subseteq nodes'
  BY NodesGrow
<1>2. pos' \in Nat /\ pos <= pos'
  BY Forward
<1>3. QED
  BY <1>1, <1>2, InsideKeeps

\* The steps of parse_prefix.
LEMMA OperandCoverage ==
    ASSUME Control, BuiltType, Coverage, Atom \/ Call \/ Unary \/ Bracket \/ After \/ Quantify
    PROVE  Coverage'
<1>1. [Next]_vars /\ Inside /\ outcome = "running"
  BY DEF Next, Inside, Atom, Call, Unary, Bracket, After, Quantify, At
<1> DEFINE Still == stack' = stack /\ UNCHANGED <<built, outcome>>
           Push == (\E f : f.for \in Opener /\ stack' = Append(stack, f)) /\ UNCHANGED <<built, outcome>>
<1>2. ASSUME Still \/ Push, Skip PROVE Coverage'
  BY <1>1, <1>2, InsideStep DEF Within
<1>3. \A at, from : \A for \in Opener : Waits(for, at, from).for \in Opener
  BY DEF Waits
<1>4. CASE Atom
  <2>1. pos' = pos + 1 /\ Plain(0)
    BY <1>4 DEF Atom, Value, Plain, Ident, Literal, Number, Header
  <2>2. Still
    BY <1>4 DEF Atom, Value, OnlyCall
  <2>3. QED
    BY <1>2, <2>1, <2>2 DEF Skip
<1>5. CASE Call
  <2>1. Plain(0) /\ Plain(1)
    BY <1>5 DEF Call, Plain, Ident, Header
  <2>2. CASE Peek(2) = ")"
    <3>1. pos' = pos + 3 /\ Plain(2)
      BY <1>5, <2>2 DEF Call, Value, Plain, Header
    <3>2. Still
      BY <1>5, <2>2 DEF Call, Value, OnlyTree
    <3>3. QED
      BY <1>2, <2>1, <3>1, <3>2 DEF Skip
  <2>3. CASE Peek(2) # ")"
    <3>1. pos' = pos + 2 /\ stack' = Append(stack, Waits("call", pos, pos)) /\ UNCHANGED <<built, outcome>>
      BY <1>5, <2>3 DEF Call, Parse, OnlyCall
    <3>2. Push
      BY <1>3, <3>1 DEF Opener
    <3>3. QED
      BY <1>2, <2>1, <3>1, <3>2 DEF Skip
  <2>4. QED
    BY <2>2, <2>3
<1>6. CASE Unary
  <2>1. pos' = pos + 1 /\ stack' = Append(stack, Waits("tail", pos, pos)) /\ UNCHANGED <<built, outcome>>
    BY <1>6 DEF Unary, Parse, OnlyCall
  <2>2. Plain(0)
    BY <1>6 DEF Unary, Plain, Prefix, Header
  <2>3. Push
    BY <1>3, <2>1 DEF Opener
  <2>4. QED
    BY <1>2, <2>1, <2>2, <2>3 DEF Skip
<1>7. CASE Bracket
  <2>1. pos' = pos + 1 /\ stack' = Append(stack, Waits(Peek(0), pos, pos)) /\ UNCHANGED <<built, outcome>>
    BY <1>7 DEF Bracket, Parse, OnlyCall
  <2>2. Plain(0) /\ Peek(0) \in Opener
    BY <1>7 DEF Bracket, Plain, Header, Opener
  <2>3. Push
    BY <1>3, <2>1, <2>2
  <2>4. QED
    BY <1>2, <2>1, <2>2, <2>3 DEF Skip
<1>8. CASE After
  <2>1. CASE Peek(1) = "("
    <3>1. pos' = pos + 2 /\ stack' = Append(stack, Waits("after", pos, pos)) /\ UNCHANGED <<built, outcome>>
      BY <1>8, <2>1 DEF After, Parse, OnlyCall
    <3>2. Plain(0) /\ Plain(1)
      BY <1>8, <2>1 DEF After, Plain, Header
    <3>3. Push
      BY <1>3, <3>1 DEF Opener
    <3>4. QED
      BY <1>2, <3>1, <3>2, <3>3 DEF Skip
  <2>2. CASE Peek(1) # "("
    BY <1>8, <2>2, AnswerLeaves DEF After, Refuse
  <2>3. QED
    BY <2>1, <2>2
<1>9. CASE Quantify
  <2>1. pos' = pos + 1 /\ stack' = Append(stack, Waits("tail", pos, pos)) /\ UNCHANGED <<built, outcome>>
    BY <1>9 DEF Quantify, OnlyCall
  <2>2. Plain(0)
    BY <1>9 DEF Quantify, Plain, Quantifier, Header
  <2>3. Push
    BY <1>3, <2>1 DEF Opener
  <2>4. QED
    BY <1>2, <2>1, <2>2, <2>3 DEF Skip
<1>10. QED
  BY <1>4, <1>5, <1>6, <1>7, <1>8, <1>9

\* The steps of the loops of parse_pratt.
LEMMA LoopCoverage ==
    ASSUME Control, BuiltType, Coverage, TypedVar \/ Field \/ Prime \/ Index \/ NoPostfix \/ Operator
    PROVE  Coverage'
<1>1. [Next]_vars /\ Inside /\ outcome = "running"
  BY DEF Next, Inside, TypedVar, Field, Prime, Index, NoPostfix, Operator, At
<1> DEFINE Still == stack' = stack /\ UNCHANGED <<built, outcome>>
           Push == (\E f : f.for \in Opener /\ stack' = Append(stack, f)) /\ UNCHANGED <<built, outcome>>
           Swap == stack' = Append(Below, Top) /\ UNCHANGED <<built, outcome>>
<1>2. ASSUME Still \/ Push \/ Swap, Skip PROVE Coverage'
  BY <1>1, <1>2, InsideStep DEF Within
<1>3. \A at, from : \A for \in Opener : Waits(for, at, from).for \in Opener
  BY DEF Waits
<1>4. CASE TypedVar
  <2>1. CASE Refuse
    BY <2>1, AnswerLeaves DEF Refuse
  <2>2. CASE Peek(0) \in Ident /\ Peek(1) = ":" /\ Peek(2) \in Ident /\ Peek(3) = "comma"
    <3>1. Plain(0) /\ Plain(1) /\ Plain(2) /\ Plain(3)
      BY <2>2 DEF Plain, Ident, Header
    <3>2. pos' = pos + 4 /\ (Still \/ Swap)
      BY <1>4, <2>2 DEF TypedVar, GoOn, Parse, OnlyCall
    <3>3. QED
      BY <1>2, <3>1, <3>2 DEF Skip
  <2>3. QED
    BY <1>4, <2>1, <2>2 DEF TypedVar
<1>5. CASE Field
  <2>1. CASE Refuse
    BY <2>1, AnswerLeaves DEF Refuse
  <2>2. CASE Peek(1) \in Ident
    <3>1. Plain(0) /\ Plain(1)
      BY <1>5, <2>2 DEF Field, Plain, Ident, Header
    <3>2. pos' = pos + 2 /\ Still
      BY <1>5, <2>2 DEF Field, GoOn, OnlyTree
    <3>3. QED
      BY <1>2, <3>1, <3>2 DEF Skip
  <2>3. QED
    BY <1>5, <2>1, <2>2 DEF Field
<1>6. CASE Prime
  <2>1. Plain(0)
    BY <1>6 DEF Prime, Plain, Header
  <2>2. pos' = pos + 1 /\ Still
    BY <1>6 DEF Prime, GoOn, OnlyTree
  <2>3. QED
    BY <1>2, <2>1, <2>2 DEF Skip
<1>7. CASE Index
  <2>1. Plain(0)
    BY <1>7 DEF Index, Plain, Header
  <2>2. pos' = pos + 1 /\ stack' = Append(stack, Waits("[", pos, lo)) /\ UNCHANGED <<built, outcome>>
    BY <1>7 DEF Index, Parse, OnlyCall
  <2>3. Push
    BY <1>3, <2>2 DEF Opener
  <2>4. QED
    BY <1>2, <2>1, <2>2, <2>3 DEF Skip
<1>8. CASE NoPostfix
  <2>1. pos' = pos /\ Still
    BY <1>8 DEF NoPostfix, GoOn, OnlyCall
  <2>2. QED
    BY <1>2, <2>1 DEF Skip
<1>9. CASE Operator
  <2>1. Plain(0)
    BY <1>9 DEF Operator, Binds, Infix, Plain, Header
  <2>2. pos' = pos + 1 /\ stack' = Append(stack, Waits("binary", pos, lo)) /\ UNCHANGED <<built, outcome>>
    BY <1>9 DEF Operator, Parse, OnlyCall
  <2>3. Push
    BY <1>3, <2>2 DEF Opener
  <2>4. QED
    BY <1>2, <2>1, <2>2, <2>3 DEF Skip
<1>10. QED
  BY <1>4, <1>5, <1>6, <1>7, <1>8, <1>9

\* An expression is complete, and an expression is its caller.
LEMMA ReturnCoverage ==
    ASSUME Control, BuiltType, Coverage,
           \/ CloseTail \/ CloseBinary \/ NextArgument \/ Then \/ Else
           \/ CloseBracket("(", ")") \/ CloseBracket("after", ")") \/ CloseBracket("[", "]")
    PROVE  Coverage'
<1>1. [Next]_vars /\ Inside /\ InExpression /\ outcome = "running" /\ Top.for \in Opener
  BY DEF Next, Inside, InExpression, CloseTail, CloseBinary, NextArgument, Then, Else, CloseBracket, Complete, At, Opener
<1> DEFINE Pop == stack' = Below /\ UNCHANGED <<built, outcome>>
           Swap == (\E f : f.for \in Opener /\ stack' = Append(Below, f)) /\ UNCHANGED <<built, outcome>>
<1>2. ASSUME Pop \/ Swap, Skip PROVE Coverage'
  BY <1>1, <1>2, InsideStep DEF Within
<1>3. ASSUME Refuse PROVE Coverage'
  BY <1>3, AnswerLeaves DEF Refuse
<1>4. CASE CloseTail \/ CloseBinary
  <2>1. pos' = pos /\ Pop
    BY <1>4 DEF CloseTail, CloseBinary, ValueTo, OnlyTree
  <2>2. QED
    BY <1>2, <2>1 DEF Skip
<1>5. ASSUME NEW for, NEW close \in {")", "]"}, CloseBracket(for, close) PROVE Coverage'
  <2>1. CASE Peek(0) = close
    <3>1. Plain(0)
      BY <2>1 DEF Plain, Header
    <3>2. pos' = pos + 1 /\ Pop
      BY <1>5, <2>1 DEF CloseBracket, ValueTo, OnlyTree
    <3>3. QED
      BY <1>2, <3>1, <3>2 DEF Skip
  <2>2. QED
    BY <1>3, <1>5, <2>1 DEF CloseBracket
<1>6. CASE NextArgument
  <2>1. CASE Peek(0) = "comma"
    <3>1. Plain(0)
      BY <2>1 DEF Plain, Header
    <3>2. pos' = pos + 1 /\ Swap
      BY <1>1, <1>6, <2>1 DEF NextArgument, Parse, OnlyCall
    <3>3. QED
      BY <1>2, <3>1, <3>2 DEF Skip
  <2>2. CASE Peek(0) = ")"
    <3>1. Plain(0)
      BY <2>2 DEF Plain, Header
    <3>2. pos' = pos + 1 /\ Pop
      BY <1>6, <2>2 DEF NextArgument, ValueTo, OnlyTree
    <3>3. QED
      BY <1>2, <3>1, <3>2 DEF Skip
  <2>3. QED
    BY <1>3, <1>6, <2>1, <2>2 DEF NextArgument
<1>7. ASSUME NEW for \in {"then", "tail"}, Peek(0) \in {"then", "else"},
             OnlyCall /\ Parse([Top EXCEPT !.for = for], Below, 0, pos + 1)
      PROVE  Coverage'
  <2>1. Plain(0)
    BY <1>7 DEF Plain, Header
  <2>2. [Top EXCEPT !.for = for].for \in Opener
    <3>1. Top \in Frame
      BY <1>1, Expression
    <3>2. QED
      BY <3>1 DEF Frame, Opener
  <2>3. pos' = pos + 1 /\ Swap
    BY <1>7, <2>2 DEF Parse, OnlyCall
  <2>4. QED
    BY <1>2, <2>1, <2>3 DEF Skip
<1>8. CASE Then
  BY <1>3, <1>7, <1>8 DEF Then
<1>9. CASE Else
  BY <1>3, <1>7, <1>9 DEF Else
<1>10. QED
  BY <1>4, <1>5, <1>6, <1>8, <1>9

\* The path of a binding.
LEMMA PathCoverage ==
    ASSUME Control, BuiltType, Coverage, PathField \/ PathPrime \/ EndOfPath
    PROVE  Coverage'
<1>1. [Next]_vars /\ Inside /\ outcome = "running"
  BY DEF Next, Inside, PathField, PathPrime, EndOfPath, At
<1>2. Plain(0)
  BY DEF PathField, PathPrime, EndOfPath, Plain, Header
<1>3. CASE PathField
  <2>1. Plain(1)
    BY <1>3 DEF PathField, Plain, Ident, Header
  <2>2. pos' = pos + 2 /\ stack' = stack /\ UNCHANGED <<built, outcome>>
    BY <1>3 DEF PathField, GoOn, OnlyCall
  <2>3. QED
    BY <1>1, <1>2, <2>1, <2>2, InsideStep DEF Within, Skip
<1>4. CASE PathPrime
  <2>1. pos' = pos + 1 /\ stack' = stack /\ UNCHANGED <<built, outcome>>
    BY <1>4 DEF PathPrime, GoOn, OnlyCall
  <2>2. QED
    BY <1>1, <1>2, <2>1, InsideStep DEF Within, Skip
<1>5. CASE EndOfPath
  <2>1. pos' = pos + 1 /\ stack' = Append(Below, Top) /\ UNCHANGED <<built, outcome>>
    BY <1>5 DEF EndOfPath, Parse, OnlyCall
  <2>2. QED
    BY <1>1, <1>2, <2>1, InsideStep DEF Within, Skip
<1>6. QED
  BY <1>3, <1>4, <1>5

\* Two facts of arithmetic.
LEMMA ReadBefore ==
    ASSUME CallType, pos' \in Nat, NEW n \in DOMAIN tokens, n < pos'
    PROVE  n \in Nat /\ (n < pos \/ Reads(n))
  BY DEF CallType, Reads

LEMMA Chain ==
    ASSUME NEW i \in Nat, NEW j \in Nat, NEW k \in Nat, i < j, j <= k
    PROVE  i < k
  OBVIOUS

\* A call that counts, and what it accounts for.
Opens(f) ==
    /\ f.for \notin Opener /\ stack' = Append(stack, f)
    /\ Inside' => f.for \in Starter
    /\ f.for \in Starter => f.lo \in Nat /\ pos <= f.lo
    /\ f.for = "section" => SectionOpen(f) /\ f.for \notin Header
    /\ f.for \in Header => stack = <<>> /\ f.at = pos /\ pos' = pos + 1
    /\ f.for \notin Header => Skip
    /\ \A n : Reads(n) => \/ n = f.at \/ (f.for \in Starter /\ f.lo <= n)
                          \/ tokens[n] \in {"lbrace", "rbrace", "comma", ":"}

\* A call that counts is opened.
LEMMA OpenCoverage ==
    ASSUME Control, BuiltType, Coverage, [Next]_vars, outcome = "running", UNCHANGED <<built, outcome>>,
           NEW f, Opens(f)
    PROVE  Coverage'
<1>1. tokens' = tokens /\ nodes \subseteq nodes' /\ pos' \in Nat /\ pos <= pos' /\ pos \in Nat
  BY NodesGrow, Forward
<1>2. Marks' = Marks \cup {f}
  BY BaseAppend DEF Opens, Marks, Control, CallType
<1>3. parts' = parts /\ bindings' = bindings /\ decls' = decls /\ AnyPart' = AnyPart
  BY DEF built, AnyPart, AllParts
<1>4. f.for \in Header => Marks = {} /\ parts = {} /\ bindings = {}
  <2>1. f.for \in Header => Marks = {}
    BY BaseEmpty DEF Marks, Opens
  <2>2. QED
    BY <2>1 DEF Coverage, PartsOpen
<1>5. Anchored'
  BY <1>2 DEF Anchored, Opens
<1>6. PartsApart'
  <2>1. \A p \in AnyPart : /\ p \in Part /\ p.hi \in Nat /\ p.hi < pos' /\ p.hi < pos
                           /\ tokens'[p.lo] = "*" \/ Operand(p.lo, p.hi)'
    BY <1>1, PartLasts DEF Coverage, PartsApart
  <2>2. \A p \in AnyPart : f.for \in Starter => p.hi < f.lo
    <3>1. f.for \in Starter => f.lo \in Nat /\ pos <= f.lo
      BY DEF Opens
    <3>2. QED
      BY <1>1, <2>1, <3>1, Chain
  <2>3. QED
    BY <1>2, <1>3, <2>1, <2>2 DEF Coverage, PartsApart
<1>7. PartsOpen'
  BY <1>2, <1>3 DEF Coverage, PartsOpen
<1>8. SectionsSeen'
  <2>1. ASSUME NEW g \in Marks', g.for = "section" PROVE SectionOpen(g)'
    <3>1. SectionOpen(g) /\ (g \in Marks => Marks # {})
      BY <1>2, <2>1 DEF Coverage, SectionsSeen, Opens
    <3>2. \A h \in Marks' : h.for \in Header => h \in Marks
      <4>1. "section" \notin Header
        BY DEF Header
      <4>2. f.for \notin Header
        BY <1>2, <1>4, <2>1, <4>1
      <4>3. QED
        BY <1>2, <4>2
    <3>3. QED
      BY <1>3, <3>1, <3>2 DEF SectionOpen
  <2>2. ASSUME NEW h \in Marks', h.for = "example" PROVE ExampleOpen(h)'
    <3>1. CASE parts = {}
      BY <1>3, <3>1 DEF ExampleOpen
    <3>2. CASE parts # {}
      <4>1. h \in Marks
        BY <1>2, <1>4, <2>2, <3>2 DEF Header
      <4>2. \A p \in parts : h.at < p.at /\ p.at < pos /\ IsSectionName(p.at) /\ p.at \in Nat
        BY <2>2, <4>1 DEF ExampleOpen, Coverage, SectionsSeen, BuiltType, Part
      <4>3. \A p \in parts : p.at < pos'
        BY <1>1, <4>2, Chain
      <4>4. \A p \in parts : IsSectionName(p.at)'
        BY <1>1, <4>2 DEF IsSectionName
      <4>5. QED
        BY <1>3, <4>2, <4>3, <4>4 DEF ExampleOpen
    <3>3. QED
      BY <3>1, <3>2
  <2>3. ASSUME NEW h \in Marks', h.for \in Header PROVE DeclOpen(h)'
    <3>1. ASSUME NEW n \in DOMAIN tokens, h.at < n, n < pos' PROVE tokens[n] \notin Header
      <4>1. n \in Nat /\ (n < pos \/ Reads(n))
        BY <1>1, <3>1, ReadBefore DEF Control
      <4>2. CASE f.for \in Header
        <5>1. h.at = pos /\ pos' = pos + 1
          BY <1>2, <1>4, <4>2 DEF Opens
        <5>2. \A i, j \in Nat : ~(j < i /\ i < j + 1)
          OBVIOUS
        <5>3. QED
          BY <1>1, <3>1, <4>1, <5>1, <5>2
      <4>3. CASE f.for \notin Header
        <5>1. CASE n < pos
          <6>1. h \in Marks
            BY <1>2, <2>3, <4>3
          <6>2. QED
            BY <2>3, <3>1, <5>1, <6>1 DEF DeclOpen, Coverage, SectionsSeen
        <5>2. CASE ~(n < pos)
          BY <4>1, <4>3, <5>2, Skipped DEF Control, Opens
        <5>3. QED
          BY <5>1, <5>2
      <4>4. QED
        BY <4>2, <4>3
    <3>2. QED
      BY <1>1, <3>1 DEF DeclOpen
  <2>4. QED
    BY <2>1, <2>2, <2>3 DEF SectionsSeen
<1>9. AllAccounted'
  <2>1. SUFFICES ASSUME SectionsOnce', NEW n \in DOMAIN tokens, n < pos' PROVE Accounted(n)'
    BY <1>1 DEF AllAccounted
  <2>2. SectionsOnce
    BY <1>1, <2>1 DEF SectionsOnce, IsSectionName
  <2>3. CASE n < pos
    <3>1. Accounted(n)
      BY <2>2, <2>3 DEF Coverage, AllAccounted
    <3>2. QED
      BY <1>1, <1>2, <1>3, <3>1 DEF Accounted, IsSectionName
  <2>4. CASE ~(n < pos)
    <3>2. Reads(n)
      BY <1>1, <2>1, <2>4, ReadBefore DEF Control
    <3>3. n = f.at \/ (f.for \in Starter /\ f.lo <= n) \/ tokens[n] \in {"lbrace", "rbrace", "comma", ":"}
      BY <3>2 DEF Opens
    <3>4. QED
      BY <1>1, <1>2, <3>3 DEF Accounted
  <2>5. QED
    BY <2>3, <2>4
<1>10. AtEnd'
  BY DEF AtEnd, Parsed
<1>11. QED
  BY <1>5, <1>6, <1>7, <1>8, <1>9, <1>10 DEF Coverage

LEMMA ReadsThese ==
    ASSUME CallType, NEW n, Reads(n)
    PROVE  /\ pos' = pos + 1 => n = pos
           /\ pos' = pos + 2 => n = pos \/ n = pos + 1
           /\ pos' = pos + 3 => n = pos \/ n = pos + 1 \/ n = pos + 2
           /\ pos <= n
           /\ \A k \in Nat : n = pos + k => tokens[n] = Peek(k)
<1>1. n \in Nat /\ n \in DOMAIN tokens /\ pos <= n /\ n < pos' /\ pos \in Nat
  BY DEF CallType, Reads
<1>2. \A k \in Nat : n = pos + k => tokens[n] = Peek(k)
  BY <1>1 DEF Peek, Tok
<1>3. QED
  BY <1>1, <1>2

\* A call of parse_pratt for a part of a declaration.
LEMMA PartOpens ==
    ASSUME Control, NEW for \in {"clause", "invariant", "modifies"},
           Parse(Waits(for, pos, pos + 1), stack, 0, pos'), Plain(0),
           pos' = pos + 1 \/ (pos' = pos + 3 /\ Plain(1) /\ Plain(2))
    PROVE  Opens(Waits(for, pos, pos + 1))
<1> DEFINE f == Waits(for, pos, pos + 1)
<1>1. f.for = for /\ f.at = pos /\ f.lo = pos + 1 /\ stack' = Append(stack, f) /\ pos \in Nat
  BY DEF Waits, Parse, Control, CallType
<1> HIDE DEF f
<1>2. f.for \notin Opener /\ f.for \in Starter /\ f.for \notin Header /\ f.for # "section"
  BY <1>1 DEF Opener, Starter, Header
<1>3. f.lo \in Nat /\ pos <= f.lo
  BY <1>1
<1>4. Skip
  BY DEF Skip
<1>5. ASSUME NEW n, Reads(n) PROVE n = f.at \/ f.lo <= n
  <2>1. n = pos \/ n = pos + 1 \/ n = pos + 2
    BY <1>5, ReadsThese DEF Control
  <2>2. QED
    BY <1>1, <2>1
<1>6. QED
  BY <1>1, <1>2, <1>3, <1>4, <1>5 DEF Opens, f

LEMMA DeclarationCoverage ==
    ASSUME Control, BuiltType, Coverage, Declaration
    PROVE  Coverage'
<1>1. /\ [Next]_vars /\ outcome = "running" /\ UNCHANGED <<built, outcome>> /\ Peek(0) \in Header
      /\ pos' = pos + 1 /\ pos \in Nat /\ stack = <<>>
  BY DEF Next, Declaration, At, OnlyCall, Parse, Control, CallType, DoingOK
<1>2. \A n : Reads(n) => n = pos
  BY <1>1, ReadsThese DEF Control
<1>3. PICK f : /\ stack' = Append(stack, f) /\ f.at = pos /\ f.for = Peek(0)
               /\ f.for = "theorem" => f.lo = pos + 1
               /\ f.for # "theorem" => doing' = "body"
  <2>1. CASE Peek(0) = "theorem"
    BY <2>1 DEF Declaration, Parse, Waits
  <2>2. CASE Peek(0) # "theorem"
    BY <2>2 DEF Declaration, Waits
  <2>3. QED
    BY <2>1, <2>2
<1>4. /\ f.for \notin Opener /\ f.for # "section" /\ f.for \in Header
      /\ f.for \in Starter => f.for = "theorem"
      /\ Inside' => f.for \in Starter
  BY <1>1, <1>3 DEF Opener, Header, Starter, Inside
<1>5. f.for = "theorem" => f.lo \in Nat /\ pos <= f.lo
  BY <1>1, <1>3
<1>6. Opens(f)
  BY <1>1, <1>2, <1>3, <1>4, <1>5 DEF Opens
<1>7. QED
  BY <1>1, <1>6, OpenCoverage

LEMMA PartOpenCoverage ==
    ASSUME Control, BuiltType, Coverage, Invariant \/ Clause
    PROVE  Coverage'
<1>1. [Next]_vars /\ outcome = "running" /\ UNCHANGED <<built, outcome>>
  BY DEF Next, Invariant, Clause, InBody, At, OnlyCall
<1>2. CASE Invariant
  <2>1. Parse(Waits("invariant", pos, pos + 1), stack, 0, pos') /\ pos' = pos + 1 /\ Plain(0)
    BY <1>2 DEF Invariant, Parse, Plain, Header
  <2>2. QED
    BY <1>1, <2>1, PartOpens, OpenCoverage
<1>3. CASE Clause
  <2>1. Parse(Waits("clause", pos, pos + 1), stack, 0, pos') /\ Plain(0)
    BY <1>3 DEF Clause, Parse, Plain, ClauseKind, Header
  <2>2. pos' = pos + 1 \/ (pos' = pos + 3 /\ Plain(1) /\ Plain(2))
    BY <1>3 DEF Clause, Parse, Plain, Ident, Header
  <2>3. QED
    BY <1>1, <2>1, <2>2, PartOpens, OpenCoverage
<1>4. QED
  BY <1>2, <1>3

LEMMA SectionCoverage ==
    ASSUME Control, BuiltType, Coverage, Section
    PROVE  Coverage'
<1>1. CASE Refuse
  BY <1>1, AnswerLeaves DEF Refuse
<1>2. CASE Peek(0) \in Ident /\ Peek(1) = ":" /\ Peek(2) = "lbrace"
  <2> DEFINE f == Waits("section", pos, pos)
  <2>1. /\ [Next]_vars /\ outcome = "running" /\ UNCHANGED <<built, outcome>>
        /\ pos' = pos + 3 /\ stack' = Append(stack, f) /\ doing' = "bindings"
    BY <1>2 DEF Next, Section, InBody, At, OnlyCall
  <2>2. f.for = "section" /\ f.at = pos
    BY DEF Waits
  <2> HIDE DEF f
  <2>3. /\ f.for \notin Opener /\ f.for \notin Starter /\ f.for \notin Header /\ ~Inside'
        /\ Plain(0) /\ Plain(1) /\ Plain(2)
    BY <1>2, <2>1, <2>2 DEF Opener, Starter, Header, Inside, Plain, Ident
  <2>4. Skip
    BY <2>1, <2>3 DEF Skip
  <2>5. ASSUME NEW n, Reads(n) PROVE n = f.at \/ tokens[n] \in {"lbrace", "rbrace", "comma", ":"}
    <3>1. n = pos \/ n = pos + 1 \/ n = pos + 2
      BY <2>1, <2>5, ReadsThese DEF Control
    <3>2. \A k \in Nat : n = pos + k => tokens[n] = Peek(k)
      BY <2>5, ReadsThese DEF Control
    <3>3. QED
      BY <1>2, <2>2, <3>1, <3>2
  <2>6. SectionOpen(f)
    <3>1. doing = "body" /\ Top.for = "example"
      BY DEF Section, InBody, At
    <3>2. CallType /\ StackOK /\ Len(stack) = 1 /\ Marks = {stack[1]} /\ Top = stack[1]
      BY <3>1, MarksAtBottom DEF Control, DoingOK
    <3>3. \A h \in Marks : h.at < f.at
      BY <2>2, <3>2, MarkTypes
    <3>4. bindings = {}
      BY <3>1, <3>2 DEF Coverage, PartsOpen
    <3>5. \A p \in parts : p.at < f.at
      BY <2>2, <3>1, <3>2 DEF Coverage, SectionsSeen, ExampleOpen
    <3>6. QED
      BY <3>3, <3>4, <3>5 DEF SectionOpen
  <2>7. Opens(f)
    BY <2>1, <2>2, <2>3, <2>4, <2>5, <2>6 DEF Opens
  <2>8. QED
    BY <2>1, <2>7, OpenCoverage
<1>3. QED
  BY <1>1, <1>2 DEF Section

LEMMA BindingCoverage ==
    ASSUME Control, BuiltType, Coverage, Binding
    PROVE  Coverage'
<1>1. CASE Refuse
  BY <1>1, AnswerLeaves DEF Refuse
<1>2. CASE Peek(0) \in Ident
  <2> DEFINE f == Waits("binding", Top.at, pos)
  <2>1. /\ [Next]_vars /\ outcome = "running" /\ UNCHANGED <<built, outcome>>
        /\ pos' = pos + 1 /\ stack' = Append(stack, f) /\ doing' = "path"
    BY <1>2 DEF Next, Binding, At, OnlyCall
  <2>2. f.for = "binding" /\ f.lo = pos
    BY DEF Waits
  <2> HIDE DEF f
  <2>3. /\ f.for \notin Opener /\ f.for \in Starter /\ f.for \notin Header /\ f.for # "section" /\ Plain(0)
    BY <1>2, <2>2 DEF Opener, Starter, Header, Plain, Ident
  <2>4. Skip /\ f.lo \in Nat /\ pos <= f.lo
    BY <2>1, <2>2, <2>3 DEF Skip, Control, CallType
  <2>5. \A n : Reads(n) => f.lo <= n
    BY <2>2, ReadsThese DEF Control
  <2>6. Opens(f)
    BY <2>1, <2>3, <2>4, <2>5 DEF Opens
  <2>7. QED
    BY <2>1, <2>6, OpenCoverage
<1>3. QED
  BY <1>1, <1>2 DEF Binding

-----------------------------------------------------------------------------
(* The coverage: a part of a declaration is complete. *)

\* The part p takes the place of the call it was read by.
Closes(p) ==
    /\ p \in Part /\ p.hi < pos' /\ (tokens[p.lo] = "*" \/ Operand(p.lo, p.hi))
    /\ \A q \in AnyPart : q.hi < p.from
    /\ decls' = decls
    /\ \/ /\ parts' = parts \cup {p} /\ bindings' = bindings
          /\ \E h \in Marks : h.for \in {"intent", "safety"}
          /\ \A h \in Marks : h.for \notin {"section", "example"}
       \/ /\ bindings' = bindings \cup {p} /\ parts' = parts
          /\ \E f \in Marks : f.for = "section"
          /\ \A f \in Marks : f.for = "section" => f.at = p.at
    /\ \A f \in Marks : f.for \notin Starter => f \in Marks'
    /\ \A f \in Marks : f \in Marks' \/ (f.at = p.at /\ f.lo = p.from /\ p.hi = pos - 1)
    /\ \A f \in Marks' : f.for \in Starter => f.lo = pos'
    /\ \A f \in Marks' : f.for = "modifies" \/ f \in Marks
    /\ Inside' => \E f \in Marks' : f.for \in Starter
    /\ Skip
    /\ \A n : Reads(n) => Holds(p, n) \/ tokens[n] \in {"lbrace", "rbrace", "comma", ":"}

LEMMA HoldsBetween ==
    ASSUME NEW p \in Part, NEW n \in Nat, p.from <= n, n <= p.hi
    PROVE  Holds(p, n)
<1>1. p.from \in Nat /\ p.hi \in Nat
  BY DEF Part
<1>2. n \in p.from..p.hi /\ n \in p.from..p.hi + 2 /\ n \in p.from..p.hi + 0
  BY <1>1
<1>3. QED
  BY <1>2 DEF Holds

LEMMA CloseCoverage ==
    ASSUME Control, BuiltType, Coverage, [Next]_vars, outcome = "running", outcome' = outcome,
           NEW p, Closes(p)
    PROVE  Coverage'
<1>1. tokens' = tokens /\ nodes \subseteq nodes' /\ pos' \in Nat /\ pos <= pos' /\ pos \in Nat
  BY NodesGrow, Forward
<1>2. /\ AnyPart' = AnyPart \cup {p} /\ decls' = decls
      /\ p \in Part /\ p.hi \in Nat /\ p.hi < pos'
  <2>1. decls' = decls /\ AllParts' = AllParts
    BY DEF Closes, AllParts
  <2>2. p \in Part /\ p.hi < pos'
    BY DEF Closes
  <2>3. p.hi \in Nat
    BY <2>2 DEF Part
  <2>4. CASE parts' = parts \cup {p} /\ bindings' = bindings
    BY <2>1, <2>2, <2>3, <2>4 DEF AnyPart
  <2>5. CASE bindings' = bindings \cup {p} /\ parts' = parts
    BY <2>1, <2>2, <2>3, <2>5 DEF AnyPart
  <2>6. QED
    BY <2>4, <2>5 DEF Closes
<1>3. Anchored' /\ AtEnd'
  BY DEF Closes, Anchored, AtEnd, Parsed
<1>4. PartsApart'
  <2>1. \A q \in AnyPart : /\ q \in Part /\ q.hi \in Nat /\ q.hi < pos'
                           /\ tokens'[q.lo] = "*" \/ Operand(q.lo, q.hi)'
    BY <1>1, PartLasts DEF Coverage, PartsApart
  <2>2. tokens'[p.lo] = "*" \/ Operand(p.lo, p.hi)'
    BY <1>1, OperandGrows DEF Closes
  <2>3. \A q \in AnyPart : q.hi < p.from
    BY DEF Closes
  <2>4. \A q \in AnyPart', f \in Marks' : f.for \in Starter => q.hi < f.lo
    BY <1>2, <2>1 DEF Closes
  <2>5. \A q, r \in AnyPart' : q = r \/ q.hi < r.from \/ r.hi < q.from
    BY <1>2, <2>3 DEF Coverage, PartsApart
  <2>6. QED
    BY <1>2, <2>1, <2>2, <2>4, <2>5 DEF PartsApart
<1>5. \A f \in Marks : f.for \notin Starter => f \in Marks'
  BY DEF Closes
<1>6. \A f \in Marks' : f.for = "modifies" \/ f \in Marks
  BY DEF Closes
<1>7. PartsOpen'
  <2>1. bindings' # {} => \E f \in Marks : f.for = "section"
    BY DEF Closes, Coverage, PartsOpen
  <2>2. parts' # {} => \E h \in Marks : h.for \in Header /\ h.for # "theorem"
    BY DEF Closes, Coverage, PartsOpen, Header
  <2>3. QED
    BY <1>5, <2>1, <2>2 DEF PartsOpen, Starter, Header
<1>8. SectionsSeen'
  <2>1. ASSUME NEW f \in Marks', f.for = "section" PROVE SectionOpen(f)'
    <3>1. f \in Marks /\ SectionOpen(f)
      BY <1>6, <2>1 DEF Coverage, SectionsSeen
    <3>2. parts' = parts /\ \A q \in bindings' : q \in bindings \/ q.at = f.at
      BY <2>1, <3>1 DEF Closes
    <3>3. \A h \in Marks' : h.for \in Header => h \in Marks
      BY <1>6 DEF Header
    <3>4. QED
      BY <3>1, <3>2, <3>3 DEF SectionOpen
  <2>2. ASSUME NEW h \in Marks', h.for = "example" PROVE ExampleOpen(h)'
    <3>1. h \in Marks /\ parts' = parts
      BY <1>6, <2>2 DEF Closes
    <3>2. \A q \in parts : h.at < q.at /\ q.at < pos /\ IsSectionName(q.at) /\ q.at \in Nat
      BY <2>2, <3>1 DEF ExampleOpen, Coverage, SectionsSeen, BuiltType, Part
    <3>3. \A q \in parts : q.at < pos'
      BY <1>1, <3>2, Chain
    <3>4. \A q \in parts : IsSectionName(q.at)'
      BY <1>1, <3>2 DEF IsSectionName
    <3>5. QED
      BY <3>1, <3>2, <3>3, <3>4 DEF ExampleOpen
  <2>3. ASSUME NEW h \in Marks', h.for \in Header PROVE DeclOpen(h)'
    <3>1. h \in Marks
      BY <1>6, <2>3 DEF Header
    <3>2. ASSUME NEW n \in DOMAIN tokens, h.at < n, n < pos' PROVE tokens[n] \notin Header
      <4>1. n < pos \/ Reads(n)
        BY <1>1, <3>2, ReadBefore DEF Control
      <4>2. CASE n < pos
        BY <2>3, <3>1, <3>2, <4>2 DEF DeclOpen, Coverage, SectionsSeen
      <4>3. CASE Reads(n)
        BY <4>3, Skipped DEF Control, Closes
      <4>4. QED
        BY <4>1, <4>2, <4>3
    <3>3. QED
      BY <1>1, <3>2 DEF DeclOpen
  <2>4. QED
    BY <2>1, <2>2, <2>3 DEF SectionsSeen
<1>9. AllAccounted'
  <2>1. SUFFICES ASSUME SectionsOnce', NEW n \in DOMAIN tokens, n < pos' PROVE Accounted(n)'
    BY <1>1 DEF AllAccounted
  <2>2. SectionsOnce
    BY <1>1, <2>1 DEF SectionsOnce, IsSectionName
  <2>3. n \in Nat /\ (n < pos \/ Reads(n))
    BY <1>1, <2>1, ReadBefore DEF Control
  <2>4. CASE n < pos
    <3>1. CASE \E f \in Marks : f.at = n \/ (f.for \in Starter /\ f.lo <= n)
      <4>1. PICK f \in Marks : f.at = n \/ (f.for \in Starter /\ f.lo <= n)
        BY <3>1
      <4>2. CASE f \in Marks'
        BY <4>1, <4>2 DEF Accounted
      <4>3. CASE f.at = p.at /\ f.lo = p.from /\ p.hi = pos - 1
        <5>1. n <= p.hi
          BY <1>1, <2>3, <2>4, <4>3
        <5>2. Holds(p, n)
          BY <1>2, <2>3, <4>1, <4>3, <5>1, HoldsBetween DEF Holds
        <5>3. QED
          BY <1>2, <5>2 DEF Accounted
      <4>4. QED
        BY <4>2, <4>3 DEF Closes
    <3>2. CASE ~\E f \in Marks : f.at = n \/ (f.for \in Starter /\ f.lo <= n)
      <4>1. Accounted(n)
        BY <2>2, <2>4 DEF Coverage, AllAccounted
      <4>2. QED
        BY <1>1, <1>2, <3>2, <4>1 DEF Accounted, IsSectionName
    <3>3. QED
      BY <3>1, <3>2
  <2>5. CASE Reads(n)
    <3>1. Holds(p, n) \/ tokens[n] \in {"lbrace", "rbrace", "comma", ":"}
      BY <2>5 DEF Closes
    <3>2. QED
      BY <1>1, <1>2, <3>1 DEF Accounted
  <2>6. QED
    BY <2>3, <2>4, <2>5
<1>10. QED
  BY <1>3, <1>4, <1>7, <1>8, <1>9 DEF Coverage

\* The part whose expression was read last.
LEMMA PartRead ==
    ASSUME Control, Trees, BuiltType, Coverage, At("infix"), Top.for \in Starter, NEW elseReject \in BOOLEAN
    PROVE  LET p == ThePart(elseReject)
           IN  /\ p \in Part /\ p.at = Top.at /\ p.from = Top.lo /\ p.hi = pos - 1
               /\ p.elseReject = elseReject
               /\ pos \in Nat /\ p.from \in Nat /\ p.from <= pos /\ Operand(p.lo, p.hi)
               /\ \A q \in AnyPart : q.hi < p.from
               /\ Top \in Marks /\ Marks = Base(Below) \cup {Top} /\ stack # <<>>
<1> DEFINE p == ThePart(elseReject)
<1>1. InExpression /\ doing = "infix"
  BY DEF At, InExpression
<1>2. p \in Part /\ p.at = Top.at /\ p.from = Top.lo /\ p.lo = lo /\ p.hi = pos - 1 /\ p.elseReject = elseReject
  BY <1>1, PartType DEF ThePart
<1>3. CallType /\ stack # <<>> /\ stack \in Seq(Frame) /\ pos \in Nat /\ FrameOK(tokens, pos, Top)
  BY <1>1, Expression
<1>4. Marks = Base(Below) \cup {Top}
  <2>1. Top.for \notin Opener
    BY DEF Starter, Opener
  <2>2. QED
    BY <1>3, <2>1, BaseSplit DEF Marks, Below, Top
<1>5. Operand(lo, pos - 1)
  BY <1>1 DEF Trees, ReadOK, Whole, Operand
<1>6. Top.lo \in Nat /\ Top.lo <= pos
  BY <1>1, <1>3, TopNumbers DEF FrameOK
<1>7. \A q \in AnyPart : q.hi < Top.lo
  BY <1>4 DEF Coverage, PartsApart
<1>8. QED
  BY <1>2, <1>3, <1>4, <1>5, <1>6, <1>7

LEMMA CloseClauseCoverage ==
    ASSUME Control, Trees, BuiltType, Coverage, CloseInvariant \/ CloseClause
    PROVE  Coverage'
<1>1. /\ [Next]_vars /\ At("infix") /\ outcome = "running" /\ Top.for \in {"invariant", "clause"}
      /\ Top.for \in Starter
  BY DEF Next, CloseInvariant, CloseClause, Complete, At, Starter
<1>2. CASE Refuse
  BY <1>2, AnswerLeaves DEF Refuse
<1>3. ASSUME NEW elseReject \in BOOLEAN, NEW n, Add(elseReject), Return("body", n), Skip,
             IF elseReject THEN n = pos + 2 ELSE n = pos
      PROVE  Coverage'
  <2> DEFINE p == ThePart(elseReject)
  <2>1. /\ p \in Part /\ p.at = Top.at /\ p.from = Top.lo /\ p.hi = pos - 1 /\ p.elseReject = elseReject
        /\ pos \in Nat /\ p.from \in Nat /\ p.from <= pos /\ Operand(p.lo, p.hi)
        /\ \A q \in AnyPart : q.hi < p.from
        /\ stack # <<>>
    BY <1>1, PartRead
  <2>2. parts' = parts \cup {p} /\ bindings' = bindings /\ decls' = decls /\ outcome' = outcome
    BY <1>3 DEF Add
  <2> HIDE DEF p
  <2>3. pos' = n /\ stack' = Below /\ ~Inside'
    BY <1>3 DEF Return, Inside
  <2>4. /\ Marks = {stack[1], Top} /\ Marks' = {stack[1]}
        /\ stack[1].for \in {"intent", "safety"} /\ stack[1].for \notin Starter
    <3>1. Marks = {stack[1], Top} /\ Base(Below) = {stack[1]} /\ stack[1].for \in {"intent", "safety"}
      BY <1>1, <2>1, MarksOfPart DEF Control
    <3>2. QED
      BY <2>3, <3>1 DEF Marks, Starter
  <2>5. p.hi < pos'
    BY <1>3, <2>1, <2>3
  <2>6. ASSUME NEW k, Reads(k) PROVE Holds(p, k)
    <3>1. elseReject /\ (k = pos \/ k = pos + 1)
      <4>1. k \in Nat /\ pos <= k /\ k < pos' /\ pos \in Nat
        BY <2>1, <2>6 DEF Reads, Control, CallType
      <4>2. QED
        BY <1>3, <2>3, <4>1
    <3>2. k \in p.from..p.hi + 2
      BY <2>1, <3>1
    <3>3. QED
      BY <2>1, <3>1, <3>2 DEF Holds
  <2>7. Closes(p)
    <3>1. \A h \in Marks : h.for \notin {"section", "example"}
      BY <1>1, <2>4
    <3>2. \A f \in Marks : f.for \notin Starter => f \in Marks'
      BY <1>1, <2>4
    <3>3. \A f \in Marks : f \in Marks' \/ (f.at = p.at /\ f.lo = p.from /\ p.hi = pos - 1)
      BY <2>1, <2>4
    <3>4. \A f \in Marks' : f.for \notin Starter /\ f \in Marks
      BY <2>4
    <3>5. QED
      BY <1>3, <2>1, <2>2, <2>3, <2>4, <2>5, <2>6, <3>1, <3>2, <3>3, <3>4 DEF Closes
  <2>8. QED
    BY <1>1, <2>2, <2>7, CloseCoverage
<1>4. CASE CloseInvariant
  <2>1. Add(FALSE) /\ Return("body", pos) /\ Skip
    BY <1>4 DEF CloseInvariant, Return, Skip
  <2>2. QED
    BY <1>3, <2>1
<1>5. CASE CloseClause /\ Peek(0) # "else"
  <2>1. Add(FALSE) /\ Return("body", pos) /\ Skip
    BY <1>5 DEF CloseClause, Return, Skip
  <2>2. QED
    BY <1>3, <2>1
<1>6. CASE CloseClause /\ Peek(0) = "else" /\ tokens[Top.at] = "require" /\ Peek(1) = "reject"
  <2>1. Add(TRUE) /\ Return("body", pos + 2)
    BY <1>6 DEF CloseClause
  <2>2. Skip
    BY <1>6, <2>1 DEF Return, Skip, Plain, Header
  <2>3. QED
    BY <1>3, <2>1, <2>2
<1>7. QED
  BY <1>2, <1>4, <1>5, <1>6 DEF CloseClause

\* A step that reads one token at most.
LEMMA ReadsOne ==
    ASSUME CallType, pos' = pos \/ pos' = pos + 1, NEW k, Reads(k)
    PROVE  pos' # pos /\ tokens[k] = Peek(0)
<1>1. k \in Nat /\ pos <= k /\ k < pos' /\ pos \in Nat
  BY DEF Reads, CallType
<1>2. pos' = pos + 1 /\ pos' # pos /\ k = pos + 0
  BY <1>1
<1>3. QED
  BY <1>2, ReadsThese

LEMMA Before ==
    ASSUME NEW i \in Nat, NEW j \in Nat, i <= j
    PROVE  i - 1 < j
  OBVIOUS

LEMMA ClosePathCoverage ==
    ASSUME Control, Trees, BuiltType, Coverage, ClosePath
    PROVE  Coverage'
<1> DEFINE p == ThePart(FALSE)
<1>1. /\ [Next]_vars /\ At("infix") /\ outcome = "running" /\ Top.for = "modifies" /\ Top.for \in Starter
  BY DEF Next, ClosePath, Complete, At, Starter
<1>2. /\ p \in Part /\ p.at = Top.at /\ p.from = Top.lo /\ p.hi = pos - 1
      /\ pos \in Nat /\ Operand(p.lo, p.hi)
      /\ \A q \in AnyPart : q.hi < p.from
      /\ stack # <<>>
  BY <1>1, PartRead
<1>3. parts' = parts \cup {p} /\ bindings' = bindings /\ decls' = decls /\ outcome' = outcome
  BY DEF ClosePath, Add
<1> HIDE DEF p
<1>4. Marks = {stack[1], Top} /\ Base(Below) = {stack[1]} /\ stack[1].for = "intent"
  BY <1>1, <1>2, MarksOfPart DEF Control
<1>5. /\ stack[1].for \notin Starter
      /\ \A h \in Marks : h.for \notin {"section", "example"}
      /\ \E h \in Marks : h.for \in {"intent", "safety"}
  BY <1>1, <1>4 DEF Starter
<1>6. ASSUME Skip, pos' = pos \/ (pos' = pos + 1 /\ Peek(0) = "comma"), stack[1] \in Marks',
             \A f \in Marks' : f = stack[1] \/ (f.for = "modifies" /\ f.lo = pos'),
             Inside' => \E f \in Marks' : f.for = "modifies"
      PROVE  Coverage'
  <2>1. p.hi < pos'
    BY <1>1, <1>2, Forward, Before
  <2>2. ASSUME NEW k, Reads(k) PROVE tokens[k] \in {"lbrace", "rbrace", "comma", ":"}
    <3>1. pos' # pos /\ tokens[k] = Peek(0)
      BY <1>6, <2>2, ReadsOne DEF Control
    <3>2. QED
      BY <1>6, <3>1
  <2>3. \A f \in Marks : f.for \notin Starter => f \in Marks'
    BY <1>1, <1>4, <1>6
  <2>4. \A f \in Marks : f \in Marks' \/ (f.at = p.at /\ f.lo = p.from /\ p.hi = pos - 1)
    BY <1>2, <1>4, <1>6
  <2>5. \A f \in Marks' : f.for \in Starter => f.lo = pos'
    BY <1>5, <1>6
  <2>6. \A f \in Marks' : f.for = "modifies" \/ f \in Marks
    BY <1>4, <1>6
  <2>7. Inside' => \E f \in Marks' : f.for \in Starter
    BY <1>6 DEF Starter
  <2>8. Closes(p)
    BY <1>2, <1>3, <1>5, <1>6, <2>1, <2>2, <2>3, <2>4, <2>5, <2>6, <2>7 DEF Closes
  <2>9. QED
    BY <1>1, <1>3, <2>8, CloseCoverage
<1>7. CASE Peek(0) = "comma"
  <2> DEFINE f == [Top EXCEPT !.lo = pos + 1]
  <2>1. pos' = pos + 1 /\ stack' = Append(Below, f)
    BY <1>7 DEF ClosePath, Parse
  <2>2. f.for = "modifies" /\ f.lo = pos + 1
    <3>1. Top \in Frame
      BY <1>1, Expression DEF At, InExpression
    <3>2. QED
      BY <1>1, <3>1 DEF Frame
  <2> HIDE DEF f
  <2>3. Marks' = {stack[1]} \cup {f}
    <3>1. Below \in Seq(Frame)
      BY <1>2, PopSeq DEF Below, Control, CallType
    <3>2. f.for \notin Opener
      BY <2>2 DEF Opener
    <3>3. QED
      BY <1>4, <2>1, <3>1, <3>2, BaseAppend DEF Marks
  <2>4. Skip
    BY <1>7, <2>1 DEF Skip, Plain, Header
  <2>5. pos' = pos \/ (pos' = pos + 1 /\ Peek(0) = "comma")
    BY <1>7, <2>1
  <2>6. f.for = "modifies" /\ f.lo = pos'
    BY <2>1, <2>2
  <2>7. /\ stack[1] \in Marks' /\ f \in Marks'
        /\ \A g \in Marks' : g = stack[1] \/ (g.for = "modifies" /\ g.lo = pos')
    BY <2>3, <2>6
  <2>8. QED
    BY <1>6, <2>4, <2>5, <2>6, <2>7
<1>8. CASE Peek(0) # "comma"
  <2>1. pos' = pos /\ stack' = Below /\ ~Inside'
    BY <1>8 DEF ClosePath, Return, Inside
  <2>2. Marks' = {stack[1]}
    BY <1>4, <2>1 DEF Marks
  <2>3. Skip /\ (pos' = pos \/ (pos' = pos + 1 /\ Peek(0) = "comma"))
    BY <2>1 DEF Skip
  <2>4. QED
    BY <1>6, <2>1, <2>2, <2>3
<1>9. QED
  BY <1>7, <1>8

LEMMA ModifiesCoverage ==
    ASSUME Control, BuiltType, Coverage, Modifies
    PROVE  Coverage'
<1>1. [Next]_vars /\ doing = "body" /\ outcome = "running" /\ Top.for = "intent" /\ Peek(0) = "modifies"
  BY DEF Next, Modifies, InBody, At
<1>2. CASE Refuse
  BY <1>2, AnswerLeaves DEF Refuse
<1>3. CASE Parse(Waits("modifies", pos, pos + 1), stack, 0, pos + 1) /\ OnlyCall
  <2>1. Parse(Waits("modifies", pos, pos + 1), stack, 0, pos') /\ pos' = pos + 1 /\ Plain(0)
    BY <1>1, <1>3 DEF Parse, Plain, Header
  <2>2. UNCHANGED <<built, outcome>>
    BY <1>3 DEF OnlyCall
  <2>3. QED
    BY <1>1, <2>1, <2>2, PartOpens, OpenCoverage
<1>4. ASSUME NEW p, p = [at |-> pos, from |-> pos + 1, lo |-> pos + 1, hi |-> pos + 1, elseReject |-> FALSE],
             Peek(1) = "*", parts' = parts \cup {p}, GoOn("body", pos + 2),
             UNCHANGED <<tokens, nodes, bindings, decls, outcome>>
      PROVE  Coverage'
  <2>1. pos' = pos + 2 /\ stack' = stack /\ ~Inside' /\ pos \in Nat
    BY <1>4 DEF GoOn, Inside, Control, CallType
  <2>2. p \in Part /\ p.at = pos /\ p.from = pos + 1 /\ p.lo = pos + 1 /\ p.hi = pos + 1 /\ p.elseReject = FALSE
    BY <1>4, <2>1 DEF Part
  <2>3. tokens[p.lo] = "*"
    BY <1>4, <2>2, PeekIn DEF Control
  <2>4. /\ Marks = {stack[1]} /\ stack[1].for = "intent" /\ Marks' = Marks
        /\ stack[1].for \notin Starter
    <3>1. Marks = {stack[1]} /\ Top = stack[1]
      BY <1>1, MarksAtBottom DEF Control, DoingOK
    <3>2. QED
      BY <1>1, <2>1, <3>1 DEF Marks, Starter
  <2>5. \A q \in AnyPart : q.hi < p.from
    <3>1. \A q \in AnyPart : q.hi \in Nat /\ q.hi < pos
      BY PartsAreParts DEF Coverage, PartsApart, Part
    <3>2. QED
      BY <2>1, <2>2, <3>1
  <2>6. p.hi < pos'
    BY <2>1, <2>2
  <2>7. Skip
    BY <1>1, <1>4, <2>1 DEF Skip, Plain, Header
  <2>8. ASSUME NEW k, Reads(k) PROVE Holds(p, k)
    <3>1. k = pos \/ k = pos + 1
      BY <2>1, <2>8, ReadsThese DEF Control
    <3>2. CASE k = pos
      BY <2>2, <3>2 DEF Holds
    <3>3. CASE k = pos + 1
      BY <2>1, <2>2, <3>3, HoldsBetween
    <3>4. QED
      BY <3>1, <3>2, <3>3
  <2>9. Closes(p)
    BY <1>4, <2>1, <2>2, <2>3, <2>4, <2>5, <2>6, <2>7, <2>8 DEF Closes
  <2>10. outcome' = outcome
    BY <1>4
  <2>11. QED
    BY <1>1, <2>9, <2>10, CloseCoverage
<1>5. QED
  BY <1>2, <1>3, <1>4 DEF Modifies

LEMMA CloseBindingCoverage ==
    ASSUME Control, Trees, BuiltType, Coverage, CloseBinding
    PROVE  Coverage'
<1>1. [Next]_vars /\ At("infix") /\ outcome = "running" /\ Top.for = "binding" /\ Top.for \in Starter
  BY DEF Next, CloseBinding, Complete, At, Starter
<1>2. CASE Refuse
  BY <1>2, AnswerLeaves DEF Refuse
<1>3. CASE Peek(0) \in {"comma", "rbrace"}
  <2> DEFINE p == ThePart(FALSE)
  <2>1. /\ p \in Part /\ p.at = Top.at /\ p.from = Top.lo /\ p.hi = pos - 1
        /\ pos \in Nat /\ Operand(p.lo, p.hi)
        /\ \A q \in AnyPart : q.hi < p.from
        /\ stack # <<>>
    BY <1>1, PartRead
  <2>2. /\ bindings' = bindings \cup {p} /\ parts' = parts /\ decls' = decls /\ outcome' = outcome
        /\ Return("bindings", IF Peek(0) = "comma" THEN pos + 1 ELSE pos)
    BY <1>3 DEF CloseBinding
  <2> HIDE DEF p
  <2>3. /\ pos' = pos \/ (pos' = pos + 1 /\ Peek(0) = "comma")
        /\ stack' = Below /\ ~Inside'
    BY <2>2 DEF Return, Inside
  <2>4. Skip
    BY <2>3 DEF Skip, Plain, Header
  <2>5. /\ Marks = {stack[1], stack[2], Top} /\ Marks' = {stack[1], stack[2]}
        /\ stack[1].for = "example" /\ stack[2].for = "section" /\ stack[2].at = Top.at
    <3>1. /\ Marks = {stack[1], stack[2], Top} /\ Base(Below) = {stack[1], stack[2]}
          /\ stack[1].for = "example" /\ stack[2].for = "section" /\ stack[2].at = Top.at
      BY <1>1, <2>1, MarksOfBinding DEF Control
    <3>2. QED
      BY <2>3, <3>1 DEF Marks
  <2>6. p.hi < pos'
    BY <1>1, <2>1, Forward, Before
  <2>7. ASSUME NEW k, Reads(k) PROVE tokens[k] \in {"lbrace", "rbrace", "comma", ":"}
    <3>1. pos' # pos /\ tokens[k] = Peek(0)
      BY <2>3, <2>7, ReadsOne DEF Control
    <3>2. QED
      BY <2>3, <3>1
  <2>8. Closes(p)
    <3>1. \A f \in Marks : f.for = "section" => f.at = p.at
      BY <1>1, <2>1, <2>5
    <3>2. \A f \in Marks : f.for \notin Starter => f \in Marks'
      BY <1>1, <2>5
    <3>3. \A f \in Marks : f \in Marks' \/ (f.at = p.at /\ f.lo = p.from /\ p.hi = pos - 1)
      BY <2>1, <2>5
    <3>4. \A f \in Marks' : f.for \notin Starter /\ f \in Marks
      BY <2>5 DEF Starter
    <3>5. \E f \in Marks : f.for = "section"
      BY <2>5
    <3>6. QED
      BY <2>1, <2>2, <2>3, <2>4, <2>6, <2>7, <3>1, <3>2, <3>3, <3>4, <3>5 DEF Closes
  <2>9. QED
    BY <1>1, <2>2, <2>8, CloseCoverage
<1>4. QED
  BY <1>2, <1>3 DEF CloseBinding

-----------------------------------------------------------------------------
(* The coverage: a declaration is complete. *)

LEMMA DeclsGrow ==
    ASSUME BuiltType, NEW d, decls' = Append(decls, d)
    PROVE  /\ AllParts' = AllParts \cup d.parts
           /\ \A n \in DOMAIN decls : n \in DOMAIN decls' /\ decls'[n] = decls[n]
           /\ \E n \in DOMAIN decls' : decls'[n] = d
<1>1. decls \in Seq(Decl \cup {d}) /\ Len(decls) \in Nat /\ DOMAIN decls = 1..Len(decls)
  BY DEF BuiltType
<1>2. /\ decls' \in Seq(Decl \cup {d}) /\ Len(decls') = Len(decls) + 1 /\ DOMAIN decls' = 1..Len(decls')
      /\ \A n \in 1..Len(decls) : decls'[n] = decls[n]
      /\ decls'[Len(decls) + 1] = d
  BY <1>1, AppendProperties
<1>3. \A n \in DOMAIN decls' : n \in DOMAIN decls \/ n = Len(decls) + 1
  BY <1>1, <1>2
<1>4. Len(decls) + 1 \in DOMAIN decls' /\ \A n \in DOMAIN decls : n \in DOMAIN decls'
  BY <1>1, <1>2
<1>5. AllParts' = AllParts \cup d.parts
  <2>1. ASSUME NEW p \in AllParts' PROVE p \in AllParts \cup d.parts
    <3>1. PICK n \in DOMAIN decls' : p \in decls'[n].parts
      BY <2>1 DEF AllParts
    <3>2. QED
      BY <1>1, <1>2, <1>3, <3>1 DEF AllParts
  <2>2. ASSUME NEW p \in AllParts PROVE p \in AllParts'
    <3>1. PICK n \in DOMAIN decls : p \in decls[n].parts
      BY <2>2 DEF AllParts
    <3>2. QED
      BY <1>1, <1>2, <1>4, <3>1 DEF AllParts
  <2>3. ASSUME NEW p \in d.parts PROVE p \in AllParts'
    BY <1>2, <1>4, <2>3 DEF AllParts
  <2>4. QED
    BY <2>1, <2>2, <2>3
<1>6. QED
  BY <1>1, <1>2, <1>4, <1>5

\* What a theorem adds to the parts that are complete.
IsTheorem(p) ==
    /\ p \in Part /\ p.at = Top.at /\ p.from = Top.lo /\ p.hi = pos - 1 /\ Operand(p.lo, p.hi)
    /\ \A q \in AnyPart : q.hi < p.from

LEMMA Predecessor ==
    ASSUME NEW i \in Nat, NEW j \in Nat, i < j
    PROVE  i <= j - 1
  OBVIOUS

LEMMA NoneBelow ==
    ASSUME NEW s \in Seq(Frame), s # <<>>, Len(s) = 1
    PROVE  Base(SubSeq(s, 1, Len(s) - 1)) = {}
<1> DEFINE r == SubSeq(s, 1, Len(s) - 1)
<1>1. Len(r) = 0
  BY PopSeq
<1> HIDE DEF r
<1>2. 1..Len(r) = {}
  BY <1>1
<1>3. QED
  BY <1>2 DEF Base, r

FinishesWith(added) ==
    /\ Len(stack) = 1 /\ Peek(0) = "rbrace"
    /\ Finish(parts \cup added)
    /\ \A p \in added : IsTheorem(p)
    /\ \A p, q \in added : p = q
    /\ Top.for \in Starter => added # {}

LEMMA FinishCoverage ==
    ASSUME Control, BuiltType, Coverage, [Next]_vars, outcome = "running",
           NEW added, FinishesWith(added)
    PROVE  Coverage'
<1>0. /\ \A p \in added : IsTheorem(p)
      /\ Len(stack) = 1
  BY DEF FinishesWith
<1>1. tokens' = tokens /\ nodes \subseteq nodes' /\ pos' \in Nat /\ pos <= pos' /\ pos \in Nat
  BY NodesGrow, Forward
<1>2. /\ decls' = Append(decls, [at |-> Top.at, parts |-> parts \cup added]) /\ parts' = {}
      /\ stack' = Below /\ doing' = "program" /\ bindings' = bindings /\ outcome' = outcome
  BY DEF FinishesWith, Finish, Return
<1>3. Marks = {Top} /\ Top.for \in Header /\ stack # <<>>
  BY <1>0, MarksAtBottom DEF Control
<1>4. bindings = {}
  <2>1. \A f \in Marks : f.for # "section"
    BY <1>3 DEF Header
  <2>2. QED
    BY <2>1 DEF Coverage, PartsOpen
<1>5. /\ AllParts' = AllParts \cup (parts \cup added)
      /\ \A n \in DOMAIN decls : n \in DOMAIN decls' /\ decls'[n] = decls[n]
      /\ \E n \in DOMAIN decls' : decls'[n].at = Top.at
  <2> DEFINE d == [at |-> Top.at, parts |-> parts \cup added]
  <2>1. d.at = Top.at /\ d.parts = parts \cup added /\ decls' = Append(decls, d)
    BY <1>2
  <2> HIDE DEF d
  <2>2. /\ AllParts' = AllParts \cup d.parts
        /\ \A n \in DOMAIN decls : n \in DOMAIN decls' /\ decls'[n] = decls[n]
        /\ \E n \in DOMAIN decls' : decls'[n] = d
    BY <2>1, DeclsGrow
  <2>3. QED
    BY <2>1, <2>2
<1>6. AnyPart' = AnyPart \cup added
  BY <1>2, <1>4, <1>5 DEF AnyPart
<1>7. Marks' = {}
  <2>1. Base(Below) = {}
    BY <1>0, <1>3, NoneBelow DEF Below, Control, CallType
  <2>2. QED
    BY <1>2, <2>1 DEF Marks
<1>8. Anchored' /\ PartsOpen' /\ SectionsSeen' /\ AtEnd'
  BY <1>2, <1>4, <1>7 DEF Anchored, Inside, PartsOpen, SectionsSeen, AtEnd, Parsed
<1>9. PartsApart'
  <2>1. \A q \in AnyPart : /\ q \in Part /\ q.hi \in Nat /\ q.hi < pos'
                           /\ tokens'[q.lo] = "*" \/ Operand(q.lo, q.hi)'
    BY <1>1, PartLasts DEF Coverage, PartsApart
  <2>2. \A p \in added : p.hi < pos' /\ Operand(p.lo, p.hi)'
    BY <1>0, <1>1, Before, OperandGrows DEF IsTheorem
  <2>3. \A q, r \in AnyPart' : q = r \/ q.hi < r.from \/ r.hi < q.from
    BY <1>0, <1>6 DEF Coverage, PartsApart, IsTheorem, FinishesWith
  <2>4. QED
    BY <1>6, <1>7, <2>1, <2>2, <2>3 DEF PartsApart
<1>10. AllAccounted'
  <2>1. SUFFICES ASSUME SectionsOnce', NEW n \in DOMAIN tokens, n < pos' PROVE Accounted(n)'
    BY <1>1 DEF AllAccounted
  <2>2. SectionsOnce
    BY <1>1, <2>1 DEF SectionsOnce, IsSectionName
  <2>3. n \in Nat /\ (n < pos \/ Reads(n))
    BY <1>1, <2>1, ReadBefore DEF Control
  <2>4. CASE n < pos
    <3>1. CASE Top.at = n
      BY <1>5, <3>1 DEF Accounted
    <3>2. CASE Top.for \in Starter /\ Top.lo <= n
      <4>1. PICK p \in added : IsTheorem(p)
        BY <1>0, <3>2 DEF FinishesWith
      <4>2. p \in Part /\ p.from = Top.lo /\ p.hi = pos - 1
        BY <4>1 DEF IsTheorem
      <4>3. n <= p.hi /\ p.from <= n
        BY <1>1, <2>3, <2>4, <3>2, <4>2, Predecessor
      <4>4. Holds(p, n)
        BY <2>3, <4>2, <4>3, HoldsBetween
      <4>5. QED
        BY <1>6, <4>1, <4>4 DEF Accounted
    <3>3. CASE ~(Top.at = n \/ (Top.for \in Starter /\ Top.lo <= n))
      <4>1. Accounted(n)
        BY <2>2, <2>4 DEF Coverage, AllAccounted
      <4>2. QED
        BY <1>1, <1>3, <1>5, <1>6, <3>3, <4>1 DEF Accounted, IsSectionName
    <3>4. QED
      BY <3>1, <3>2, <3>3
  <2>5. CASE Reads(n)
    <3>1. pos' = pos + 1
      BY DEF FinishesWith, Finish, Return
    <3>2. tokens[n] = "rbrace"
      BY <2>5, <3>1, ReadsOne DEF Control, FinishesWith
    <3>3. QED
      BY <1>1, <3>2 DEF Accounted
  <2>6. QED
    BY <2>3, <2>4, <2>5
<1>11. QED
  BY <1>8, <1>9, <1>10 DEF Coverage

LEMMA EndOfBodyCoverage ==
    ASSUME Control, BuiltType, Coverage, EndOfBody
    PROVE  Coverage'
<1>1. [Next]_vars /\ outcome = "running" /\ Peek(0) = "rbrace" /\ Finish(parts)
  BY DEF Next, EndOfBody, At
<1>2. Len(stack) = 1 /\ Top.for \notin Starter
  BY DEF EndOfBody, At, Control, DoingOK, Starter
<1>3. parts \cup {} = parts
  OBVIOUS
<1>4. FinishesWith({})
  BY <1>1, <1>2, <1>3 DEF FinishesWith
<1>5. QED
  BY <1>1, <1>2, <1>4, FinishCoverage

LEMMA CloseTheoremCoverage ==
    ASSUME Control, Trees, BuiltType, Coverage, CloseTheorem
    PROVE  Coverage'
<1>1. [Next]_vars /\ At("infix") /\ outcome = "running" /\ Top.for = "theorem" /\ Top.for \in Starter
  BY DEF Next, CloseTheorem, Complete, At, Starter
<1>2. CASE Refuse
  BY <1>2, AnswerLeaves DEF Refuse
<1>3. CASE Peek(0) = "rbrace" /\ Finish({ThePart(FALSE)})
  <2>1. IsTheorem(ThePart(FALSE)) /\ stack # <<>>
    BY <1>1, PartRead DEF IsTheorem
  <2>2. Len(stack) = 1
    BY <1>1, <2>1, TopType DEF Header, Control, CallType
  <2>3. parts = {}
    <3>1. Marks = {Top}
      BY <2>2, MarksAtBottom DEF Control
    <3>2. QED
      BY <1>1, <3>1 DEF Coverage, PartsOpen
  <2>4. parts \cup {ThePart(FALSE)} = {ThePart(FALSE)}
    BY <2>3
  <2>5. FinishesWith({ThePart(FALSE)})
    BY <1>3, <2>1, <2>2, <2>4 DEF FinishesWith
  <2>6. QED
    BY <1>1, <1>3, <2>2, <2>5, FinishCoverage
<1>4. QED
  BY <1>2, <1>3 DEF CloseTheorem

-----------------------------------------------------------------------------
(* The coverage: a section, or the file, is complete. *)

\* The sections of an example are those of one declaration: none of its parts
\* has the name of the section that ends.
LEMMA SectionsDiffer ==
    ASSUME Control, BuiltType, Coverage, SectionsOnce, doing = "bindings", tokens[Top.at] \in {"given", "expect"},
           NEW p \in parts
    PROVE  tokens[p.at] # tokens[Top.at]
<1>1. /\ CallType /\ StackOK /\ stack # <<>> /\ Top.for = "section" /\ Top.at \in DOMAIN tokens
      /\ FrameOK(tokens, pos, Top) /\ Top.at < pos /\ Top.at \in Nat
  BY InLoop
<1>2. Marks = {stack[1], Top} /\ stack[1].for = "example"
  BY <1>1, MarksOfPart
<1>3. IsSectionName(Top.at)
  BY <1>1 DEF FrameOK, IsSectionName
<1>4. p.at < Top.at
  BY <1>1, <1>2 DEF Coverage, SectionsSeen, SectionOpen
<1>5. stack[1].at < p.at /\ IsSectionName(p.at)
  BY <1>2 DEF Coverage, SectionsSeen, ExampleOpen
<1>6. \A n \in DOMAIN tokens : stack[1].at < n /\ n < pos => tokens[n] \notin Header
  BY <1>2 DEF Coverage, SectionsSeen, DeclOpen, Header
<1>7. p.at \in Nat /\ stack[1].at \in Nat /\ pos \in Nat /\ DOMAIN tokens = 1..Len(tokens) /\ Len(tokens) \in Nat
  BY <1>1, <1>2, MarkTypes DEF BuiltType, Part, CallType
<1>8. p.at \in DOMAIN tokens
  BY <1>1, <1>4, <1>5, <1>7
<1>9. ASSUME NEW h \in p.at..Top.at PROVE h \in DOMAIN tokens /\ stack[1].at < h /\ h < pos
  BY <1>1, <1>5, <1>7, <1>8
<1>10. ~\E h \in p.at..Top.at : tokens[h] \in Header
  BY <1>6, <1>9
<1>11. QED
  BY <1>1, <1>3, <1>4, <1>5, <1>8, <1>10 DEF SectionsOnce

LEMMA EndOfSectionCoverage ==
    ASSUME Control, BuiltType, Coverage, EndOfSection
    PROVE  Coverage'
<1>1. [Next]_vars /\ outcome = "running" /\ doing = "bindings" /\ Peek(0) = "rbrace"
  BY DEF Next, EndOfSection, At
<1>2. CASE Refuse
  BY <1>2, AnswerLeaves DEF Refuse
<1>3. CASE tokens[Top.at] \in {"given", "expect"}
  <2>1. tokens' = tokens /\ nodes \subseteq nodes' /\ pos' \in Nat /\ pos <= pos' /\ pos \in Nat
    BY <1>1, NodesGrow, Forward
  <2>2. /\ parts' = {p \in parts : tokens[p.at] # tokens[Top.at]} \cup bindings /\ bindings' = {}
        /\ decls' = decls /\ stack' = Below /\ ~Inside' /\ outcome' = outcome
        /\ pos' = IF Peek(1) = "comma" THEN pos + 2 ELSE pos + 1
    BY <1>3 DEF EndOfSection, Return, Inside
  <2>3. /\ CallType /\ StackOK /\ stack # <<>> /\ Top.for = "section" /\ Top.at < pos /\ Top.at \in Nat
        /\ FrameOK(tokens, pos, Top)
    BY <1>1, InLoop
  <2>4. Marks = {stack[1], Top} /\ Marks' = {stack[1]} /\ stack[1].for = "example"
    <3>1. Marks = {stack[1], Top} /\ Base(Below) = {stack[1]} /\ stack[1].for = "example"
      BY <2>3, MarksOfPart
    <3>2. QED
      BY <2>2, <3>1 DEF Marks
  <2>5. AllParts' = AllParts /\ AnyPart' \subseteq AnyPart
    <3>1. AllParts' = AllParts
      BY <2>2 DEF AllParts
    <3>2. QED
      BY <2>2, <3>1 DEF AnyPart
  <2>6. Anchored' /\ PartsOpen' /\ AtEnd'
    BY <1>1, <2>2, <2>4 DEF Anchored, PartsOpen, Header, AtEnd, Parsed
  <2>7. PartsApart'
    <3>1. \A q \in AnyPart : /\ q \in Part /\ q.hi \in Nat /\ q.hi < pos'
                             /\ tokens'[q.lo] = "*" \/ Operand(q.lo, q.hi)'
      BY <2>1, PartLasts DEF Coverage, PartsApart
    <3>2. \A q, r \in AnyPart' : q = r \/ q.hi < r.from \/ r.hi < q.from
      BY <2>5 DEF Coverage, PartsApart
    <3>3. \A f \in Marks' : f.for \notin Starter
      BY <2>4 DEF Starter
    <3>4. QED
      BY <2>5, <3>1, <3>2, <3>3 DEF PartsApart
  <2>8. ASSUME NEW n, Reads(n) PROVE tokens[n] \in {"comma", "rbrace"}
    <3>1. n = pos \/ (n = pos + 1 /\ Peek(1) = "comma")
      <4>1. CASE Peek(1) = "comma"
        BY <2>2, <2>3, <2>8, <4>1, ReadsThese
      <4>2. CASE Peek(1) # "comma"
        BY <2>2, <2>3, <2>8, <4>2, ReadsThese
      <4>3. QED
        BY <4>1, <4>2
    <3>2. \A k \in Nat : n = pos + k => tokens[n] = Peek(k)
      BY <2>3, <2>8, ReadsThese
    <3>3. CASE n = pos
      <4>1. n = pos + 0
        BY <2>1, <3>3
      <4>2. QED
        BY <1>1, <3>2, <4>1
    <3>4. CASE n = pos + 1 /\ Peek(1) = "comma"
      BY <3>2, <3>4
    <3>5. QED
      BY <3>1, <3>3, <3>4
  <2>9. SectionsSeen'
    <3>1. \A f \in Marks' : f.for # "section"
      BY <2>4
    <3>2. ASSUME NEW h \in Marks', h.for = "example" PROVE ExampleOpen(h)'
      <4>1. ASSUME NEW q \in parts' PROVE h.at < q.at /\ q.at < pos /\ IsSectionName(q.at) /\ q.at \in Nat
        <5>1. CASE q \in parts
          BY <2>4, <3>2, <5>1 DEF Coverage, SectionsSeen, ExampleOpen, BuiltType, Part
        <5>2. CASE q \in bindings
          <6>1. q.at = Top.at /\ h.at < Top.at
            BY <2>3, <2>4, <3>2, <5>2 DEF Coverage, SectionsSeen, SectionOpen, Header
          <6>2. IsSectionName(Top.at)
            BY <1>3, <2>3 DEF FrameOK, IsSectionName
          <6>3. QED
            BY <2>3, <6>1, <6>2
        <5>3. QED
          BY <2>2, <5>1, <5>2
      <4>2. \A q \in parts' : q.at < pos'
        BY <2>1, <4>1, Chain
      <4>3. \A q \in parts' : IsSectionName(q.at)'
        BY <2>1, <4>1 DEF IsSectionName
      <4>4. QED
        BY <4>1, <4>2, <4>3 DEF ExampleOpen
    <3>3. ASSUME NEW h \in Marks', h.for \in Header PROVE DeclOpen(h)'
      <4>1. ASSUME NEW n \in DOMAIN tokens, h.at < n, n < pos' PROVE tokens[n] \notin Header
        <5>1. n < pos \/ Reads(n)
          BY <2>1, <2>3, <4>1, ReadBefore
        <5>2. CASE n < pos
          BY <2>4, <3>3, <4>1, <5>2 DEF DeclOpen, Coverage, SectionsSeen
        <5>3. CASE Reads(n)
          <6>1. tokens[n] \in {"comma", "rbrace"}
            BY <2>8, <5>3
          <6>2. QED
            BY <6>1 DEF Header
        <5>4. QED
          BY <5>1, <5>2, <5>3
      <4>2. QED
        BY <2>1, <4>1 DEF DeclOpen
    <3>4. QED
      BY <3>1, <3>2, <3>3 DEF SectionsSeen
  <2>10. AllAccounted'
    <3>1. SUFFICES ASSUME SectionsOnce', NEW n \in DOMAIN tokens, n < pos' PROVE Accounted(n)'
      BY <2>1 DEF AllAccounted
    <3>2. SectionsOnce
      BY <2>1, <3>1 DEF SectionsOnce, IsSectionName
    <3>3. n < pos \/ Reads(n)
      BY <2>1, <2>3, <3>1, ReadBefore
    <3>4. AnyPart' = AnyPart
      <4>1. \A p \in parts : p \in parts'
        BY <1>1, <1>3, <2>2, <3>2, SectionsDiffer
      <4>2. QED
        BY <2>2, <2>5, <4>1 DEF AnyPart
    <3>5. CASE n < pos
      <4>1. Accounted(n)
        BY <3>2, <3>5 DEF Coverage, AllAccounted
      <4>2. n = Top.at => IsSectionName(n)
        BY <1>3, <2>3 DEF FrameOK, IsSectionName
      <4>3. \A f \in Marks : f \in Marks' \/ (f = Top /\ f.for \notin Starter)
        BY <2>3, <2>4 DEF Starter
      <4>4. QED
        BY <2>1, <2>2, <3>4, <4>1, <4>2, <4>3 DEF Accounted, IsSectionName
    <3>6. CASE Reads(n)
      BY <2>1, <2>8, <3>6 DEF Accounted
    <3>7. QED
      BY <3>3, <3>5, <3>6
  <2>11. QED
    BY <2>6, <2>7, <2>9, <2>10 DEF Coverage
<1>4. QED
  BY <1>2, <1>3 DEF EndOfSection

LEMMA EndOfFileCoverage ==
    ASSUME Control, Coverage, EndOfFile
    PROVE  Coverage'
<1>1. /\ doing = "program" /\ Peek(0) = "eof" /\ outcome = "running"
      /\ UNCHANGED <<tokens, call, nodes, built>>
  BY DEF EndOfFile, At
<1>2. pos = Len(tokens) + 1
  <2>1. /\ tokens \in Seq(Token) /\ pos \in Nat /\ Len(tokens) \in Nat /\ DOMAIN tokens = 1..Len(tokens)
        /\ pos >= 1 /\ pos <= Len(tokens) + 1
    BY DEF Control, CallType
  <2>2. pos + 0 = pos
    BY <2>1
  <2>3. "eof" \notin Token
    BY DEF Token, Ident, Literal, Number, Header, ClauseKind, Prefix, Quantifier, Infix
  <2>4. pos \notin DOMAIN tokens
    BY <1>1, <2>1, <2>2, <2>3 DEF Peek, Tok
  <2>5. QED
    BY <2>1, <2>4
<1>3. /\ tokens' = tokens /\ pos' = pos /\ doing' = doing /\ stack' = stack /\ nodes' = nodes
      /\ parts' = parts /\ bindings' = bindings /\ decls' = decls
  BY <1>1 DEF call, built
<1>4. Marks' = Marks /\ AnyPart' = AnyPart
  BY <1>3 DEF Marks, AnyPart, AllParts
<1>5. Anchored' /\ PartsOpen' /\ AtEnd'
  BY <1>1, <1>2, <1>3, <1>4 DEF Coverage, Anchored, Inside, PartsOpen, AtEnd
<1>6. PartsApart'
  BY <1>3, <1>4 DEF Coverage, PartsApart, Operand, Spans
<1>7. SectionsSeen'
  BY <1>3, <1>4 DEF Coverage, SectionsSeen, SectionOpen, ExampleOpen, DeclOpen, IsSectionName
<1>8. AllAccounted'
  BY <1>3, <1>4 DEF Coverage, AllAccounted, SectionsOnce, Accounted, IsSectionName
<1>9. QED
  BY <1>5, <1>6, <1>7, <1>8 DEF Coverage

LEMMA CoverageKeeps ==
    ASSUME Control, Trees, BuiltType, Coverage, [Next]_vars
    PROVE  Coverage'
<1>1. CASE Atom \/ Call \/ Unary \/ Bracket \/ After \/ Quantify
  BY <1>1, OperandCoverage
<1>2. CASE TypedVar \/ Field \/ Prime \/ Index \/ NoPostfix \/ Operator
  BY <1>2, LoopCoverage
<1>3. CASE \/ CloseTail \/ CloseBinary \/ NextArgument \/ Then \/ Else
           \/ CloseBracket("(", ")") \/ CloseBracket("after", ")") \/ CloseBracket("[", "]")
  BY <1>3, ReturnCoverage
<1>4. CASE PathField \/ PathPrime \/ EndOfPath
  BY <1>4, PathCoverage
<1>5. CASE Declaration \/ Invariant \/ Clause \/ Section \/ Binding
  BY <1>5, DeclarationCoverage, PartOpenCoverage, SectionCoverage, BindingCoverage
<1>6. CASE CloseInvariant \/ CloseClause \/ ClosePath \/ Modifies \/ CloseBinding
  BY <1>6, CloseClauseCoverage, ClosePathCoverage, ModifiesCoverage, CloseBindingCoverage
<1>7. CASE EndOfBody \/ CloseTheorem \/ EndOfSection \/ EndOfFile
  BY <1>7, EndOfBodyCoverage, CloseTheoremCoverage, EndOfSectionCoverage, EndOfFileCoverage
<1>8. CASE NoDeclaration \/ NoExpression \/ NoInvariant \/ NoClause \/ NoPath
  BY <1>8, AnswerLeaves DEF NoDeclaration, NoExpression, NoInvariant, NoClause, NoPath, Refuse
<1>9. CASE UNCHANGED vars
  BY <1>9, AnswerLeaves DEF vars
<1>10. QED
  BY <1>1, <1>2, <1>3, <1>4, <1>5, <1>6, <1>7, <1>8, <1>9 DEF Next

LEMMA CoverageInit == Init => Coverage
<1>1. SUFFICES ASSUME Init PROVE Coverage
  OBVIOUS
<1>2. /\ pos = 1 /\ doing = "program" /\ stack = <<>> /\ parts = {} /\ bindings = {} /\ decls = <<>>
      /\ outcome = "running"
  BY <1>1 DEF Init
<1>3. Marks = {}
  BY <1>2, BaseEmpty DEF Marks
<1>4. AnyPart = {}
  <2>1. DOMAIN decls = {}
    BY <1>2
  <2>2. QED
    BY <1>2, <2>1 DEF AnyPart, AllParts
<1>5. Anchored /\ PartsApart /\ PartsOpen /\ SectionsSeen /\ AtEnd
  BY <1>2, <1>3, <1>4 DEF Anchored, Inside, PartsApart, PartsOpen, SectionsSeen, AtEnd, Parsed
<1>6. AllAccounted
  <2>1. tokens \in Seq(Token)
    BY <1>1, SourcesAssumption DEF Init
  <2>2. \A n \in DOMAIN tokens : ~(n < pos)
    BY <1>2, <2>1
  <2>3. QED
    BY <2>2 DEF AllAccounted
<1>7. QED
  BY <1>5, <1>6 DEF Coverage

\* A file that parse_program accepts is in its declarations from end to end, as
\* long as no example repeats a section: no clause, `else reject` or binding is
\* lost, and each part is one complete expression, apart from the others.
THEOREM EveryTokenAlwaysCounts == Spec => []EveryTokenCounts
<1>1. Control /\ Coverage => EveryTokenCounts
  <2>1. SUFFICES ASSUME Control, Coverage, Parsed, SectionsOnce
                 PROVE  /\ \A n \in DOMAIN tokens :
                              \/ tokens[n] \in {"lbrace", "rbrace", "comma", ":"} \/ IsSectionName(n)
                              \/ \E d \in DOMAIN decls : decls[d].at = n
                              \/ \E p \in AllParts : Holds(p, n)
                        /\ \A p \in AllParts : tokens[p.lo] = "*" \/ Operand(p.lo, p.hi)
                        /\ \A p, q \in AllParts : p = q \/ p.hi < q.from \/ q.hi < p.from
    BY DEF EveryTokenCounts
  <2>2. doing = "program" /\ pos = Len(tokens) + 1
    BY <2>1 DEF Coverage, AtEnd
  <2>3. Marks = {}
    BY <2>1, <2>2, BaseEmpty DEF Marks, Control, DoingOK
  <2>4. AnyPart = AllParts
    BY <2>1, <2>3 DEF AnyPart, Coverage, PartsOpen
  <2>5. \A n \in DOMAIN tokens : n < pos
    BY <2>1, <2>2 DEF Control, CallType
  <2>6. \A n \in DOMAIN tokens : Accounted(n)
    BY <2>1, <2>5 DEF Coverage, AllAccounted
  <2>7. QED
    BY <2>1, <2>3, <2>4, <2>6 DEF Accounted, Coverage, PartsApart
<1>2. Init => Control /\ BuiltType /\ Trees /\ Coverage
  BY ControlInit, TreesInit, CoverageInit DEF Init, BuiltType
<1>3. Control /\ BuiltType /\ Trees /\ Coverage /\ [Next]_vars => (Control /\ BuiltType /\ Trees /\ Coverage)'
  BY ControlKeeps, BuiltTypeKeeps, TreesKeep, CoverageKeeps
<1>4. QED
  BY <1>1, <1>2, <1>3, PTL DEF Spec

=============================================================================
