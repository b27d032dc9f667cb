------------------------------ MODULE MCParser ------------------------------
(* Files for Parser: every short sequence of tokens where an expression is     *)
(* expected, expressions of several operators, bodies of several clauses, and   *)
(* what becomes of them when one token, or everything from some token on, is    *)
(* left out.                                                                   *)
EXTENDS Parser

SeqsUpTo(S, n) == UNION {[1..m -> S] : m \in 0..n}
Theorem(e) == <<"theorem">> \o e \o <<"rbrace">>
Intent(c) == <<"intent">> \o c \o <<"rbrace">>
Example(c) == <<"example">> \o c \o <<"rbrace">>

Any == {"a", "1", "!", "-", "+", "==>", "(", ")", "'", "[", "]"}
Few == {"a", "!", "-", "==>", "(", ")", "'"}
Operators == {"==>", "||", "&&", "==", "<", "+", "*"}
Operands ==
    {<<"a">>, <<"-", "1">>, <<"!", "a", ".", "b", "'">>, <<"(", "a", ")">>,
     <<"if", "a", "then", "b", "else", "a">>}
Richer ==
    {<<"after", "(", "a", ")">>, <<"a", "(", ")">>, <<"a", "(", "1", "comma", "b", ")">>, <<"a", "[", "1", "]">>,
     <<"forall", "a", ":", "b", "comma", "a">>, <<"exists", "a", ":", "b", "comma", "b", ":", "a", "comma", "b">>}

Chains(k, S, T) == IF k = 2 THEN {x \o <<o>> \o y : x \in S, y \in S, o \in T}
                   ELSE {x \o <<o>> \o y \o <<p>> \o z : x, y, z \in S, o, p \in T}
LongChains == {<<"a", o, "b", p, "a", q, "b">> : o, p, q \in Operators}

ClauseSamples ==
    {<<"require", "a">>, <<"require", "a", ":", "a", "else", "reject">>, <<"ensure", "b", ":", "a", "'">>,
     <<"require", "if", "a", "then", "b", "else", "a", "else", "reject">>, <<"invariant", "-", "a">>,
     <<"modifies", "*">>, <<"modifies", "a", ".", "b", "comma", "a">>, <<"ensure", "a", "else", "reject">>,
     <<"require", "if", "a", "then", "b", "else", "reject">>}
Bodies == {<<>>} \cup ClauseSamples \cup {c \o d : c, d \in ClauseSamples}
SectionSamples ==
    {<<"given", ":", "lbrace", "rbrace">>, <<"given", ":", "lbrace", "a", ":", "1", "rbrace", "comma">>,
     <<"expect", ":", "lbrace", "a", ".", "b", "'", ":", "-", "1", "comma", "b", ":", "a", "rbrace">>,
     <<"expect", ":", "lbrace", "a", ":", "1", "comma", "rbrace">>, <<"a", ":", "lbrace", "rbrace">>}
Scenes == {<<>>} \cup SectionSamples \cup {c \o d : c, d \in SectionSamples}

Without(t, n) == SubSeq(t, 1, n - 1) \o SubSeq(t, n + 1, Len(t))
NearMisses(S) == UNION {{Without(t, n) : n \in DOMAIN t} : t \in S}
CutShort(S) == UNION {{SubSeq(t, 1, n) : n \in DOMAIN t} : t \in S}

Simple == {Theorem(e) : e \in Operands \cup Richer}
Bodied ==
    {Intent(b) : b \in Bodies} \cup {Example(s) : s \in Scenes}
    \cup {<<"safety", "invariant", "a", "invariant", "a", "'", "rbrace">> \o Intent(<<>>), Theorem(<<"a">>) \o <<"a">>}
Whole == Simple \cup Bodied \cup {Theorem(e) : e \in Chains(2, Operands \cup Richer, Operators) \cup LongChains}

MCSources ==
    {Theorem(e) : e \in SeqsUpTo(Any, 3) \cup [1..4 -> Few] \cup Chains(3, Operands, Operators)}
    \cup Whole \cup NearMisses(Whole) \cup CutShort(Simple \cup Bodied)

=============================================================================
