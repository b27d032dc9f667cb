------------------------------- MODULE Vcgen -------------------------------
(***************************************************************************)
(* Verification-condition generation: crates/intent-lang-core/src/vcgen.rs. *)
(*                                                                         *)
(* A clause expression is a name in Expr.  Its meaning is the relation      *)
(* Rel[e] between the valuation s of the unprimed paths and the valuation t *)
(* of the primed ones; Reads[e] and Primed[e] are the paths it mentions     *)
(* without and with a prime.  The syntactic rewritings of the source        *)
(* (unprime_expr, prime_state, negation, frame equalities) are the forms of *)
(* an assertion, and Denotes says what each of them means.                  *)
(***************************************************************************)
EXTENDS Naturals, Sequences, FiniteSets

CONSTANTS
    Param,      \* "name: Type" of a parameter; two declarations share it iff both agree
    Path,       \* flattened paths, such as sender.balance, and bare identifiers
    Field,      \* the paths that are fields of a struct-typed parameter
    Owner,      \* Owner[p]: the parameter that path p belongs to
    Value,      \* values a path may hold
    Expr,       \* clause expressions
    Rel,        \* Rel[e]: the pairs of valuations that satisfy e
    Reads,      \* Reads[e]: paths that occur unprimed in e
    Primed,     \* Primed[e]: paths that occur primed in e
    Encodable   \* expressions whose SMT-LIB text Z3 parses

State == [Path -> Value]

ASSUME PathAssumption == Field \subseteq Path /\ Owner \in [Path -> Param]
ASSUME ExprAssumption ==
    /\ Rel \in [Expr -> SUBSET (State \X State)]
    /\ Reads \in [Expr -> SUBSET Path]
    /\ Primed \in [Expr -> SUBSET Path]
    /\ Encodable \subseteq Expr

Agree(s, t, P) == \A p \in P : s[p] = t[p]

\* The value of an expression depends on the paths it mentions and no others.
ASSUME LocalityAssumption ==
    \A e \in Expr : \A s1, t1, s2, t2 \in State :
        /\ Agree(s1, s2, Reads[e])
        /\ Agree(t1, t2, Primed[e])
        /\ <<s1, t1>> \in Rel[e]
        => <<s2, t2>> \in Rel[e]

-----------------------------------------------------------------------------
(* Assertions: an expression as written, or one of its rewritings. *)

Is(e)       == [form |-> "is",       on |-> e]
Unprime(e)  == [form |-> "unprimed", on |-> e]
PrimeState(e) == [form |-> "primed", on |-> e]
Not(e)      == [form |-> "not",      on |-> e]
Same(p)     == [form |-> "same",     on |-> p]

\* prime_state: every field is read in the post-state; a bare identifier is
\* an input or a variant and keeps its unprimed symbol.
After(s, t) == [p \in Path |-> IF p \in Field THEN t[p] ELSE s[p]]

Denotes(a, s, t) ==
    \/ a.form = "is"       /\ <<s, t>> \in Rel[a.on]
    \/ a.form = "unprimed" /\ <<s, s>> \in Rel[a.on]
    \/ a.form = "primed"   /\ <<After(s, t), After(s, t)>> \in Rel[a.on]
    \/ a.form = "not"      /\ <<s, t>> \notin Rel[a.on]
    \/ a.form = "same"     /\ t[a.on] = s[a.on]

MentionsPostState(e) == Primed[e] # {}

\* Two goals that lose an invariant: the pre-state one (what is assumed is
\* proved), and the post-state of a two-state invariant against itself.
GoalAsAssumed(e) == Is(e)
GoalAllPrimed(e) == PrimeState(e)

\* The obligation an invariant places on an operation.
InvariantGoal(e) == IF MentionsPostState(e) THEN Is(e) ELSE PrimeState(e)

-----------------------------------------------------------------------------
(* Programs.  A clause is [kind, expr, reject]; a declaration is an intent   *)
(* [decl, name, asis, params, clauses, modifies] or a theorem                *)
(* [decl, name, body, structQuantifier].                                     *)

Clause == [kind : {"require", "ensure", "invariant"}, expr : Expr, reject : BOOLEAN]
ModifiesSpec == [spec : {"wildcard", "paths", "inferred"}, paths : SUBSET Path]
IntentDecl == [decl : {"intent"}, name : STRING, asis : BOOLEAN, params : SUBSET Param,
               clauses : Seq(Clause), modifies : ModifiesSpec]
TheoremDecl == [decl : {"theorem"}, name : STRING, body : Expr, structQuantifier : BOOLEAN]
SafetySource == [params : SUBSET Param, expr : Expr]
ExampleDecl == [intent : STRING, bindings : SUBSET Expr]

\* A file, with what its parser, its type checker and its structural checks
\* will say of the parts that are not modelled here.
Program == [parses : BOOLEAN, typeErrors : BOOLEAN, structure : {"clean", "soft", "hard"},
            decls : Seq(IntentDecl \cup TheoremDecl), safety : SUBSET SafetySource,
            examples : Seq(ExampleDecl)]

Intents(prog)  == {d \in DOMAIN prog.decls : prog.decls[d].decl = "intent"}
Theorems(prog) == {d \in DOMAIN prog.decls : prog.decls[d].decl = "theorem"}

ClausesOf(i, kind) == {c \in DOMAIN i.clauses : i.clauses[c].kind = kind}
ExprsOf(i, kind)   == {i.clauses[c].expr : c \in ClausesOf(i, kind)}

\* The frame before it was inferred: without a modifies nothing may change.
IntentFrameUninferred(i) ==
    CASE i.modifies.spec = "wildcard" -> Path
      [] i.modifies.spec = "paths"    -> i.modifies.paths
      [] i.modifies.spec = "inferred" -> {}

IntentFrame(i) ==
    CASE i.modifies.spec = "wildcard" -> Path
      [] i.modifies.spec = "paths"    -> i.modifies.paths
      [] i.modifies.spec = "inferred" -> UNION {Primed[e] : e \in ExprsOf(i, "ensure")}

\* Only fields of struct-typed parameters get a frame equality.
Framed(i, frame) == {p \in Field : Owner[p] \in i.params} \ frame
FrameEqualities(i, frame) == {Same(p) : p \in Framed(i, frame)}

SafetyAppliesTo(rule, i) == rule.params \subseteq i.params
ApplicableRules(prog, i) == {r \in prog.safety : SafetyAppliesTo(r, i)}

\* Expressions an intent assumes before and must prove after.
Obligations(prog, i) == ExprsOf(i, "invariant") \cup {r.expr : r \in ApplicableRules(prog, i)}

-----------------------------------------------------------------------------
(* Verification conditions.  Slot <<d, 0>> is declaration d's own condition; *)
(* slot <<d, c>> is the reject branch of clause c of intent d.               *)

RejectingClauses(i) == {c \in ClausesOf(i, "require") : i.clauses[c].reject}

IntentVc(prog, i) ==
    [kind    |-> "intent",
     assumes |-> {Is(e) : e \in ExprsOf(i, "require") \cup ExprsOf(i, "ensure")}
                 \cup {Unprime(e) : e \in Obligations(prog, i)}
                 \cup FrameEqualities(i, IntentFrame(i)),
     goals   |-> {InvariantGoal(e) : e \in Obligations(prog, i)},
     unsupported |-> FALSE]

\* A reject branch that keeps the frame of the accepted call.
RejectVcWithIntentFrame(prog, i, c) ==
    [IntentVc(prog, i) EXCEPT !.assumes =
         {Not(i.clauses[c].expr)}
         \cup {Is(i.clauses[r].expr) : r \in ClausesOf(i, "require") \ {c}}
         \cup FrameEqualities(i, IntentFrame(i))
         \cup {Unprime(e) : e \in Obligations(prog, i)}]

\* The violated require, the other requires, and an empty frame; no ensure.
RejectVc(prog, i, c) ==
    [kind    |-> "intent",
     assumes |-> {Not(i.clauses[c].expr)}
                 \cup {Is(i.clauses[r].expr) : r \in ClausesOf(i, "require") \ {c}}
                 \cup FrameEqualities(i, {})
                 \cup {Unprime(e) : e \in Obligations(prog, i)},
     goals   |-> {InvariantGoal(e) : e \in Obligations(prog, i)},
     unsupported |-> FALSE]

TheoremVc(thm) ==
    [kind |-> "theorem", assumes |-> {}, goals |-> {Is(thm.body)},
     unsupported |-> thm.structQuantifier]

Slots(prog) ==
    {<<d, 0>> : d \in DOMAIN prog.decls}
    \cup UNION {{<<d, c>> : c \in RejectingClauses(prog.decls[d])} : d \in Intents(prog)}

GenerateVc(prog, slot) ==
    LET decl == prog.decls[slot[1]] IN
    CASE decl.decl = "theorem"                    -> TheoremVc(decl)
      [] decl.decl = "intent" /\ slot[2] = 0      -> IntentVc(prog, decl)
      [] decl.decl = "intent" /\ slot[2] # 0      -> RejectVc(prog, decl, slot[2])

\* The name a condition is reported under: a reject branch is not its intent's.
VcName(prog, slot) == <<prog.decls[slot[1]].name, slot[2]>>

\* Declarations in source order; a reject branch follows its intent.
Precedes(x, y) == x[1] < y[1] \/ (x[1] = y[1] /\ x[2] < y[2])
IsFirst(x, S) == x \in S /\ \A y \in S \ {x} : Precedes(x, y)

=============================================================================
