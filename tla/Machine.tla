------------------------------ MODULE Machine ------------------------------
(***************************************************************************)
(* The state machine read off the clauses of a file for a @lifecycle enum:  *)
(* crates/intent-lang-syntax/src/structure.rs.                              *)
(*                                                                         *)
(* Of a clause only the equalities `path == Variant` matter.  A formula     *)
(* joins them with && or with ||, and one without equalities stands for a   *)
(* condition on something else.  An ensure is a formula on the post-state,  *)
(* guarded by one on the pre-state when it is an implication.  The machine    *)
(* is drawn without a look at the modifies of an intent, which only says what *)
(* the entities do (module Entity).                                           *)
(***************************************************************************)
EXTENDS Naturals, FiniteSets

CONSTANTS
    Enum,        \* enums that hold states
    VariantsOf,  \* VariantsOf[en]: the variants of an enum
    Path,        \* paths of an enum type, such as order.status
    EnumOf       \* EnumOf[p]: the enum path p has

ASSUME EnumAssumption ==
    /\ EnumOf \in [Path -> Enum]
    /\ \A e1, e2 \in Enum : e1 # e2 => VariantsOf[e1] \cap VariantsOf[e2] = {}

Variant == UNION {VariantsOf[en] : en \in Enum}

\* What a path compares to is a variant of its enum: others do not type-check.
Equality == {q \in Path \X Variant : q[2] \in VariantsOf[EnumOf[q[1]]]}
Formula == [join : {"all", "any"}, eqs : SUBSET Equality]
Ensure  == [guarded : BOOLEAN, ante : Formula, cons : Formula]
ModifiesSpec == [spec : {"wildcard", "paths", "inferred"}, paths : SUBSET Path]
Intent  == [requires : SUBSET Formula, ensures : SUBSET Ensure, modifies : ModifiesSpec]

\* collect_state_eqs descends through && and || alike.
Collected(formula) == {q[2] : q \in formula.eqs}

\* A disjunction of next-states at the top of an ensure is not looked into.
Asserted(formula) == IF formula.join = "all" THEN Collected(formula) ELSE {}

Sources(i, en) == (UNION {Collected(r) : r \in i.requires}) \cap VariantsOf[en]

\* What an intent asserts whatever the pre-state.
Unconditional(i, en) ==
    (UNION {Asserted(e.cons) : e \in {e \in i.ensures : ~e.guarded}}) \cap VariantsOf[en]

\* An implication is a case split when its antecedent names states, of any enum.
PlainTargets(i, en) ==
    Unconditional(i, en) \cup
    ((UNION {Collected(e.cons) : e \in {e \in i.ensures : e.guarded /\ e.ante.eqs = {}}}) \cap VariantsOf[en])

CasesFromRequires(i, en) ==
    (UNION {Sources(i, en) \X Collected(e.cons) : e \in {e \in i.ensures : e.guarded}})
        \cap (VariantsOf[en] \X VariantsOf[en])

Cases(i, en) ==
    (UNION {Collected(e.ante) \X Collected(e.cons) : e \in {e \in i.ensures : e.guarded}})
        \cap (VariantsOf[en] \X VariantsOf[en])

EdgesOf(i, en) ==
    {g \in Cases(i, en) \cup (Sources(i, en) \X PlainTargets(i, en)) : g[1] # g[2]}

CreatedBy(i, en) == IF Sources(i, en) = {} THEN PlainTargets(i, en) ELSE {}

-----------------------------------------------------------------------------
(* The machine of a file: a function from intent names to intents. *)

Edges(f, en)    == UNION {EdgesOf(f[n], en) : n \in DOMAIN f}
Initial(f, en)  == UNION {CreatedBy(f[n], en) : n \in DOMAIN f}
States(f, en)   ==
    {g[1] : g \in Edges(f, en)} \cup {g[2] : g \in Edges(f, en)}
    \cup UNION {PlainTargets(f[n], en) : n \in DOMAIN f}

\* Conflicts: intents that assert several next-states of the enum.
Conflicts(f, en) ==
    {n \in DOMAIN f : \E v, w \in Unconditional(f[n], en) : v # w}

Successors(E, v)   == {w \in Variant : <<v, w>> \in E}
BackwardsKept(E)   == E
Backwards(E)       == {<<g[2], g[1]>> : g \in E}
Terminals(f, en)   == {v \in States(f, en) : Successors(Edges(f, en), v) = {}}

\* Reachability, independently of how it is computed.
Closed(S, E) == \A g \in E : g[1] \in S => g[2] \in S
ReachableFrom(I, E) == {v \in Variant : \A S \in SUBSET Variant : I \subseteq S /\ Closed(S, E) => v \in S}

Unreachable(f, en) ==
    IF Initial(f, en) = {} THEN {}
    ELSE States(f, en) \ ReachableFrom(Initial(f, en), Edges(f, en))
Trapped(f, en) ==
    IF Terminals(f, en) = {} THEN {}
    ELSE States(f, en) \ ReachableFrom(Terminals(f, en), Backwards(Edges(f, en)))

=============================================================================
