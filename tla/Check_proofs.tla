---------------------------- MODULE Check_proofs ----------------------------
(***************************************************************************)
(* What `intent check` reports is true, and what it accepts is sound, for   *)
(* every file, every solver answer and every pair of flags.  And checking   *)
(* the calls one at a time is enough: in the system whose closed file the   *)
(* command has accepted, the invariants hold in every state and every step  *)
(* respects the two-state claims, along every run.                          *)
(***************************************************************************)
EXTENDS World, TLAPS, WellFoundedInduction, FunctionTheorems, FiniteSetTheorems

-----------------------------------------------------------------------------
(* Conditions against the meaning of intents: a condition that generate_vcs  *)
(* builds is valid exactly when the intent keeps its obligations.            *)

\* Denotes, one form of assertion at a time.
LEMMA Forms ==
    ASSUME NEW x, NEW s, NEW t
    PROVE  /\ Denotes(Is(x), s, t)         <=> <<s, t>> \in Rel[x]
           /\ Denotes(Unprime(x), s, t)    <=> <<s, s>> \in Rel[x]
           /\ Denotes(PrimeState(x), s, t) <=> <<After(s, t), After(s, t)>> \in Rel[x]
           /\ Denotes(Not(x), s, t)        <=> <<s, t>> \notin Rel[x]
           /\ Denotes(Same(x), s, t)       <=> t[x] = s[x]
  BY DEF Denotes, Is, Unprime, PrimeState, Not, Same

\* The frame equalities of generate_vcs say that the two states agree on what
\* is framed.
LEMMA FrameMeaning ==
    ASSUME NEW i, NEW frame, NEW s, NEW t
    PROVE  (\A a \in FrameEqualities(i, frame) : Denotes(a, s, t)) <=> Agree(s, t, Framed(i, frame))
<1>1. (\A a \in FrameEqualities(i, frame) : Denotes(a, s, t))
        <=> \A q \in Framed(i, frame) : Denotes(Same(q), s, t)
  BY DEF FrameEqualities
<1>2. QED
  BY <1>1, Forms DEF Agree

\* intent_frame and the frame equalities leave open what the author leaves open.
LEMMA FrameIsTheAuthors ==
    ASSUME NEW i \in IntentDecl, NEW s, NEW t
    PROVE  Agree(s, t, Framed(i, IntentFrame(i))) <=> StaysInFrame(i, s, t)
<1>1. i.modifies \in ModifiesSpec
  BY DEF IntentDecl
<1>2. ASSUME NEW p \in Field PROVE p \in IntentFrame(i) <=> MayChange(i, p)
  <2>1. CASE i.modifies.spec = "wildcard"
    BY <2>1, PathAssumption DEF IntentFrame, MayChange
  <2>2. CASE i.modifies.spec = "paths"
    BY <2>2 DEF IntentFrame, MayChange
  <2>3. CASE i.modifies.spec = "inferred"
    <3>1. IntentFrame(i) = UNION {Primed[e] : e \in ExprsOf(i, "ensure")}
      BY <2>3 DEF IntentFrame
    <3>2. MayChange(i, p) <=> \E c \in ClausesOf(i, "ensure") : p \in Primed[i.clauses[c].expr]
      BY <2>3 DEF MayChange
    <3>3. QED
      BY <3>1, <3>2 DEF ExprsOf
  <2>4. QED
    BY <1>1, <2>1, <2>2, <2>3 DEF ModifiesSpec
<1>3. QED
  BY <1>2 DEF Agree, Framed, StaysInFrame

LEMMA EmptyFrame ==
    ASSUME NEW i, NEW s, NEW t
    PROVE  Agree(s, t, Framed(i, {})) <=> ChangesNothing(i, s, t)
  BY DEF Agree, Framed, ChangesNothing

\* The goals of a condition: every obligation holds after the step.
LEMMA GoalsMeaning ==
    ASSUME NEW O, NEW s, NEW t
    PROVE  (\A g \in {InvariantGoal(e) : e \in O} : Denotes(g, s, t))
             <=> \A e \in O : HoldsAfter(e, s, t)
<1>1. ASSUME NEW e PROVE Denotes(InvariantGoal(e), s, t) <=> HoldsAfter(e, s, t)
  BY Forms DEF InvariantGoal, HoldsAfter
<1>2. QED
  BY <1>1

\* The assumptions of an intent's condition: a permitted call from a state
\* that meets the obligations.
LEMMA IntentAssumes ==
    ASSUME NEW p, NEW i \in IntentDecl, NEW s, NEW t
    PROVE  (\A a \in IntentVc(p, i).assumes : Denotes(a, s, t))
             <=> Permits(i, s, t) /\ \A e \in Obligations(p, i) : HoldsBefore(e, s)
<1> DEFINE stated == ExprsOf(i, "require") \cup ExprsOf(i, "ensure")
           O == Obligations(p, i)
           eqs == FrameEqualities(i, IntentFrame(i))
<1>1. IntentVc(p, i).assumes = {Is(e) : e \in stated} \cup {Unprime(e) : e \in O} \cup eqs
  BY DEF IntentVc
<1>2. (\A a \in {Is(e) : e \in stated} : Denotes(a, s, t)) <=> \A e \in stated : <<s, t>> \in Rel[e]
  <2>1. (\A a \in {Is(e) : e \in stated} : Denotes(a, s, t)) <=> \A e \in stated : Denotes(Is(e), s, t)
    OBVIOUS
  <2>2. QED
    BY <2>1, Forms
<1>3. (\A a \in {Unprime(e) : e \in O} : Denotes(a, s, t)) <=> \A e \in O : HoldsBefore(e, s)
  <2>1. (\A a \in {Unprime(e) : e \in O} : Denotes(a, s, t)) <=> \A e \in O : Denotes(Unprime(e), s, t)
    OBVIOUS
  <2>2. QED
    BY <2>1, Forms DEF HoldsBefore
<1>4. (\A a \in eqs : Denotes(a, s, t)) <=> StaysInFrame(i, s, t)
  BY FrameMeaning, FrameIsTheAuthors
<1>5. (\A a \in IntentVc(p, i).assumes : Denotes(a, s, t))
        <=> /\ \A a \in {Is(e) : e \in stated} : Denotes(a, s, t)
            /\ \A a \in {Unprime(e) : e \in O} : Denotes(a, s, t)
            /\ \A a \in eqs : Denotes(a, s, t)
  BY <1>1
<1>6. QED
  BY <1>2, <1>3, <1>4, <1>5 DEF Permits

\* The assumptions of a reject branch: the call is rejected, nothing changes.
LEMMA RejectAssumes ==
    ASSUME NEW p, NEW i, NEW c, NEW s, NEW t
    PROVE  (\A a \in RejectVc(p, i, c).assumes : Denotes(a, s, t))
             <=> Rejects(i, c, s, t) /\ \A e \in Obligations(p, i) : HoldsBefore(e, s)
<1> DEFINE others == ClausesOf(i, "require") \ {c}
           O == Obligations(p, i)
           eqs == FrameEqualities(i, {})
<1>1. RejectVc(p, i, c).assumes =
        {Not(i.clauses[c].expr)} \cup {Is(i.clauses[r].expr) : r \in others}
          \cup eqs \cup {Unprime(e) : e \in O}
  BY DEF RejectVc
<1>2. (\A a \in {Is(i.clauses[r].expr) : r \in others} : Denotes(a, s, t))
        <=> \A r \in others : <<s, t>> \in Rel[i.clauses[r].expr]
  <2>1. (\A a \in {Is(i.clauses[r].expr) : r \in others} : Denotes(a, s, t))
          <=> \A r \in others : Denotes(Is(i.clauses[r].expr), s, t)
    OBVIOUS
  <2>2. QED
    BY <2>1, Forms
<1>3. (\A a \in {Unprime(e) : e \in O} : Denotes(a, s, t)) <=> \A e \in O : HoldsBefore(e, s)
  <2>1. (\A a \in {Unprime(e) : e \in O} : Denotes(a, s, t)) <=> \A e \in O : Denotes(Unprime(e), s, t)
    OBVIOUS
  <2>2. QED
    BY <2>1, Forms DEF HoldsBefore
<1>4. (\A a \in eqs : Denotes(a, s, t)) <=> ChangesNothing(i, s, t)
  BY FrameMeaning, EmptyFrame
<1>5. Denotes(Not(i.clauses[c].expr), s, t) <=> <<s, t>> \notin Rel[i.clauses[c].expr]
  BY Forms
<1>6. (\A a \in RejectVc(p, i, c).assumes : Denotes(a, s, t))
        <=> /\ Denotes(Not(i.clauses[c].expr), s, t)
            /\ \A a \in {Is(i.clauses[r].expr) : r \in others} : Denotes(a, s, t)
            /\ \A a \in eqs : Denotes(a, s, t)
            /\ \A a \in {Unprime(e) : e \in O} : Denotes(a, s, t)
  BY <1>1
<1>7. QED
  BY <1>2, <1>3, <1>4, <1>5, <1>6 DEF Rejects

\* The expressions of the clauses of an intent are expressions.
LEMMA ClauseExprType ==
    ASSUME NEW i \in IntentDecl, NEW kind
    PROVE  ExprsOf(i, kind) \subseteq Expr
<1>1. \A c \in DOMAIN i.clauses : i.clauses[c] \in Clause
  BY DEF IntentDecl
<1>2. QED
  BY <1>1 DEF ExprsOf, ClausesOf, Clause

\* What an intent is obliged to is an expression.
LEMMA ObligationType ==
    ASSUME NEW p \in Program, NEW i \in IntentDecl
    PROVE  Obligations(p, i) \subseteq Expr
<1>1. {r.expr : r \in ApplicableRules(p, i)} \subseteq Expr
  BY DEF ApplicableRules, Program, SafetySource
<1>2. QED
  BY <1>1, ClauseExprType DEF Obligations

\* generate_vcs is exact: valid conditions are kept obligations.
THEOREM IntentVcExact ==
    ASSUME NEW p, NEW i \in IntentDecl
    PROVE  Valid(IntentVc(p, i)) <=> Keeps(p, i)
<1>1. IntentVc(p, i).goals = {InvariantGoal(e) : e \in Obligations(p, i)}
  BY DEF IntentVc
<1>2. QED
  BY <1>1, IntentAssumes, GoalsMeaning DEF Valid, Keeps

THEOREM RejectVcExact ==
    ASSUME NEW p, NEW i, NEW c
    PROVE  Valid(RejectVc(p, i, c)) <=> KeepsOnReject(p, i, c)
<1>1. RejectVc(p, i, c).goals = {InvariantGoal(e) : e \in Obligations(p, i)}
  BY DEF RejectVc
<1>2. QED
  BY <1>1, RejectAssumes, GoalsMeaning DEF Valid, KeepsOnReject

-----------------------------------------------------------------------------
(* The invariant. *)

Vc(slot) == GenerateVc(prog, slot)

\* Conditions are recorded exactly once.
PendingMeansUnrecorded == \A slot \in Slots(prog) : slot \in pending <=> results[slot] = "pending"

\* Between the two queries of verify_vc the condition is known to be valid.
AwaitsVacuity ==
    stage = "vacuity" =>
        \A slot \in Slots(prog) : IsFirst(slot, pending) => Valid(Vc(slot)) /\ Vc(slot).kind = "intent"

SkippedForAReason ==
    \A slot \in Slots(prog) :
        /\ results[slot] = "asis-skipped" => IsAsIs(prog, slot)
        /\ results[slot] = "skipped" => Vc(slot).unsupported

VerifiedIsConsistent ==
    \A slot \in Slots(prog) :
        results[slot] = "verified" /\ Vc(slot).kind = "intent" => slot \in undecided \/ Consistent(Vc(slot))

\* all_ok accumulates: it stays true only over harmless results.
AllOkMeansHarmless ==
    allOk => /\ \A slot \in Slots(prog) :
                   results[slot] \in {"pending", "verified", "skipped", "asis-skipped"}
             /\ \A n \in DOMAIN prog.examples : exampleResults[n] \in {"pending", "consistent"}

\* An example without a status still has its last query ahead.
ExampleAhead ==
    \A n \in DOMAIN prog.examples :
        Known(prog, n) /\ exampleResults[n] = "pending"
            => <<n, Combined(ExampleIntent(prog, n))>> \in examplesLeft

\* How far the command is.
Progress ==
    /\ stage = "exit" <=> exit # "running"
    /\ stage = "examples" \/ exit = "ok" => pending = {}
    /\ stage \in {"structure", "vcs", "vacuity", "examples"} \/ exit = "ok" => ~TypeErrors(prog)
    /\ exit = "ok" => allOk /\ examplesLeft = {}

IInv ==
    /\ TypeOK
    /\ VerdictsAreTrue
    /\ ExamplesTellTruth
    /\ PendingMeansUnrecorded
    /\ AwaitsVacuity
    /\ SkippedForAReason
    /\ VerifiedIsConsistent
    /\ AllOkMeansHarmless
    /\ ExampleAhead
    /\ Progress

-----------------------------------------------------------------------------
(* Queries and their answers. *)

\* load_solver: no answer but an error comes from a query that lost a part.
LEMMA AnswerMeaning ==
    ASSUME NEW q, NEW answer \in Answers(q)
    PROVE  /\ answer \in {"sat", "unsat", "unknown", "error"}
           /\ answer = "sat" => Satisfiable(q)
           /\ answer = "unsat" => ~Satisfiable(q)
<1>1. CASE Ingested(q) # q
  BY <1>1 DEF Answers
<1>2. CASE Ingested(q) = q
  BY <1>2 DEF Answers, SolverCheck
<1>3. QED
  BY <1>1, <1>2

\* A proof query is satisfiable exactly when the condition has a counterexample.
LEMMA ProofQueryMeaning ==
    ASSUME NEW vc, vc.goals # {}
    PROVE  Satisfiable(ProofQuery(vc)) <=> ~Valid(vc)
  BY DEF Satisfiable, ProofQuery, Query, Valid

LEMMA AssumesQueryMeaning ==
    ASSUME NEW vc, vc.kind = "intent"
    PROVE  Satisfiable(AssumesQuery(vc)) <=> Consistent(vc)
  BY DEF Satisfiable, AssumesQuery, Query, Consistent

\* The verdict of the first query of verify_vc.
LEMMA ProofVerdictMeaning ==
    ASSUME NEW vc, vc.kind = "intent" \/ vc.goals # {}, NEW base \in ProofVerdicts(vc)
    PROVE  /\ base \in {"verified", "failed", "unknown", "error"}
           /\ base = "verified" => Valid(vc)
           /\ base = "failed" => ~Valid(vc)
<1>1. CASE NeedsProof(vc)
  <2>1. PICK answer \in Answers(ProofQuery(vc)) : base = ProofVerdict(answer)
    BY <1>1 DEF ProofVerdicts
  <2>2. vc.goals # {}
    BY <1>1 DEF NeedsProof
  <2>3. QED
    BY <2>1, <2>2, AnswerMeaning, ProofQueryMeaning DEF ProofVerdict
<1>2. CASE ~NeedsProof(vc)
  BY <1>2 DEF NeedsProof, ProofVerdicts, Valid
<1>3. QED
  BY <1>1, <1>2

-----------------------------------------------------------------------------
(* Declarations, slots and examples. *)

LEMMA IntentDeclType ==
    ASSUME NEW p \in Program, NEW d \in Intents(p)
    PROVE  p.decls[d] \in IntentDecl /\ d \in Nat
<1>1. p.decls \in Seq(IntentDecl \cup TheoremDecl) /\ d \in DOMAIN p.decls /\ p.decls[d].decl = "intent"
  BY DEF Program, Intents
<1>2. p.decls[d] \in IntentDecl \cup TheoremDecl /\ d \in Nat
  BY <1>1
<1>3. QED
  BY <1>1, <1>2 DEF TheoremDecl

LEMMA ClauseIndex ==
    ASSUME NEW i \in IntentDecl
    PROVE  /\ Len(i.clauses) \in Nat
           /\ DOMAIN i.clauses = 1..Len(i.clauses)
           /\ \A c \in DOMAIN i.clauses : i.clauses[c] \in Clause
  BY DEF IntentDecl

\* A condition is one of three kinds.
LEMMA VcShape ==
    ASSUME NEW p \in Program, NEW slot \in Slots(p)
    PROVE  \/ /\ slot[1] \in Theorems(p)
              /\ GenerateVc(p, slot) = TheoremVc(p.decls[slot[1]])
           \/ /\ slot[1] \in Intents(p) /\ slot[2] = 0
              /\ GenerateVc(p, slot) = IntentVc(p, p.decls[slot[1]])
           \/ /\ slot[1] \in Intents(p) /\ slot[2] \in RejectingClauses(p.decls[slot[1]])
              /\ slot[2] # 0
              /\ GenerateVc(p, slot) = RejectVc(p, p.decls[slot[1]], slot[2])
<1>1. CASE \E d \in DOMAIN p.decls : slot = <<d, 0>>
  <2>1. PICK d \in DOMAIN p.decls : slot = <<d, 0>>
    BY <1>1
  <2>2. p.decls[d] \in IntentDecl \cup TheoremDecl
    BY DEF Program
  <2>3. p.decls[d].decl = "intent" \/ p.decls[d].decl = "theorem"
    BY <2>2 DEF IntentDecl, TheoremDecl
  <2>4. QED
    BY <2>1, <2>3 DEF GenerateVc, Intents, Theorems
<1>2. CASE \E d \in Intents(p) : \E c \in RejectingClauses(p.decls[d]) : slot = <<d, c>>
  <2>1. PICK d \in Intents(p) : \E c \in RejectingClauses(p.decls[d]) : slot = <<d, c>>
    BY <1>2
  <2>2. PICK c \in RejectingClauses(p.decls[d]) : slot = <<d, c>>
    BY <2>1
  <2>3. c \in DOMAIN p.decls[d].clauses
    BY DEF RejectingClauses, ClausesOf
  <2>4. c # 0
    BY <2>3, IntentDeclType, ClauseIndex
  <2>5. QED
    BY <2>2, <2>4 DEF GenerateVc, Intents
<1>3. QED
  BY <1>1, <1>2 DEF Slots

LEMMA SlotType ==
    ASSUME NEW p \in Program, NEW slot \in Slots(p)
    PROVE  slot[1] \in Nat /\ slot[2] \in Nat
<1>1. p.decls \in Seq(IntentDecl \cup TheoremDecl)
  BY DEF Program
<1>2. DOMAIN p.decls \subseteq Nat
  BY <1>1
<1>3. \A d \in Intents(p) : RejectingClauses(p.decls[d]) \subseteq Nat
  BY IntentDeclType, ClauseIndex DEF RejectingClauses, ClausesOf
<1>4. QED
  BY <1>2, <1>3 DEF Slots, Intents

LEMMA VcFields ==
    ASSUME NEW p \in Program, NEW slot \in Slots(p)
    PROVE  /\ GenerateVc(p, slot).kind = "intent" \/ GenerateVc(p, slot).goals # {}
           /\ slot[1] \in Intents(p) => /\ GenerateVc(p, slot).kind = "intent"
                                        /\ GenerateVc(p, slot).unsupported = FALSE
<1>1. CASE slot[1] \in Theorems(p)
  BY <1>1, VcShape DEF TheoremVc, Theorems, Intents
<1>2. CASE slot[1] \in Intents(p)
  BY <1>2, VcShape DEF IntentVc, RejectVc, Theorems, Intents
<1>3. QED
  BY <1>1, <1>2, VcShape

\* A nonempty set of positions has a first one.
LEMMA LeastNatural ==
    ASSUME NEW T \in SUBSET Nat, T # {}
    PROVE  \E x \in T : \A y \in T : x <= y
<1> DEFINE R == {ss \in Nat \X Nat : ss[1] < ss[2]}
<1>1. R = OpToRel(<, Nat)
  BY DEF OpToRel
<1>2. IsWellFoundedOn(R, Nat)
  BY <1>1, NatLessThanWellFounded
<1>3. \E x \in T : \A y \in T : ~(<<y, x>> \in R)
  BY <1>2, WFMin
<1>4. PICK x \in T : \A y \in T : ~(<<y, x>> \in R)
  BY <1>3
<1>5. ASSUME NEW y \in T PROVE x <= y
  <2>1. x \in Nat /\ y \in Nat /\ ~(<<y, x>> \in R)
    BY <1>4
  <2>2. ~(y < x)
    BY <2>1
  <2>3. QED
    BY <2>1, <2>2
<1>6. QED
  BY <1>5

\* The intent an example is checked against is one of that name.
LEMMA ExampleIntentType ==
    ASSUME NEW p \in Program, NEW n \in DOMAIN p.examples, Known(p, n)
    PROVE  /\ ExampleIntent(p, n) \in IntentDecl
           /\ \E d \in Intents(p) : /\ p.decls[d].name = p.examples[n].intent
                                    /\ p.decls[d] = ExampleIntent(p, n)
<1> DEFINE D == DeclsNamed(p, p.examples[n].intent)
           least(d) == \A d2 \in D : d <= d2
<1>1. D \in SUBSET Nat /\ D # {}
  BY IntentDeclType DEF DeclsNamed, Known
<1>2. \E d \in D : least(d)
  BY <1>1, LeastNatural
<1>3. (CHOOSE d \in D : least(d)) \in D
  BY <1>2
<1>4. \E d \in D : p.decls[d] = ExampleIntent(p, n)
  BY <1>3 DEF ExampleIntent
<1>5. QED
  BY <1>4, IntentDeclType DEF DeclsNamed

\* The clauses of an intent, whatever their kind.
LEMMA ClausesByKind ==
    ASSUME NEW i \in IntentDecl, NEW s, NEW t
    PROVE  (\A c \in DOMAIN i.clauses : <<s, t>> \in Rel[i.clauses[c].expr])
             <=> \A kind \in {"require", "ensure", "invariant"} :
                    \A e \in ExprsOf(i, kind) : <<s, t>> \in Rel[e]
<1>1. \A c \in DOMAIN i.clauses : i.clauses[c].kind \in {"require", "ensure", "invariant"}
  BY ClauseIndex DEF Clause
<1>2. QED
  BY <1>1 DEF ExprsOf, ClausesOf

\* What example n asserts before any clause.
LEMMA ExampleBaseMeaning ==
    ASSUME NEW i \in IntentDecl, NEW bindings, NEW s, NEW t
    PROVE  (\A a \in ExampleBase(i, bindings) : Denotes(a, s, t))
             <=> /\ \A b \in bindings : <<s, t>> \in Rel[b]
                 /\ StaysInFrame(i, s, t)
<1>1. (\A a \in {Is(b) : b \in bindings} : Denotes(a, s, t)) <=> \A b \in bindings : <<s, t>> \in Rel[b]
  <2>1. (\A a \in {Is(b) : b \in bindings} : Denotes(a, s, t)) <=> \A b \in bindings : Denotes(Is(b), s, t)
    OBVIOUS
  <2>2. QED
    BY <2>1, Forms
<1>2. QED
  BY <1>1, FrameMeaning, FrameIsTheAuthors DEF ExampleBase

\* Every clause as written, and every invariant in its pre-state reading.
LEMMA AllReadingsMeaning ==
    ASSUME NEW i \in IntentDecl, NEW s, NEW t
    PROVE  (\A a \in AllReadings(i) : Denotes(a, s, t))
             <=> /\ \A c \in DOMAIN i.clauses : <<s, t>> \in Rel[i.clauses[c].expr]
                 /\ \A e \in ExprsOf(i, "invariant") : HoldsBefore(e, s)
<1> DEFINE written == {Is(i.clauses[c].expr) : c \in DOMAIN i.clauses}
           before == {Unprime(e) : e \in ExprsOf(i, "invariant")}
<1>1. (\A a \in written : Denotes(a, s, t)) <=> \A c \in DOMAIN i.clauses : <<s, t>> \in Rel[i.clauses[c].expr]
  <2>1. (\A a \in written : Denotes(a, s, t)) <=> \A c \in DOMAIN i.clauses : Denotes(Is(i.clauses[c].expr), s, t)
    OBVIOUS
  <2>2. QED
    BY <2>1, Forms
<1>2. (\A a \in before : Denotes(a, s, t)) <=> \A e \in ExprsOf(i, "invariant") : HoldsBefore(e, s)
  <2>1. (\A a \in before : Denotes(a, s, t)) <=> \A e \in ExprsOf(i, "invariant") : Denotes(Unprime(e), s, t)
    OBVIOUS
  <2>2. QED
    BY <2>1, Forms DEF HoldsBefore
<1>3. AllReadings(i) = written \cup before
  BY DEF AllReadings
<1>4. QED
  BY <1>1, <1>2, <1>3

\* The last query of an example asks whether it can be realized.
LEMMA CombinedMeaning ==
    ASSUME NEW p \in Program, NEW n \in DOMAIN p.examples, Known(p, n)
    PROVE  Satisfiable(ExampleQuery(p, n, Combined(ExampleIntent(p, n))))
             <=> Realizes(ExampleIntent(p, n), p.examples[n].bindings)
<1> DEFINE i == ExampleIntent(p, n)
           bindings == p.examples[n].bindings
           asserts == ExampleBase(i, bindings) \cup AllReadings(i)
<1>1. ExampleQuery(p, n, Combined(i)) = Query(asserts, {})
  BY DEF ExampleQuery
<1>2. i \in IntentDecl
  BY ExampleIntentType
<1>3. ASSUME NEW s, NEW t
      PROVE  (\A a \in asserts : Denotes(a, s, t))
               <=> /\ \A b \in bindings : <<s, t>> \in Rel[b]
                   /\ Permits(i, s, t)
                   /\ \A e \in ExprsOf(i, "invariant") : HoldsBefore(e, s) /\ <<s, t>> \in Rel[e]
  <2>1. (\A a \in asserts : Denotes(a, s, t))
          <=> /\ \A a \in ExampleBase(i, bindings) : Denotes(a, s, t)
              /\ \A a \in AllReadings(i) : Denotes(a, s, t)
    OBVIOUS
  <2> HIDE DEF i, bindings, asserts
  <2>2. (\A a \in ExampleBase(i, bindings) : Denotes(a, s, t))
          <=> (\A b \in bindings : <<s, t>> \in Rel[b]) /\ StaysInFrame(i, s, t)
    BY <1>2, ExampleBaseMeaning
  <2>3. (\A a \in AllReadings(i) : Denotes(a, s, t))
          <=> /\ \A e \in ExprsOf(i, "require") : <<s, t>> \in Rel[e]
              /\ \A e \in ExprsOf(i, "ensure") : <<s, t>> \in Rel[e]
              /\ \A e \in ExprsOf(i, "invariant") : <<s, t>> \in Rel[e]
              /\ \A e \in ExprsOf(i, "invariant") : HoldsBefore(e, s)
    <3>1. (\A c \in DOMAIN i.clauses : <<s, t>> \in Rel[i.clauses[c].expr])
            <=> /\ \A e \in ExprsOf(i, "require") : <<s, t>> \in Rel[e]
                /\ \A e \in ExprsOf(i, "ensure") : <<s, t>> \in Rel[e]
                /\ \A e \in ExprsOf(i, "invariant") : <<s, t>> \in Rel[e]
      BY <1>2, ClausesByKind
    <3>2. QED
      BY <1>2, <3>1, AllReadingsMeaning
  <2>4. QED
    BY <2>1, <2>2, <2>3 DEF Permits
<1>4. Satisfiable(Query(asserts, {})) <=> \E s, t \in State : \A a \in asserts : Denotes(a, s, t)
  BY DEF Satisfiable, Query
<1> HIDE DEF i, bindings, asserts
<1>5. Satisfiable(Query(asserts, {})) <=> Realizes(i, bindings)
  BY <1>3, <1>4 DEF Realizes
<1>6. QED
  BY <1>1, <1>5 DEF i, bindings

\* A clause query that has no model refutes the example.
LEMMA ClauseQueryMeaning ==
    ASSUME NEW p \in Program, NEW n \in DOMAIN p.examples, Known(p, n),
           NEW k \in ClauseQueries(ExampleIntent(p, n)), k # Combined(ExampleIntent(p, n)),
           Realizes(ExampleIntent(p, n), p.examples[n].bindings)
    PROVE  Satisfiable(ExampleQuery(p, n, k))
<1> DEFINE i == ExampleIntent(p, n)
           bindings == p.examples[n].bindings
           asserts == ExampleBase(i, bindings) \cup {ReadingAt(i, k)}
<1>1. ExampleQuery(p, n, k) = Query(asserts, {})
  BY DEF ExampleQuery
<1>2. i \in IntentDecl
  BY ExampleIntentType
<1>3. PICK s \in State, t \in State :
        /\ \A b \in bindings : <<s, t>> \in Rel[b]
        /\ Permits(i, s, t)
        /\ \A e \in ExprsOf(i, "invariant") : HoldsBefore(e, s) /\ <<s, t>> \in Rel[e]
  BY DEF Realizes
<1>4. k \in ClauseQueries(i)
  OBVIOUS
<1> HIDE DEF i, bindings
<1>5. \A c \in DOMAIN i.clauses : <<s, t>> \in Rel[i.clauses[c].expr]
  BY <1>2, <1>3, ClausesByKind DEF Permits
<1>6. Denotes(ReadingAt(i, k), s, t)
  <2>1. CASE \E c \in DOMAIN i.clauses : k = 2 * c
    <3>1. PICK c \in DOMAIN i.clauses : k = 2 * c
      BY <2>1
    <3>2. c \in Nat
      BY <1>2, ClauseIndex
    <3>3. k % 2 = 0 /\ k \div 2 = c
      BY <3>1, <3>2
    <3>4. QED
      BY <1>5, <3>3, Forms DEF ReadingAt
  <2>2. CASE \E c \in ClausesOf(i, "invariant") : k = 2 * c + 1
    <3>1. PICK c \in ClausesOf(i, "invariant") : k = 2 * c + 1
      BY <2>2
    <3>2. c \in Nat
      BY <1>2, ClauseIndex DEF ClausesOf
    <3>3. k % 2 # 0 /\ k \div 2 = c
      BY <3>1, <3>2
    <3>4. ReadingAt(i, k) = Unprime(i.clauses[c].expr)
      BY <3>3 DEF ReadingAt
    <3>5. HoldsBefore(i.clauses[c].expr, s)
      BY <1>3 DEF ExprsOf
    <3>6. Denotes(Unprime(i.clauses[c].expr), s, t)
      BY <3>5, Forms DEF HoldsBefore
    <3>7. QED
      BY <3>4, <3>6
  <2>3. QED
    BY <1>4, <2>1, <2>2 DEF ClauseQueries
<1>7. \A a \in ExampleBase(i, bindings) : Denotes(a, s, t)
  BY <1>2, <1>3, ExampleBaseMeaning DEF Permits
<1>8. Satisfiable(Query(asserts, {}))
  BY <1>6, <1>7 DEF Satisfiable, Query
<1>9. QED
  BY <1>1, <1>8 DEF i, bindings

-----------------------------------------------------------------------------
(* The inductive invariant. *)

LEMMA InitIInv == Init => IInv
<1> SUFFICES ASSUME Init PROVE IInv
  OBVIOUS
<1>1. TypeOK
  BY DEF Init, TypeOK, VcStatus
<1>2. VerdictsAreTrue /\ PendingMeansUnrecorded /\ SkippedForAReason /\ VerifiedIsConsistent
  BY DEF Init, VerdictsAreTrue, PendingMeansUnrecorded, SkippedForAReason, VerifiedIsConsistent
<1>3. ExamplesTellTruth /\ AllOkMeansHarmless
  BY DEF Init, ExamplesTellTruth, AllOkMeansHarmless
<1>4. ExampleAhead
  BY DEF Init, ExampleAhead, ExampleSlots
<1>5. AwaitsVacuity /\ Progress
  BY DEF Init, AwaitsVacuity, Progress
<1>6. QED
  BY <1>1, <1>2, <1>3, <1>4, <1>5 DEF IInv

\* Recording a verdict that is true of its condition keeps the invariants
\* about conditions.
LEMMA RecordKeeps ==
    ASSUME IInv, NEW slot \in pending, NEW status \in VcStatus \ {"pending"},
           Record(slot, status), UNCHANGED prog,
           status = "verified" => Valid(Vc(slot)),
           status = "failed" => ~Valid(Vc(slot)),
           status = "self-contradictory" => ~Consistent(Vc(slot)),
           status = "asis-skipped" => IsAsIs(prog, slot),
           status = "skipped" => Vc(slot).unsupported
    PROVE  /\ pending' \subseteq Slots(prog) /\ results' \in [Slots(prog) -> VcStatus]
           /\ VerdictsAreTrue' /\ PendingMeansUnrecorded' /\ SkippedForAReason'
<1>1. slot \in Slots(prog) /\ results \in [Slots(prog) -> VcStatus] /\ pending \subseteq Slots(prog)
  BY DEF IInv, TypeOK
<1>2. results' = [results EXCEPT ![slot] = status] /\ pending' = pending \ {slot}
  BY DEF Record
<1>3. results'[slot] = status /\ \A x \in Slots(prog) : x # slot => results'[x] = results[x]
  BY <1>1, <1>2
<1>4. pending' \subseteq Slots(prog) /\ results' \in [Slots(prog) -> VcStatus]
  BY <1>1, <1>2
<1>5. VerdictsAreTrue'
  BY <1>3 DEF IInv, VerdictsAreTrue, Vc
<1>6. PendingMeansUnrecorded'
  BY <1>2, <1>3 DEF IInv, PendingMeansUnrecorded
<1>7. SkippedForAReason'
  BY <1>3 DEF IInv, SkippedForAReason, Vc
<1>8. QED
  BY <1>4, <1>5, <1>6, <1>7

\* The loop over the conditions, one action at a time.
LEMMA SkipAsIsStep ==
    ASSUME IInv, NEW slot \in pending, SkipAsIs(slot) PROVE IInv'
<1> USE DEF frontVars, vcVars, exampleVars
<1>1. UNCHANGED <<prog, options, stage, undecided, examplesLeft, exampleResults, allOk, structureFailed, exit>>
  BY DEF SkipAsIs
<1>2. stage = "vcs" /\ Record(slot, "asis-skipped") /\ IsAsIs(prog, slot)
  BY DEF SkipAsIs, SkippedAsIs
<1>3. /\ pending' \subseteq Slots(prog) /\ results' \in [Slots(prog) -> VcStatus]
      /\ VerdictsAreTrue' /\ PendingMeansUnrecorded' /\ SkippedForAReason'
  BY <1>1, <1>2, RecordKeeps DEF VcStatus
<1>4. results' = [results EXCEPT ![slot] = "asis-skipped"] /\ pending' = pending \ {slot}
  BY <1>2 DEF Record
<1>5. TypeOK'
  BY <1>1, <1>3 DEF IInv, TypeOK
<1>6. ExamplesTellTruth' /\ ExampleAhead'
  BY <1>1 DEF IInv, ExamplesTellTruth, ExampleAhead
<1>7. AwaitsVacuity'
  BY <1>1, <1>2 DEF AwaitsVacuity
<1>8. VerifiedIsConsistent' /\ AllOkMeansHarmless'
  BY <1>1, <1>4 DEF IInv, TypeOK, VerifiedIsConsistent, AllOkMeansHarmless, Vc
<1>9. Progress'
  BY <1>1, <1>2, <1>4 DEF IInv, Progress
<1>10. QED
  BY <1>3, <1>5, <1>6, <1>7, <1>8, <1>9 DEF IInv

LEMMA SkipUnsupportedStep ==
    ASSUME IInv, NEW slot \in pending, SkipUnsupported(slot) PROVE IInv'
<1> USE DEF frontVars, vcVars, exampleVars
<1>1. UNCHANGED <<prog, options, stage, undecided, examplesLeft, exampleResults, allOk, structureFailed, exit>>
  BY DEF SkipUnsupported
<1>2. stage = "vcs" /\ Record(slot, "skipped") /\ Vc(slot).unsupported
  BY DEF SkipUnsupported, Unsupported, Vc
<1>3. /\ pending' \subseteq Slots(prog) /\ results' \in [Slots(prog) -> VcStatus]
      /\ VerdictsAreTrue' /\ PendingMeansUnrecorded' /\ SkippedForAReason'
  BY <1>1, <1>2, RecordKeeps DEF VcStatus
<1>4. results' = [results EXCEPT ![slot] = "skipped"] /\ pending' = pending \ {slot}
  BY <1>2 DEF Record
<1>5. TypeOK'
  BY <1>1, <1>3 DEF IInv, TypeOK
<1>6. ExamplesTellTruth' /\ ExampleAhead'
  BY <1>1 DEF IInv, ExamplesTellTruth, ExampleAhead
<1>7. AwaitsVacuity'
  BY <1>1, <1>2 DEF AwaitsVacuity
<1>8. VerifiedIsConsistent' /\ AllOkMeansHarmless'
  BY <1>1, <1>4 DEF IInv, TypeOK, VerifiedIsConsistent, AllOkMeansHarmless, Vc
<1>9. Progress'
  BY <1>1, <1>2, <1>4 DEF IInv, Progress
<1>10. QED
  BY <1>3, <1>5, <1>6, <1>7, <1>8, <1>9 DEF IInv

\* The first query: a verdict, or a valid condition that waits for the second.
LEMMA ProveStep ==
    ASSUME IInv, NEW slot \in pending, Prove(slot) PROVE IInv'
<1> USE DEF frontVars, vcVars, exampleVars
<1>1. UNCHANGED <<prog, options, undecided, examplesLeft, exampleResults, structureFailed, exit>>
  BY DEF Prove
<1>2. stage = "vcs" /\ IsFirst(slot, pending) /\ slot \in Slots(prog) /\ prog \in Program
  BY ProgramsAssumption DEF Prove, IInv, TypeOK
<1>3. PICK base \in ProofVerdicts(Vc(slot)) :
        IF NeedsVacuityCheck(Vc(slot), base)
        THEN stage' = "vacuity" /\ UNCHANGED <<pending, results, allOk>>
        ELSE Conclude(slot, base) /\ UNCHANGED stage
  BY DEF Prove, Vc
<1>4. /\ base \in {"verified", "failed", "unknown", "error"}
      /\ base = "verified" => Valid(Vc(slot))
      /\ base = "failed" => ~Valid(Vc(slot))
  BY <1>2, <1>3, VcFields, ProofVerdictMeaning DEF Vc
<1>5. ExamplesTellTruth'
  BY <1>1 DEF IInv, ExamplesTellTruth
<1>6. ExampleAhead'
  BY <1>1 DEF IInv, ExampleAhead
<1>7. CASE NeedsVacuityCheck(Vc(slot), base)
  <2>1. stage' = "vacuity" /\ UNCHANGED <<pending, results, allOk>>
    BY <1>3, <1>7
  <2>2. TypeOK'
    BY <1>1, <2>1 DEF IInv, TypeOK
  <2>3. VerdictsAreTrue' /\ PendingMeansUnrecorded' /\ SkippedForAReason' /\ VerifiedIsConsistent'
    BY <1>1, <2>1 DEF IInv, VerdictsAreTrue, PendingMeansUnrecorded, SkippedForAReason,
                      VerifiedIsConsistent, Vc
  <2>4. AllOkMeansHarmless'
    BY <1>1, <2>1 DEF IInv, AllOkMeansHarmless
  <2>5. \A x \in Slots(prog) : IsFirst(x, pending) => x = slot
    <3>1. SUFFICES ASSUME NEW x \in Slots(prog), IsFirst(x, pending), x # slot PROVE FALSE
      OBVIOUS
    <3>2. Precedes(x, slot) /\ Precedes(slot, x)
      BY <1>2, <3>1 DEF IsFirst
    <3>3. x[1] \in Nat /\ x[2] \in Nat /\ slot[1] \in Nat /\ slot[2] \in Nat
      BY <1>2, SlotType
    <3>4. QED
      BY <3>2, <3>3 DEF Precedes
  <2>6. AwaitsVacuity'
    BY <1>1, <1>4, <1>7, <2>1, <2>5 DEF AwaitsVacuity, NeedsVacuityCheck, Vc
  <2>7. Progress'
    BY <1>1, <1>2, <2>1 DEF IInv, Progress
  <2>8. QED
    BY <1>5, <1>6, <2>2, <2>3, <2>4, <2>6, <2>7 DEF IInv
<1>8. CASE ~NeedsVacuityCheck(Vc(slot), base)
  <2>1. Record(slot, base) /\ allOk' = (allOk /\ base = "verified") /\ stage' = stage
    BY <1>3, <1>8 DEF Conclude
  <2>2. results' = [results EXCEPT ![slot] = base] /\ pending' = pending \ {slot}
    BY <2>1 DEF Record
  <2>3. /\ pending' \subseteq Slots(prog) /\ results' \in [Slots(prog) -> VcStatus]
        /\ VerdictsAreTrue' /\ PendingMeansUnrecorded' /\ SkippedForAReason'
    BY <1>1, <1>4, <2>1, RecordKeeps DEF VcStatus
  <2>4. TypeOK'
    BY <1>1, <2>1, <2>3 DEF IInv, TypeOK
  <2>5. VerifiedIsConsistent'
    BY <1>1, <1>2, <1>8, <2>2 DEF IInv, TypeOK, VerifiedIsConsistent, NeedsVacuityCheck, Vc
  <2>6. AllOkMeansHarmless'
    BY <1>1, <1>2, <2>1, <2>2 DEF IInv, TypeOK, AllOkMeansHarmless
  <2>7. AwaitsVacuity'
    BY <1>2, <2>1 DEF AwaitsVacuity
  <2>8. Progress'
    BY <1>1, <1>2, <2>1, <2>2 DEF IInv, Progress
  <2>9. QED
    BY <1>5, <1>6, <2>3, <2>4, <2>5, <2>6, <2>7, <2>8 DEF IInv
<1>9. QED
  BY <1>7, <1>8

\* The second query decides between verified, self-contradictory and error.
LEMMA CheckVacuityStep ==
    ASSUME IInv, NEW slot \in pending, CheckVacuity(slot) PROVE IInv'
<1> USE DEF frontVars, vcVars, exampleVars
<1>1. UNCHANGED <<prog, options, examplesLeft, exampleResults, structureFailed, exit>> /\ stage' = "vcs"
  BY DEF CheckVacuity
<1>2. stage = "vacuity" /\ slot \in Slots(prog) /\ Valid(Vc(slot)) /\ Vc(slot).kind = "intent"
  BY DEF CheckVacuity, IInv, TypeOK, AwaitsVacuity
<1>3. PICK answer \in Answers(AssumesQuery(Vc(slot))) :
        /\ Conclude(slot, VacuityVerdict("verified", answer))
        /\ undecided' = IF answer = "unknown" THEN undecided \cup {slot} ELSE undecided
  BY DEF CheckVacuity, Vc
<1> DEFINE verdict == VacuityVerdict("verified", answer)
<1>4. /\ answer \in {"sat", "unsat", "unknown", "error"}
      /\ answer = "sat" => Consistent(Vc(slot))
      /\ answer = "unsat" => ~Consistent(Vc(slot))
  BY <1>2, AnswerMeaning, AssumesQueryMeaning
<1>5. /\ verdict \in {"verified", "self-contradictory", "error"}
      /\ verdict = "self-contradictory" => ~Consistent(Vc(slot))
      /\ verdict = "verified" => Consistent(Vc(slot)) \/ answer = "unknown"
  BY <1>4 DEF VacuityVerdict
<1> HIDE DEF verdict
<1>6. Record(slot, verdict) /\ allOk' = (allOk /\ verdict = "verified")
  BY <1>3 DEF Conclude, verdict
<1>7. results' = [results EXCEPT ![slot] = verdict] /\ pending' = pending \ {slot}
  BY <1>6 DEF Record
<1>8. /\ pending' \subseteq Slots(prog) /\ results' \in [Slots(prog) -> VcStatus]
      /\ VerdictsAreTrue' /\ PendingMeansUnrecorded' /\ SkippedForAReason'
  BY <1>1, <1>2, <1>5, <1>6, RecordKeeps DEF VcStatus
<1>9. undecided \subseteq undecided' /\ undecided' \subseteq Slots(prog) /\ (answer = "unknown" => slot \in undecided')
  BY <1>2, <1>3 DEF IInv, TypeOK
<1>10. TypeOK'
  BY <1>1, <1>6, <1>8, <1>9 DEF IInv, TypeOK
<1>11. VerifiedIsConsistent'
  BY <1>1, <1>2, <1>5, <1>7, <1>9 DEF IInv, TypeOK, VerifiedIsConsistent, Vc
<1>12. AllOkMeansHarmless'
  BY <1>1, <1>2, <1>6, <1>7 DEF IInv, TypeOK, AllOkMeansHarmless
<1>13. ExamplesTellTruth' /\ ExampleAhead'
  BY <1>1 DEF IInv, ExamplesTellTruth, ExampleAhead
<1>14. AwaitsVacuity' /\ Progress'
  BY <1>1, <1>2, <1>7 DEF IInv, AwaitsVacuity, Progress
<1>15. QED
  BY <1>8, <1>10, <1>11, <1>12, <1>13, <1>14 DEF IInv

\* A query of an example moves on, or gives the example its status.
LEMMA CheckExampleStep ==
    ASSUME IInv, NEW n, NEW k, CheckExample(n, k) PROVE IInv'
<1> USE DEF frontVars, vcVars
<1>1. /\ UNCHANGED <<prog, options, stage, pending, results, undecided, structureFailed, exit>>
      /\ stage = "examples"
  BY DEF CheckExample
<1>2. <<n, k>> \in examplesLeft /\ <<n, k>> \in ExampleSlots(prog) /\ prog \in Program
  BY ProgramsAssumption DEF CheckExample, IsFirst, IInv, TypeOK
<1> DEFINE i == ExampleIntent(prog, n)
           realizable == Realizes(i, prog.examples[n].bindings)
<1>3. /\ n \in DOMAIN prog.examples /\ Known(prog, n)
      /\ k \in ClauseQueries(i) \cup {Combined(i)}
  BY <1>2 DEF ExampleSlots
<1>4. PICK answer \in Answers(ExampleQuery(prog, n, k)) :
        LET status == ExampleStatus(i, k, answer) IN
        IF status = "continue"
        THEN /\ examplesLeft' = examplesLeft \ {<<n, k>>}
             /\ UNCHANGED <<exampleResults, allOk>>
        ELSE /\ examplesLeft' = {q \in examplesLeft : q[1] # n}
             /\ exampleResults' = [exampleResults EXCEPT ![n] = status]
             /\ allOk' = (allOk /\ status = "consistent")
  BY DEF CheckExample
<1> DEFINE status == ExampleStatus(i, k, answer)
<1>5. /\ answer \in {"sat", "unsat", "unknown", "error"}
      /\ answer = "sat" => Satisfiable(ExampleQuery(prog, n, k))
      /\ answer = "unsat" => ~Satisfiable(ExampleQuery(prog, n, k))
  BY AnswerMeaning
<1>6. /\ status \in {"continue", "consistent", "violates", "inconsistent", "unknown"}
      /\ status = "consistent" => k = Combined(i) /\ answer = "sat"
      /\ status \in {"violates", "inconsistent"} => answer = "unsat"
      /\ status = "continue" => k # Combined(i)
  BY <1>5 DEF ExampleStatus
<1>7. status = "consistent" => realizable
  BY <1>2, <1>3, <1>5, <1>6, CombinedMeaning
<1>8. status \in {"violates", "inconsistent"} => ~realizable
  BY <1>2, <1>3, <1>5, <1>6, CombinedMeaning, ClauseQueryMeaning
<1>9. /\ VerdictsAreTrue' /\ PendingMeansUnrecorded' /\ SkippedForAReason' /\ VerifiedIsConsistent'
      /\ AwaitsVacuity'
  BY <1>1 DEF IInv, VerdictsAreTrue, PendingMeansUnrecorded, SkippedForAReason,
              VerifiedIsConsistent, AwaitsVacuity, Vc
<1> HIDE DEF status
<1>10. CASE status = "continue"
  <2>1. examplesLeft' = examplesLeft \ {<<n, k>>} /\ UNCHANGED <<exampleResults, allOk>>
    BY <1>4, <1>10 DEF status
  <2>2. TypeOK'
    BY <1>1, <2>1 DEF IInv, TypeOK
  <2>3. ExamplesTellTruth' /\ AllOkMeansHarmless'
    BY <1>1, <2>1 DEF IInv, ExamplesTellTruth, AllOkMeansHarmless
  <2>4. ExampleAhead'
    <3>1. SUFFICES ASSUME NEW m \in DOMAIN prog.examples, Known(prog, m), exampleResults[m] = "pending"
                   PROVE  <<m, Combined(ExampleIntent(prog, m))>> \in examplesLeft'
      BY <1>1, <2>1 DEF ExampleAhead
    <3>2. <<m, Combined(ExampleIntent(prog, m))>> \in examplesLeft
      BY <3>1 DEF IInv, ExampleAhead
    <3>3. <<m, Combined(ExampleIntent(prog, m))>> # <<n, k>>
      BY <1>6, <1>10
    <3>4. QED
      BY <2>1, <3>2, <3>3
  <2>5. Progress'
    BY <1>1, <2>1 DEF IInv, Progress
  <2>6. QED
    BY <1>9, <2>2, <2>3, <2>4, <2>5 DEF IInv
<1>11. CASE status # "continue"
  <2>1. /\ examplesLeft' = {q \in examplesLeft : q[1] # n}
        /\ exampleResults' = [exampleResults EXCEPT ![n] = status]
        /\ allOk' = (allOk /\ status = "consistent")
    BY <1>4, <1>11 DEF status
  <2>2. /\ exampleResults'[n] = status
        /\ \A m \in DOMAIN prog.examples : m # n => exampleResults'[m] = exampleResults[m]
    BY <1>3, <2>1 DEF IInv, TypeOK
  <2>3. TypeOK'
    BY <1>1, <1>6, <1>11, <2>1 DEF IInv, TypeOK
  <2>4. ExamplesTellTruth'
    BY <1>1, <1>7, <1>8, <2>2 DEF IInv, ExamplesTellTruth
  <2>5. AllOkMeansHarmless'
    BY <1>1, <2>1, <2>2 DEF IInv, AllOkMeansHarmless
  <2>6. ExampleAhead'
    <3>1. SUFFICES ASSUME NEW m \in DOMAIN prog.examples, Known(prog, m), exampleResults'[m] = "pending"
                   PROVE  <<m, Combined(ExampleIntent(prog, m))>> \in examplesLeft'
      BY <1>1 DEF ExampleAhead
    <3>2. m # n
      BY <1>6, <2>2, <3>1
    <3>3. <<m, Combined(ExampleIntent(prog, m))>> \in examplesLeft
      BY <2>2, <3>1, <3>2 DEF IInv, ExampleAhead
    <3>4. QED
      BY <2>1, <3>2, <3>3
  <2>7. Progress'
    BY <1>1, <2>1 DEF IInv, Progress
  <2>8. QED
    BY <1>9, <2>3, <2>4, <2>5, <2>6, <2>7 DEF IInv
<1>12. QED
  BY <1>10, <1>11

\* The steps that move the command from one part to the next.
LEMMA StageStep ==
    ASSUME IInv, Parse \/ CheckProgram \/ CheckStructure \/ StartExamples \/ Finish PROVE IInv'
<1> USE DEF frontVars, vcVars, exampleVars, Exit
<1>1. UNCHANGED <<prog, options, pending, results, undecided, examplesLeft, exampleResults, allOk>>
  BY DEF Parse, CheckProgram, CheckStructure, StartExamples, Finish
<1>2. /\ stage' \in {"typecheck", "structure", "vcs", "examples", "exit"}
      /\ exit' \in {"running", "ok", "fail"}
      /\ structureFailed' \in BOOLEAN
  BY DEF IInv, TypeOK, Parse, CheckProgram, CheckStructure, StructureErrors, StartExamples, Finish
<1>3. TypeOK'
  BY <1>1, <1>2 DEF IInv, TypeOK
<1>4. VerdictsAreTrue' /\ PendingMeansUnrecorded' /\ SkippedForAReason' /\ VerifiedIsConsistent'
  BY <1>1 DEF IInv, VerdictsAreTrue, PendingMeansUnrecorded, SkippedForAReason, VerifiedIsConsistent, Vc
<1>5. ExamplesTellTruth' /\ AllOkMeansHarmless' /\ ExampleAhead'
  BY <1>1 DEF IInv, ExamplesTellTruth, AllOkMeansHarmless, ExampleAhead
<1>6. AwaitsVacuity'
  BY <1>2 DEF AwaitsVacuity
<1>7. Progress'
  <2>1. CASE Parse
    BY <1>1, <2>1 DEF IInv, Progress, Parse
  <2>2. CASE CheckProgram
    BY <1>1, <2>2 DEF IInv, Progress, CheckProgram
  <2>3. CASE CheckStructure
    BY <1>1, <2>3 DEF IInv, Progress, CheckStructure
  <2>4. CASE StartExamples
    BY <1>1, <2>4 DEF IInv, Progress, StartExamples
  <2>5. CASE Finish
    BY <1>1, <2>5 DEF IInv, Progress, Finish
  <2>6. QED
    BY <2>1, <2>2, <2>3, <2>4, <2>5
<1>8. QED
  BY <1>3, <1>4, <1>5, <1>6, <1>7 DEF IInv

LEMMA NextIInv == IInv /\ [Next]_vars => IInv'
<1> SUFFICES ASSUME IInv, [Next]_vars PROVE IInv'
  OBVIOUS
<1>1. CASE Parse \/ CheckProgram \/ CheckStructure \/ StartExamples \/ Finish
  BY <1>1, StageStep
<1>2. CASE \E slot \in pending :
              SkipAsIs(slot) \/ SkipUnsupported(slot) \/ Prove(slot) \/ CheckVacuity(slot)
  BY <1>2, SkipAsIsStep, SkipUnsupportedStep, ProveStep, CheckVacuityStep
<1>3. CASE \E q \in examplesLeft : CheckExample(q[1], q[2])
  BY <1>3, CheckExampleStep
<1>4. CASE UNCHANGED vars
  <2>1. UNCHANGED <<prog, options, stage, pending, results, undecided, examplesLeft, exampleResults,
                    allOk, structureFailed, exit>>
    BY <1>4 DEF vars, frontVars, vcVars, exampleVars
  <2>2. TypeOK' /\ VerdictsAreTrue' /\ ExamplesTellTruth' /\ PendingMeansUnrecorded'
    BY <2>1 DEF IInv, TypeOK, VerdictsAreTrue, ExamplesTellTruth, PendingMeansUnrecorded
  <2>3. AwaitsVacuity' /\ SkippedForAReason' /\ VerifiedIsConsistent'
    BY <2>1 DEF IInv, AwaitsVacuity, SkippedForAReason, VerifiedIsConsistent, Vc
  <2>4. AllOkMeansHarmless' /\ ExampleAhead' /\ Progress'
    BY <2>1 DEF IInv, AllOkMeansHarmless, ExampleAhead, Progress
  <2>5. QED
    BY <2>2, <2>3, <2>4 DEF IInv
<1>5. QED
  BY <1>1, <1>2, <1>3, <1>4 DEF Next

\* The invariant that everything below follows from.
THEOREM Inductive == Spec => []IInv
<1>1. QED
  BY InitIInv, NextIInv, PTL DEF Spec

\* Type correctness of cmd_check.
THEOREM TypeCorrect == Spec => []TypeOK
<1>1. IInv => TypeOK
  BY DEF IInv
<1>2. QED
  BY <1>1, Inductive, PTL

\* No verdict of `intent check` is ever wrong, whatever the solver dropped or
\* gave up on.
THEOREM VerdictsAlwaysTrue == Spec => []VerdictsAreTrue
<1>1. IInv => VerdictsAreTrue
  BY DEF IInv
<1>2. QED
  BY <1>1, Inductive, PTL

\* No example is misjudged.
THEOREM ExamplesAlwaysTellTruth == Spec => []ExamplesTellTruth
<1>1. IInv => ExamplesTellTruth
  BY DEF IInv
<1>2. QED
  BY <1>1, Inductive, PTL

-----------------------------------------------------------------------------
(* What a green exit means. *)

\* A condition of an intent in force was proved: it has no legitimate reason
\* to be skipped.
LEMMA PrimaryVerified ==
    ASSUME IInv, exit = "ok", UniqueNames(prog),
           NEW d \in Primary(prog), NEW slot \in Slots(prog), slot[1] = d
    PROVE  results[slot] = "verified"
<1>1. d \in Intents(prog) /\ ~prog.decls[d].asis /\ prog \in Program
  BY ProgramsAssumption DEF Primary, IInv, TypeOK
<1>2. results[slot] \in {"pending", "verified", "skipped", "asis-skipped"}
  BY DEF IInv, Progress, AllOkMeansHarmless
<1>3. results[slot] # "pending"
  BY DEF IInv, Progress, PendingMeansUnrecorded
<1>4. results[slot] # "skipped"
  BY <1>1, VcFields DEF IInv, SkippedForAReason, Vc
<1>5. results[slot] # "asis-skipped"
  <2>1. SUFFICES ASSUME IsAsIs(prog, slot) PROVE FALSE
    BY DEF IInv, SkippedForAReason
  <2>2. PICK l \in Intents(prog) : prog.decls[l].asis /\ VcName(prog, slot) = <<prog.decls[l].name, 0>>
    BY <2>1 DEF IsAsIs, AsIsNames
  <2>3. prog.decls[l].name = prog.decls[d].name /\ l \in DOMAIN prog.decls /\ d \in DOMAIN prog.decls
    BY <1>1, <2>2 DEF VcName, Intents
  <2>4. l = d
    BY <2>3 DEF UniqueNames
  <2>5. QED
    BY <1>1, <2>2, <2>4
<1>6. QED
  BY <1>2, <1>3, <1>4, <1>5

\* The slots of an intent and the conditions in them.
LEMMA IntentSlots ==
    ASSUME NEW p \in Program, NEW d \in Intents(p)
    PROVE  /\ <<d, 0>> \in Slots(p) /\ GenerateVc(p, <<d, 0>>) = IntentVc(p, p.decls[d])
           /\ \A c \in RejectingClauses(p.decls[d]) :
                 /\ <<d, c>> \in Slots(p)
                 /\ GenerateVc(p, <<d, c>>) = RejectVc(p, p.decls[d], c)
<1>1. p.decls[d].decl = "intent" /\ d \in DOMAIN p.decls
  BY DEF Intents
<1>2. \A c \in RejectingClauses(p.decls[d]) : c # 0
  BY IntentDeclType, ClauseIndex DEF RejectingClauses, ClausesOf
<1>3. QED
  BY <1>1, <1>2 DEF Slots, GenerateVc

\* A file the command accepts deserves it.
LEMMA GreenIsSound ==
    ASSUME IInv, exit = "ok" PROVE Deserving(prog)
<1> SUFFICES ASSUME UniqueNames(prog) PROVE Sound(prog)
  BY DEF Deserving
<1>1. prog \in Program
  BY ProgramsAssumption DEF IInv, TypeOK
<1>2. \A slot \in Slots(prog) : results[slot] = "verified" => Valid(Vc(slot))
  BY DEF IInv, VerdictsAreTrue, Vc
<1>3. ASSUME NEW d \in Primary(prog)
      PROVE  /\ Keeps(prog, prog.decls[d])
             /\ \A c \in RejectingClauses(prog.decls[d]) : KeepsOnReject(prog, prog.decls[d], c)
  <2>1. d \in Intents(prog)
    BY DEF Primary
  <2>2. Valid(IntentVc(prog, prog.decls[d]))
    BY <1>1, <1>2, <2>1, IntentSlots, PrimaryVerified DEF Vc
  <2>3. \A c \in RejectingClauses(prog.decls[d]) : Valid(RejectVc(prog, prog.decls[d], c))
    BY <1>1, <1>2, <2>1, IntentSlots, PrimaryVerified DEF Vc
  <2>4. QED
    BY <1>1, <2>1, <2>2, <2>3, IntentDeclType, IntentVcExact, RejectVcExact
<1>4. ASSUME NEW n \in DOMAIN prog.examples
      PROVE  \E d \in Intents(prog) : /\ prog.decls[d].name = prog.examples[n].intent
                                      /\ Realizes(prog.decls[d], prog.examples[n].bindings)
  <2>1. Known(prog, n)
    BY DEF IInv, Progress, TypeErrors
  <2>2. exampleResults[n] = "consistent"
    BY <2>1 DEF IInv, Progress, AllOkMeansHarmless, ExampleAhead
  <2>3. Realizes(ExampleIntent(prog, n), prog.examples[n].bindings)
    BY <2>2 DEF IInv, ExamplesTellTruth
  <2>4. QED
    BY <1>1, <2>1, <2>3, ExampleIntentType
<1>5. QED
  BY <1>3, <1>4 DEF Sound

\* The promise of the command, as a state predicate.
GreenDeserved == exit = "ok" => Deserving(prog)

\* A step that ends the command is a decision of Gate; the others are silent.
LEMMA StepImplements ==
    ASSUME IInv, GreenDeserved', [Next]_vars
    PROVE  [Promise!Next]_(Promise!vars)
<1> USE DEF frontVars, vcVars, exampleVars
<1>1. prog' = prog
  BY DEF Next, vars, Parse, CheckProgram, CheckStructure, SkipAsIs, SkipUnsupported, Prove,
         CheckVacuity, StartExamples, CheckExample, Finish
<1>2. exit' = exit \/ (stage # "exit" /\ exit' \in {"ok", "fail"})
  BY DEF Next, vars, Parse, CheckProgram, CheckStructure, SkipAsIs, SkipUnsupported, Prove,
         CheckVacuity, StartExamples, CheckExample, Finish, Exit
<1>3. CASE exit' = exit
  BY <1>1, <1>3 DEF Promise!vars, Verdict
<1>4. CASE exit' # exit
  <2>1. exit = "running"
    BY <1>2, <1>4 DEF IInv, Progress
  <2>2. CASE exit' = "fail"
    BY <1>1, <2>1, <2>2 DEF Promise!Next, Promise!Refuse, Promise!Decide, Verdict
  <2>3. CASE exit' = "ok"
    BY <1>1, <2>1, <2>3 DEF GreenDeserved, Promise!Next, Promise!Accept, Promise!Decide, Verdict
  <2>4. QED
    BY <1>2, <1>4, <2>2, <2>3
<1>5. QED
  BY <1>3, <1>4

\* `intent check` implements Gate: it accepts a file only if every intent in
\* force keeps its obligations, rejected calls included, and every example
\* can be realized; and it decides once.
THEOREM Implements == Spec => ImplementsGate
<1>1. IInv => GreenDeserved
  BY GreenIsSound DEF GreenDeserved
<1>2. Init => Promise!Init
  BY DEF Init, Promise!Init, Verdict
<1>3. IInv /\ GreenDeserved' /\ [Next]_vars => [Promise!Next]_(Promise!vars)
  BY StepImplements
<1>4. QED
  BY <1>1, <1>2, <1>3, Inductive, PTL DEF Spec, ImplementsGate, Promise!Spec

\* A green exit is not vacuous, except where the vacuity query timed out.
THEOREM GreenIsNeverVacuous == Spec => []GreenIsNotVacuous
<1>1. ASSUME IInv PROVE GreenIsNotVacuous
  <2> SUFFICES ASSUME exit = "ok", UniqueNames(prog), NEW d \in Primary(prog)
               PROVE  LET i == prog.decls[d]
                          before(s) == \A e \in Obligations(prog, i) : HoldsBefore(e, s)
                      IN /\ <<d, 0>> \in undecided \/ \E s, t \in State : Permits(i, s, t) /\ before(s)
                         /\ \A c \in RejectingClauses(i) :
                               \/ <<d, c>> \in undecided
                               \/ \E s, t \in State : Rejects(i, c, s, t) /\ before(s)
    BY DEF GreenIsNotVacuous
  <2> DEFINE i == prog.decls[d]
  <2>1. d \in Intents(prog) /\ prog \in Program
    BY <1>1, ProgramsAssumption DEF Primary, IInv, TypeOK
  <2>2. \A slot \in Slots(prog) : slot[1] = d => slot \in undecided \/ Consistent(Vc(slot))
    BY <1>1, <2>1, PrimaryVerified, VcFields DEF IInv, VerifiedIsConsistent, Vc
  <2>3. <<d, 0>> \in undecided \/ Consistent(IntentVc(prog, i))
    BY <2>1, <2>2, IntentSlots DEF Vc
  <2>4. \A c \in RejectingClauses(i) : <<d, c>> \in undecided \/ Consistent(RejectVc(prog, i, c))
    BY <2>1, <2>2, IntentSlots DEF Vc
  <2>5. QED
    BY <2>1, <2>3, <2>4, IntentDeclType, IntentAssumes, RejectAssumes DEF Consistent
<1>2. QED
  BY <1>1, Inductive, PTL

\* An obligation that speaks of fields in scope survives a step that changes
\* none of them.
LEMMA FrozenObligation ==
    ASSUME NEW i \in IntentDecl, NEW e \in Expr, Scoped(i, e), PrimesOnlyFields(e),
           NEW s \in State, NEW t \in State, ChangesNothing(i, s, t), HoldsBefore(e, s)
    PROVE  HoldsAfter(e, s, t)
<1>1. \A p \in Field : Owner[p] \in i.params => s[p] = t[p]
  BY DEF ChangesNothing
<1>2. Reads[e] \subseteq Path /\ Primed[e] \subseteq Path
  BY ExprAssumption
<1>3. <<s, s>> \in Rel[e]
  BY DEF HoldsBefore
<1>4. CASE MentionsPostState(e)
  <2>1. Agree(s, s, Reads[e]) /\ Agree(s, t, Primed[e])
    BY <1>1, <1>2 DEF Agree, Scoped, PrimesOnlyFields
  <2>2. <<s, t>> \in Rel[e]
    BY <1>3, <2>1, LocalityAssumption
  <2>3. QED
    BY <1>4, <2>2 DEF HoldsAfter
<1>5. CASE ~MentionsPostState(e)
  <2> DEFINE u == After(s, t)
  <2>1. u \in State /\ \A p \in Path : u[p] = IF p \in Field THEN t[p] ELSE s[p]
    BY DEF After, State
  <2> HIDE DEF u
  <2>2. Agree(s, u, Reads[e]) /\ Agree(s, u, Primed[e])
    BY <1>1, <1>2, <1>5, <2>1 DEF Agree, Scoped, MentionsPostState
  <2>3. <<u, u>> \in Rel[e]
    BY <1>3, <2>1, <2>2, LocalityAssumption
  <2>4. QED
    BY <1>5, <2>3 DEF HoldsAfter, u
<1>6. QED
  BY <1>4, <1>5

\* The empty frame of a reject branch leaves nothing to refute.
THEOREM RejectBranchesNeverFail == Spec => []RejectBranchNeverFails
<1>1. ASSUME IInv PROVE RejectBranchNeverFails
  <2> SUFFICES ASSUME NEW d \in Intents(prog), NEW c \in RejectingClauses(prog.decls[d]),
                      \A e \in Obligations(prog, prog.decls[d]) :
                          Scoped(prog.decls[d], e) /\ PrimesOnlyFields(e)
               PROVE  results[<<d, c>>] # "failed"
    BY DEF RejectBranchNeverFails
  <2>1. prog \in Program /\ prog.decls[d] \in IntentDecl
    BY <1>1, ProgramsAssumption, IntentDeclType DEF IInv, TypeOK
  <2>2. KeepsOnReject(prog, prog.decls[d], c)
    BY <2>1, ObligationType, FrozenObligation DEF KeepsOnReject, Rejects
  <2>3. Valid(RejectVc(prog, prog.decls[d], c))
    BY <2>2, RejectVcExact
  <2>4. <<d, c>> \in Slots(prog) /\ Valid(Vc(<<d, c>>))
    BY <2>1, <2>3, IntentSlots DEF Vc
  <2>5. QED
    BY <1>1, <2>4 DEF IInv, VerdictsAreTrue, Vc
<1>2. QED
  BY <1>1, Inductive, PTL

-----------------------------------------------------------------------------
(* What a refusal means. *)

RedSlot(slot) == results[slot] \in {"failed", "self-contradictory", "unknown", "error"}
RedExample(n) == exampleResults[n] \in {"violates", "inconsistent", "unknown"}

\* all_ok is lost to a harmful result, which stays in the report.
HarmIsRecorded ==
    ~allOk => (\E slot \in Slots(prog) : RedSlot(slot)) \/ (\E n \in DOMAIN prog.examples : RedExample(n))

\* Only conditions that the flags and the encoding let through are ever sent to Z3.
ToBeProved(slot) == ~SkippedAsIs(slot) /\ ~Unsupported(slot)

OnlyProvedAreRed ==
    \A slot \in Slots(prog) :
        /\ RedSlot(slot) => ToBeProved(slot)
        /\ results[slot] = "self-contradictory" => Vc(slot).kind = "intent"

OnlyProvedAwaitVacuity ==
    stage = "vacuity" => \A slot \in Slots(prog) : IsFirst(slot, pending) => ToBeProved(slot)

\* An example with a status has no query left.
ExamplesOnce == \A q \in examplesLeft : exampleResults[q[1]] = "pending"

RefusalCause ==
    /\ structureFailed => StructureErrors(prog, options.strict)
    /\ exit = "fail" => ~prog.parses \/ TypeErrors(prog) \/ structureFailed \/ ~allOk

Causes ==
    /\ HarmIsRecorded
    /\ OnlyProvedAreRed
    /\ OnlyProvedAwaitVacuity
    /\ ExamplesOnce
    /\ RefusalCause

LEMMA InitCauses == Init => Causes
<1> SUFFICES ASSUME Init PROVE Causes
  OBVIOUS
<1>1. ExamplesOnce
  <2>1. \A q \in ExampleSlots(prog) : q[1] \in DOMAIN prog.examples
    BY DEF ExampleSlots
  <2>2. QED
    BY <2>1 DEF Init, ExamplesOnce
<1>2. QED
  BY <1>1 DEF Init, Causes, HarmIsRecorded, OnlyProvedAreRed, OnlyProvedAwaitVacuity, RefusalCause, RedSlot

\* Recording a result of a condition that has none.
LEMMA RecordCauses ==
    ASSUME IInv, Causes, NEW slot \in pending, NEW status \in VcStatus,
           Record(slot, status), UNCHANGED <<prog, options, exampleResults>>,
           allOk' = allOk \/ (allOk' = FALSE /\ status \in {"failed", "self-contradictory", "unknown", "error"}),
           status \in {"failed", "self-contradictory", "unknown", "error"} => ToBeProved(slot),
           status = "self-contradictory" => Vc(slot).kind = "intent"
    PROVE  HarmIsRecorded' /\ OnlyProvedAreRed'
<1>1. slot \in Slots(prog) /\ results \in [Slots(prog) -> VcStatus]
  BY DEF IInv, TypeOK
<1>2. results'[slot] = status /\ \A x \in Slots(prog) : x # slot => results'[x] = results[x]
  BY <1>1 DEF Record
<1>3. results[slot] = "pending"
  BY <1>1 DEF IInv, PendingMeansUnrecorded
<1>4. \A x \in Slots(prog) : RedSlot(x) => RedSlot(x)'
  BY <1>2, <1>3 DEF RedSlot
<1>5. HarmIsRecorded'
  <2>1. CASE allOk' = allOk
    BY <1>4, <2>1 DEF Causes, HarmIsRecorded, RedExample
  <2>2. CASE status \in {"failed", "self-contradictory", "unknown", "error"}
    BY <1>1, <1>2, <2>2 DEF HarmIsRecorded, RedSlot
  <2>3. QED
    BY <2>1, <2>2
<1>6. OnlyProvedAreRed'
  <2>1. \A x \in Slots(prog) : ToBeProved(x)' <=> ToBeProved(x)
    BY DEF ToBeProved, SkippedAsIs, Unsupported
  <2>2. ASSUME NEW x \in Slots(prog)
        PROVE  /\ RedSlot(x)' => ToBeProved(x)
               /\ results'[x] = "self-contradictory" => Vc(x).kind = "intent"
    BY <1>2 DEF Causes, OnlyProvedAreRed, RedSlot
  <2>3. QED
    BY <2>1, <2>2 DEF OnlyProvedAreRed, Vc
<1>7. QED
  BY <1>5, <1>6

LEMMA NextCauses == IInv /\ Causes /\ [Next]_vars => Causes'
<1> SUFFICES ASSUME IInv, Causes, [Next]_vars PROVE Causes'
  OBVIOUS
<1> USE DEF frontVars, vcVars, exampleVars
<1>0. ASSUME NEW slot, NEW other, {slot, other} \subseteq Slots(prog),
             IsFirst(slot, pending), IsFirst(other, pending)
      PROVE  slot = other
  <2>1. slot[1] \in Nat /\ slot[2] \in Nat /\ other[1] \in Nat /\ other[2] \in Nat
    BY <1>0, SlotType, ProgramsAssumption DEF IInv, TypeOK
  <2>2. QED
    BY <1>0, <2>1 DEF IsFirst, Precedes
<1>1. CASE Parse \/ CheckProgram \/ CheckStructure \/ StartExamples \/ Finish
  <2>1. UNCHANGED <<prog, options, results, examplesLeft, exampleResults, allOk>> /\ stage' # "vacuity"
    BY <1>1 DEF Parse, CheckProgram, CheckStructure, StartExamples, Finish, Exit
  <2>2. HarmIsRecorded' /\ OnlyProvedAreRed' /\ OnlyProvedAwaitVacuity' /\ ExamplesOnce'
    BY <2>1 DEF Causes, HarmIsRecorded, OnlyProvedAreRed, OnlyProvedAwaitVacuity, ExamplesOnce,
                RedSlot, RedExample, ToBeProved, SkippedAsIs, Unsupported, Vc
  <2>3. RefusalCause'
    BY <1>1, <2>1 DEF Causes, RefusalCause, IInv, Progress, Exit,
                      Parse, CheckProgram, CheckStructure, StartExamples, Finish
  <2>4. QED
    BY <2>2, <2>3 DEF Causes
<1>2. ASSUME NEW slot \in pending,
             SkipAsIs(slot) \/ SkipUnsupported(slot) \/ Prove(slot) \/ CheckVacuity(slot)
      PROVE  Causes'
  <2>1. UNCHANGED <<prog, options, examplesLeft, exampleResults, structureFailed, exit>>
    BY <1>2 DEF SkipAsIs, SkipUnsupported, Prove, CheckVacuity
  <2>2. stage # "exit" /\ IsFirst(slot, pending) /\ slot \in Slots(prog)
    BY <1>2 DEF SkipAsIs, SkipUnsupported, Prove, CheckVacuity, IInv, TypeOK
  <2>3. ExamplesOnce' /\ RefusalCause'
    BY <2>1, <2>2 DEF Causes, ExamplesOnce, RefusalCause, IInv, Progress
  <2>4. CASE SkipAsIs(slot) \/ SkipUnsupported(slot)
    <3>1. PICK status \in {"asis-skipped", "skipped"} : Record(slot, status)
      BY <2>4 DEF SkipAsIs, SkipUnsupported
    <3>2. allOk' = allOk /\ stage' # "vacuity"
      BY <2>4 DEF SkipAsIs, SkipUnsupported
    <3>3. HarmIsRecorded' /\ OnlyProvedAreRed'
      BY <2>1, <3>1, <3>2, RecordCauses DEF VcStatus
    <3>4. QED
      BY <2>3, <3>2, <3>3 DEF Causes, OnlyProvedAwaitVacuity
  <2>5. CASE Prove(slot)
    <3>1. ToBeProved(slot) /\ stage = "vcs"
      BY <2>5 DEF Prove, ToBeProved
    <3>2. PICK base \in ProofVerdicts(Vc(slot)) :
            IF NeedsVacuityCheck(Vc(slot), base)
            THEN stage' = "vacuity" /\ UNCHANGED <<pending, results, allOk>>
            ELSE Conclude(slot, base) /\ UNCHANGED stage
      BY <2>5 DEF Prove, Vc
    <3>3. base \in {"verified", "failed", "unknown", "error"}
      BY <2>2, VcFields, ProofVerdictMeaning, ProgramsAssumption DEF Vc, IInv, TypeOK
    <3>4. CASE NeedsVacuityCheck(Vc(slot), base)
      <4>1. stage' = "vacuity" /\ UNCHANGED <<pending, results, allOk>>
        BY <3>2, <3>4
      <4>2. HarmIsRecorded' /\ OnlyProvedAreRed'
        BY <2>1, <4>1 DEF Causes, HarmIsRecorded, OnlyProvedAreRed, RedSlot, RedExample, ToBeProved,
                          SkippedAsIs, Unsupported, Vc
      <4>3. OnlyProvedAwaitVacuity'
        <5>1. \A x \in Slots(prog) : ToBeProved(x)' <=> ToBeProved(x)
          BY <2>1 DEF ToBeProved, SkippedAsIs, Unsupported
        <5>2. \A x \in Slots(prog) : IsFirst(x, pending) => x = slot
          BY <1>0, <2>2
        <5>3. QED
          BY <2>1, <3>1, <4>1, <5>1, <5>2 DEF OnlyProvedAwaitVacuity
      <4>4. QED
        BY <2>3, <4>2, <4>3 DEF Causes
    <3>5. CASE ~NeedsVacuityCheck(Vc(slot), base)
      <4>1. Record(slot, base) /\ allOk' = (allOk /\ base = "verified") /\ stage' = stage
        BY <3>2, <3>5 DEF Conclude
      <4>2. allOk' = allOk \/ (allOk' = FALSE /\ base \in {"failed", "unknown", "error"})
        BY <3>3, <4>1 DEF IInv, TypeOK
      <4>3. HarmIsRecorded' /\ OnlyProvedAreRed'
        BY <2>1, <3>1, <3>3, <4>1, <4>2, RecordCauses DEF VcStatus
      <4>4. QED
        BY <2>3, <3>1, <4>1, <4>3 DEF Causes, OnlyProvedAwaitVacuity
    <3>6. QED
      BY <3>4, <3>5
  <2>6. CASE CheckVacuity(slot)
    <3>1. PICK answer \in Answers(AssumesQuery(Vc(slot))) : Conclude(slot, VacuityVerdict("verified", answer))
      BY <2>6 DEF CheckVacuity, Vc
    <3> DEFINE verdict == VacuityVerdict("verified", answer)
    <3>2. verdict \in {"verified", "self-contradictory", "error"}
      BY AnswerMeaning DEF VacuityVerdict
    <3>3. stage = "vacuity" /\ stage' = "vcs"
      BY <2>6 DEF CheckVacuity
    <3>4. ToBeProved(slot) /\ Vc(slot).kind = "intent"
      BY <2>2, <3>3 DEF Causes, OnlyProvedAwaitVacuity, IInv, AwaitsVacuity
    <3> HIDE DEF verdict
    <3>5. Record(slot, verdict) /\ allOk' = (allOk /\ verdict = "verified")
      BY <3>1 DEF Conclude, verdict
    <3>6. allOk' = allOk \/ (allOk' = FALSE /\ verdict \in {"self-contradictory", "error"})
      BY <3>2, <3>5 DEF IInv, TypeOK
    <3>7. HarmIsRecorded' /\ OnlyProvedAreRed'
      BY <2>1, <3>2, <3>4, <3>5, <3>6, RecordCauses DEF VcStatus
    <3>8. QED
      BY <2>3, <3>3, <3>7 DEF Causes, OnlyProvedAwaitVacuity
  <2>7. QED
    BY <1>2, <2>4, <2>5, <2>6
<1>3. ASSUME NEW q \in examplesLeft, CheckExample(q[1], q[2]) PROVE Causes'
  <2> DEFINE n == q[1]
  <2>1. UNCHANGED <<prog, options, stage, pending, results, structureFailed, exit>> /\ stage = "examples"
    BY <1>3 DEF CheckExample
  <2>2. <<n, q[2]>> \in examplesLeft
    BY <1>3 DEF CheckExample, IsFirst
  <2>3. n \in DOMAIN prog.examples
    BY <2>2 DEF IInv, TypeOK, ExampleSlots
  <2>4. PICK answer \in Answers(ExampleQuery(prog, n, q[2])) :
          LET status == ExampleStatus(ExampleIntent(prog, n), q[2], answer) IN
          IF status = "continue"
          THEN /\ examplesLeft' = examplesLeft \ {<<n, q[2]>>}
               /\ UNCHANGED <<exampleResults, allOk>>
          ELSE /\ examplesLeft' = {r \in examplesLeft : r[1] # n}
               /\ exampleResults' = [exampleResults EXCEPT ![n] = status]
               /\ allOk' = (allOk /\ status = "consistent")
    BY <1>3 DEF CheckExample
  <2> DEFINE status == ExampleStatus(ExampleIntent(prog, n), q[2], answer)
  <2>5. status \in {"continue", "consistent", "violates", "inconsistent", "unknown"}
    BY AnswerMeaning DEF ExampleStatus
  <2>6. OnlyProvedAreRed' /\ OnlyProvedAwaitVacuity'
    BY <2>1 DEF Causes, OnlyProvedAreRed, OnlyProvedAwaitVacuity, RedSlot, ToBeProved, SkippedAsIs,
                Unsupported, Vc
  <2>7. RefusalCause'
    BY <2>1 DEF Causes, RefusalCause, IInv, Progress
  <2>8. CASE status = "continue"
    <3>1. examplesLeft' \subseteq examplesLeft /\ UNCHANGED <<exampleResults, allOk>>
      BY <2>4, <2>8
    <3>2. HarmIsRecorded' /\ ExamplesOnce'
      BY <2>1, <3>1 DEF Causes, HarmIsRecorded, ExamplesOnce, RedSlot, RedExample
    <3>3. QED
      BY <2>6, <2>7, <3>2 DEF Causes
  <2>9. CASE status # "continue"
    <3>1. /\ examplesLeft' = {r \in examplesLeft : r[1] # n}
          /\ exampleResults' = [exampleResults EXCEPT ![n] = status]
          /\ allOk' = (allOk /\ status = "consistent")
      BY <2>4, <2>9
    <3> HIDE DEF status
    <3>2. /\ exampleResults'[n] = status
          /\ \A m \in DOMAIN prog.examples : m # n => exampleResults'[m] = exampleResults[m]
      BY <2>3, <3>1 DEF IInv, TypeOK
    <3>3. exampleResults[n] = "pending"
      BY <2>2 DEF Causes, ExamplesOnce
    <3>4. HarmIsRecorded'
      <4>1. CASE status = "consistent"
        <5>1. \A m \in DOMAIN prog.examples : RedExample(m) => RedExample(m)'
          BY <3>2, <3>3 DEF RedExample
        <5>2. allOk' = allOk
          BY <3>1, <4>1 DEF IInv, TypeOK
        <5>3. QED
          BY <2>1, <5>1, <5>2 DEF Causes, HarmIsRecorded, RedSlot
      <4>2. CASE status # "consistent"
        BY <2>1, <2>3, <2>5, <2>9, <3>2, <4>2 DEF HarmIsRecorded, RedExample
      <4>3. QED
        BY <4>1, <4>2
    <3>5. ExamplesOnce'
      <4>1. \A r \in examplesLeft : r[1] \in DOMAIN prog.examples
        BY DEF IInv, TypeOK, ExampleSlots
      <4>2. QED
        BY <3>1, <3>2, <4>1 DEF Causes, ExamplesOnce
    <3>6. QED
      BY <2>6, <2>7, <3>4, <3>5 DEF Causes
  <2>10. QED
    BY <2>8, <2>9
<1>4. CASE UNCHANGED vars
  BY <1>4 DEF vars, Causes, HarmIsRecorded, OnlyProvedAreRed, OnlyProvedAwaitVacuity, ExamplesOnce,
              RefusalCause, RedSlot, RedExample, ToBeProved, SkippedAsIs, Unsupported, Vc
<1>5. QED
  BY <1>1, <1>2, <1>3, <1>4 DEF Next

\* Where no claim forbids rest, what generate_vcs assumes before a call, two-state
\* claims with their primes removed, is what has to hold before it.
LEMMA AssumedIsMet ==
    ASSUME NoClaimForbidsRest, NEW d \in Intents(prog), NEW s \in State
    PROVE  MetBefore(prog, prog.decls[d], s) <=> \A e \in Obligations(prog, prog.decls[d]) : HoldsBefore(e, s)
  BY DEF NoClaimForbidsRest, MetBefore, StandsStill

\* A faultless intent has nothing to fear from its condition.
LEMMA DeliversIsVerified ==
    ASSUME NoClaimForbidsRest, prog \in Program, NEW d \in Intents(prog), Delivers(prog, prog.decls[d])
    PROVE  Valid(IntentVc(prog, prog.decls[d])) /\ Consistent(IntentVc(prog, prog.decls[d]))
<1> DEFINE i == prog.decls[d]
           assumed(s) == \A e \in Obligations(prog, i) : HoldsBefore(e, s)
<1>1. i \in IntentDecl
  BY IntentDeclType
<1>2. \A s \in State : MetBefore(prog, i, s) <=> assumed(s)
  BY AssumedIsMet
<1>3. Keeps(prog, i)
  BY <1>2 DEF Delivers, MetAfter, Keeps
<1>4. \E s, t \in State : Permits(i, s, t) /\ assumed(s)
  BY <1>2 DEF Delivers
<1>5. QED
  BY <1>1, <1>3, <1>4, IntentVcExact, IntentAssumes DEF Consistent

LEMMA TurnsAwayIsVerified ==
    ASSUME NoClaimForbidsRest, NEW d \in Intents(prog), NEW c, TurnsAway(prog, prog.decls[d], c)
    PROVE  Valid(RejectVc(prog, prog.decls[d], c)) /\ Consistent(RejectVc(prog, prog.decls[d], c))
<1> DEFINE i == prog.decls[d]
           assumed(s) == \A e \in Obligations(prog, i) : HoldsBefore(e, s)
<1>1. \A s \in State : MetBefore(prog, i, s) <=> assumed(s)
  BY AssumedIsMet
<1>2. KeepsOnReject(prog, i, c)
  BY <1>1 DEF TurnsAway, MetAfter, KeepsOnReject
<1>3. \E s, t \in State : Rejects(i, c, s, t) /\ assumed(s)
  BY <1>1 DEF TurnsAway
<1>4. QED
  BY <1>2, <1>3, RejectVcExact, RejectAssumes DEF Consistent

\* An example that is a call of its intent is found to be one.
LEMMA IllustratesIsRealized ==
    ASSUME NoClaimForbidsRest, prog \in Program, NEW n \in DOMAIN prog.examples, Known(prog, n),
           \A d \in DeclsNamed(prog, prog.examples[n].intent) :
               Illustrates(prog.decls[d], prog.examples[n].bindings)
    PROVE  Realizes(ExampleIntent(prog, n), prog.examples[n].bindings)
<1>1. PICK d \in Intents(prog) : /\ prog.decls[d].name = prog.examples[n].intent
                                 /\ prog.decls[d] = ExampleIntent(prog, n)
  BY ExampleIntentType
<1> DEFINE i == prog.decls[d]
<1>2. PICK s \in State, t \in State :
        /\ \A b \in prog.examples[n].bindings : <<s, t>> \in Rel[b]
        /\ Permits(i, s, t)
        /\ \A e \in ExprsOf(i, "invariant") : <<s, t>> \in Rel[e]
  BY <1>1 DEF DeclsNamed, Illustrates
<1>3. ASSUME NEW e \in ExprsOf(i, "invariant") PROVE HoldsBefore(e, s)
  <2>1. i \in IntentDecl /\ e \in Expr /\ e \in Obligations(prog, i)
    BY IntentDeclType, ClauseExprType DEF Obligations
  <2>2. CASE SingleState(e)
    <3>1. Agree(s, s, Reads[e]) /\ Agree(t, s, Primed[e])
      BY <2>2 DEF SingleState, MentionsPostState, Agree
    <3>2. QED
      BY <1>2, <2>1, <3>1, LocalityAssumption DEF HoldsBefore
  <2>3. CASE ~SingleState(e)
    BY <2>1, <2>3 DEF NoClaimForbidsRest, StandsStill
  <2>4. QED
    BY <2>2, <2>3
<1>4. QED
  BY <1>1, <1>2, <1>3 DEF Realizes

\* A condition that is red, and not for want of an answer, accuses the file.
LEMMA RedSlotBlames ==
    ASSUME IInv, Causes, NoClaimForbidsRest, NoAsIsRejects,
           NEW slot \in Slots(prog), results[slot] \in {"failed", "self-contradictory"}
    PROVE  ~Blameless
<1> SUFFICES ASSUME Blameless PROVE FALSE
  OBVIOUS
<1>1. prog \in Program /\ ToBeProved(slot) /\ (~Valid(Vc(slot)) \/ ~Consistent(Vc(slot)))
  BY ProgramsAssumption DEF IInv, TypeOK, VerdictsAreTrue, Causes, OnlyProvedAreRed, RedSlot, Vc
<1>2. CASE slot[1] \in Theorems(prog)
  <2>1. Vc(slot) = TheoremVc(prog.decls[slot[1]])
    BY <1>1, <1>2, VcShape DEF Vc, Theorems, Intents
  <2>2. ~prog.decls[slot[1]].structQuantifier
    BY <1>1, <2>1 DEF ToBeProved, Unsupported, TheoremVc, Vc
  <2>3. \A s, t \in State : <<s, t>> \in Rel[prog.decls[slot[1]].body]
    BY <1>2, <2>2 DEF Blameless
  <2>4. Valid(Vc(slot))
    <3>1. Vc(slot).goals = {Is(prog.decls[slot[1]].body)}
      BY <2>1 DEF TheoremVc
    <3>2. \A s, t \in State : Denotes(Is(prog.decls[slot[1]].body), s, t)
      BY <2>3, Forms
    <3>3. QED
      BY <3>1, <3>2 DEF Valid
  <2>5. Vc(slot).kind = "intent"
    BY <1>1, <2>4 DEF IInv, VerdictsAreTrue, Causes, OnlyProvedAreRed, Vc
  <2>6. QED
    BY <2>1, <2>5 DEF TheoremVc
<1>3. CASE slot[1] \in Intents(prog) /\ slot[2] = 0
  <2> DEFINE i == prog.decls[slot[1]]
  <2>1. Vc(slot) = IntentVc(prog, i)
    BY <1>1, <1>3, IntentSlots, VcShape DEF Vc, Theorems, Intents
  <2>2. slot[1] \in Judged
    <3>1. i.asis => VcName(prog, slot) \in AsIsNames(prog)
      BY <1>3 DEF VcName, AsIsNames
    <3>2. QED
      BY <1>1, <1>3, <3>1 DEF ToBeProved, SkippedAsIs, IsAsIs, Judged
  <2>3. Delivers(prog, i)
    BY <2>2 DEF Blameless
  <2>4. Valid(Vc(slot)) /\ Consistent(Vc(slot))
    BY <1>1, <1>3, <2>1, <2>3, DeliversIsVerified
  <2>5. QED
    BY <1>1, <2>4
<1>4. CASE slot[1] \in Intents(prog) /\ slot[2] # 0
  <2> DEFINE i == prog.decls[slot[1]]
  <2>1. slot[2] \in RejectingClauses(i) /\ Vc(slot) = RejectVc(prog, i, slot[2])
    BY <1>1, <1>4, VcShape DEF Vc, Theorems, Intents
  <2>2. slot[1] \in Judged
    BY <1>4, <2>1 DEF NoAsIsRejects, Judged
  <2>3. TurnsAway(prog, i, slot[2])
    BY <2>1, <2>2 DEF Blameless
  <2>4. Valid(Vc(slot)) /\ Consistent(Vc(slot))
    BY <1>4, <2>1, <2>3, TurnsAwayIsVerified
  <2>5. QED
    BY <1>1, <2>4
<1>5. QED
  BY <1>1, <1>2, <1>3, <1>4, VcShape

\* `intent check` does not cry wolf.  Leave aside two-state claims that no step
\* may rest on and reject branches of skipped @asis intents: a file it refuses
\* once every query was answered does not parse or type-check, has a structural
\* finding and nothing else, or is at fault by its clauses as they stand, with
\* the frame the author gave and no prime removed.
THEOREM RefusalsHaveReasons == Spec => []RefusedForAReason
<1>1. ASSUME IInv, Causes, exit = "fail", Answered, NoClaimForbidsRest, NoAsIsRejects,
             prog.parses, ~TypeErrors(prog), ~(allOk /\ StructureErrors(prog, options.strict))
      PROVE  ~Blameless
  <2>1. ~allOk /\ prog \in Program
    BY <1>1, ProgramsAssumption DEF Causes, RefusalCause, IInv, TypeOK
  <2>2. CASE \E slot \in Slots(prog) : RedSlot(slot)
    BY <1>1, <2>2, RedSlotBlames DEF Answered, RedSlot
  <2>3. CASE \E n \in DOMAIN prog.examples : RedExample(n)
    <3>1. PICK n \in DOMAIN prog.examples : exampleResults[n] \in {"violates", "inconsistent"}
      BY <1>1, <2>3 DEF Answered, RedExample
    <3>2. ~Realizes(ExampleIntent(prog, n), prog.examples[n].bindings)
      BY <1>1, <3>1 DEF IInv, ExamplesTellTruth
    <3>3. Known(prog, n)
      BY <1>1 DEF TypeErrors
    <3>4. QED
      BY <1>1, <2>1, <3>2, <3>3, IllustratesIsRealized DEF Blameless
  <2>4. QED
    BY <1>1, <2>1, <2>2, <2>3 DEF Causes, HarmIsRecorded
<1>2. IInv /\ Causes => RefusedForAReason
  BY <1>1 DEF RefusedForAReason
<1>3. QED
  BY <1>2, Inductive, InitCauses, NextCauses, PTL DEF Spec

-----------------------------------------------------------------------------
(* The cost. *)

\* Finitely many rows of finite length.
LEMMA FiniteRows ==
    ASSUME NEW D, IsFiniteSet(D), NEW h \in [D -> Nat]
    PROVE  IsFiniteSet({x \in D \X Nat : x[2] <= h[x[1]]})
<1> DEFINE cols(d) == 0..h[d]
           row(d) == {d} \X cols(d)
           f == [d \in D |-> row(d)]
           T == {row(d) : d \in D}
<1>1. ASSUME NEW d \in D PROVE IsFiniteSet(row(d))
  <2>1. h[d] \in Int /\ 0 \in Int
    OBVIOUS
  <2>2. IsFiniteSet(cols(d))
    BY <2>1, FS_Interval
  <2> HIDE DEF cols
  <2>3. IsFiniteSet({d})
    BY FS_Singleton
  <2>4. IsFiniteSet({d} \X cols(d))
    BY <2>2, <2>3, FS_Product
  <2>5. QED
    BY <2>4
<1>2. ASSUME NEW x \in D \X Nat, x[2] <= h[x[1]] PROVE x \in row(x[1]) /\ x[1] \in D
  <2>1. x = <<x[1], x[2]>> /\ x[1] \in D /\ x[2] \in Nat
    OBVIOUS
  <2>2. h[x[1]] \in Nat
    BY <2>1
  <2>3. x[2] \in cols(x[1])
    BY <1>2, <2>1, <2>2
  <2> HIDE DEF cols
  <2>4. QED
    BY <2>1, <2>3
<1> HIDE DEF row
<1>3. f \in Surjection(D, T)
  BY DEF Surjection
<1>4. IsFiniteSet(T)
  BY <1>3, FS_Surjection
<1>5. IsFiniteSet(UNION T)
  BY <1>1, <1>4, FS_UNION
<1>6. {x \in D \X Nat : x[2] <= h[x[1]]} \subseteq UNION T
  BY <1>2
<1>7. QED
  BY <1>5, <1>6, FS_Subset

\* A file has finitely many conditions, and its examples finitely many queries.
LEMMA FiniteSlots ==
    ASSUME NEW p \in Program
    PROVE  IsFiniteSet(Slots(p))
<1> DEFINE D == DOMAIN p.decls
           h == [d \in D |-> IF d \in Intents(p) THEN Len(p.decls[d].clauses) ELSE 0]
<1>1. IsFiniteSet(D)
  BY FS_Interval DEF Program
<1>2. \A d \in Intents(p) : /\ d \in D /\ Len(p.decls[d].clauses) \in Nat
                            /\ RejectingClauses(p.decls[d]) \subseteq 1..Len(p.decls[d].clauses)
  BY IntentDeclType, ClauseIndex DEF Intents, RejectingClauses, ClausesOf
<1> HIDE DEF D
<1>3. h \in [D -> Nat]
  BY <1>2
<1>4. \A d \in Intents(p) : \A c \in RejectingClauses(p.decls[d]) : c \in Nat /\ c <= h[d]
  BY <1>2
<1>5. \A d \in D : 0 <= h[d]
  BY <1>3
<1> HIDE DEF h
<1>6. Slots(p) \subseteq {x \in D \X Nat : x[2] <= h[x[1]]}
  BY <1>2, <1>4, <1>5 DEF Slots, D
<1>7. IsFiniteSet({x \in D \X Nat : x[2] <= h[x[1]]})
  BY <1>1, <1>3, FiniteRows
<1>8. QED
  BY <1>6, <1>7, FS_Subset

LEMMA FiniteExampleSlots ==
    ASSUME NEW p \in Program
    PROVE  IsFiniteSet(ExampleSlots(p))
<1> DEFINE D == {m \in DOMAIN p.examples : Known(p, m)}
           h == [n \in D |-> Combined(ExampleIntent(p, n))]
<1>1. IsFiniteSet(D)
  <2>1. IsFiniteSet(DOMAIN p.examples)
    BY FS_Interval DEF Program
  <2>2. QED
    BY <2>1, FS_Subset
<1>2. ASSUME NEW n \in D
      PROVE  /\ Combined(ExampleIntent(p, n)) \in Nat
             /\ ClauseQueries(ExampleIntent(p, n)) \subseteq 0..Combined(ExampleIntent(p, n))
  <2> DEFINE i == ExampleIntent(p, n)
  <2>1. i.clauses \in Seq(Clause) /\ Len(i.clauses) \in Nat /\ DOMAIN i.clauses = 1..Len(i.clauses)
    BY ExampleIntentType DEF IntentDecl
  <2>2. \A c \in DOMAIN i.clauses : 2 * c \in 0..2 * (Len(i.clauses) + 1) /\ 2 * c + 1 \in 0..2 * (Len(i.clauses) + 1)
    BY <2>1
  <2>3. QED
    BY <2>1, <2>2 DEF Combined, ClauseQueries, ClausesOf
<1>3. h \in [D -> Nat]
  BY <1>2
<1>4. ASSUME NEW n \in D, NEW k \in ClauseQueries(ExampleIntent(p, n)) \cup {Combined(ExampleIntent(p, n))}
      PROVE  k \in Nat /\ k <= h[n]
  BY <1>2
<1> HIDE DEF h
<1>5. ExampleSlots(p) \subseteq {x \in D \X Nat : x[2] <= h[x[1]]}
  BY <1>4 DEF ExampleSlots
<1> HIDE DEF D
<1>6. IsFiniteSet({x \in D \X Nat : x[2] <= h[x[1]]})
  BY <1>1, <1>3, FiniteRows
<1>7. QED
  BY <1>5, <1>6, FS_Subset

Finite == IsFiniteSet(pending) /\ IsFiniteSet(examplesLeft)

LEMMA AlwaysFinite ==
    ASSUME TypeOK
    PROVE  Finite /\ Cardinality(pending) \in Nat /\ Cardinality(examplesLeft) \in Nat
<1>1. prog \in Program
  BY ProgramsAssumption DEF TypeOK
<1>2. Finite
  BY <1>1, FiniteSlots, FiniteExampleSlots, FS_Subset DEF TypeOK, Finite
<1>3. QED
  BY <1>2, FS_CardinalityType DEF Finite

\* What is left, as a sum: the stage, the conditions, the queries.
Cost(n, c, q) == n + 2 * c + q

LEMMA StageNumbers ==
    ASSUME TypeOK, Progress, exit = "running"
    PROVE  StagesLeft[stage] \in 1..6
  BY DEF TypeOK, Progress, StagesLeft

LEMMA CostOfRunning ==
    ASSUME exit = "running"
    PROVE  StepsLeft = Cost(StagesLeft[stage], Cardinality(pending), Cardinality(examplesLeft))
  BY DEF StepsLeft, Cost

\* Each step gets a stage further, records a condition or is done with a query.
LEMMA StepPays ==
    ASSUME IInv, Next, exit' = "running"
    PROVE  /\ exit = "running"
           /\ \/ /\ StagesLeft[stage'] < StagesLeft[stage] /\ UNCHANGED <<pending, examplesLeft>>
              \/ /\ StagesLeft[stage'] <= StagesLeft[stage] + 1 /\ examplesLeft' = examplesLeft
                 /\ \E slot \in pending : pending' = pending \ {slot}
              \/ /\ stage' = stage /\ pending' = pending
                 /\ \E q \in examplesLeft : examplesLeft' \subseteq examplesLeft \ {q}
<1> USE DEF frontVars, vcVars, exampleVars
<1>1. exit = "running"
  BY DEF IInv, Progress, Next, Parse, CheckProgram, CheckStructure, SkipAsIs, SkipUnsupported, Prove, CheckVacuity,
     StartExamples, CheckExample, Finish
<1>2. CASE Parse \/ CheckProgram \/ CheckStructure \/ StartExamples \/ Finish
  BY <1>1, <1>2 DEF Parse, CheckProgram, CheckStructure, StartExamples, Finish, Exit, StagesLeft
<1>3. ASSUME NEW slot \in pending, SkipAsIs(slot) \/ SkipUnsupported(slot)
      PROVE  stage' = stage /\ stage = "vcs" /\ examplesLeft' = examplesLeft /\ pending' = pending \ {slot}
  BY <1>3 DEF SkipAsIs, SkipUnsupported, Record
<1>4. ASSUME NEW slot \in pending, Prove(slot)
      PROVE  /\ stage = "vcs" /\ examplesLeft' = examplesLeft
             /\ \/ stage' = "vacuity" /\ pending' = pending
                \/ stage' = stage /\ pending' = pending \ {slot}
  BY <1>4 DEF Prove, Conclude, Record
<1>5. ASSUME NEW slot \in pending, CheckVacuity(slot)
      PROVE  stage = "vacuity" /\ stage' = "vcs" /\ examplesLeft' = examplesLeft /\ pending' = pending \ {slot}
  BY <1>5 DEF CheckVacuity, Conclude, Record
<1>6. ASSUME NEW q \in examplesLeft, CheckExample(q[1], q[2])
      PROVE  stage' = stage /\ pending' = pending /\ \E r \in examplesLeft : examplesLeft' \subseteq examplesLeft \ {r}
  <2>1. stage' = stage /\ pending' = pending /\ <<q[1], q[2]>> \in examplesLeft
    BY <1>6 DEF CheckExample, IsFirst
  <2>2. \/ examplesLeft' = examplesLeft \ {<<q[1], q[2]>>}
        \/ examplesLeft' = {r \in examplesLeft : r[1] # q[1]}
    BY <1>6 DEF CheckExample
  <2>3. <<q[1], q[2]>>[1] = q[1]
    OBVIOUS
  <2>4. QED
    BY <2>1, <2>2, <2>3
<1>7. QED
  BY <1>1, <1>2, <1>3, <1>4, <1>5, <1>6 DEF Next, StagesLeft

LEMMA Cheaper ==
    ASSUME NEW n \in 1..6, NEW m \in 1..6, NEW c \in Nat, NEW d \in Nat, NEW q \in Nat, NEW r \in Nat,
           \/ m < n /\ d = c /\ r = q
           \/ m <= n + 1 /\ d = c - 1 /\ r = q
           \/ m = n /\ d = c /\ r <= q - 1
    PROVE  Cost(m, d, r) \in 0..Cost(n, c, q) - 1
  BY DEF Cost

\* The work of `intent check` is bounded by the size of the file: every query is
\* made at most once, and one that times out counts like one that is answered.
THEOREM WorkIsBounded == Spec => BoundedWork
<1>1. IInv /\ Next => StepsLeft' \in 0..StepsLeft - 1
  <2> SUFFICES ASSUME IInv, Next
               PROVE  StepsLeft' \in 0..StepsLeft - 1
    OBVIOUS
  <2>1. IInv'
    BY NextIInv
  <2> DEFINE c == Cardinality(pending)
             q == Cardinality(examplesLeft)
  <2>2. Finite /\ c \in Nat /\ q \in Nat
    BY AlwaysFinite DEF IInv
  <2>3. exit = "running"
    BY DEF IInv, Progress, Next, Parse, CheckProgram, CheckStructure, SkipAsIs, SkipUnsupported, Prove,
       CheckVacuity, StartExamples, CheckExample, Finish
  <2>4. StagesLeft[stage] \in 1..6 /\ StepsLeft = Cost(StagesLeft[stage], c, q)
    BY <2>3, StageNumbers, CostOfRunning DEF IInv
  <2>5. CASE exit' # "running"
    <3>1. StepsLeft' = 0
      BY <2>5 DEF StepsLeft
    <3>2. StepsLeft \in Nat /\ StepsLeft >= 1
      <4> HIDE DEF c, q
      <4>1. QED
        BY <2>2, <2>4 DEF Cost
    <3>3. QED
      BY <3>1, <3>2
  <2>6. CASE exit' = "running"
    <3>1. StagesLeft[stage'] \in 1..6
      BY <2>1, <2>6 DEF IInv, TypeOK, Progress, StagesLeft
    <3>2. StepsLeft' = Cost(StagesLeft[stage'], Cardinality(pending'), Cardinality(examplesLeft'))
      BY <2>6 DEF StepsLeft, StagesLeft, Cost
    <3>3. /\ Cardinality(pending') \in Nat /\ Cardinality(examplesLeft') \in Nat
          /\ \/ /\ StagesLeft[stage'] < StagesLeft[stage]
                /\ Cardinality(pending') = c /\ Cardinality(examplesLeft') = q
             \/ /\ StagesLeft[stage'] <= StagesLeft[stage] + 1
                /\ Cardinality(pending') = c - 1 /\ Cardinality(examplesLeft') = q
             \/ /\ StagesLeft[stage'] = StagesLeft[stage]
                /\ Cardinality(pending') = c /\ Cardinality(examplesLeft') <= q - 1
      <4>1. CASE StagesLeft[stage'] < StagesLeft[stage] /\ UNCHANGED <<pending, examplesLeft>>
        BY <2>2, <4>1
      <4>2. CASE /\ StagesLeft[stage'] <= StagesLeft[stage] + 1 /\ examplesLeft' = examplesLeft
                 /\ \E slot \in pending : pending' = pending \ {slot}
        <5>1. PICK slot \in pending : pending' = pending \ {slot}
          BY <4>2
        <5>2. Cardinality(pending') = c - 1 /\ IsFiniteSet(pending')
          BY <2>2, <5>1, FS_RemoveElement DEF Finite
        <5>3. Cardinality(pending') \in Nat
          BY <5>2, FS_CardinalityType
        <5>4. QED
          BY <2>2, <4>2, <5>2, <5>3
      <4>3. CASE /\ stage' = stage /\ pending' = pending
                 /\ \E x \in examplesLeft : examplesLeft' \subseteq examplesLeft \ {x}
        <5>1. PICK x \in examplesLeft : examplesLeft' \subseteq examplesLeft \ {x}
          BY <4>3
        <5>2. IsFiniteSet(examplesLeft \ {x}) /\ Cardinality(examplesLeft \ {x}) = q - 1
          BY <2>2, <5>1, FS_RemoveElement DEF Finite
        <5>3. IsFiniteSet(examplesLeft') /\ Cardinality(examplesLeft') <= q - 1
          BY <5>1, <5>2, FS_Subset
        <5>4. Cardinality(examplesLeft') \in Nat
          BY <5>3, FS_CardinalityType
        <5>5. QED
          BY <2>2, <4>3, <5>3, <5>4
      <4>4. QED
        BY <2>6, <4>1, <4>2, <4>3, StepPays
    <3> HIDE DEF c, q
    <3>4. QED
      BY <2>2, <2>4, <3>1, <3>2, <3>3, Cheaper
  <2>7. QED
    BY <2>5, <2>6
<1>2. IInv /\ [Next]_vars => [StepsLeft' \in 0..StepsLeft - 1]_vars
  BY <1>1
<1>3. QED
  BY <1>2, Inductive, PTL DEF Spec, BoundedWork

-----------------------------------------------------------------------------
(* The system that the accepted file describes.                             *)

\* What the induction carries: the file in service was accepted, and the claims
\* are what one call hands over to the next.
WorldInv == WorldOK /\ InvariantsHold

-----------------------------------------------------------------------------
(* Facts about the declarations of a file. *)

\* An intent in force is well formed.
LEMMA IntentType ==
    ASSUME NEW p \in Program, NEW i \in AllIntents(p)
    PROVE  i \in IntentDecl
<1>1. PICK d \in Primary(p) : i = p.decls[d]
  BY DEF AllIntents
<1>2. d \in DOMAIN p.decls /\ i.decl = "intent"
  BY <1>1 DEF Primary, Intents
<1>3. i \in IntentDecl \cup TheoremDecl
  BY <1>1, <1>2 DEF Program
<1>4. QED
  BY <1>2, <1>3 DEF TheoremDecl

\* Every claim is about an expression.
LEMMA ClaimType ==
    ASSUME NEW p \in Program, NEW c \in Claims(p)
    PROVE  c.expr \in Expr
<1>1. CASE c \in p.safety
  BY <1>1 DEF Program, SafetySource
<1>2. CASE c \notin p.safety
  <2>1. PICK i \in AllIntents(p) : \E e \in ExprsOf(i, "invariant") : c = [params |-> i.params, expr |-> e]
    BY <1>2 DEF Claims
  <2>2. QED
    BY <2>1, IntentType, ClauseExprType
<1>3. QED
  BY <1>1, <1>2

\* An intent is obliged to nothing that is not a claim of the file.
LEMMA ObligationsAreClaims ==
    ASSUME NEW p \in Program, NEW i \in AllIntents(p), NEW e \in Obligations(p, i)
    PROVE  \E c \in Claims(p) : c.expr = e
<1>1. CASE e \in ExprsOf(i, "invariant")
  <2>1. [params |-> i.params, expr |-> e] \in Claims(p)
    BY <1>1 DEF Claims
  <2>2. QED
    BY <2>1
<1>2. CASE e \notin ExprsOf(i, "invariant")
  BY <1>2 DEF Obligations, ApplicableRules, Claims
<1>3. QED
  BY <1>1, <1>2

\* An accepted file keeps its obligations, one call at a time.
LEMMA AcceptedKeeps ==
    ASSUME IInv, exit = "ok", Closed(prog), NEW i \in AllIntents(prog)
    PROVE  Keeps(prog, i)
<1>1. PICK d \in Primary(prog) : i = prog.decls[d]
  BY DEF AllIntents
<1>2. Sound(prog)
  BY GreenIsSound DEF Deserving, Closed
<1>3. QED
  BY <1>1, <1>2 DEF Sound

-----------------------------------------------------------------------------
(* Facts about states. *)

\* Locality, read from the side of what is to be shown.
LEMMA Transfer ==
    ASSUME NEW e \in Expr, NEW s1 \in State, NEW t1 \in State, NEW s2 \in State, NEW t2 \in State,
           Agree(s1, s2, Reads[e]), Agree(t1, t2, Primed[e]), <<s1, t1>> \in Rel[e]
    PROVE  <<s2, t2>> \in Rel[e]
  BY LocalityAssumption

\* States that agree on the fields a state-only claim mentions agree on it.
LEMMA ClaimTransfer ==
    ASSUME NEW p \in Program, NEW c \in Claims(p), StateOnly(c),
           NEW s1 \in State, NEW t1 \in State, NEW s2 \in State, NEW t2 \in State,
           \A q \in Field : Owner[q] \in c.params => s1[q] = s2[q] /\ t1[q] = t2[q],
           <<s1, t1>> \in Rel[c.expr]
    PROVE  <<s2, t2>> \in Rel[c.expr]
<1>1. c.expr \in Expr
  BY ClaimType
<1>2. Agree(s1, s2, Reads[c.expr]) /\ Agree(t1, t2, Primed[c.expr])
  BY DEF StateOnly, Agree
<1>3. QED
  BY <1>1, <1>2, Transfer

LEMMA AfterType ==
    ASSUME NEW s \in State, NEW t \in State
    PROVE  After(s, t) \in State /\ Agree(After(s, t), t, Field)
  BY PathAssumption DEF After, State, Agree

\* The obligations of a call hold when it starts, in a closed file whose
\* claims hold of the world.
LEMMA ObligationsMet ==
    ASSUME NEW p \in Program, Closed(p), NEW i \in AllIntents(p),
           NEW w \in State, NEW s \in State, Agree(w, s, Field),
           \A c \in Claims(p) : SingleState(c.expr) => HoldsBefore(c.expr, w)
    PROVE  \A e \in Obligations(p, i) : HoldsBefore(e, s)
<1> SUFFICES ASSUME NEW e \in Obligations(p, i) PROVE HoldsBefore(e, s)
  OBVIOUS
<1>1. PICK c \in Claims(p) : c.expr = e
  BY ObligationsAreClaims
<1>2. Guarded(p, c)
  BY DEF Closed
<1>3. CASE SingleState(e)
  <2>1. <<w, w>> \in Rel[c.expr]
    BY <1>1, <1>3 DEF HoldsBefore
  <2>2. QED
    BY <1>1, <1>2, <2>1, ClaimTransfer DEF Guarded, HoldsBefore, Agree
<1>4. CASE ~SingleState(e)
  BY <1>1, <1>2, <1>4 DEF Guarded, StandsStill
<1>5. QED
  BY <1>3, <1>4

\* One served call: every claim holds after it, or of it.
LEMMA ExecuteKeepsClaims ==
    ASSUME NEW p \in Program, Closed(p), NEW i \in AllIntents(p), Keeps(p, i),
           NEW w \in State, NEW s \in State, NEW t \in State,
           Agree(w, s, Field), Permits(i, s, t), Agree(s, t, Untouched(i)),
           \A c \in Claims(p) : SingleState(c.expr) => HoldsBefore(c.expr, w),
           NEW c \in Claims(p)
    PROVE  IF SingleState(c.expr) THEN HoldsBefore(c.expr, t) ELSE <<w, t>> \in Rel[c.expr]
<1>1. Guarded(p, c)
  BY DEF Closed
<1>2. CASE i.params \cap c.params = {}
  <2>1. <<w, w>> \in Rel[c.expr]
    BY <1>1 DEF Guarded, StandsStill, HoldsBefore
  <2>2. \A q \in Field : Owner[q] \in c.params => w[q] = t[q]
    BY <1>2 DEF Untouched, Agree
  <2>3. <<t, t>> \in Rel[c.expr] /\ <<w, t>> \in Rel[c.expr]
    BY <1>1, <2>1, <2>2, ClaimTransfer DEF Guarded
  <2>4. QED
    BY <2>3 DEF HoldsBefore
<1>3. CASE i.params \cap c.params # {}
  <2>1. c.expr \in Obligations(p, i)
    BY <1>1, <1>3 DEF Guarded
  <2>2. HoldsAfter(c.expr, s, t)
    BY <2>1, ObligationsMet DEF Keeps
  <2>3. CASE SingleState(c.expr)
    <3>1. <<After(s, t), After(s, t)>> \in Rel[c.expr]
      BY <2>2, <2>3 DEF HoldsAfter, SingleState
    <3>2. <<t, t>> \in Rel[c.expr]
      BY <1>1, <3>1, AfterType, ClaimTransfer DEF Guarded, Agree
    <3>3. QED
      BY <2>3, <3>2 DEF HoldsBefore
  <2>4. CASE ~SingleState(c.expr)
    <3>1. <<s, t>> \in Rel[c.expr]
      BY <2>2, <2>4 DEF HoldsAfter, SingleState
    <3>2. <<w, t>> \in Rel[c.expr]
      BY <1>1, <3>1, ClaimTransfer DEF Guarded, Agree
    <3>3. QED
      BY <2>4, <3>2
  <2>5. QED
    BY <2>3, <2>4
<1>4. QED
  BY <1>2, <1>3

\* One rejected call: nothing a claim speaks of has changed.
LEMMA RejectKeepsClaims ==
    ASSUME NEW p \in Program, Closed(p), NEW i \in AllIntents(p), NEW b,
           NEW w \in State, NEW s \in State, NEW t \in State,
           Agree(w, s, Field), Rejects(i, b, s, t), Agree(s, t, Untouched(i)),
           \A c \in Claims(p) : SingleState(c.expr) => HoldsBefore(c.expr, w),
           NEW c \in Claims(p)
    PROVE  IF SingleState(c.expr) THEN HoldsBefore(c.expr, t) ELSE <<w, t>> \in Rel[c.expr]
<1>1. Guarded(p, c)
  BY DEF Closed
<1>2. \A q \in Field : w[q] = t[q]
  BY DEF Rejects, ChangesNothing, Untouched, Agree
<1>3. <<w, w>> \in Rel[c.expr]
  BY <1>1 DEF Guarded, StandsStill, HoldsBefore
<1>4. <<t, t>> \in Rel[c.expr] /\ <<w, t>> \in Rel[c.expr]
  BY <1>1, <1>2, <1>3, ClaimTransfer DEF Guarded
<1>5. QED
  BY <1>4 DEF HoldsBefore

-----------------------------------------------------------------------------
(* The theorems. *)

\* Every call leaves every claim in order.
LEMMA CallKeepsClaims ==
    ASSUME IInv, WorldInv, Closed(prog), NEW i \in AllIntents(prog),
           Execute(i) \/ \E b \in RejectingClauses(i) : Reject(i, b),
           NEW c \in Claims(prog)
    PROVE  IF SingleState(c.expr) THEN HoldsBefore(c.expr, world') ELSE <<world, world'>> \in Rel[c.expr]
<1>1. live
  BY DEF Execute, Reject
<1>2. prog \in Program /\ world \in State /\ Keeps(prog, i)
  BY <1>1, ProgramsAssumption, AcceptedKeeps DEF IInv, TypeOK, WorldInv, WorldOK
<1>3. \A k \in Claims(prog) : SingleState(k.expr) => HoldsBefore(k.expr, world)
  BY <1>1 DEF WorldInv, InvariantsHold
<1>4. CASE Execute(i)
  <2>1. PICK s \in State, t \in State :
          Agree(world, s, Field) /\ Permits(i, s, t) /\ Agree(s, t, Untouched(i)) /\ world' = t
    BY <1>4 DEF Execute
  <2>2. QED
    BY <1>2, <1>3, <2>1, ExecuteKeepsClaims
<1>5. CASE \E b \in RejectingClauses(i) : Reject(i, b)
  <2>1. PICK b \in RejectingClauses(i), s \in State, t \in State :
          Agree(world, s, Field) /\ Rejects(i, b, s, t) /\ Agree(s, t, Untouched(i)) /\ world' = t
    BY <1>5 DEF Reject
  <2>2. QED
    BY <1>2, <1>3, <2>1, RejectKeepsClaims
<1>6. QED
  BY <1>4, <1>5

\* The system does not disturb the command.
LEMMA StepOfCheck == [Run]_system => [Next]_vars
  BY DEF Run, Command, Deploy, Execute, Reject, system

\* What is proved of the command is true of it inside the system.
THEOREM SystemRunsCheck == System => Spec
<1>1. Start => Init
  BY DEF Start
<1>2. QED
  BY <1>1, StepOfCheck, PTL DEF System, Spec

\* A step of the command, once it is over, changes nothing.
LEMMA CommandIsOver ==
    ASSUME IInv, exit = "ok", Next PROVE UNCHANGED <<prog, exit>>
<1>1. stage = "exit"
  BY DEF IInv, Progress
<1>2. QED
  BY <1>1 DEF Next, Parse, CheckProgram, CheckStructure, SkipAsIs, SkipUnsupported, Prove,
              CheckVacuity, StartExamples, CheckExample, Finish

LEMMA StepKeepsWorldInv == IInv /\ WorldInv /\ [Run]_system => WorldInv'
<1> SUFFICES ASSUME IInv, WorldInv, [Run]_system PROVE WorldInv'
  OBVIOUS
<1>1. CASE Command
  <2>1. UNCHANGED <<live, world>> /\ Next
    BY <1>1 DEF Command
  <2>2. CASE live
    <3>1. exit = "ok"
      BY <2>2 DEF WorldInv, WorldOK
    <3>2. UNCHANGED <<prog, exit>>
      BY <2>1, <3>1, CommandIsOver
    <3>3. QED
      BY <2>1, <3>2 DEF WorldInv, WorldOK, InvariantsHold
  <2>3. CASE ~live
    BY <2>1, <2>3 DEF WorldInv, WorldOK, InvariantsHold
  <2>4. QED
    BY <2>2, <2>3
<1>2. CASE Deploy
  <2>1. UNCHANGED <<prog, exit>> /\ exit = "ok" /\ live' = TRUE
    BY <1>2 DEF Deploy, vars, frontVars
  <2>2. world' \in State /\ Initially(prog, world')
    BY <1>2 DEF Deploy
  <2>3. QED
    BY <2>1, <2>2 DEF WorldInv, WorldOK, InvariantsHold, Initially
<1>3. ASSUME NEW i \in AllIntents(prog), Execute(i) \/ \E b \in RejectingClauses(i) : Reject(i, b)
      PROVE  WorldInv'
  <2>1. UNCHANGED <<prog, exit, live>> /\ live /\ world' \in State
    BY <1>3 DEF Execute, Reject, vars, frontVars
  <2>2. ASSUME Closed(prog), NEW c \in Claims(prog), SingleState(c.expr)
        PROVE  HoldsBefore(c.expr, world')
    BY <1>3, <2>2, CallKeepsClaims
  <2>3. QED
    BY <2>1, <2>2 DEF WorldInv, WorldOK, InvariantsHold
<1>4. CASE UNCHANGED system
  BY <1>4 DEF system, vars, frontVars, WorldInv, WorldOK, InvariantsHold
<1>5. QED
  BY <1>1, <1>2, <1>3, <1>4 DEF Run

\* The invariant of the system.
THEOREM SystemInductive == System => [](IInv /\ WorldInv)
<1>1. Start => WorldInv
  BY DEF Start, WorldInv, WorldOK, InvariantsHold
<1>2. QED
  BY <1>1, SystemRunsCheck, Inductive, StepKeepsWorldInv, PTL DEF System

\* In a closed file that was accepted, an invariant holds in every state of
\* every run of the system.
THEOREM InvariantsAlwaysHold == System => []InvariantsHold
<1>1. WorldInv => InvariantsHold
  BY DEF WorldInv
<1>2. QED
  BY <1>1, SystemInductive, PTL

\* In a closed file that was accepted, every step of the system respects the
\* two-state claims.
THEOREM TwoStateClaimsAlwaysHold == System => TwoStateClaimsHold
<1> DEFINE A == live /\ Closed(prog) =>
                  \A c \in Claims(prog) : MentionsPostState(c.expr) => <<world, world'>> \in Rel[c.expr]
<1>1. IInv /\ WorldInv /\ [Run]_system => [A]_world
  <2> SUFFICES ASSUME IInv, WorldInv, [Run]_system, world' # world, live, Closed(prog),
                      NEW c \in Claims(prog), MentionsPostState(c.expr)
               PROVE  <<world, world'>> \in Rel[c.expr]
    OBVIOUS
  <2>1. PICK i \in AllIntents(prog) : Execute(i) \/ \E b \in RejectingClauses(i) : Reject(i, b)
    BY DEF Run, Command, Deploy, system
  <2>2. QED
    BY <2>1, CallKeepsClaims DEF SingleState
<1>2. QED
  BY <1>1, SystemInductive, PTL DEF System, TwoStateClaimsHold

=============================================================================
