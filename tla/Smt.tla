-------------------------------- MODULE Smt --------------------------------
(***************************************************************************)
(* Queries to Z3 and how their answers become results:                      *)
(* crates/intent-lang-core/src/smt.rs.                                      *)
(*                                                                         *)
(* A query asserts a set of assertions and, when it is a proof query, the   *)
(* negation of the conjunction of its goals.  Z3 itself is external: it     *)
(* silently drops what it cannot parse and answers truthfully about the     *)
(* rest, or with unknown when the five-second budget ends.                  *)
(***************************************************************************)
EXTENDS Vcgen

Query(asserts, refute) == [asserts |-> asserts, refute |-> refute]

\* encode_vc and encode_assumes_only.  A theorem has its body asserted when
\* it is not to be refuted.
ProofQuery(vc) == Query(vc.assumes, vc.goals)
AssumesQuery(vc) ==
    Query(IF vc.kind = "theorem" THEN vc.goals ELSE vc.assumes, {})

Parsed(a) == a.form = "same" \/ a.on \in Encodable

\* The solver after from_string: malformed forms are gone; the negated
\* conjunction of the goals is one form.
Ingested(q) ==
    Query({a \in q.asserts : Parsed(a)},
          IF \A g \in q.refute : Parsed(g) THEN q.refute ELSE {})

Satisfiable(q) ==
    \E s, t \in State :
        /\ \A a \in q.asserts : Denotes(a, s, t)
        /\ q.refute # {} => \E g \in q.refute : ~Denotes(g, s, t)

SolverCheck(q) == {IF Satisfiable(q) THEN "sat" ELSE "unsat", "unknown"}

\* A load_solver that does not count what arrived.
AnswersUncounted(q) == SolverCheck(Ingested(q))

\* load_solver refuses when fewer assertions arrived than were written.
Answers(q) == IF Ingested(q) # q THEN {"error"} ELSE SolverCheck(Ingested(q))

\* run_z3 on a proof query.
ProofVerdict(answer) ==
    CASE answer = "unsat"   -> "verified"
      [] answer = "sat"     -> "failed"
      [] answer = "unknown" -> "unknown"
      [] answer = "error"   -> "error"

\* verify_vc skips the proof query of an intent with no goals.
NeedsProof(vc) == ~(vc.kind = "intent" /\ vc.goals = {})

\* The first half of verify_vc.
ProofVerdicts(vc) ==
    IF NeedsProof(vc) THEN {ProofVerdict(a) : a \in Answers(ProofQuery(vc))} ELSE {"verified"}

\* A vacuity check that stops where the proof query does: with no goals.
NeedsVacuityCheckWithGoals(vc, base) ==
    vc.kind = "intent" /\ base = "verified" /\ NeedsProof(vc)

\* Only a green intent is checked for vacuity.
NeedsVacuityCheck(vc, base) == vc.kind = "intent" /\ base = "verified"

\* A vacuity check that reports the solver's answer in place of the verdict.
VacuityVerdictRaw(base, answer) == IF answer = "unsat" THEN "self-contradictory" ELSE answer

VacuityVerdict(base, answer) ==
    CASE answer = "unsat"             -> "self-contradictory"
      [] answer = "error"             -> "error"
      [] answer \in {"sat", "unknown"} -> base

-----------------------------------------------------------------------------
(* What the conditions mean, independently of the queries. *)

Valid(vc) ==
    \A s, t \in State :
        (\A a \in vc.assumes : Denotes(a, s, t)) => \A g \in vc.goals : Denotes(g, s, t)

Consistent(vc) == \E s, t \in State : \A a \in vc.assumes : Denotes(a, s, t)

=============================================================================
