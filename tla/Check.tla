------------------------------- MODULE Check -------------------------------
(***************************************************************************)
(* `intent check`: cmd_check of crates/intent-lang-cli/src/main.rs, with    *)
(* verify_vc (core/src/smt.rs) and check_examples (core/src/example.rs) it  *)
(* calls.  Each query to Z3 is a step of its own, so that every combination *)
(* of answers, time-outs included, is explored.                             *)
(***************************************************************************)
EXTENDS Smt, Semantics

CONSTANT Programs
ASSUME ProgramsAssumption == Programs \subseteq Program

VARIABLES
    prog,             \* the parsed file: front-end outcome, decls, safety, examples
    options,          \* the flags --strict and --include-asis
    stage,            \* where cmd_check stands
    pending,          \* slots of conditions not yet recorded
    results,          \* status recorded for each slot
    undecided,        \* history: slots whose vacuity query was not answered
    examplesLeft,     \* example queries not yet made
    exampleResults,   \* status of each example
    allOk, structureFailed,
    exit              \* "running", then "ok" (code 0) or "fail" (code 1)

frontVars == <<prog, options>>
vcVars == <<pending, results, undecided>>
exampleVars == <<examplesLeft, exampleResults>>
vars == <<frontVars, stage, vcVars, exampleVars, allOk, structureFailed, exit>>

-----------------------------------------------------------------------------
(* Example queries.  Query <<n, 2c>> adds clause c of the intent as written  *)
(* to example n, <<n, 2c + 1>> its pre-state reading when it is an           *)
(* invariant; the last one adds every clause at once.                        *)

DeclsNamed(p, name) == {d \in Intents(p) : p.decls[d].name = name}
Known(p, n) == DeclsNamed(p, p.examples[n].intent) # {}
ExampleIntent(p, n) ==
    p.decls[CHOOSE d \in DeclsNamed(p, p.examples[n].intent) :
                \A d2 \in DeclsNamed(p, p.examples[n].intent) : d <= d2]

Combined(i) == 2 * (Len(i.clauses) + 1)
ClauseQueries(i) == {2 * c : c \in DOMAIN i.clauses}
                    \cup {2 * c + 1 : c \in ClausesOf(i, "invariant")}
ExampleSlots(p) ==
    UNION {{<<n, k>> : k \in ClauseQueries(ExampleIntent(p, n)) \cup {Combined(ExampleIntent(p, n))}} :
              n \in {m \in DOMAIN p.examples : Known(p, m)}}

\* An example that may change what its intent may not.
ExampleBaseUnframed(i, bindings) == {Is(b) : b \in bindings}

ExampleBase(i, bindings) ==
    {Is(b) : b \in bindings} \cup FrameEqualities(i, IntentFrame(i))

AllReadings(i) == {Is(i.clauses[c].expr) : c \in DOMAIN i.clauses}
                  \cup {Unprime(e) : e \in ExprsOf(i, "invariant")}
ReadingAt(i, k) ==
    IF k % 2 = 0 THEN Is(i.clauses[k \div 2].expr) ELSE Unprime(i.clauses[k \div 2].expr)

ExampleQuery(p, n, k) ==
    LET i == ExampleIntent(p, n) IN
    Query(ExampleBase(i, p.examples[n].bindings)
              \cup (IF k = Combined(i) THEN AllReadings(i) ELSE {ReadingAt(i, k)}), {})

\* check_one: "continue" when the clause is compatible, else the final status.
ExampleStatus(i, k, answer) ==
    CASE answer \in {"unknown", "error"}        -> "unknown"
      [] answer = "sat"   /\ k = Combined(i)    -> "consistent"
      [] answer = "sat"   /\ k # Combined(i)    -> "continue"
      [] answer = "unsat" /\ k = Combined(i)    -> "inconsistent"
      [] answer = "unsat" /\ k # Combined(i)    -> "violates"

-----------------------------------------------------------------------------
(* The front end. *)

\* E0007: an ensure primes a path outside an explicit modifies.
EnsureOutsideModifies(i) ==
    i.modifies.spec = "paths" /\ \E e \in ExprsOf(i, "ensure") : ~(Primed[e] \subseteq i.modifies.paths)

TypeErrors(p) ==
    \/ p.typeErrors
    \/ \E d \in Intents(p) : EnsureOutsideModifies(p.decls[d])
    \/ \E n \in DOMAIN p.examples : ~Known(p, n)

\* S0004 and S0007 are errors, the other structural findings only under --strict.
StructureErrors(p, strict) == p.structure = "hard" \/ (p.structure = "soft" /\ strict)

\* The exclusion set holds names, and a condition is looked up by its name.
AsIsNames(p) == {<<p.decls[d].name, 0>> : d \in {d \in Intents(p) : p.decls[d].asis}}
IsAsIs(p, slot) == VcName(p, slot) \in AsIsNames(p)

Init ==
    /\ prog \in Programs
    /\ options \in [strict : BOOLEAN, includeAsis : BOOLEAN]
    /\ stage = "parse"
    /\ pending = Slots(prog)
    /\ results = [slot \in Slots(prog) |-> "pending"]
    /\ undecided = {}
    /\ examplesLeft = ExampleSlots(prog)
    /\ exampleResults = [n \in DOMAIN prog.examples |-> "pending"]
    /\ allOk = TRUE
    /\ structureFailed = FALSE
    /\ exit = "running"

Exit(code) == stage' = "exit" /\ exit' = code

Parse ==
    /\ stage = "parse"
    /\ IF prog.parses THEN stage' = "typecheck" /\ UNCHANGED exit ELSE Exit("fail")
    /\ UNCHANGED <<frontVars, vcVars, exampleVars, allOk, structureFailed>>

CheckProgram ==
    /\ stage = "typecheck"
    /\ IF TypeErrors(prog) THEN Exit("fail") ELSE stage' = "structure" /\ UNCHANGED exit
    /\ UNCHANGED <<frontVars, vcVars, exampleVars, allOk, structureFailed>>

CheckStructure ==
    /\ stage = "structure"
    /\ structureFailed' = StructureErrors(prog, options.strict)
    /\ stage' = "vcs"
    /\ UNCHANGED <<frontVars, vcVars, exampleVars, allOk, exit>>

-----------------------------------------------------------------------------
(* The loop over the verification conditions. *)

SkippedAsIs(slot) == IsAsIs(prog, slot) /\ ~options.includeAsis
Unsupported(slot) == GenerateVc(prog, slot).unsupported

\* A loop that asks again until it gets an answer.
RecordOnceDecided(slot, status) ==
    /\ results' = [results EXCEPT ![slot] = status]
    /\ pending' = IF status \in {"unknown", "error"} THEN pending ELSE pending \ {slot}

Record(slot, status) ==
    /\ results' = [results EXCEPT ![slot] = status]
    /\ pending' = pending \ {slot}

Conclude(slot, verdict) ==
    /\ Record(slot, verdict)
    /\ allOk' = (allOk /\ verdict = "verified")

SkipAsIs(slot) ==
    /\ stage = "vcs" /\ IsFirst(slot, pending)
    /\ SkippedAsIs(slot)
    /\ Record(slot, "asis-skipped")
    /\ UNCHANGED <<frontVars, stage, undecided, exampleVars, allOk, structureFailed, exit>>

SkipUnsupported(slot) ==
    /\ stage = "vcs" /\ IsFirst(slot, pending)
    /\ ~SkippedAsIs(slot) /\ Unsupported(slot)
    /\ Record(slot, "skipped")
    /\ UNCHANGED <<frontVars, stage, undecided, exampleVars, allOk, structureFailed, exit>>

Prove(slot) ==
    /\ stage = "vcs" /\ IsFirst(slot, pending)
    /\ ~SkippedAsIs(slot) /\ ~Unsupported(slot)
    /\ LET vc == GenerateVc(prog, slot) IN
       \E base \in ProofVerdicts(vc) :
          IF NeedsVacuityCheck(vc, base)
          THEN stage' = "vacuity" /\ UNCHANGED <<pending, results, allOk>>
          ELSE Conclude(slot, base) /\ UNCHANGED stage
    /\ UNCHANGED <<frontVars, undecided, exampleVars, structureFailed, exit>>

CheckVacuity(slot) ==
    /\ stage = "vacuity" /\ IsFirst(slot, pending)
    /\ \E answer \in Answers(AssumesQuery(GenerateVc(prog, slot))) :
          /\ Conclude(slot, VacuityVerdict("verified", answer))
          /\ undecided' = IF answer = "unknown" THEN undecided \cup {slot} ELSE undecided
    /\ stage' = "vcs"
    /\ UNCHANGED <<frontVars, exampleVars, structureFailed, exit>>

StartExamples ==
    /\ stage = "vcs" /\ pending = {}
    /\ stage' = "examples"
    /\ UNCHANGED <<frontVars, vcVars, exampleVars, allOk, structureFailed, exit>>

CheckExample(n, k) ==
    /\ stage = "examples" /\ IsFirst(<<n, k>>, examplesLeft)
    /\ \E answer \in Answers(ExampleQuery(prog, n, k)) :
          LET status == ExampleStatus(ExampleIntent(prog, n), k, answer) IN
          IF status = "continue"
          THEN /\ examplesLeft' = examplesLeft \ {<<n, k>>}
               /\ UNCHANGED <<exampleResults, allOk>>
          ELSE /\ examplesLeft' = {q \in examplesLeft : q[1] # n}
               /\ exampleResults' = [exampleResults EXCEPT ![n] = status]
               /\ allOk' = (allOk /\ status = "consistent")
    /\ UNCHANGED <<frontVars, stage, vcVars, structureFailed, exit>>

Finish ==
    /\ stage = "examples" /\ examplesLeft = {}
    /\ Exit(IF allOk /\ ~structureFailed THEN "ok" ELSE "fail")
    /\ UNCHANGED <<frontVars, vcVars, exampleVars, allOk, structureFailed>>

Next ==
    \/ Parse \/ CheckProgram \/ CheckStructure
    \/ \E slot \in pending :
          SkipAsIs(slot) \/ SkipUnsupported(slot) \/ Prove(slot) \/ CheckVacuity(slot)
    \/ StartExamples
    \/ \E q \in examplesLeft : CheckExample(q[1], q[2])
    \/ Finish

Spec == Init /\ [][Next]_vars

\* The process is sequential and every query ends within its five seconds.
FairSpec == Spec /\ WF_vars(Next)

-----------------------------------------------------------------------------
(* Properties. *)

VcStatus == {"pending", "asis-skipped", "skipped", "verified", "failed", "unknown",
             "error", "self-contradictory"}

\* The variables of cmd_check stay in the sets the code gives them.
TypeOK ==
    /\ prog \in Programs
    /\ options \in [strict : BOOLEAN, includeAsis : BOOLEAN]
    /\ stage \in {"parse", "typecheck", "structure", "vcs", "vacuity", "examples", "exit"}
    /\ pending \subseteq Slots(prog)
    /\ results \in [Slots(prog) -> VcStatus]
    /\ undecided \subseteq Slots(prog)
    /\ examplesLeft \subseteq ExampleSlots(prog)
    /\ exampleResults \in [DOMAIN prog.examples ->
           {"pending", "consistent", "violates", "inconsistent", "unknown"}]
    /\ allOk \in BOOLEAN /\ structureFailed \in BOOLEAN
    /\ exit \in {"running", "ok", "fail"}

\* A recorded verdict is true of its condition, whatever Z3 dropped or gave
\* up on: "verified" means valid, "failed" has a genuine counterexample,
\* "self-contradictory" has no model (load_solver, verify_vc).
VerdictsAreTrue ==
    \A slot \in Slots(prog) :
        LET vc == GenerateVc(prog, slot) IN
        /\ results[slot] = "verified" => Valid(vc)
        /\ results[slot] = "failed" => ~Valid(vc)
        /\ results[slot] = "self-contradictory" => ~Consistent(vc)

\* A green exit is not vacuous: unless its vacuity query timed out, every
\* primary intent permits some call that starts with its invariants, and
\* every reject branch is reachable (the second half of verify_vc).
GreenIsNotVacuous ==
    exit = "ok" /\ UniqueNames(prog) =>
        \A d \in Primary(prog) :
            LET i == prog.decls[d]
                before(s) == \A e \in Obligations(prog, i) : HoldsBefore(e, s)
            IN /\ <<d, 0>> \in undecided \/ \E s, t \in State : Permits(i, s, t) /\ before(s)
               /\ \A c \in RejectingClauses(i) :
                     <<d, c>> \in undecided \/ \E s, t \in State : Rejects(i, c, s, t) /\ before(s)

\* What check_one reports of an example is what the clauses, their pre-state
\* readings and the frame say together.
ExamplesTellTruth ==
    \A n \in DOMAIN prog.examples :
        LET realizable == Realizes(ExampleIntent(prog, n), prog.examples[n].bindings) IN
        /\ exampleResults[n] = "consistent" => realizable
        /\ exampleResults[n] \in {"violates", "inconsistent"} => ~realizable

\* The intents whose verdict counts: those in force, and the @asis ones on demand.
Judged == {d \in Intents(prog) : options.includeAsis \/ ~prog.decls[d].asis}

\* A file whose clauses, as they stand, leave nothing to object to: every intent
\* can be called and keeps what it owes, so does every rejection, theorems hold
\* (one over structs is not decided), and every example is a call of its intent.
Blameless ==
    /\ \A d \in Judged :
          /\ Delivers(prog, prog.decls[d])
          /\ \A c \in RejectingClauses(prog.decls[d]) : TurnsAway(prog, prog.decls[d], c)
    /\ \A d \in Theorems(prog) :
          prog.decls[d].structQuantifier \/ \A s, t \in State : <<s, t>> \in Rel[prog.decls[d].body]
    /\ \A n \in DOMAIN prog.examples : \A d \in DeclsNamed(prog, prog.examples[n].intent) :
          Illustrates(prog.decls[d], prog.examples[n].bindings)

Answered ==
    /\ \A slot \in Slots(prog) : results[slot] \notin {"unknown", "error"}
    /\ \A n \in DOMAIN prog.examples : exampleResults[n] # "unknown"

\* What the command is known to hold against files without a fault: a two-state
\* claim that no step may rest on (it assumes the claim with its primes removed:
\* run check_contradiction) and a reject branch of an @asis intent (check_asis).
NoClaimForbidsRest ==
    \A d \in Intents(prog) : \A e \in Obligations(prog, prog.decls[d]) : SingleState(e) \/ StandsStill(e)
NoAsIsRejects ==
    options.includeAsis \/ \A d \in Intents(prog) : prog.decls[d].asis => RejectingClauses(prog.decls[d]) = {}

\* The gate does not cry wolf.  Once every query has an answer, and with the two
\* cases above set aside, a refused file was turned back by the parser or the
\* type checker, or by a structural finding alone (taken at its word: run
\* entity_defects), or its clauses as they stand are at fault: intent_frame,
\* generate_vcs and check_examples ask no more than they say (end of cmd_check).
RefusedForAReason ==
    exit = "fail" /\ Answered /\ NoClaimForbidsRest /\ NoAsIsRejects =>
        \/ ~prog.parses \/ TypeErrors(prog)
        \/ allOk /\ StructureErrors(prog, options.strict)
        \/ ~Blameless

\* Every identifier of a clause is a parameter of its intent (E0003), and the
\* obligations prime nothing but fields, which rejection freezes.
Scoped(i, e) == \A p \in Reads[e] \cup Primed[e] : Owner[p] \in i.params
PrimesOnlyFields(e) == Primed[e] \subseteq Field

\* A rejection changes nothing, so its condition can be contradictory or
\* undecided but never refuted: the empty frame of generate_vcs.
RejectBranchNeverFails ==
    \A d \in Intents(prog) : \A c \in RejectingClauses(prog.decls[d]) :
        (\A e \in Obligations(prog, prog.decls[d]) :
              Scoped(prog.decls[d], e) /\ PrimesOnlyFields(e))
        => results[<<d, c>>] # "failed"

\* `intent check` accepts only what Gate lets it accept, and decides once.
Verdict == CASE exit = "running" -> "pending" [] exit = "ok" -> "accepted" [] exit = "fail" -> "refused"
Promise == INSTANCE Gate WITH verdict <- Verdict
ImplementsGate == Promise!Spec

\* No query is asked twice and no time-out makes a loop go round again: every
\* step leaves less to do, so that c conditions and q example queries take at
\* most 2c + q + 6 steps, whatever Z3 answers (the loops of cmd_check and
\* check_examples).
StagesLeft == [parse |-> 6, typecheck |-> 5, structure |-> 4, vcs |-> 3, vacuity |-> 2, examples |-> 1]
StepsLeft ==
    IF exit # "running" THEN 0
    ELSE StagesLeft[stage] + 2 * Cardinality(pending) + Cardinality(examplesLeft)
BoundedWork == [][StepsLeft' \in 0..StepsLeft - 1]_vars

\* The command ends, whichever queries time out.
Terminates == <>(exit # "running")

\* core/src/smt.rs:16-19: SelfContradictory says of require, ensure, invariant
\* and frame, as the author wrote them, that no state can satisfy them.
ContradictionIsTheAuthors ==
    \A d \in Intents(prog) :
        LET i == prog.decls[d] IN
        results[<<d, 0>>] = "self-contradictory" /\ ApplicableRules(prog, i) = {} =>
            ~\E s, t \in State :
                Permits(i, s, t) /\ \A e \in ExprsOf(i, "invariant") : <<s, t>> \in Rel[e]

\* docs/lang/SPEC.md:301: without --include-asis, an @asis intent is skipped.
AsIsIsSkipped ==
    ~options.includeAsis =>
        \A slot \in Slots(prog) :
            slot[1] \in Intents(prog) /\ prog.decls[slot[1]].asis
                => results[slot] \in {"pending", "asis-skipped"}

=============================================================================
