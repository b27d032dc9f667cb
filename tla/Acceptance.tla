----------------------------- MODULE Acceptance -----------------------------
(***************************************************************************)
(* `intent accept run`: accept_generate and cmd_accept_run of               *)
(* crates/intent-lang-cli/src/main.rs, with the witnesses Z3 solves         *)
(* (core/src/witness.rs), the tests generated from them                     *)
(* (accept/src/codegen.rs), the run of pytest and the report that maps its  *)
(* results back onto clauses and goals (accept/src/report.rs).  The system  *)
(* under test and Z3 are free to do anything.                               *)
(***************************************************************************)
EXTENDS Integers, Sequences, FiniteSets

CONSTANTS
    Name,       \* names of intents
    Label,      \* what follows the intent's name in the id of a clause
    Within,     \* pairs <<l, m>>: the text "clause I/l" occurs in "clause I/m"
    Programs

Reserved == {"frame", "witness"}

Clause == [label : Label \ Reserved, kind : {"require", "ensure", "invariant"}, reject : BOOLEAN,
           closed : BOOLEAN,       \* compares with >= or <=
           quantified : BOOLEAN, readable : BOOLEAN]

Example == [label : Label \ Reserved, readable : BOOLEAN]

\* An intent with what its binding says of it.
Intent == [
    name : Name, asis : BOOLEAN,
    satisfiable : BOOLEAN,         \* some call meets its clauses
    contradictory : BOOLEAN,       \* V0020: none meets them and the safety rules
    mapped : BOOLEAN,              \* ops.<name> is bound
    constructible : BOOLEAN,       \* types.<T> is bound for every parameter
    signals : BOOLEAN,             \* reject_signal is given
    framed : BOOLEAN,              \* a readable path lies outside its frame
    clauses : Seq(Clause), examples : Seq(Example)]

Program == [typechecks : BOOLEAN, binds : BOOLEAN, intents : SUBSET Intent,
            goals : SUBSET (SUBSET Name)]

ClausesOf(i) == {i.clauses[n] : n \in DOMAIN i.clauses}
ExamplesOf(i) == {i.examples[n] : n \in DOMAIN i.examples}

\* Clause labels are unique in an intent (E0006), names in a file; `example[n]`
\* is no label an author can write.
WellFormed(p) ==
    /\ IsFiniteSet(p.intents)
    /\ \A i, j \in p.intents : i.name = j.name => i = j
    /\ \A i \in p.intents :
          /\ \A m, n \in DOMAIN i.clauses : i.clauses[m].label = i.clauses[n].label => m = n
          /\ \A m, n \in DOMAIN i.examples : i.examples[m].label = i.examples[n].label => m = n
          /\ \A c \in ClausesOf(i), x \in ExamplesOf(i) : c.label # x.label
          /\ ~i.satisfiable => i.contradictory

ASSUME LabelAssumption == Reserved \subseteq Label /\ \A l \in Label : <<l, l>> \in Within
ASSUME ProgramsAssumption == Programs \subseteq Program /\ \A p \in Programs : WellFormed(p)

VARIABLES
    prog, mode,       \* the file with its binding; the gate, strict or lenient
    stage,
    answers,          \* what Z3 said to each witness query
    tests, manual,    \* the manifest
    outcome,          \* result read for each test
    ran,              \* history: pytest wrote these results in this run
    status, verdict,  \* the report
    exit              \* "running", then the exit code

vars == <<prog, mode, stage, answers, tests, manual, outcome, ran, status, verdict, exit>>

-----------------------------------------------------------------------------
(* Witnesses. *)

InScope(p) == {i \in p.intents : ~i.asis}
Mapped(p) == {i \in InScope(p) : i.mapped}

Requires(i) == {c \in ClausesOf(i) : c.kind = "require"}
Results(i) == {c \in ClausesOf(i) : c.kind # "require"}
Quantified(i) == \E c \in ClausesOf(i) : c.quantified

Happy == [kind |-> "happy", label |-> "happy"]
Violates(c) == [kind |-> "violates", label |-> c.label]
Boundary(c) == [kind |-> "boundary", label |-> c.label]
Scenario == [kind : {"happy", "violates", "boundary", "example"}, label : Label \cup {"happy"}]

\* An intent with a quantifier anywhere gets no witness at all.
Queries(i) ==
    IF Quantified(i) THEN {}
    ELSE {Happy} \cup {Violates(c) : c \in Requires(i)}
                 \cup {Boundary(c) : c \in {r \in Requires(i) : r.closed}}

Answer == {"sat", "unsat", "unknown", "error"}
Answers(i, q) ==
    {"unknown", "error"} \cup
    CASE q.kind = "happy"    -> {IF i.satisfiable THEN "sat" ELSE "unsat"}
      [] q.kind = "boundary" -> IF i.satisfiable THEN {"sat", "unsat"} ELSE {"unsat"}
      [] q.kind = "violates" -> {"sat", "unsat"}

Asked(p) == UNION {{<<i.name, q>> : q \in Queries(i)} : i \in Mapped(p)}
Solutions(p) ==
    {a \in [Asked(p) -> Answer] :
        \A i \in Mapped(p) : \A q \in Queries(i) : a[<<i.name, q>>] \in Answers(i, q)}

Solved(i, q, a) == q \in Queries(i) /\ a[<<i.name, q>>] = "sat"
ServedScenarios(i, a) == {q \in Queries(i) : q.kind # "violates" /\ Solved(i, q, a)}
RejectScenarios(i, a) == {c \in Requires(i) : Solved(i, Violates(c), a)}

\* No trouble with a violated require is worth telling.
WorthTellingOfSuccess(q, answer) == q.kind # "violates" /\ answer # "sat"

\* Queries without a model that are worth a manual item.
WorthTelling(q, answer) ==
    CASE q.kind = "happy"    -> answer # "sat"
      [] q.kind = "violates" -> answer = "unknown"
      [] q.kind = "boundary" -> answer \in {"unknown", "error"}

Untold(i, a) == Quantified(i) \/ \E q \in Queries(i) : WorthTelling(q, a[<<i.name, q>>])

-----------------------------------------------------------------------------
(* Tests: which scenarios become one, and which ids it asserts. *)

Checkable(c) == ~c.quantified /\ c.readable

\* A clause is listed as asserted before its translation is known to work.
AssertedBlindly(i) == {c.label : c \in {r \in Results(i) : ~r.quantified}}
                      \cup (IF i.framed THEN {"frame"} ELSE {})

\* emit_asserts: what a served call is held to.
Asserted(i) == {c.label : c \in {r \in Results(i) : Checkable(r)}}
               \cup (IF i.framed THEN {"frame"} ELSE {})

ShownExamples(i) == {x \in ExamplesOf(i) : i.constructible /\ x.readable}
ServedTests(i, a) == {q \in ServedScenarios(i, a) : i.constructible /\ Asserted(i) # {}}
RejectTests(i, a) == {c \in RejectScenarios(i, a) : i.constructible /\ c.reject /\ i.signals}

Test(i, scenario, labels) == [intent |-> i.name, scenario |-> scenario, labels |-> labels]
TestsOf(i, a) ==
    {Test(i, [kind |-> "example", label |-> x.label], Asserted(i) \cup {x.label}) : x \in ShownExamples(i)}
    \cup {Test(i, q, Asserted(i)) : q \in ServedTests(i, a)}
    \cup {Test(i, Violates(c), {c.label}) : c \in RejectTests(i, a)}

Generated(p, a) == UNION {TestsOf(i, a) : i \in Mapped(p)}

\* Labels left to a human, intent by intent.
LeftByScenarios(i, a) ==
    IF i.constructible
    THEN {c.label : c \in {r \in Results(i) : ~Checkable(r) /\ (ShownExamples(i) # {} \/ ServedScenarios(i, a) # {})}}
         \cup {c.label : c \in {r \in RejectScenarios(i, a) : r.reject /\ ~i.signals}}
         \cup {x.label : x \in ExamplesOf(i) \ ShownExamples(i)}
    ELSE {c.label : c \in {r \in Results(i) : r.kind = "ensure" /\ ServedScenarios(i, a) # {}}}
         \cup {c.label : c \in RejectScenarios(i, a)}
         \cup {x.label : x \in ExamplesOf(i)}

ManualLabels(i, a) ==
    IF ~i.mapped THEN {c.label : c \in ClausesOf(i)}
    ELSE {c.label : c \in {r \in ClausesOf(i) : r.quantified}}
         \cup LeftByScenarios(i, a)
         \cup (IF Untold(i, a) THEN {"witness"} ELSE {})

ManualItems(p, a) == UNION {{<<i.name, l>> : l \in ManualLabels(i, a)} : i \in InScope(p)}

Ids(t) == {<<t.intent, l>> : l \in t.labels}
MachineIds(ts) == UNION {Ids(t) : t \in ts}

-----------------------------------------------------------------------------
(* Results: a test passes, fails at the assertion of one of its ids, raises *)
(* elsewhere, or leaves no trace.                                           *)

Passed  == [is |-> "passed", at |-> "witness"]
Crashed == [is |-> "crashed", at |-> "witness"]
Lost    == [is |-> "lost", at |-> "witness"]
FailsAt(l) == [is |-> "fails", at |-> l]
Outcome == {Passed, Crashed, Lost} \cup {FailsAt(l) : l \in Label}
Outcomes(t) == {Passed, Crashed, Lost} \cup {FailsAt(l) : l \in t.labels}

\* Every id of a failed test; only the named ones.
BlamedAll(t, o) == t.labels
BlamedByName(t, o) == IF o.is = "fails" THEN {l \in t.labels : <<l, o.at>> \in Within} ELSE {}

\* Every id whose text occurs in the message, or all of them when none does.
Blamed(t, o) ==
    LET named == IF o.is = "fails" THEN {l \in t.labels : <<l, o.at>> \in Within} ELSE {}
    IN IF named = {} THEN t.labels ELSE named

Against(ts, r, id) ==
    {t \in ts : id \in Ids(t) /\ \/ r[t] = Lost
                                 \/ r[t] \notin {Passed, Lost} /\ id[2] \in Blamed(t, r[t])}
For(ts, r, id) == {t \in ts : id \in Ids(t) /\ r[t] = Passed}

\* A clause no test failed on is taken for passed.
ClauseStatusUnlessFailed(ts, r, id) == IF Against(ts, r, id) # {} THEN "failed" ELSE "passed"
\* One that was not evaluated is left to a human.
ClauseStatusOrManual(ts, r, id) ==
    CASE Against(ts, r, id) # {} -> "failed"
      [] Against(ts, r, id) = {} /\ For(ts, r, id) = {} -> "manual-pending"
      [] Against(ts, r, id) = {} /\ For(ts, r, id) # {} -> "passed"

ClauseStatus(ts, r, id) ==
    CASE Against(ts, r, id) # {} -> "failed"
      [] Against(ts, r, id) = {} /\ For(ts, r, id) = {} -> "blocked"
      [] Against(ts, r, id) = {} /\ For(ts, r, id) # {} -> "passed"

Verdict(gate, failed, pending) ==
    CASE failed -> "fail"
      [] ~failed /\ pending /\ gate = "strict" -> "fail"
      [] ~failed /\ pending /\ gate = "lenient" -> "pass-with-pending"
      [] ~failed /\ ~pending -> "pass"

\* A goal counts the clauses of the intents that realize it; a manual item
\* hides a machine result of the same id, ids of frames and examples are not
\* clauses of an intent.
GoalIds(p, goal) ==
    UNION {{<<i.name, c.label>> : c \in ClausesOf(i)} : i \in {j \in p.intents : j.name \in goal}}
GoalPassed(p, goal, ms, st) ==
    {id \in GoalIds(p, goal) \ ms : id \in DOMAIN st /\ st[id] = "passed"}
GoalPending(p, goal, ms) == GoalIds(p, goal) \cap ms
\* Blocked clauses count for nothing.
GoalTotalDecided(p, goal, ms, st) ==
    {id \in GoalIds(p, goal) \ ms : id \in DOMAIN st /\ st[id] \in {"passed", "failed"}}
GoalTotal(p, goal, ms, st) == {id \in GoalIds(p, goal) \ ms : id \in DOMAIN st}

-----------------------------------------------------------------------------
(* The command. *)

Init ==
    /\ prog \in Programs
    /\ mode \in {"strict", "lenient"}
    /\ stage = "typecheck"
    /\ answers = <<>>
    /\ tests = {} /\ manual = {}
    /\ outcome = <<>> /\ ran = FALSE
    /\ status = <<>> /\ verdict = "none"
    /\ exit = "running"

Exit(code) == stage' = "exit" /\ exit' = code

CheckProgram ==
    /\ stage = "typecheck"
    /\ IF prog.typechecks THEN stage' = "bind" /\ UNCHANGED exit ELSE Exit("unusable")
    /\ UNCHANGED <<prog, mode, answers, tests, manual, outcome, ran, status, verdict>>

LoadBinding ==
    /\ stage = "bind"
    /\ IF prog.binds THEN stage' = "generate" /\ UNCHANGED exit ELSE Exit("unusable")
    /\ UNCHANGED <<prog, mode, answers, tests, manual, outcome, ran, status, verdict>>

Generate ==
    /\ stage = "generate"
    /\ \E a \in Solutions(prog) :
          /\ answers' = a
          /\ tests' = Generated(prog, a)
          /\ manual' = ManualItems(prog, a)
    /\ stage' = "pytest"
    /\ UNCHANGED <<prog, mode, outcome, ran, status, verdict, exit>>

Read ==
    /\ \E r \in [tests -> Outcome] :
          /\ \A t \in tests : r[t] \in Outcomes(t)
          /\ outcome' = r
    /\ stage' = "report"

\* pytest collects the tests and writes junit.xml.
RunTests ==
    /\ stage = "pytest" /\ tests # {}
    /\ Read
    /\ ran' = TRUE
    /\ UNCHANGED <<prog, mode, answers, tests, manual, status, verdict, exit>>

\* The interpreter dies with code 0 or 1 before it writes junit.xml, and the
\* file an earlier run left in the directory is read.
ReadEarlierRun ==
    /\ stage = "pytest"
    /\ Read
    /\ UNCHANGED <<prog, mode, answers, tests, manual, ran, status, verdict, exit>>

\* pytest is missing, has nothing to collect or cannot import the target.
PytestFails ==
    /\ stage = "pytest"
    /\ Exit("unusable")
    /\ UNCHANGED <<prog, mode, answers, tests, manual, outcome, ran, status, verdict>>

BuildReport ==
    /\ stage = "report"
    /\ status' = [id \in MachineIds(tests) |-> ClauseStatus(tests, outcome, id)]
    /\ verdict' = Verdict(mode, \E id \in MachineIds(tests) : status'[id] = "failed", manual # {})
    /\ Exit(IF verdict' = "fail" THEN "fail" ELSE "ok")
    /\ UNCHANGED <<prog, mode, answers, tests, manual, outcome, ran>>

Next == CheckProgram \/ LoadBinding \/ Generate \/ RunTests \/ ReadEarlierRun \/ PytestFails \/ BuildReport

Spec == Init /\ [][Next]_vars

-----------------------------------------------------------------------------
(* Properties. *)

Reported == verdict # "none"

TypeOK ==
    /\ prog \in Programs
    /\ mode \in {"strict", "lenient"}
    /\ stage \in {"typecheck", "bind", "generate", "pytest", "report", "exit"}
    /\ stage \in {"pytest", "report"} \/ Reported => answers \in Solutions(prog)
    /\ tests \subseteq [intent : Name, scenario : Scenario, labels : SUBSET Label]
    /\ manual \subseteq Name \X Label
    /\ stage = "report" \/ Reported => outcome \in [tests -> Outcome]
    /\ ran \in BOOLEAN
    /\ Reported => status \in [MachineIds(tests) -> {"passed", "failed", "blocked"}]
    /\ verdict \in {"none", "pass", "pass-with-pending", "fail"}
    /\ exit \in {"running", "ok", "fail", "unusable"}

\* No fake green: a clause reported passed held in a test that ran to its end,
\* and no test found it violated (build_report, "a fake green").
PassIsEarned ==
    Reported /\ ran =>
        \A id \in MachineIds(tests) : status[id] = "passed" =>
            /\ \E t \in tests : id \in Ids(t) /\ outcome[t] = Passed
            /\ \A t \in tests : id \in Ids(t) => outcome[t] # FailsAt(id[2])

\* No label of the test's ids is the beginning of another.
PrefixFree(t) == \A l, m \in t.labels : <<l, m>> \in Within => l = m

\* A clause is reported failed only if some test found it violated, or never
\* came to judge any clause (build_report, "attribute precisely").
BlameIsPrecise ==
    Reported /\ (\A t \in tests : PrefixFree(t)) =>
        \A id \in MachineIds(tests) : status[id] = "failed" =>
            \E t \in tests : id \in Ids(t) /\ outcome[t] \in {Crashed, Lost, FailsAt(id[2])}

\* Every test that does not pass turns the gate red, in both modes, whatever
\* its message says (D10; build_report, "silent loss would fake green").
FailureTurnsRed ==
    Reported => \A t \in tests : t.labels # {} /\ outcome[t] # Passed => exit = "fail"

\* An id is checked by machine or left to a human, never both: the two counts
\* of the report are disjoint (docs/rfc-executable-acceptance.md, D7).
CountedOnce == MachineIds(tests) \cap manual = {}

\* What the strict gate lets through was looked at: of an intent in scope,
\* every result was held in a test and every business rule was violated in
\* one, unless no call can violate it (D7, "never silently skipped").  Two gaps
\* of the generator are set aside: a rule whose query Z3 did not take in, and
\* an intent with nothing but invariants whose entities cannot be built.
TakenIn(i) == \A c \in Requires(i) : answers[<<i.name, Violates(c)>>] # "error"
Upheld(i, c) == \E t \in tests : <<i.name, c.label>> \in Ids(t) /\ outcome[t] = Passed

NothingIsSkipped ==
    mode = "strict" /\ exit = "ok" /\ ran =>
        \A i \in InScope(prog) :
            \/ ClausesOf(i) = {}
            \/ ~i.constructible /\ \A c \in Results(i) : c.kind = "invariant"
            \/ i.mapped /\ ~TakenIn(i)
            \/ /\ i.mapped
               /\ \A c \in Results(i) : Upheld(i, c)
               /\ \A c \in Requires(i) :
                     c.reject => Upheld(i, c) \/ answers[<<i.name, Violates(c)>>] = "unsat"

\* A goal whose count is complete has no clause that is blocked, violated or
\* left to a human.
GoalIsEarned ==
    Reported /\ ran => \A goal \in prog.goals :
        /\ Cardinality(GoalPassed(prog, goal, manual, status)) = Cardinality(GoalTotal(prog, goal, manual, status))
        /\ GoalPending(prog, goal, manual) = {}
        => \A id \in GoalIds(prog, goal) \cap MachineIds(tests) :
              /\ \E t \in tests : id \in Ids(t) /\ outcome[t] = Passed
              /\ \A t \in tests : id \in Ids(t) => outcome[t] # FailsAt(id[2])

\* crates/intent-lang-cli/src/main.rs:1008: "V0020 must block acceptance".
ContradictionBlocks == exit = "ok" => \A i \in Mapped(prog) : ~i.contradictory

=============================================================================
