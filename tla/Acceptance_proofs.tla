------------------------- MODULE Acceptance_proofs -------------------------
(***************************************************************************)
(* What the report of `intent accept run` may be trusted for, for any file, *)
(* binding, answers of Z3 and behaviour of the tests.                       *)
(***************************************************************************)
EXTENDS Acceptance, FiniteSetTheorems, TLAPS

\* Nothing was generated yet, or the front end gave up.
Idle ==
    /\ stage \in {"typecheck", "bind", "generate", "exit"}
    /\ tests = {} /\ manual = {} /\ verdict = "none"
    /\ exit = IF stage = "exit" THEN "unusable" ELSE "running"

Manifest ==
    /\ answers \in Solutions(prog)
    /\ tests = Generated(prog, answers)
    /\ manual = ManualItems(prog, answers)

ResultsRead ==
    /\ outcome \in [tests -> Outcome]
    /\ \A t \in tests : outcome[t] \in Outcomes(t)

Written ==
    /\ status = [id \in MachineIds(tests) |-> ClauseStatus(tests, outcome, id)]
    /\ verdict = Verdict(mode, \E id \in MachineIds(tests) : status[id] = "failed", manual # {})
    /\ exit = IF verdict = "fail" THEN "fail" ELSE "ok"

IInv ==
    /\ prog \in Programs /\ mode \in {"strict", "lenient"} /\ ran \in BOOLEAN
    /\ \/ Idle
       \/ Manifest /\ stage = "pytest" /\ verdict = "none" /\ exit = "running"
       \/ Manifest /\ stage = "exit" /\ verdict = "none" /\ exit = "unusable"
       \/ Manifest /\ ResultsRead /\ stage = "report" /\ verdict = "none" /\ exit = "running"
       \/ Manifest /\ ResultsRead /\ Written /\ stage = "exit"

-----------------------------------------------------------------------------
(* The inductive invariant. *)

\* build_report always reaches a verdict.
LEMMA VerdictRange ==
    ASSUME NEW gate \in {"strict", "lenient"}, NEW failed \in BOOLEAN, NEW pending \in BOOLEAN
    PROVE  Verdict(gate, failed, pending) \in {"pass", "pass-with-pending", "fail"}
BY DEF Verdict

\* The initial states satisfy the invariant.
LEMMA InitIInv == Init => IInv
BY DEF Init, IInv, Idle

\* Every step keeps the invariant.
LEMMA NextIInv == IInv /\ [Next]_vars => IInv'
<1> SUFFICES ASSUME IInv, [Next]_vars PROVE IInv'
  OBVIOUS
<1>1. CASE CheckProgram
  BY <1>1 DEF CheckProgram, Exit, IInv, Idle, Manifest, ResultsRead, Written
<1>2. CASE LoadBinding
  BY <1>2 DEF LoadBinding, Exit, IInv, Idle, Manifest, ResultsRead, Written
<1>3. CASE Generate
  <2>1. Manifest'
    BY <1>3 DEF Generate, Manifest
  <2>2. verdict = "none" /\ exit = "running"
    BY <1>3 DEF Generate, IInv, Idle
  <2> QED BY <1>3, <2>1, <2>2 DEF Generate, IInv
<1>4. CASE RunTests
  <2>1. Manifest /\ verdict = "none" /\ exit = "running"
    BY <1>4 DEF RunTests, IInv, Idle
  <2>2. ResultsRead' /\ stage' = "report"
    BY <1>4 DEF RunTests, Read, ResultsRead
  <2>3. Manifest'
    BY <1>4, <2>1 DEF RunTests, Manifest
  <2> QED BY <1>4, <2>1, <2>2, <2>3 DEF RunTests, IInv
<1>5. CASE ReadEarlierRun
  <2>1. Manifest /\ verdict = "none" /\ exit = "running"
    BY <1>5 DEF ReadEarlierRun, IInv, Idle
  <2>2. ResultsRead' /\ stage' = "report"
    BY <1>5 DEF ReadEarlierRun, Read, ResultsRead
  <2>3. Manifest'
    BY <1>5, <2>1 DEF ReadEarlierRun, Manifest
  <2> QED BY <1>5, <2>1, <2>2, <2>3 DEF ReadEarlierRun, IInv
<1>6. CASE PytestFails
  BY <1>6 DEF PytestFails, Exit, IInv, Idle, Manifest
<1>7. CASE BuildReport
  BY <1>7 DEF BuildReport, Exit, IInv, Idle, Manifest, ResultsRead, Written
<1>8. CASE UNCHANGED vars
  BY <1>8 DEF vars, IInv, Idle, Manifest, ResultsRead, Written
<1> QED BY <1>1, <1>2, <1>3, <1>4, <1>5, <1>6, <1>7, <1>8 DEF Next

\* The invariant of the command.
THEOREM Invariant == Spec => []IInv
BY InitIInv, NextIInv, PTL DEF Spec

-----------------------------------------------------------------------------
(* Types of the manifest. *)

\* The intents of a file in scope are intents.
LEMMA ScopeType ==
    ASSUME NEW p \in Programs, NEW i \in InScope(p)
    PROVE  i \in p.intents /\ i \in Intent /\ i.name \in Name
<1>1. p \in Program /\ i \in p.intents
  BY ProgramsAssumption DEF InScope
<1> QED BY <1>1 DEF Program, Intent

\* Clauses and examples carry labels of the file, never the reserved ones.
LEMMA LabelType ==
    ASSUME NEW i \in Intent
    PROVE  /\ \A c \in ClausesOf(i) : c \in Clause /\ c.label \in Label \ Reserved
           /\ \A x \in ExamplesOf(i) : x \in Example /\ x.label \in Label \ Reserved
<1>1. i.clauses \in Seq(Clause) /\ i.examples \in Seq(Example)
  BY DEF Intent
<1>2. \A c \in ClausesOf(i) : c \in Clause
  BY <1>1 DEF ClausesOf
<1>3. \A x \in ExamplesOf(i) : x \in Example
  BY <1>1 DEF ExamplesOf
<1> QED BY <1>2, <1>3 DEF Clause, Example

\* What a served call is held to are labels.
LEMMA AssertedType ==
    ASSUME NEW i \in Intent PROVE Asserted(i) \subseteq Label
BY LabelType, LabelAssumption DEF Asserted, Results, Reserved

TestType == [intent : Name, scenario : Scenario, labels : SUBSET Label]

\* Queries are scenarios.
LEMMA QueryType ==
    ASSUME NEW i \in Intent
    PROVE  /\ Queries(i) \subseteq Scenario
           /\ \A c \in Requires(i) : Violates(c) \in Scenario
           /\ \A x \in ExamplesOf(i) : [kind |-> "example", label |-> x.label] \in Scenario
<1>1. Happy \in Scenario
  BY DEF Happy, Scenario
<1>2. \A c \in Requires(i) : Violates(c) \in Scenario /\ Boundary(c) \in Scenario
  BY LabelType DEF Requires, Violates, Boundary, Scenario
<1>3. \A x \in ExamplesOf(i) : [kind |-> "example", label |-> x.label] \in Scenario
  BY LabelType DEF Scenario
<1> QED BY <1>1, <1>2, <1>3 DEF Queries

\* The tests of an intent have the type of tests.
LEMMA TestsOfType ==
    ASSUME NEW i \in Intent, NEW a
    PROVE  TestsOf(i, a) \subseteq TestType
<1>0. i.name \in Name
  BY DEF Intent
<1>1. \A s \in Scenario, ls \in SUBSET Label : Test(i, s, ls) \in TestType
  BY <1>0 DEF Test, TestType
<1>2. \A x \in ShownExamples(i) :
         Test(i, [kind |-> "example", label |-> x.label], Asserted(i) \cup {x.label}) \in TestType
  <2> TAKE x \in ShownExamples(i)
  <2>1. x \in ExamplesOf(i)
    BY DEF ShownExamples
  <2>2. Asserted(i) \cup {x.label} \in SUBSET Label
    BY <2>1, AssertedType, LabelType
  <2> QED BY <1>1, <2>1, <2>2, QueryType
<1>3. \A q \in ServedTests(i, a) : Test(i, q, Asserted(i)) \in TestType
  <2> TAKE q \in ServedTests(i, a)
  <2>1. q \in Queries(i)
    BY DEF ServedTests, ServedScenarios
  <2> QED BY <1>1, <2>1, QueryType, AssertedType
<1>4. \A c \in RejectTests(i, a) : Test(i, Violates(c), {c.label}) \in TestType
  <2> TAKE c \in RejectTests(i, a)
  <2>1. c \in Requires(i) /\ c \in ClausesOf(i)
    BY DEF RejectTests, RejectScenarios, Requires
  <2>2. {c.label} \in SUBSET Label
    BY <2>1, LabelType
  <2> QED BY <1>1, <2>1, <2>2, QueryType
<1> QED BY <1>2, <1>3, <1>4 DEF TestsOf

\* The labels left to a human are labels.
LEMMA ManualType ==
    ASSUME NEW i \in Intent, NEW a
    PROVE  ManualLabels(i, a) \subseteq Label
<1>1. LeftByScenarios(i, a) \subseteq Label
  BY LabelType DEF LeftByScenarios, Results, RejectScenarios, Requires, ShownExamples
<1> QED BY <1>1, LabelType, LabelAssumption DEF ManualLabels, Reserved

\* The manifest has the type of a manifest.
LEMMA ManifestType ==
    ASSUME NEW p \in Programs, NEW a
    PROVE  Generated(p, a) \subseteq TestType /\ ManualItems(p, a) \subseteq Name \X Label
<1>1. Generated(p, a) \subseteq TestType
  BY ScopeType, TestsOfType DEF Generated, Mapped
<1>2. ManualItems(p, a) \subseteq Name \X Label
  BY ScopeType, ManualType DEF ManualItems
<1> QED BY <1>1, <1>2

\* The variables keep their types.
LEMMA IInvType == IInv => TypeOK
<1> SUFFICES ASSUME IInv PROVE TypeOK
  OBVIOUS
<1>1. prog \in Programs /\ mode \in {"strict", "lenient"} /\ ran \in BOOLEAN
      /\ stage \in {"typecheck", "bind", "generate", "pytest", "report", "exit"}
      /\ exit \in {"running", "ok", "fail", "unusable"}
  BY DEF IInv, Idle, Written
<1>2. tests \subseteq TestType /\ manual \subseteq Name \X Label
  BY <1>1, ManifestType DEF IInv, Idle, Manifest
<1>3. stage \in {"pytest", "report"} \/ Reported => answers \in Solutions(prog)
  BY DEF IInv, Idle, Manifest, Reported
<1>4. stage = "report" \/ Reported => outcome \in [tests -> Outcome]
  BY DEF IInv, Idle, ResultsRead, Reported
<1>5. \A id : ClauseStatus(tests, outcome, id) \in {"passed", "failed", "blocked"}
  BY DEF ClauseStatus
<1>6. Reported => status \in [MachineIds(tests) -> {"passed", "failed", "blocked"}]
  BY <1>5 DEF IInv, Idle, Written, Reported
<1>7. verdict \in {"none", "pass", "pass-with-pending", "fail"}
  <2>1. CASE Written
    BY <1>1, <2>1, VerdictRange DEF Written
  <2>2. CASE ~Written
    BY <2>2 DEF IInv, Idle
  <2> QED BY <2>1, <2>2
<1> QED BY <1>1, <1>2, <1>3, <1>4, <1>6, <1>7 DEF TypeOK, TestType

\* Type correctness.
THEOREM TypeCorrect == Spec => []TypeOK
BY Invariant, IInvType, PTL

-----------------------------------------------------------------------------
(* The report against the results. *)

\* Once there is a verdict, the manifest, the results and the report agree.
LEMMA ReportedFacts ==
    ASSUME IInv, Reported
    PROVE  Manifest /\ ResultsRead /\ Written /\ tests \subseteq TestType
<1>1. Manifest /\ ResultsRead /\ Written
  BY DEF IInv, Idle, Reported
<1> QED BY <1>1, ManifestType DEF IInv, Manifest

\* An assertion that fails blames its own id.
LEMMA OwnIdBlamed ==
    ASSUME NEW t \in TestType, NEW l \in t.labels
    PROVE  l \in Blamed(t, FailsAt(l))
<1>1. l \in Label
  BY DEF TestType
<1>2. <<l, l>> \in Within
  BY <1>1, LabelAssumption
<1> QED BY <1>2 DEF Blamed, FailsAt

\* Whatever goes wrong, something is blamed, and only ids of the test.
LEMMA SomethingBlamed ==
    ASSUME NEW t, t.labels # {}, NEW o
    PROVE  Blamed(t, o) # {} /\ Blamed(t, o) \subseteq t.labels
BY DEF Blamed

\* The four ways a test can go are different.
LEMMA OutcomesDiffer ==
    /\ Passed # Lost /\ Passed # Crashed /\ Lost # Crashed
    /\ \A l : FailsAt(l) \notin {Passed, Lost, Crashed} /\ FailsAt(l).at = l /\ FailsAt(l).is = "fails"
BY DEF Passed, Lost, Crashed, FailsAt

\* A passed clause was earned.
LEMMA EarnedByIInv == IInv => PassIsEarned
<1> SUFFICES ASSUME IInv, Reported, NEW id \in MachineIds(tests), status[id] = "passed"
             PROVE  /\ \E t \in tests : id \in Ids(t) /\ outcome[t] = Passed
                    /\ \A t \in tests : id \in Ids(t) => outcome[t] # FailsAt(id[2])
  BY DEF PassIsEarned
<1>1. ClauseStatus(tests, outcome, id) = "passed"
  BY ReportedFacts DEF Written
<1>2. Against(tests, outcome, id) = {} /\ For(tests, outcome, id) # {}
  BY <1>1 DEF ClauseStatus
<1>3. \E t \in tests : id \in Ids(t) /\ outcome[t] = Passed
  BY <1>2 DEF For
<1>4. ASSUME NEW t \in tests, id \in Ids(t), outcome[t] = FailsAt(id[2]) PROVE FALSE
  <2>1. t \in TestType
    BY ReportedFacts
  <2>2. id[2] \in t.labels
    BY <1>4 DEF Ids
  <2>3. id[2] \in Blamed(t, outcome[t])
    BY <1>4, <2>1, <2>2, OwnIdBlamed
  <2>4. outcome[t] \notin {Passed, Lost}
    BY <1>4, OutcomesDiffer
  <2> QED BY <1>2, <1>4, <2>3, <2>4 DEF Against
<1> QED BY <1>3, <1>4

\* A failed clause was violated, when no label begins another.
LEMMA BlameByIInv == IInv => BlameIsPrecise
<1> SUFFICES ASSUME IInv, Reported, \A t \in tests : PrefixFree(t),
                    NEW id \in MachineIds(tests), status[id] = "failed"
             PROVE  \E t \in tests : id \in Ids(t) /\ outcome[t] \in {Crashed, Lost, FailsAt(id[2])}
  BY DEF BlameIsPrecise
<1>1. Against(tests, outcome, id) # {}
  BY ReportedFacts DEF Written, ClauseStatus
<1>2. PICK t \in Against(tests, outcome, id) : TRUE
  BY <1>1
<1>3. t \in tests /\ id \in Ids(t) /\ id[2] \in t.labels
  BY <1>2 DEF Against, Ids
<1>4. CASE outcome[t] = Lost
  BY <1>3, <1>4
<1>5. CASE outcome[t] # Lost
  <2>1. outcome[t] # Passed /\ id[2] \in Blamed(t, outcome[t]) /\ outcome[t] \in Outcomes(t)
    BY <1>2, <1>5, ReportedFacts DEF Against, ResultsRead
  <2>2. CASE outcome[t] = Crashed
    BY <1>3, <2>2
  <2>3. CASE outcome[t] # Crashed
    <3>1. PICK l \in t.labels : outcome[t] = FailsAt(l)
      BY <1>5, <2>1, <2>3 DEF Outcomes
    <3>2. l \in Blamed(t, outcome[t])
      BY <1>3, <3>1, ReportedFacts, OwnIdBlamed
    <3>3. <<l, l>> \in Within
      BY <1>3, <3>1, ReportedFacts, LabelAssumption DEF TestType
    <3>4. <<id[2], l>> \in Within
      BY <2>1, <3>1, <3>3 DEF Blamed, FailsAt
    <3>5. id[2] = l
      BY <1>3, <3>1, <3>4 DEF PrefixFree
    <3> QED BY <1>3, <3>1, <3>5
  <2> QED BY <2>2, <2>3
<1> QED BY <1>4, <1>5

\* A test that does not pass turns the gate red.
LEMMA RedByIInv == IInv => FailureTurnsRed
<1> SUFFICES ASSUME IInv, Reported, NEW t \in tests, t.labels # {}, outcome[t] # Passed
             PROVE  exit = "fail"
  BY DEF FailureTurnsRed
<1>1. PICK l \in t.labels : l \in Blamed(t, outcome[t])
  BY SomethingBlamed
<1>2. <<t.intent, l>> \in Ids(t) /\ <<t.intent, l>> \in MachineIds(tests)
  BY <1>1 DEF Ids, MachineIds
<1>3. t \in Against(tests, outcome, <<t.intent, l>>)
  BY <1>1, <1>2 DEF Against
<1>4. status[<<t.intent, l>>] = "failed"
  BY <1>2, <1>3, ReportedFacts DEF Written, ClauseStatus
<1>5. verdict = Verdict(mode, TRUE, manual # {})
  BY <1>2, <1>4, ReportedFacts DEF Written
<1>6. verdict = "fail"
  BY <1>5 DEF Verdict
<1> QED BY <1>6, ReportedFacts DEF Written

\* No fake green in the report.
THEOREM PassAlwaysEarned == Spec => []PassIsEarned
BY Invariant, EarnedByIInv, PTL

\* No failure is pinned on a clause that held.
THEOREM BlameAlwaysPrecise == Spec => []BlameIsPrecise
BY Invariant, BlameByIInv, PTL

\* No failing test leaves the gate green.
THEOREM FailureAlwaysTurnsRed == Spec => []FailureTurnsRed
BY Invariant, RedByIInv, PTL

-----------------------------------------------------------------------------
(* The manifest: nothing is counted twice, nothing is forgotten. *)

\* Labels tell the clauses of an intent apart, and its examples.
LEMMA UniqueLabels ==
    ASSUME NEW p \in Programs, NEW i \in InScope(p)
    PROVE  /\ \A c, d \in ClausesOf(i) : c.label = d.label => c = d
           /\ \A x, y \in ExamplesOf(i) : x.label = y.label => x = y
           /\ \A c \in ClausesOf(i), x \in ExamplesOf(i) : c.label # x.label
           /\ \A j \in InScope(p) : i.name = j.name => i = j
<1>1. i \in p.intents /\ WellFormed(p)
  BY ProgramsAssumption DEF InScope
<1>2. \A c, d \in ClausesOf(i) : c.label = d.label => c = d
  BY <1>1 DEF WellFormed, ClausesOf
<1>3. \A x, y \in ExamplesOf(i) : x.label = y.label => x = y
  BY <1>1 DEF WellFormed, ExamplesOf
<1>4. \A c \in ClausesOf(i), x \in ExamplesOf(i) : c.label # x.label
  BY <1>1 DEF WellFormed
<1>5. \A j \in InScope(p) : i.name = j.name => i = j
  BY <1>1 DEF WellFormed, InScope
<1> QED BY <1>2, <1>3, <1>4, <1>5

\* The labels the tests of an intent check.
MachineLabels(i, a) ==
    (IF ShownExamples(i) # {} \/ ServedTests(i, a) # {} THEN Asserted(i) ELSE {})
    \cup {x.label : x \in ShownExamples(i)} \cup {c.label : c \in RejectTests(i, a)}

\* The ids of the generated tests are made of these.
LEMMA MachineIdsFrom ==
    ASSUME NEW p \in Programs, NEW a, NEW id \in MachineIds(Generated(p, a))
    PROVE  \E i \in Mapped(p) : id[1] = i.name /\ id[2] \in MachineLabels(i, a)
<1>1. PICK t \in Generated(p, a) : id \in Ids(t)
  BY DEF MachineIds
<1>2. PICK i \in Mapped(p) : t \in TestsOf(i, a)
  BY <1>1 DEF Generated
<1>3. id[1] = t.intent /\ id[2] \in t.labels
  BY <1>1 DEF Ids
<1>4. t.intent = i.name /\ t.labels \subseteq MachineLabels(i, a)
  <2>1. CASE \E x \in ShownExamples(i) :
                t = Test(i, [kind |-> "example", label |-> x.label], Asserted(i) \cup {x.label})
    BY <2>1 DEF Test, MachineLabels
  <2>2. CASE \E q \in ServedTests(i, a) : t = Test(i, q, Asserted(i))
    BY <2>2 DEF Test, MachineLabels
  <2>3. CASE \E c \in RejectTests(i, a) : t = Test(i, Violates(c), {c.label})
    BY <2>3 DEF Test, MachineLabels
  <2> QED BY <1>2, <2>1, <2>2, <2>3 DEF TestsOf
<1> QED BY <1>3, <1>4

\* A witness is solved only for an intent without quantifiers.
LEMMA SolvedUnquantified ==
    ASSUME NEW i, NEW a, Quantified(i)
    PROVE  RejectScenarios(i, a) = {} /\ ServedScenarios(i, a) = {}
BY DEF RejectScenarios, ServedScenarios, Solved, Queries

\* In one intent, machine and human do not share a label.
LEMMA LabelsDisjoint ==
    ASSUME NEW p \in Programs, NEW i \in Mapped(p), NEW a
    PROVE  MachineLabels(i, a) \cap ManualLabels(i, a) = {}
<1> SUFFICES ASSUME NEW l \in MachineLabels(i, a), l \in ManualLabels(i, a) PROVE FALSE
  OBVIOUS
<1>0. i \in InScope(p) /\ i \in Intent /\ i.mapped
  BY ScopeType DEF Mapped
<1>u. /\ \A c, d \in ClausesOf(i) : c.label = d.label => c = d
      /\ \A x, y \in ExamplesOf(i) : x.label = y.label => x = y
      /\ \A c \in ClausesOf(i), x \in ExamplesOf(i) : c.label # x.label
  BY <1>0, UniqueLabels
<1>r. /\ \A c \in ClausesOf(i) : c.label \notin Reserved
      /\ \A x \in ExamplesOf(i) : x.label \notin Reserved
  BY <1>0, LabelType
<1>m. \/ \E c \in ClausesOf(i) : c.quantified /\ l = c.label
      \/ l \in LeftByScenarios(i, a)
      \/ l = "witness"
  BY <1>0 DEF ManualLabels
<1>c. i.constructible
  BY DEF MachineLabels, ShownExamples, ServedTests, RejectTests
<1>l. l \in LeftByScenarios(i, a) =>
         \/ \E c \in Results(i) : ~Checkable(c) /\ l = c.label
         \/ \E c \in RejectScenarios(i, a) : ~i.signals /\ l = c.label
         \/ \E x \in ExamplesOf(i) \ ShownExamples(i) : l = x.label
  BY <1>c DEF LeftByScenarios
<1>1. CASE l \in Asserted(i)
  <2>1. CASE l = "frame"
    BY <1>m, <1>l, <1>r, <2>1 DEF Reserved, Results, RejectScenarios, Requires
  <2>2. CASE l # "frame"
    <3>1. PICK c \in ClausesOf(i) : c.kind # "require" /\ Checkable(c) /\ l = c.label
      BY <1>1, <2>2 DEF Asserted, Results
    <3> QED BY <1>m, <1>l, <1>u, <1>r, <3>1 DEF Reserved, Results, RejectScenarios, Requires, Checkable
  <2> QED BY <2>1, <2>2
<1>2. CASE \E x \in ShownExamples(i) : l = x.label
  <2>1. PICK x \in ShownExamples(i) : l = x.label
    BY <1>2
  <2>2. x \in ExamplesOf(i)
    BY DEF ShownExamples
  <2> QED BY <1>m, <1>l, <1>u, <1>r, <2>1, <2>2 DEF Reserved, Results, RejectScenarios, Requires
<1>3. CASE \E c \in RejectTests(i, a) : l = c.label
  <2>1. PICK c \in RejectTests(i, a) : l = c.label
    BY <1>3
  <2>2. c \in ClausesOf(i) /\ c.kind = "require" /\ i.signals /\ c \in RejectScenarios(i, a)
    BY DEF RejectTests, RejectScenarios, Requires
  <2>3. ~Quantified(i)
    BY <2>2, SolvedUnquantified
  <2> QED BY <1>m, <1>l, <1>u, <1>r, <2>1, <2>2, <2>3 DEF Reserved, Results, Quantified
<1> QED BY <1>1, <1>2, <1>3 DEF MachineLabels

\* The two counts of the manifest are disjoint.
LEMMA OnceByIInv == IInv => CountedOnce
<1> SUFFICES ASSUME IInv, NEW id \in MachineIds(tests), id \in manual PROVE FALSE
  BY DEF CountedOnce
<1>1. prog \in Programs /\ Manifest
  BY DEF IInv, Idle
<1>2. PICK i \in Mapped(prog) : id[1] = i.name /\ id[2] \in MachineLabels(i, answers)
  BY <1>1, MachineIdsFrom DEF Manifest
<1>3. PICK j \in InScope(prog) : id \in {<<j.name, l>> : l \in ManualLabels(j, answers)}
  BY <1>1 DEF Manifest, ManualItems
<1>4. j.name = id[1] /\ id[2] \in ManualLabels(j, answers)
  BY <1>3
<1>5. i = j
  BY <1>1, <1>2, <1>4, UniqueLabels DEF Mapped
<1> QED BY <1>1, <1>2, <1>4, <1>5, LabelsDisjoint

\* Each id is counted once.
THEOREM AlwaysCountedOnce == Spec => []CountedOnce
BY Invariant, OnceByIInv, PTL

\* What a strict green says of the manifest: it left nothing to a human, and
\* every test passed.
LEMMA StrictGreen ==
    ASSUME IInv, mode = "strict", exit = "ok"
    PROVE  /\ Manifest /\ manual = {} /\ prog \in Programs
           /\ \A t \in tests : t.labels # {} => outcome[t] = Passed
<1>1. Reported /\ Written /\ prog \in Programs
  <2>1. Written /\ prog \in Programs
    BY DEF IInv, Idle
  <2>2. verdict \in {"pass", "pass-with-pending", "fail"}
    BY <2>1, VerdictRange DEF Written
  <2> QED BY <2>1, <2>2 DEF Reported
<1>2. manual = {}
  <2> SUFFICES ASSUME manual # {} PROVE FALSE
    OBVIOUS
  <2>1. verdict = "fail"
    BY <1>1 DEF Written, Verdict
  <2> QED BY <1>1, <2>1 DEF Written
<1>3. \A t \in tests : t.labels # {} => outcome[t] = Passed
  BY <1>1, RedByIInv DEF FailureTurnsRed
<1> QED BY <1>1, <1>2, <1>3, ReportedFacts

\* A test that checks a label and was generated upholds its clause.
LEMMA UpheldByTest ==
    ASSUME IInv, mode = "strict", exit = "ok",
           NEW i \in Mapped(prog), NEW t \in TestsOf(i, answers), t.intent = i.name,
           NEW c, c.label \in t.labels
    PROVE  Upheld(i, c)
<1>1. t \in tests
  BY StrictGreen DEF Manifest, Generated
<1>2. <<i.name, c.label>> \in Ids(t)
  BY DEF Ids
<1> QED BY <1>1, <1>2, StrictGreen DEF Upheld

\* A strict green skipped nothing.
LEMMA SkippedByIInv == IInv => NothingIsSkipped
<1> SUFFICES ASSUME IInv, mode = "strict", exit = "ok", NEW i \in InScope(prog),
                    ClausesOf(i) # {},
                    ~(~i.constructible /\ \A c \in Results(i) : c.kind = "invariant"),
                    ~(i.mapped /\ ~TakenIn(i))
             PROVE  /\ i.mapped
                    /\ \A c \in Results(i) : Upheld(i, c)
                    /\ \A c \in Requires(i) :
                          c.reject => Upheld(i, c) \/ answers[<<i.name, Violates(c)>>] = "unsat"
  BY DEF NothingIsSkipped
<1> DEFINE a == answers
<1>0. i \in Intent /\ prog \in Programs /\ a \in Solutions(prog)
  BY StrictGreen, ScopeType DEF Manifest
<1>1. ManualLabels(i, a) = {}
  <2> SUFFICES ASSUME NEW l \in ManualLabels(i, a) PROVE FALSE
    OBVIOUS
  <2>1. ManualItems(prog, a) = {}
    BY StrictGreen DEF Manifest
  <2>2. <<i.name, l>> \in {<<i.name, m>> : m \in ManualLabels(i, a)}
    OBVIOUS
  <2>3. <<i.name, l>> \in ManualItems(prog, a)
    BY <2>2 DEF ManualItems
  <2> QED BY <2>1, <2>3
<1>2. i.mapped /\ i \in Mapped(prog) /\ TakenIn(i)
  BY <1>1 DEF ManualLabels, Mapped
<1>3. ~Untold(i, a) /\ LeftByScenarios(i, a) = {}
  BY <1>1, <1>2 DEF ManualLabels
<1>4. ~Quantified(i) /\ \A q \in Queries(i) : ~WorthTelling(q, a[<<i.name, q>>])
  BY <1>3 DEF Untold
<1>5. Happy \in Queries(i) /\ \A c \in Requires(i) : Violates(c) \in Queries(i)
  BY <1>4 DEF Queries
<1>6. Happy \in ServedScenarios(i, a)
  BY <1>4, <1>5 DEF WorthTelling, Happy, ServedScenarios, Solved
<1>7. i.constructible
  <2> SUFFICES ASSUME ~i.constructible PROVE FALSE
    OBVIOUS
  <2>1. PICK c \in Results(i) : c.kind # "invariant"
    OBVIOUS
  <2>2. c \in Clause /\ c.kind # "require"
    BY <1>0, LabelType DEF Results
  <2>3. c.kind = "ensure"
    BY <2>1, <2>2 DEF Clause
  <2>4. c.label \in LeftByScenarios(i, a)
    BY <1>6, <2>3 DEF LeftByScenarios
  <2> QED BY <1>3, <2>4
<1>8. \A c \in Results(i) : Upheld(i, c)
  <2> TAKE c \in Results(i)
  <2>1. Checkable(c)
    <3> SUFFICES ASSUME ~Checkable(c) PROVE FALSE
      OBVIOUS
    <3>1. c.label \in LeftByScenarios(i, a)
      BY <1>6, <1>7 DEF LeftByScenarios
    <3> QED BY <1>3, <3>1
  <2>2. c.label \in Asserted(i)
    BY <2>1 DEF Asserted
  <2>3. Happy \in ServedTests(i, a)
    BY <1>6, <1>7, <2>2 DEF ServedTests
  <2>4. Test(i, Happy, Asserted(i)) \in TestsOf(i, a)
    BY <2>3 DEF TestsOf
  <2>5. Test(i, Happy, Asserted(i)).intent = i.name /\ Test(i, Happy, Asserted(i)).labels = Asserted(i)
    BY DEF Test
  <2> QED BY <1>2, <2>2, <2>4, <2>5, UpheldByTest
<1>9. ASSUME NEW c \in Requires(i), c.reject, a[<<i.name, Violates(c)>>] # "unsat" PROVE Upheld(i, c)
  <2>1. a[<<i.name, Violates(c)>>] \in Answer
    <3>1. <<i.name, Violates(c)>> \in Asked(prog)
      BY <1>2, <1>5 DEF Asked
    <3> QED BY <1>0, <3>1 DEF Solutions
  <2>2. a[<<i.name, Violates(c)>>] # "error"
    BY <1>2 DEF TakenIn
  <2>3. a[<<i.name, Violates(c)>>] # "unknown"
    BY <1>4, <1>5 DEF WorthTelling, Violates
  <2>4. c \in RejectScenarios(i, a)
    BY <1>5, <1>9, <2>1, <2>2, <2>3 DEF RejectScenarios, Solved, Answer
  <2>5. i.signals
    <3> SUFFICES ASSUME ~i.signals PROVE FALSE
      OBVIOUS
    <3>1. c.label \in LeftByScenarios(i, a)
      BY <1>7, <1>9, <2>4 DEF LeftByScenarios
    <3> QED BY <1>3, <3>1
  <2>6. Test(i, Violates(c), {c.label}) \in TestsOf(i, a)
    BY <1>7, <1>9, <2>4, <2>5 DEF TestsOf, RejectTests
  <2>7. Test(i, Violates(c), {c.label}).intent = i.name /\ Test(i, Violates(c), {c.label}).labels = {c.label}
    BY DEF Test
  <2> QED BY <1>2, <2>6, <2>7, UpheldByTest
<1> QED BY <1>2, <1>8, <1>9

\* The strict gate lets nothing through unseen.
THEOREM NothingEverSkipped == Spec => []NothingIsSkipped
BY Invariant, SkippedByIInv, PTL

-----------------------------------------------------------------------------
(* Goals: the counts of a goal are counts of finite sets. *)

LEMMA IntentIdsFinite ==
    ASSUME NEW i \in Intent
    PROVE  IsFiniteSet({<<i.name, c.label>> : c \in ClausesOf(i)})
<1> DEFINE T == {<<i.name, c.label>> : c \in ClausesOf(i)}
           f == [n \in DOMAIN i.clauses |-> <<i.name, i.clauses[n].label>>]
<1>1. DOMAIN i.clauses = 1..Len(i.clauses) /\ Len(i.clauses) \in Nat
  BY DEF Intent
<1>2. IsFiniteSet(DOMAIN i.clauses)
  BY <1>1, FS_Interval
<1>3. f \in Surjection(DOMAIN i.clauses, T)
  BY DEF Surjection, ClausesOf
<1> QED BY <1>2, <1>3, FS_Surjection

LEMMA GoalIdsFinite ==
    ASSUME NEW p \in Programs, NEW goal
    PROVE  IsFiniteSet(GoalIds(p, goal))
<1> DEFINE I == {j \in p.intents : j.name \in goal}
           f == [i \in I |-> {<<i.name, c.label>> : c \in ClausesOf(i)}]
           T == {{<<i.name, c.label>> : c \in ClausesOf(i)} : i \in I}
<1>1. I \subseteq Intent /\ IsFiniteSet(I)
  <2>1. p \in Program /\ IsFiniteSet(p.intents)
    BY ProgramsAssumption DEF WellFormed
  <2>2. I \in SUBSET p.intents
    OBVIOUS
  <2>3. p.intents \subseteq Intent
    BY <2>1 DEF Program
  <2>4. IsFiniteSet(I)
    BY <2>1, <2>2, FS_Subset
  <2> QED BY <2>2, <2>3, <2>4
<1>2. f \in Surjection(I, T)
  BY DEF Surjection
<1>3. IsFiniteSet(T)
  BY <1>1, <1>2, FS_Surjection
<1>4. \A X \in T : IsFiniteSet(X)
  BY <1>1, IntentIdsFinite
<1>5. IsFiniteSet(UNION T)
  BY <1>3, <1>4, FS_UNION
<1> QED BY <1>5 DEF GoalIds

LEMMA GoalByIInv == IInv => GoalIsEarned
<1> SUFFICES ASSUME IInv, Reported, ran, NEW goal \in prog.goals,
                    Cardinality(GoalPassed(prog, goal, manual, status))
                        = Cardinality(GoalTotal(prog, goal, manual, status)),
                    GoalPending(prog, goal, manual) = {},
                    NEW id \in GoalIds(prog, goal) \cap MachineIds(tests)
             PROVE  /\ \E t \in tests : id \in Ids(t) /\ outcome[t] = Passed
                    /\ \A t \in tests : id \in Ids(t) => outcome[t] # FailsAt(id[2])
  BY DEF GoalIsEarned
<1> DEFINE passed == GoalPassed(prog, goal, manual, status)
           total == GoalTotal(prog, goal, manual, status)
<1>1. DOMAIN status = MachineIds(tests)
  BY ReportedFacts DEF Written
<1>2. id \in total
  BY <1>1 DEF GoalPending, GoalTotal
<1>3. IsFiniteSet(total)
  <2>1. IsFiniteSet(GoalIds(prog, goal))
    BY GoalIdsFinite DEF IInv
  <2>2. total \in SUBSET GoalIds(prog, goal)
    BY DEF GoalTotal
  <2> QED BY <2>1, <2>2, FS_Subset
<1>4. passed \in SUBSET total
  BY DEF GoalPassed, GoalTotal
<1>5. passed = total
  <2> HIDE DEF passed, total
  <2>1. Cardinality(total) = Cardinality(passed)
    BY DEF passed, total
  <2> QED BY <1>3, <1>4, <2>1, FS_Subset
<1>6. status[id] = "passed"
  BY <1>2, <1>5 DEF GoalPassed
<1> QED BY <1>6, EarnedByIInv DEF PassIsEarned

\* A complete goal hides nothing that is blocked or violated.
THEOREM GoalAlwaysEarned == Spec => []GoalIsEarned
BY Invariant, GoalByIInv, PTL

=============================================================================
