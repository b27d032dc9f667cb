# Verification of intent-lang

intent-lang is a requirements language with a verifier: an `.intent` file declares operations
(`intent` with `require`, `ensure`, `invariant`, `modifies`), `safety` rules, `theorem`s, `example`s,
`goal`s and `@lifecycle` enums. `intent check` turns each declaration into queries for Z3 and exits with
0 or 1; `intent accept run` turns the same clauses into pytest tests against a real system, reads the
results back and exits with 0, 1 or 2; `intent trace` compares a file with the facts document it was written
from; `intent diff` and `intent impact` compare two revisions. Their exit codes and reports are meant to be a
CI gate, so the question this project asks everywhere is: **what may a reader conclude from green, and from
each line of the report?**

The modules are translated from the Rust sources under `src/crates/`. TLC checks them on small instances;
TLAPS proves the main results for every file, every state space, every behaviour of Z3, of pytest and of
the system under test. `PROJECT.json` maps every definition to its source lines.

## 1. The system

| component (source) | state | operations | interacts with |
|---|---|---|---|
| `intent check` (`cli/src/main.rs`, `cmd_check`) | result per condition, `all_ok`, structural verdict, exit code | front end, structural gate, loop over conditions, examples, exit | calls all of the following |
| verification conditions (`core/src/vcgen.rs`) | none (pure) | frame inference, invariant goals, conditions of intents, reject branches, theorems, safety rules in scope | produces the conditions the loop solves |
| SMT backend (`core/src/smt.rs`) | one solver per query, 5 s budget | `encode_vc`, `load_solver`, `run_z3`, `verify_vc` with its second, anti-vacuity query | Z3: may drop assertions, time out, fail |
| examples (`core/src/example.rs`) | status per example | `check_one`: one query per clause reading, then one for all | SMT backend |
| structure, machine (`syntax/src/structure.rs`) | search stack and marks | derive edges from clauses, conflicts, forward and backward search | read by the structural checks and the visualizer |
| structure, checks (`core/src/structure.rs`) | diagnostics | S0001-S0008, severity under `--strict` | `intent check` |
| type checker (`core/src/typeck.rs`) | environment | E0001-E0009, W00xx | front end of every command |
| parser, lexer, AST (`syntax/src`) | position, the stack of its calls, the tree so far | `parse_program`, declarations, clauses, examples, `parse_pratt` | everything |
| acceptance (`core/src/witness.rs`, `accept/src/*.rs`, `cmd_accept_run`) | manifest on disk, `junit.xml` on disk, report | solve witnesses, generate tests, run pytest, attribute failures, gate | Z3, pytest, the system under test, the file system |
| revisions (`core/src/analysis.rs`, `cmd_diff`, `cmd_impact`) | changes, summary, affected goals and coverages | index both files, classify, find what depends on a change | two files |
| fact audit (`cli/src/facts.rs`, `cmd_trace`) | facts, the open entry, warnings, ids mentioned, report | `parse_facts` line by line, `referenced_fact_ids`, `audit`, gate | a facts document, an `.intent` file |
| test specification, explain (`core/src/analysis.rs`) | none (pure) | render the declarations of one file | - |
| visualizer, other commands, skills, grammars | none | rendering | - |

What is hard here is not parallelism: each command is one sequential process. It is *external answers*
(Z3 drops a form it cannot parse and carries on; any query may time out), *partial failure* (a test that
crashes before it reaches a clause, a clause that cannot be rendered, a query that errs), *stale or shadowed
data* (names as keys, a `junit.xml` left by an earlier run, pre-state read for post-state), *vacuity* (a
contradiction proves everything) and the gap between *one call*, which Z3 sees, and a *run* of many calls
by several operations, which is what an invariant is for. The hazards, each at its line, are in
`PROJECT.json`; every one names the properties that would catch it, or says why none does.

What makes each part correct:

- conditions and verdicts: "verified", "failed" and "self-contradictory" are true of the condition, the
  condition says exactly what the intent means, green is not vacuous, every failure reaches the exit code;
- one call versus a run: what is checked per call holds along every run of a closed file;
- examples: "consistent" and "violates" agree with clauses and frame taken together;
- structure: the searches find exactly the unreachable and trapped states, and the gate closes on exactly
  the defects; what the machine says of an entity is true of its runs;
- acceptance: no clause is green that was not seen to hold, no failing test is lost, blame is precise,
  nothing in scope is silently skipped, nothing is counted twice;
- parser: trees have the precedences of the specification, exactly the sentences of the grammar are accepted,
  no token of an accepted file is dropped, and it ends on every input;
- fact audit: no entry of the document vanishes or takes another's status, the counts are true, the gate is
  green on exactly the faithful translations;
- revisions: the report does not depend on the order of a hash map, "nothing breaking" is safe for the callers,
  no goal and no coverage loses its support in silence.

## 2. Modules

```
 Vcgen ─┬─ Semantics ─┐                              Machine ─┬─ Structure ─ Structure_proofs
        ├─ Smt ───────┴─ Check ─(refines)─ Gate               └─ Entity ──── Entity_proofs
        │                  └─ World ─ Check_proofs
        └─ Revision ─ Revision_proofs             Tokens ─ Grammar ─ Parser ─┬─ MCParser
 Acceptance ─ Acceptance_proofs                                              └─ Parser_proofs ─ Language_proofs
 Trace ─ Trace_proofs
 Catalogue (data) ─ MCCheck, MCWorld, MCRevision     Shop (data) ─ MCStructure, MCEntity
 MCAcceptance     MCTrace
```

| module | models | state and actions |
|---|---|---|
| `Vcgen` | `vcgen.rs` | operators. A clause is a name `e` with its meaning `Rel[e]` (pairs of pre- and post-valuations) and the paths it reads and primes. `unprime_expr`, `prime_state`, negation and frame equalities are *forms* of an assertion whose meaning `Denotes` gives; locality (a clause depends only on the paths it mentions) is the one assumption |
| `Smt` | `smt.rs` | operators: query, what Z3 ingests of it, answers, the two halves of `verify_vc` |
| `Semantics` | what an intent means, with no mention of conditions | operators: `Permits`, `Rejects` with the frame as `SPEC.md` states it (`MayChange`), `Keeps`, `Realizes`, `Deserving`; `Delivers`, `TurnsAway`, `Illustrates` read every clause as it stands |
| `Check` | `cmd_check`, `check_examples` | every query to Z3 is a step of its own: `Parse CheckProgram CheckStructure SkipAsIs SkipUnsupported Prove CheckVacuity StartExamples CheckExample Finish` |
| `Gate` | abstract specification of `intent check` | a file is accepted only if it deserves it, may be refused for any reason, once |
| `World` | `intent check` composed with the system its file describes | the state of `Check`, whether the system is `live`, its entities' fields; `Command` (a step of `Check`), `Deploy` on a green exit, then `Execute(i)` and `Reject(i, c)` in any order, on any inputs |
| `Machine` | `syntax/src/structure.rs` | operators: edges, creations, conflicts, reachability defined without an algorithm |
| `Structure` | `core/src/structure.rs` and the two searches | `Derive Forward ForwardDone Backward BackwardDone Report`, one visited node per step, in any order (the source's stack order is one of them) |
| `Entity` | entities driven by the operations a machine was drawn from | `Call(n)` |
| `Acceptance` | `cmd_accept_run` and `accept/`, `witness.rs` | `CheckProgram LoadBinding Generate RunTests ReadEarlierRun PytestFails BuildReport` |
| `Tokens` | the tokens of the lexer, the table of precedences of `SPEC.md` 9 | operators: `Token`, `Level` |
| `Grammar` | the language, with no mention of parsing | operators: which spans of tokens are of which kind, as a recursive function over spans (`Derivable`); ambiguous on purpose; `IsFile` |
| `Parser` | `syntax/src/parser.rs` | the recursion on an explicit stack of frames, a tree as the set of its inner nodes. `Atom Call Unary Bracket After Quantify TypedVar` (prefix), `Field Prime Index` (postfix), `Operator`, `Close...`, `Then Else NextArgument` (an expression is complete, its caller goes on), `Declaration Clause Modifies Invariant Section Binding EndOfSection` and the refusals `No...` |
| `Trace` | `cmd_trace`, `facts.rs` | `Open OpenFact Malformed SetStatus SkipLine EndOfDocument ScanLine Audit`: one line of either file per step |
| `Revision` | `cmd_diff`, `cmd_impact`; `index_decls`, `classify`, `diff`, `impact`, `coverage_report` | `Parse Added Modified Unchanged TurnToOld Removed TurnToImpact LookAtGoal LookAtCoverage PassOver Finish`: one key of an index per step, in any order (both indices are hash maps) |

History variables, with no counterpart in the code: `undecided` (Check) remembers which vacuity queries timed
out; `ran` (Acceptance) whether this run's pytest wrote the results. External parts, modelled by how the code
uses them: Z3 (`SolverCheck`, `Parsed`), pytest (`Outcomes`). Z3's answers are sound: sat and unsat are true
of the assertions it kept.

Data is abstracted to what the properties tell apart. Clauses are relations, not syntax; in `Machine` a clause
keeps only its equalities `path == Variant` and whether `&&` or `||` joins them; in `Acceptance` a clause
keeps its kind, its label and the flags that decide its fate (rejects, has a closed comparison, is quantified,
can be rendered); in `Revision` the text of a clause is its name, and "contains the text of a value" is the
relation `Occurs`; in `Trace` an id is the sequence of its dash-separated parts, and a line is its field; in `Parser` a
token is its text (a comma and braces are spelled out), one name stands for all names that behave alike, the head of a declaration up to its brace
is one token, and a type is a name. Type errors other than E0007 and E0008, and the structural findings as seen by `Check`, are
flags of the file.

## 3. What is checked

No counter in the models is unbounded; the bounds are the sizes of the instances.

| run | instance | shows |
|---|---|---|
| `check` | 56 files x 4 flag pairs, two values per field, up to three declarations; 6,924 states | `TypeOK`; `VerdictsAreTrue`; `GreenIsNotVacuous`; `ExamplesTellTruth`; `RejectBranchNeverFails`; `RefusedForAReason`; `ImplementsGate` (refinement); `BoundedWork`, `Terminates` |
| `world` | 144 files: pairs of nine intents, four sets of safety rules; the whole command on each, with every answer of Z3, then all 16 states of three fields and an input; 70,700 states | `InvariantsHold`, `TwoStateClaimsHold` |
| `structure` | all 256 files made of eight operations, both flags, two lifecycles; 48,392 states | `FindingsAreExact`, `GateIsExact`, `Terminates` |
| `entity` | all files of eight operations, one of them with an explicit `modifies`, and two files with `modifies *`; three paths of two lifecycles; 3,975 states | `UnreachableIsNeverEntered`, `TrappedStaysTrapped` |
| `parser` | 24,519 token sequences: all of up to three of eleven tokens and four of seven after `theorem {`, two- and three-operator expressions over all levels and all forms of operands, bodies of up to two clauses or sections, each with one token left out or cut short; 320,490 states | `TreesFollowTheTable`, `AcceptsTheGrammar`, `EveryTokenCounts`, `BoundedWork`, `Terminates` |
| `trace` | all documents of up to three lines, longer ones of whole entries, three `.intent` files; 36,954 states | `NothingIsLost`, `StatusIsOwn`, `CountIsTrue`, `GateIsExact` |
| `revision` | all pairs of 100 versions of one intent; all pairs of files made of six cores and three sets of goals and coverages; every order of both indices; 90,912 states | `ReportIsExact`, `QuietMeansCompatible`, `LostWitnessIsReported`, `GoalImpactIsExact` |
| `accept` | a file with one or two intents, every flag of clauses and binding, every answer of Z3, every outcome of the tests; 39,100 states | `PassIsEarned`, `BlameIsPrecise`, `FailureTurnsRed`, `CountedOnce`, `NothingIsSkipped`, `GoalIsEarned` |

Every property of these runs is broken by a plausible bug in the code it is about (`mutants`).

Why the instances are large enough: in `check` they contain each kind of clause, frame and declaration, a
satisfied, violated, vacuous and unparsable version of each, two-state invariants with and without room for rest, safety rules in and out of
scope, examples of every outcome (one whose clauses agree singly and fail together), `@asis` beside primary intents, duplicated names and front-end failures;
every verdict and every exit path is reached. Two values suffice because the
clauses only compare; in `world` an induction step is one call, all starting states are initial, and two
intents are enough for one to break the other's claim. `structure` and `entity` contain cycles, case splits,
creations, disguised creations, disjunctions, conflicting targets and states whose only way out crosses another
lifecycle. In `accept` failures, crashes and missing results can meet in every combination of up to four tests. In
`parser` precedence is a matter of two neighbouring operators, and every pair of levels occurs on both sides of
every form of operand; the near misses put a wrong token, or the end of the file, at every place of a body. In `trace` an entry can be followed by a malformed, a
duplicated and an unfinished one, before and after its status; in `revision` requires, ensures,
invariants and `modifies` change separately and together, declarations appear, vanish and share a name with
one of another kind, and coverages keep, lose and regain witnesses.
All of it but liveness (`Terminates`) is proved without these bounds as well.

Fairness. `Check`, `Structure` and `Parser` assume weak fairness of the whole next-state relation, and nothing else:
the commands are sequential code with no blocking call except Z3, and `run_z3` and `run_z3_sat` set a five-second
limit after which the answer is "unknown". `Terminates` then says that no combination of time-outs and errors
keeps the loop in place, and that the graph searches end although their stacks grow, and that no loop of the parser waits for a brace that
never comes. The other specifications
state no fairness and claim no liveness: pytest may run for ever and the code has no time-out for it.

Deadlock checking is off in every configuration: each command ends, and an entity or a world may have no
permitted call left.

### Promises under conditions

Some properties hold only with a condition that the code does not enforce. They are named in the models:

- `UniqueNames` (Check): the `@asis` exclusion set holds names, so of two intents with one name both are
  skipped. Duplicate declarations are not refused.
- `undecided`: a vacuity query that times out leaves "verified" (`smt.rs:670`), by design; `SPEC.md:433` lists
  "unknown", which is not a pass, as an outcome of its own.
- `Answered` (Check): a file without fault can still be refused because a query timed out or erred;
  `RefusedForAReason` is about runs in which every query was answered.
- `NoClaimForbidsRest`, `NoAsIsRejects` (Check): `RefusedForAReason` is false of a file with a two-state claim that no
  step may rest on, or with a reject branch of an `@asis` intent that was not asked for. These are the findings
  `check_contradiction` and `check_asis`; such files are in the instance, and without either condition TLC finds one
  of them refused without a fault. A structural finding that comes alone is taken at its word, although
  `entity_defects` shows two that are wrong.
- `Closed` (World): names are unique (`UniqueNames`) and every claim is guarded; a claim is guarded if every intent that shares an entity with it proves it. The code
  verifies each intent only against its own invariants and the safety rules in scope, so an invariant of one
  intent is not an invariant of the system when another touches the same entity.
- `Disciplined` (Entity): every called intent decides where each path of its frame goes. Otherwise the machine
  misses transitions; it is drawn without a look at `modifies`, so a path that an explicit `modifies` or `*` leaves
  open and no ensure speaks of makes a file undisciplined.
- `PrefixFree` (Acceptance): a failure is attributed by searching its message for the text `clause I/l`
  (`report.rs:215`), so a failure of `debit_total` is charged to `debit` of the same test too, although the
  comment above (`report.rs:207`) says "Attribute precisely".
- `SectionsOnce` (Parser): a second `given` or `expect` of an example replaces the first (`parser.rs:686`), and
  what the first said is checked by nobody.
- `DistinctKeys` (Revision): of two declarations of one kind and name only the later one is compared.
- `SameShape`, `SameInvariants` (Revision): parameters and `modifies` have no place in the index, and
  `classify` never reads the invariants it holds. So a change that drops an invariant and adds an ensure is
  "loosened" and not breaking, although the comment (`analysis.rs:661`) asks that "ensures/invariants
  stayed/strengthened".
- `LostWitnessIsReported` (Revision) is about clauses of intents: `impact` never looks up a removed safety rule or
  theorem.
- `Recognised` (Trace): an id is mentioned if the scanner finds it. A domain with a dot or a non-ASCII letter
  is legal in a document and never found in a comment (`facts.rs:240`); the gate then errs on the red side. A
  draft behaviour and a misspelt status only warn, and leave the gate green.
- `TakenIn`, and intents with only invariants and unbuildable entities (Acceptance): two cases where the
  manifest drops a clause without a manual item (`codegen.rs:397`, `codegen.rs:591`).
- `ran` (Acceptance): `junit.xml` of an earlier run is not removed before pytest starts.

## 4. Findings

Each is a run that TLC finds violated, of a sentence quoted from the repository.

| run | what happens |
|---|---|
| `check_asis` | the reject branch of an `@asis` intent is verified, and can fail the file: the exclusion set holds the intent's name, the branch has another |
| `check_contradiction` | a two-state invariant is assumed with its primes removed (`x' > x` becomes `x > x`), so a satisfiable intent is reported self-contradictory |
| `entity_defects` | an operation that moves two entities of one lifecycle, which can be executed, is a hard error S0007, because targets are compared per enum and not per path; and `s' == A \|\| s' == B` gives no edge, so a state that calls do enter is a hard error S0004 |
| `accept_contradiction` | `accept_generate` never verifies, so an intent with V0020 can be accepted |

Noticed while reading, not stated as runs:

- `report.rs:235-240` says of a blocked clause that "earlier assertions failed in every scenario"; it may
  have been evaluated and have held before another assertion failed.
- `I/frame` and `I/witness` are ids the generator uses itself; an author can write these labels too.
- Of two intents with one name, one `@asis`, the acceptance generator mixes clause ids and witnesses.
- `safety_applies_to` (`vcgen.rs:311`) matches parameters by name and type, so a rule over `a: Account` is not
  applied to an intent over `from: Account`.
- Two different paths can flatten to one SMT symbol (`smt.rs:165`): `a.b_c` and `a_b.c`.
- `analysis.rs` compares intents without parameters, `modifies` and `else reject`, and does not index functions
  and axioms: `intent diff` reports a change of these as no change. A mere reordering of clauses is "reshaped" and
  breaking.
- `ast.rs:126` says that without a `modifies` the frame is inferred from the primes of ensures and invariants;
  `intent_frame` takes those of the ensures only, as `SPEC.md` 3 says and the models do.
- `SPEC.md` 9 gives comparisons no associativity; `a == b == c` is accepted as `(a == b) == c`.
- `facts.rs:317` says an unreviewed behaviour "is visible as a 'confirmed but no clause' absence"; a draft that
  nobody mentions is visible nowhere in the report but in a count.

## 5. What is proved

TLAPS checks every leaf; no fact is assumed beyond the named `ASSUME`s on the constants, which TLC evaluates.

**Conditions** (`Check_proofs`, first part). `IntentVcExact` and `RejectVcExact`: the condition generated for an intent
(for a reject branch) is valid *if and only if* every permitted (rejected) call keeps the intent's
obligations. The ingredients are `PathAssumption` and the types of the clauses: frames, rewritings and goals are unfolded through
`Denotes`.

**The command** (`Check_proofs`). `IInv` consists of the type, of two of the properties (`VerdictsAreTrue`,
`ExamplesTellTruth`) and of what carries them from one query to the next: a
condition is recorded once (`PendingMeansUnrecorded`), between the two queries of `verify_vc` the condition is
already known to be valid (`AwaitsVacuity`), `allOk` is true only over harmless results
(`AllOkMeansHarmless`), an example without a status still has its combined query ahead (`ExampleAhead`).
`VerdictsAreTrue` alone is not inductive, because a verdict of "verified" is written in `CheckVacuity` on the
strength of a query made by `Prove`. From `IInv` follow `GreenIsNeverVacuous` and `Implements`: the exit
code refines `Gate`, whose `Deserving` is stated with `Semantics` only. The step from "all conditions of primary
intents are verified" to `Deserving` is `IntentVcExact`. `RejectBranchesNeverFail` needs
`LocalityAssumption` as well: a rejection freezes the fields, so before and after agree on everything an
obligation mentions.

The converse of a green exit, `RefusalsHaveReasons`: with every query answered and the two cases of section 3 set
aside, a file that parses, type-checks and has more than a structural finding against it is refused only if its
clauses as they stand are at fault. Its right-hand side, `Blameless`, shares nothing with the generated conditions: what a
call may change is read off the clauses (`MayChange`, not `IntentFrame`), an invariant with primes relates two states and is
never read without them, and only intents in force or asked for are judged. `FrameIsTheAuthors` shows that
`intent_frame` with the frame equalities leaves open exactly what `MayChange` does, and `AssumedIsMet` is the one place
where the removed primes matter: where no claim forbids rest, they add nothing to what has to hold before a call. The
recorded verdicts are true, so a failed condition exhibits a call that breaks an obligation, and a contradiction the
absence of any call. Together the two directions say that the exit code is right up to time-outs and the findings of
section 4.

`WorkIsBounded`: every step of the command leaves less to do, a query that times out included, so a file with c conditions
and q example queries takes at most 2c + q + 6 steps. The measure is a sum of cardinalities; that the conditions and
queries of a file are finitely many is a lemma (`FiniteRows`).

**Runs** (`Check_proofs`, last part). The system is the command followed by the runs of the accepted file, so nothing is assumed about
the file: `SystemRunsCheck` shows that the command is not disturbed by being a part of it, and `IInv`
then gives what a green exit means. `WorldInv` adds that the system is live only after a green exit and that
claims hold in the current state. `Execute` keeps a claim by the validity of the intent's condition if the intent
touches its entities, and by locality if it does not; `Reject` by the reject condition. The two-state claims
follow on every step.

**Structure** (`Structure_proofs`, `Entity_proofs`). The invariant of a search is that start and marks lie in
the reachable set and that every successor of a marked node is marked or on the stack; on an empty stack
the marks are closed, hence exactly the reachable set. `Levels` carries the defects found so far across
lifecycles to `GateAlwaysExact`. For entities, one call of a disciplined intent follows an edge of the
machine (`StepFollowsMachine`); the rest is an induction along the run.

**Acceptance** (`Acceptance_proofs`). The invariant says, phase by phase, that manifest, results and report are
the functions of the answers and outcomes they were computed from. The work is in
what these functions do together: `OwnIdBlamed` and `SomethingBlamed` for the attribution, `LabelsDisjoint`
(asserted labels and labels left to a human are disjoint, which uses the uniqueness of labels and what
`emit_asserts` returns) for `CountedOnce`, and a case analysis over unmapped, quantified, unbuildable,
unrenderable and unsolved clauses for `NothingEverSkipped`.

Goals are rolled up by counting; `GoalAlwaysEarned` uses that of two finite sets, one within the other, equal counts
make equal sets, so that every clause of a complete goal has passed.

**The fact audit** (`Trace_proofs`). The invariant says what has been read so far: the facts and the open entry
are the well-formed openers before `at`, in order, each with the status of its own section up to `at`, and the
warnings are the rest. At the end of the document it becomes `NothingEverLost` and `StatusAlwaysOwn`; the
counts follow by a bijection between facts and entries, and `GateAlwaysExact` by reading the four lists of the audit
back in terms of the document.

**Revisions** (`Revision_proofs`). The invariant says that `changes` is the report of the keys visited so far,
that each counter is the cardinality of its part of it, and that the results of `impact` are those of the
declarations before `at`; so the order of the hash maps does not matter. `QuietIsCompatible` then needs no
induction: nothing breaking means that every old intent is unchanged or loosened, and a loosened one with the same
parameters, frame and invariants accepts more and permits less.

**The parser** (`Parser_proofs`). Three invariants, each used by the next, for files of any length and expressions of any
depth. The recursion of the source is the stack of the model, so what a recursive call may rely on is what a frame may rely
on.

- `Control`: the frames are in the order in which the functions call each other (`StandsOn`), the declaration is at
  the bottom, a frame's token and left end lie before the position (`FrameOK`), the minimum binding power is the
  one the frame on top asked for, and `doing` goes with that frame. `TypeCorrect` says that no return finds the wrong
  caller or none at all; `TypeOK` alone is not inductive, because a return says nothing of the frame below.
- `Trees`: every node has operands that bind as the table says (`TreeOK`), a frame of an operator knows this of the
  operand on its left before the node exists (`LeftOK`), the expression read last is whole and its top operator is at least
  as strong as the power it was read with (`ReadOK`), and what follows a sign, an `if` or a quantifier is no
  operator they should have taken in (`Ends`). `BindsLess` and `BindsMore` translate the fourteen binding powers of
  `infix_binding_power` into the levels of `SPEC.md` 9. A node that is finished never changes, because later ones
  begin before it or end after it (`Beyond`).
- `Coverage`: every token before the position is accounted for, by a part that is complete or by one of the calls that wait
  for one (`AllAccounted`, `Marks`); complete parts end before the open one begins (`PartsApart`); and as long as
  no example repeats a section, the parts of the open example have other names than the section that
  ends (`SectionsSeen`: no head of a declaration lies between them, so `SectionsOnce` applies), hence none is replaced. At the
  end of the file no call is open and the position is past the last token (`AtEnd`).

`WorkIsBounded`: a step reads a token, returns to a caller or ends the loop of postfix forms, so n tokens take at most
4n + 1 steps, in any file, legal or not.

**The language** (`Language_proofs`). `AcceptsExactlyTheGrammar`: for every sequence of tokens, the parser ends in "ok" if and only
if the grammar derives the sequence. The grammar is a recursive function over spans; that it satisfies its own
equation (`Unfold`) and every induction over derivations goes through the least counterexample (`Least`: a nonempty
set of naturals has a least member, from the well-foundedness of `<`), because the induction theorems of the library,
which take an operator, cannot be instantiated.

- Nothing else is accepted. `Sound` says what the calls on the stack have read: if the operand or part a call waits for
  is derivable, so is everything the call has read with it (`ReadSoFar`, `Leads`). At the end of the file that is the
  file.
- Nothing is refused. `OnItsWay` says that as long as a derivation of the file exists there is a plan: one end for
  every call on the stack, so that the tokens from here to the end of the top call are derivable (`Ahead`) and those
  after it bring each caller to its own end (`EndsAt`). Every step leaves such a plan, not necessarily the one it
  started with. The plan does not say how operators nest: an expression is a chain of operands and of what goes on after
  them (`IsChain`; `Flatten` turns derivations into chains), so the binding powers, which decide when a call ends,
  do not decide what is legal. Where an `else` continues an `if` or begins `else reject`, or where a comma may
  continue a list of variables, what can follow an expression (`Follow`) tells the cases apart by the tokens the source
  looks at. That an intent has one `modifies` is a condition on the whole body, carried by `OneModifies`.

**Only model-checked**: `Terminates` of `Check`, `Structure` and `Parser` (liveness under fairness is out of the prover's
reach; for `Check` and `Parser` `BoundedWork` is proved, and what is left to TLC is that a step can be taken until the
end); and the four findings, which are counterexamples.

## 6. Not modelled

- The lexer (an integer beyond 64 bits is an unexpected character), generic and qualified types, annotations, and
  the declarations without clauses (import, type, enum, function, goal, coverage): straight-line reading of a
  fixed form.
- Rendering, JSON, the visualizer: sequential, no state, no promise about what is verified.
- The text of the SMT encoding and of the generated Python; the values in a witness.
- Type checking, except for the rules the verifier relies on (E0003 as `Scoped`, E0006, E0007, E0008).
- Aliasing: two parameters of one call are two entities in `World` and in `vcgen.rs`; a real call may pass one
  twice.
- The order of the assertions inside a test: `Outcomes` fixes which one fails, not which were evaluated before.
- Of the analyses, the test specification and `explain` (they render one file), the detail lines of a change and
  the listing of a coverage's witnesses.

## 7. Plan

Done, in this order: Vcgen, Semantics, Smt, Check, Gate, World, Machine, Structure, Entity, Acceptance, Trace,
Revision, their proofs, Parser with its proofs, `World` as a composition with `Check`, the language of the parser
and the bounds on its work and that of `Check`.

Open:

1. `Rewrite`: `unprime_expr`, `prime_state` and quantifier shadowing on real syntax trees, checked against
   `Denotes` over all small trees (recursive, so TLC only), and the flattening of names.
2. `World` with aliased parameters, and entities shared under different parameter names.
3. `Acceptance`: assertion order inside a test and the meaning of "blocked"; a confirmed manual item; two runs in
   one directory.
