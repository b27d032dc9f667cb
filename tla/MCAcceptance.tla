---------------------------- MODULE MCAcceptance ----------------------------
(* Files and bindings for Acceptance: one intent with every flag of its      *)
(* clauses and of its binding, alone and beside another one.                 *)
EXTENDS Acceptance

MCName == {"Transfer", "Audit"}
MCLabel == {"funds", "debit", "debit_total", "sum", "example[0]", "frame", "witness"}
MCWithin == {<<l, l>> : l \in MCLabel} \cup {<<"debit", "debit_total">>}

Plain(label, kind) == [label |-> label, kind |-> kind, reject |-> FALSE, closed |-> FALSE,
                       quantified |-> FALSE, readable |-> TRUE]
Funds == [Plain("funds", "require") EXCEPT !.reject = TRUE]
Debit == Plain("debit", "ensure")
Total == Plain("debit_total", "ensure")
Sum == Plain("sum", "invariant")

Bound(name, clauses, examples) ==
    [name |-> name, asis |-> FALSE, satisfiable |-> TRUE, contradictory |-> FALSE,
     mapped |-> TRUE, constructible |-> TRUE, signals |-> TRUE, framed |-> FALSE,
     clauses |-> clauses, examples |-> examples]

Shown == [label |-> "example[0]", readable |-> TRUE]

Transfer == Bound("Transfer", <<Funds, Debit>>, <<Shown>>)
Audit == Bound("Audit", <<Sum>>, <<>>)

Transfers ==
    {[Transfer EXCEPT !.mapped = m, !.constructible = k, !.signals = s, !.framed = f] :
        m, k, s, f \in BOOLEAN}
    \cup {[Transfer EXCEPT !.clauses = <<[Funds EXCEPT !.closed = TRUE], Debit>>, !.examples = <<>>],
          [Transfer EXCEPT !.clauses = <<[Funds EXCEPT !.reject = FALSE], Debit>>, !.constructible = FALSE],
          [Transfer EXCEPT !.clauses = <<Funds, [Debit EXCEPT !.readable = FALSE], Sum>>],
          [Transfer EXCEPT !.clauses = <<Funds, Debit, [Sum EXCEPT !.quantified = TRUE]>>],
          [Transfer EXCEPT !.clauses = <<[Funds EXCEPT !.quantified = TRUE], Debit>>],
          [Transfer EXCEPT !.examples = <<[Shown EXCEPT !.readable = FALSE]>>],
          [Transfer EXCEPT !.asis = TRUE],
          [Transfer EXCEPT !.satisfiable = FALSE, !.contradictory = TRUE],
          [Transfer EXCEPT !.clauses = <<Funds, Debit, Total, Sum>>, !.framed = TRUE, !.examples = <<>>]}

Audits == {Audit, [Audit EXCEPT !.constructible = FALSE], [Audit EXCEPT !.contradictory = TRUE]}

File(intents, goals) == [typechecks |-> TRUE, binds |-> TRUE, intents |-> intents, goals |-> goals]

MCPrograms ==
    {File({t}, {{"Transfer"}}) : t \in Transfers}
    \cup {File({t, a}, {{"Transfer"}, {"Transfer", "Audit"}}) : t \in {Transfer, [Transfer EXCEPT !.mapped = FALSE]}, a \in Audits}
    \cup {[File({Transfer}, {}) EXCEPT !.typechecks = FALSE], [File({Transfer}, {}) EXCEPT !.binds = FALSE]}

=============================================================================
