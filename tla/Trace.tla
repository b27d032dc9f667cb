------------------------------- MODULE Trace -------------------------------
(***************************************************************************)
(* `intent trace`: parse_facts, referenced_fact_ids and audit of            *)
(* crates/intent-lang-cli/src/facts.rs and the gate of cmd_trace            *)
(* (crates/intent-lang-cli/src/main.rs).  A facts document is read line by  *)
(* line with one entry open at a time; an .intent file mentions facts in    *)
(* its comments; the audit compares the two.                                *)
(***************************************************************************)
EXTENDS Integers, Sequences, FiniteSets

CONSTANTS
    Part,         \* what stands between the dashes of an id
    Digits,       \* parts made of digits only
    Plain,        \* parts made of ASCII letters, digits and underscores
    Text,         \* values of a `status` field
    Documents,    \* facts documents, sequences of lines
    Sources       \* .intent files, sequences of lines: the ids written on each

Id == Seq(Part)
FactKind == {"BEH", "SUS", "UNK"}
FactStatus == {"draft", "confirmed", "rejected", "deferred", "unknown"}

\* A line without a field of the rigid subset, or with one that changes
\* nothing here, is "other".
Line == [key : {"fact_id"}, value : Id] \cup [key : {"status"}, value : Text] \cup [key : {"other"}]

\* F-<domain>-<BEH|SUS|UNK>-<digits>
FromId(id) == Len(id) = 4 /\ id[1] = "F" /\ id[3] \in FactKind /\ id[4] \in Digits
ParseStatusVerbatim(text) == text
ParseStatus(text) == IF text \in FactStatus THEN text ELSE "unknown"

\* A mention ends at the first character that cannot belong to an id.
Recognised(id) == FromId(id) /\ \A n \in DOMAIN id : id[n] \in Plain

ASSUME DocumentsAssumption ==
    /\ Documents \subseteq Seq(Line)
    /\ Sources \subseteq Seq(SUBSET Id)

VARIABLES
    document, source,
    found,            \* the facts document can be read
    stage,
    at,               \* line to be read next
    facts, current,   \* entries closed so far, the open one
    warnings,         \* lines warned about
    referenced,       \* ids mentioned so far
    report, exit

inputs == <<document, source, found>>
parseVars == <<facts, current, warnings>>
vars == <<inputs, stage, at, parseVars, referenced, report, exit>>

Fact == [id : Id, status : FactStatus, line : Nat \ {0}]
None == [line |-> 0]

Init ==
    /\ document \in Documents /\ source \in Sources /\ found \in BOOLEAN
    /\ stage = "open" /\ at = 1
    /\ facts = <<>> /\ current = None /\ warnings = {}
    /\ referenced = {}
    /\ report = <<>> /\ exit = "running"

Exit(code) == stage' = "exit" /\ exit' = code

Open ==
    /\ stage = "open"
    /\ IF found THEN stage' = "parse" /\ UNCHANGED exit ELSE Exit("fail")
    /\ UNCHANGED <<inputs, at, parseVars, referenced, report>>

-----------------------------------------------------------------------------
(* parse_facts *)

\* An entry whose status says nothing is passed over.
ClosedIfClear == IF current = None \/ current.status = "unknown" THEN facts ELSE Append(facts, current)

Closed == IF current = None THEN facts ELSE Append(facts, current)
Reading(key) == stage = "parse" /\ at \in DOMAIN document /\ document[at].key = key

OpenFact ==
    /\ Reading("fact_id") /\ FromId(document[at].value)
    /\ facts' = Closed
    /\ current' = [id |-> document[at].value, status |-> "unknown", line |-> at]
    /\ at' = at + 1
    /\ UNCHANGED <<inputs, stage, warnings, referenced, report, exit>>

\* The entry before a malformed fact_id stays open.
MalformedStaysOpen ==
    /\ Reading("fact_id") /\ ~FromId(document[at].value)
    /\ warnings' = warnings \cup {at}
    /\ at' = at + 1
    /\ UNCHANGED <<inputs, stage, facts, current, referenced, report, exit>>

Malformed ==
    /\ Reading("fact_id") /\ ~FromId(document[at].value)
    /\ facts' = Closed
    /\ current' = None
    /\ warnings' = warnings \cup {at}
    /\ at' = at + 1
    /\ UNCHANGED <<inputs, stage, referenced, report, exit>>

SetStatus ==
    /\ Reading("status") /\ current # None
    /\ current' = [current EXCEPT !.status = ParseStatus(document[at].value)]
    /\ at' = at + 1
    /\ UNCHANGED <<inputs, stage, facts, warnings, referenced, report, exit>>

\* Other lines, and fields outside any entry.
SkipLine ==
    /\ Reading("other") \/ (Reading("status") /\ current = None)
    /\ at' = at + 1
    /\ UNCHANGED <<inputs, stage, parseVars, referenced, report, exit>>

Unclear(fs) == {fs[n].line : n \in {m \in DOMAIN fs : fs[m].status = "unknown"}}

EndOfDocument ==
    /\ stage = "parse" /\ at > Len(document)
    /\ facts' = Closed
    /\ current' = None
    /\ warnings' = warnings \cup Unclear(facts')
    /\ stage' = "scan" /\ at' = 1
    /\ UNCHANGED <<inputs, referenced, report, exit>>

-----------------------------------------------------------------------------
(* referenced_fact_ids, audit and the gate *)

ScanLine ==
    /\ stage = "scan" /\ at \in DOMAIN source
    /\ referenced' = referenced \cup {id \in source[at] : Recognised(id)}
    /\ at' = at + 1
    /\ UNCHANGED <<inputs, stage, parseVars, report, exit>>

WithId(id) == {n \in DOMAIN facts : facts[n].id = id}
Earliest(id) == CHOOSE n \in WithId(id) : \A m \in WithId(id) : n <= m
Newest(S) == CHOOSE n \in S : \A m \in S : m <= n
\* by_id: of several entries with one id the map keeps the last.
Latest(id) == Newest(WithId(id))

CountIds(k) == Cardinality({id \in {facts[n].id : n \in DOMAIN facts} : id[3] = k})
Count(k) == Cardinality({n \in DOMAIN facts : facts[n].id[3] = k})

ConfirmedWithoutClause ==
    {n \in DOMAIN facts : facts[n].status = "confirmed" /\ facts[n].id \notin referenced}
UndecidedSuspicions ==
    {n \in DOMAIN facts : facts[n].id[3] \in {"SUS", "UNK"} /\ facts[n].status = "draft"}
DanglingReferences == {id \in referenced : WithId(id) = {}}
ReferencesNotConfirmed ==
    {id \in referenced \ DanglingReferences : facts[Latest(id)].status # "confirmed"}

Audit ==
    /\ stage = "scan" /\ at > Len(source)
    /\ report' = [parsed |-> [k \in FactKind |-> Count(k)],
                  withoutClause |-> ConfirmedWithoutClause, undecided |-> UndecidedSuspicions,
                  dangling |-> DanglingReferences, notConfirmed |-> ReferencesNotConfirmed]
    /\ Exit(IF /\ ConfirmedWithoutClause = {} /\ UndecidedSuspicions = {}
               /\ DanglingReferences = {} /\ ReferencesNotConfirmed = {}
            THEN "ok" ELSE "fail")
    /\ UNCHANGED <<inputs, at, parseVars, referenced>>

Next ==
    \/ Open \/ OpenFact \/ Malformed \/ SetStatus \/ SkipLine \/ EndOfDocument
    \/ ScanLine \/ Audit

Spec == Init /\ [][Next]_vars

-----------------------------------------------------------------------------
(* What the author wrote: an entry runs from its fact_id to the next one,    *)
(* and its last status line counts.                                          *)

Openers == {n \in DOMAIN document : document[n].key = "fact_id"}
Entries == {s \in Openers : FromId(document[s].value)}
StatusLines(s) ==
    {n \in DOMAIN document : /\ n > s /\ document[n].key = "status"
                              /\ \A o \in Openers : ~(s < o /\ o < n)}
StatusOf(s) ==
    IF StatusLines(s) = {} THEN "unknown"
    ELSE ParseStatus(document[Newest(StatusLines(s))].value)
Mentioned == {id \in UNION {source[n] : n \in DOMAIN source} : Recognised(id)}

\* The translation dropped nothing it had to carry, and carries nothing it had
\* to leave out; of several entries with one id the last decides.
Decides(s) == \A o \in Entries : document[o].value = document[s].value => o <= s
Faithful ==
    /\ \A s \in Entries : StatusOf(s) = "confirmed" => document[s].value \in Mentioned
    /\ \A s \in Entries : StatusOf(s) = "draft" => document[s].value[3] = "BEH"
    /\ \A id \in Mentioned : \E s \in Entries :
          document[s].value = id /\ Decides(s) /\ StatusOf(s) = "confirmed"

-----------------------------------------------------------------------------
(* Properties. *)

Parsed == stage = "scan" \/ report # <<>>

TypeOK ==
    /\ document \in Documents /\ source \in Sources /\ found \in BOOLEAN
    /\ stage \in {"open", "parse", "scan", "exit"}
    /\ at \in Nat \ {0}
    /\ facts \in Seq(Fact) /\ current \in Fact \cup {None}
    /\ warnings \subseteq Nat
    /\ referenced \subseteq Id
    /\ report # <<>> => stage = "exit"
    /\ exit \in {"running", "ok", "fail"} /\ (exit = "running" <=> stage # "exit")

\* No entry vanishes: each fact_id line is a fact, once, or a warning, and an
\* entry whose status means nothing is both (parse_facts, "a warning rather
\* than a silently skipped line").
NothingIsLost ==
    Parsed => /\ {facts[n].line : n \in DOMAIN facts} = Entries
              /\ \A m, n \in DOMAIN facts : m < n => facts[m].line < facts[n].line
              /\ warnings = (Openers \ Entries) \cup {s \in Entries : StatusOf(s) = "unknown"}

\* A fact has the id and the status of its own section, never those of an
\* entry before or after it, a malformed one included (parse_facts).
StatusIsOwn ==
    Parsed => \A n \in DOMAIN facts : /\ facts[n].id = document[facts[n].line].value
                                      /\ facts[n].status = StatusOf(facts[n].line)

\* The counts the report gives of itself are those of the document, so that a
\* human can tell a fact the parser missed from one the translation dropped
\* (facts.rs, "Why the parse count is reported").
CountIsTrue ==
    report # <<>> => \A k \in FactKind :
        report.parsed[k] = Cardinality({s \in Entries : document[s].value[3] = k})

\* The gate is green on the faithful translations and on nothing else (audit,
\* TraceReport::ok).
GateIsExact == report # <<>> => (exit = "ok" <=> Faithful)

=============================================================================
