---------------------------- MODULE Trace_proofs ----------------------------
(***************************************************************************)
(* The audit reads what is written and its gate is exact, for every facts   *)
(* document, every .intent file and every vocabulary of ids.                *)
(***************************************************************************)
EXTENDS Trace, FiniteSetTheorems, TLAPS

-----------------------------------------------------------------------------
(* Reading: what is known of the facts after the lines before k. *)

\* v is the status of entry s as far as the lines before k tell.
LinesBelow(s, k) == {n \in StatusLines(s) : n < k}
StatusSoFar(s, k, v) ==
    \/ LinesBelow(s, k) = {} /\ v = "unknown"
    \/ \E n \in LinesBelow(s, k) :
          v = ParseStatus(document[n].value) /\ \A m \in LinesBelow(s, k) : m <= n

Final(fs, k) ==
    \A n \in DOMAIN fs : /\ fs[n].line \in Entries /\ fs[n].line < k
                         /\ fs[n].id = document[fs[n].line].value
                         /\ fs[n].status = StatusOf(fs[n].line)
Sorted(fs) == \A m, n \in DOMAIN fs : m < n => fs[m].line < fs[n].line
HasLatest(fs) ==
    \A n \in DOMAIN fs : \E m \in DOMAIN fs :
        fs[m].id = fs[n].id /\ \A j \in DOMAIN fs : fs[j].id = fs[n].id => j <= m
Covers(fs, k) == \A s \in Entries : s < k => \E n \in DOMAIN fs : fs[n].line = s

Read(fs, k) == fs \in Seq(Fact) /\ Final(fs, k) /\ Sorted(fs) /\ HasLatest(fs)

\* The open entry reaches up to line k.
OpenAt(k) ==
    /\ current.line \in Entries /\ current.line < k
    /\ current.id = document[current.line].value
    /\ StatusSoFar(current.line, k, current.status)
    /\ \A o \in Openers : ~(current.line < o /\ o < k)
    /\ \A n \in DOMAIN facts : facts[n].line < current.line

Parsing ==
    /\ Read(facts, at)
    /\ current \in Fact \cup {None}
    /\ current # None => OpenAt(at)
    /\ \A s \in Entries : s < at =>
          (current # None /\ current.line = s) \/ \E n \in DOMAIN facts : facts[n].line = s
    /\ warnings = {o \in Openers \ Entries : o < at}

Complete ==
    /\ Read(facts, Len(document) + 1) /\ Covers(facts, Len(document) + 1)
    /\ current = None
    /\ warnings = (Openers \ Entries) \cup {s \in Entries : StatusOf(s) = "unknown"}

Scanned == referenced = {id \in UNION {source[n] : n \in {m \in DOMAIN source : m < at}} : Recognised(id)}

Reported ==
    /\ Complete /\ Scanned /\ at > Len(source)
    /\ report.parsed = [k \in FactKind |-> Count(k)]
    /\ exit = "ok" <=> /\ ConfirmedWithoutClause = {} /\ UndecidedSuspicions = {}
                       /\ DanglingReferences = {} /\ ReferencesNotConfirmed = {}

IInv ==
    /\ TypeOK
    /\ stage \in {"open", "parse"} => referenced = {} /\ report = <<>>
    /\ stage = "open" => at = 1 /\ facts = <<>> /\ current = None /\ warnings = {}
    /\ stage = "parse" => at <= Len(document) + 1 /\ Parsing
    /\ stage = "scan" => report = <<>> /\ Complete /\ Scanned
    /\ report # <<>> => Reported

-----------------------------------------------------------------------------
(* Lines, entries and sections. *)

LEMMA Inputs ==
    ASSUME TypeOK
    PROVE  /\ document \in Seq(Line) /\ source \in Seq(SUBSET Id)
           /\ Len(document) \in Nat /\ DOMAIN document = 1..Len(document)
           /\ Openers \subseteq 1..Len(document) /\ Entries \subseteq Openers
           /\ \A o \in Openers : document[o].value \in Id
           /\ \A s \in Entries : FromId(document[s].value)
<1>1. document \in Seq(Line) /\ source \in Seq(SUBSET Id)
      BY DocumentsAssumption DEF TypeOK
<1>2. \A n \in DOMAIN document : document[n] \in Line
      BY <1>1
<1>3. ASSUME NEW o \in Openers
      PROVE  document[o].value \in Id
  <2>1. document[o] \in Line /\ document[o].key = "fact_id"
        BY <1>2 DEF Openers
  <2> QED BY <2>1 DEF Line
<1> QED BY <1>1, <1>3 DEF Openers, Entries

LEMMA StatusType == \A t : ParseStatus(t) \in FactStatus
BY DEF ParseStatus, FactStatus

LEMMA NewestIs ==
    ASSUME NEW S \in SUBSET Nat, NEW n \in S, \A m \in S : m <= n
    PROVE  Newest(S) = n
<1>1. \A x \in S : (\A m \in S : m <= x) => x = n
      OBVIOUS
<1> QED BY <1>1 DEF Newest

LEMMA UnclearType == ASSUME NEW fs \in Seq(Fact) PROVE Unclear(fs) \subseteq Nat
<1>1. ASSUME NEW n \in DOMAIN fs
      PROVE  fs[n].line \in Nat
  <2>1. fs[n] \in Fact
        OBVIOUS
  <2> QED BY <2>1 DEF Fact
<1> QED BY <1>1 DEF Unclear

\* The document does not change, nor does what is written in it.
LEMMA Frame ==
    ASSUME UNCHANGED inputs
    PROVE  /\ document' = document /\ source' = source /\ found' = found
           /\ Openers' = Openers /\ Entries' = Entries
           /\ \A s : StatusLines(s)' = StatusLines(s) /\ StatusOf(s)' = StatusOf(s)
           /\ \A s, k, v : StatusSoFar(s, k, v)' <=> StatusSoFar(s, k, v)
BY DEF inputs, Openers, Entries, StatusLines, StatusOf, StatusSoFar, LinesBelow

\* At the end of its section what is known of a status is the status.
LEMMA SectionEnds ==
    ASSUME TypeOK, NEW s \in Nat, NEW k \in Nat, NEW v,
           s < k, k \in Openers \/ k > Len(document),
           StatusSoFar(s, k, v)
    PROVE  v = StatusOf(s)
<1>1. LinesBelow(s, k) = StatusLines(s)
  <2>1. StatusLines(s) \subseteq DOMAIN document /\ DOMAIN document = 1..Len(document)
        BY Inputs DEF StatusLines
  <2>2. ASSUME NEW n \in StatusLines(s)
        PROVE  n < k
    <3>1. CASE k > Len(document)
          BY <3>1, <2>1, Inputs
    <3>2. CASE k \in Openers
      <4>1. document[n].key = "status" /\ ~(s < k /\ k < n)
            BY <3>2 DEF StatusLines
      <4>2. document[k].key = "fact_id"
            BY <3>2 DEF Openers
      <4>3. n # k
            BY <4>1, <4>2
      <4> QED BY <4>1, <4>3, <2>1, Inputs
    <3> QED BY <3>1, <3>2
  <2> QED BY <2>2 DEF LinesBelow
<1>2. CASE StatusLines(s) = {}
      BY <1>1, <1>2 DEF StatusSoFar, StatusOf
<1>3. CASE StatusLines(s) # {}
  <2>1. PICK n \in StatusLines(s) :
            v = ParseStatus(document[n].value) /\ \A m \in StatusLines(s) : m <= n
        BY <1>1, <1>3 DEF StatusSoFar
  <2>2. StatusLines(s) \subseteq Nat
        BY Inputs DEF StatusLines
  <2>3. Newest(StatusLines(s)) = n
        BY <2>1, <2>2, NewestIs
  <2> QED BY <2>1, <2>3, <1>3 DEF StatusOf
<1> QED BY <1>2, <1>3

\* Closing the open entry at an opener or at the end of the document.
LEMMA Closing ==
    ASSUME TypeOK, Parsing, at \in Openers \/ at > Len(document)
    PROVE  Read(Closed, at) /\ Covers(Closed, at)
<1>1. CASE current = None
      BY <1>1 DEF Parsing, Closed, Covers
<1>2. CASE current # None
  <2> DEFINE fs == Append(facts, current)
             L == Len(facts)
  <2>1. /\ facts \in Seq(Fact) /\ current \in Fact /\ Closed = fs
        /\ Final(facts, at) /\ Sorted(facts) /\ HasLatest(facts) /\ OpenAt(at)
        BY <1>2 DEF Parsing, Read, Closed
  <2>2. /\ L \in Nat /\ DOMAIN facts = 1..L
        /\ fs \in Seq(Fact) /\ DOMAIN fs = 1..(L + 1)
        /\ fs[L + 1] = current /\ \A n \in DOMAIN facts : fs[n] = facts[n]
        BY <2>1
  <2>3. current.status = StatusOf(current.line)
    <3>1. current.line \in Nat /\ at \in Nat
          BY <2>1 DEF Fact, TypeOK
    <3> QED BY <3>1, <2>1, SectionEnds DEF OpenAt
  <2> HIDE DEF fs, L
  <2>4. Final(fs, at)
        BY <2>1, <2>2, <2>3 DEF Final, OpenAt
  <2>5. Sorted(fs)
    <3>1. ASSUME NEW m \in DOMAIN fs, NEW n \in DOMAIN fs, m < n
          PROVE  fs[m].line < fs[n].line
      <4>1. CASE n = L + 1
            BY <4>1, <3>1, <2>1, <2>2 DEF OpenAt
      <4>2. CASE n # L + 1
            BY <4>2, <3>1, <2>1, <2>2 DEF Sorted
      <4> QED BY <4>1, <4>2
    <3> QED BY <3>1 DEF Sorted
  <2>6. HasLatest(fs)
    <3>1. ASSUME NEW n \in DOMAIN fs
          PROVE  \E m \in DOMAIN fs : /\ fs[m].id = fs[n].id
                                      /\ \A j \in DOMAIN fs : fs[j].id = fs[n].id => j <= m
      <4>1. CASE fs[n].id = current.id
            BY <4>1, <2>2
      <4>2. CASE fs[n].id # current.id
        <5>1. n \in DOMAIN facts /\ fs[n] = facts[n]
              BY <4>2, <2>2
        <5>2. PICK m \in DOMAIN facts : /\ facts[m].id = facts[n].id
                                        /\ \A j \in DOMAIN facts : facts[j].id = facts[n].id => j <= m
              BY <5>1, <2>1 DEF HasLatest
        <5>3. \A j \in DOMAIN fs : fs[j].id = fs[n].id => j \in DOMAIN facts
              BY <4>2, <2>2
        <5> QED BY <5>1, <5>2, <5>3, <2>2
      <4> QED BY <4>1, <4>2
    <3> QED BY <3>1 DEF HasLatest
  <2>7. Covers(fs, at)
    <3>1. ASSUME NEW s \in Entries, s < at
          PROVE  \E n \in DOMAIN fs : fs[n].line = s
      <4>1. current.line = s \/ \E n \in DOMAIN facts : facts[n].line = s
            BY <3>1 DEF Parsing
      <4> QED BY <4>1, <2>2
    <3> QED BY <3>1 DEF Covers
  <2> QED BY <2>1, <2>2, <2>4, <2>5, <2>6, <2>7 DEF Read
<1> QED BY <1>1, <1>2

-----------------------------------------------------------------------------
(* The invariant. *)

LEMMA InitInv == Init => IInv
<1> SUFFICES ASSUME Init PROVE IInv
    OBVIOUS
<1> QED BY DEF Init, IInv, TypeOK, None, Fact, Id

LEMMA TypeStep ==
    ASSUME IInv, Next
    PROVE  TypeOK'
<1> USE DEF IInv, TypeOK, inputs, parseVars, Exit
<1>c. stage = "parse" /\ current # None => current \in Fact /\ Closed \in Seq(Fact)
      BY DEF Closed
<1>1. CASE Open BY <1>1 DEF Open
<1>2. CASE OpenFact
  <2>1. document[at].value \in Id
        BY <1>2, Inputs DEF OpenFact, Reading, Openers
  <2>2. current' \in Fact
        BY <2>1, <1>2 DEF OpenFact, Fact, FactStatus
  <2> QED BY <1>2, <1>c, <2>2 DEF OpenFact, Reading, Closed
<1>3. CASE Malformed BY <1>3, <1>c DEF Malformed, Reading, Closed
<1>4. CASE SetStatus
  <2>1. current \in Fact /\ ParseStatus(document[at].value) \in FactStatus
        BY <1>4, StatusType DEF SetStatus
  <2>2. current' \in Fact
        BY <2>1, <1>4 DEF SetStatus, Fact
  <2> QED BY <1>4, <2>2 DEF SetStatus, Reading
<1>5. CASE SkipLine BY <1>5 DEF SkipLine, Reading
<1>6. CASE EndOfDocument
  <2>1. facts' \in Seq(Fact)
        BY <1>6, <1>c DEF EndOfDocument, Closed
  <2>2. Unclear(facts') \subseteq Nat
        BY <2>1, UnclearType
  <2>3. warnings' \subseteq Nat /\ report = <<>>
        BY <1>6, <2>2 DEF EndOfDocument
  <2> QED BY <1>6, <2>1, <2>3 DEF EndOfDocument
<1>7. CASE ScanLine
  <2>1. source[at] \subseteq Id
        BY <1>7, Inputs DEF ScanLine
  <2> QED BY <1>7, <2>1 DEF ScanLine
<1>8. CASE Audit BY <1>8 DEF Audit
<1> QED BY <1>1, <1>2, <1>3, <1>4, <1>5, <1>6, <1>7, <1>8 DEF Next

\* Facts read so far are the same facts one line, or one state, later.
LEMMA ReadLater ==
    ASSUME UNCHANGED inputs, NEW fs, NEW k \in Nat, NEW l \in Nat, k <= l, fs \in Seq(Fact)
    PROVE  /\ Final(fs, k) => Final(fs, l)
           /\ Final(fs, k) <=> Final(fs, k)'
<1>1. ASSUME NEW n \in DOMAIN fs, fs[n].line < k
      PROVE  fs[n].line < l
  <2>1. fs[n] \in Fact
        OBVIOUS
  <2> QED BY <2>1, <1>1 DEF Fact
<1> QED BY <1>1, Frame DEF Final

LEMMA OpenFactStep ==
    ASSUME IInv, OpenFact
    PROVE  Parsing' /\ at' <= Len(document') + 1
<1>1. /\ TypeOK /\ Parsing /\ UNCHANGED inputs /\ at \in 1..Len(document)
      /\ at \in Openers /\ at \in Entries /\ Len(document) \in Nat
      BY Inputs DEF IInv, OpenFact, Reading, TypeOK, Openers, Entries, inputs
<1>2. PICK fs : fs = Closed
      OBVIOUS
<1>3. PICK k \in Nat : k = at
      BY <1>1
<1>4. k + 1 \in Nat /\ Read(fs, k) /\ Covers(fs, k)
      BY <1>1, <1>2, <1>3, Closing
<1>5. facts' = fs /\ at' = k + 1 /\ warnings' = warnings
      BY <1>2, <1>3 DEF OpenFact
<1>6. /\ current'.line = k /\ current'.id = document[k].value /\ current'.status = "unknown"
      /\ current' \in Fact
  <2>1. document[at].value \in Id
        BY <1>1, Inputs
  <2> QED BY <2>1, <1>1, <1>3 DEF OpenFact, Fact, FactStatus
<1>7. fs \in Seq(Fact) /\ Final(fs, k + 1)' /\ Sorted(fs) /\ HasLatest(fs)
      BY <1>1, <1>4, ReadLater DEF Read
<1>8. Read(facts, at)'
      BY <1>5, <1>7 DEF Read, Final, Sorted, HasLatest
<1>9. OpenAt(at)'
  <2>1. StatusSoFar(k, k + 1, "unknown")
    <3>1. LinesBelow(k, k + 1) = {}
          BY <1>1, Inputs DEF LinesBelow, StatusLines
    <3> QED BY <3>1 DEF StatusSoFar
  <2>2. StatusSoFar(k, k + 1, "unknown")'
        BY <2>1, <1>1, Frame
  <2>3. \A o \in Openers : ~(k < o /\ o < k + 1)
        BY <1>1, <1>3, Inputs
  <2>4. \A n \in DOMAIN fs : fs[n].line < k
        BY <1>4 DEF Read, Final
  <2>5. k \in Entries' /\ document' = document /\ \A o \in Openers' : ~(k < o /\ o < k + 1)
        BY <2>3, <1>1, <1>3, Frame
  <2>6. k < k + 1
        OBVIOUS
  <2> QED BY <1>5, <1>6, <2>2, <2>4, <2>5, <2>6 DEF OpenAt, StatusSoFar, LinesBelow
<1>10. \A s \in Entries' : s < at' => (current' # None /\ current'.line = s) \/ \E n \in DOMAIN facts' : facts'[n].line = s
  <2>1. current' # None
        BY <1>6, <1>1, <1>3 DEF None
  <2>2. ASSUME NEW s \in Entries, s < k + 1, s # k
        PROVE  s < k
        BY <2>2, <1>1, Inputs
  <2> QED BY <2>1, <2>2, <1>1, <1>4, <1>5, <1>6, Frame DEF Covers
<1>11. warnings' = {o \in Openers' \ Entries' : o < at'}
  <2>1. \A o \in Openers \ Entries : o < k + 1 <=> o < k
        BY <1>1, <1>3, Inputs
  <2>2. warnings = {o \in Openers \ Entries : o < k}
        BY <1>1, <1>3 DEF Parsing
  <2> QED BY <2>1, <2>2, <1>1, <1>5, Frame
<1> QED BY <1>1, <1>3, <1>5, <1>6, <1>8, <1>9, <1>10, <1>11, Frame DEF Parsing

LEMMA MalformedStep ==
    ASSUME IInv, Malformed
    PROVE  Parsing' /\ at' <= Len(document') + 1
<1>1. /\ TypeOK /\ Parsing /\ UNCHANGED inputs /\ at \in 1..Len(document)
      /\ at \in Openers /\ at \notin Entries /\ Len(document) \in Nat
      BY Inputs DEF IInv, Malformed, Reading, TypeOK, Openers, Entries, inputs
<1>2. PICK fs : fs = Closed
      OBVIOUS
<1>3. PICK k \in Nat : k = at
      BY <1>1
<1>4. k + 1 \in Nat /\ Read(fs, k) /\ Covers(fs, k)
      BY <1>1, <1>2, <1>3, Closing
<1>5. facts' = fs /\ at' = k + 1 /\ warnings' = warnings \cup {k} /\ current' = None
      BY <1>2, <1>3 DEF Malformed
<1>6. fs \in Seq(Fact) /\ Final(fs, k + 1)' /\ Sorted(fs) /\ HasLatest(fs)
      BY <1>1, <1>4, ReadLater DEF Read
<1>7. Read(facts, at)'
      BY <1>5, <1>6 DEF Read, Final, Sorted, HasLatest
<1>8. \A s \in Entries' : s < at' => \E n \in DOMAIN facts' : facts'[n].line = s
  <2>1. ASSUME NEW s \in Entries, s < k + 1
        PROVE  s < k
    <3>1. s # k
          BY <2>1, <1>1, <1>3
    <3>2. s \in 1..Len(document)
      <4>1. Entries \subseteq 1..Len(document)
            BY <1>1, Inputs
      <4> QED BY <4>1, <2>1
    <3> QED BY <3>1, <3>2, <2>1, <1>1
  <2> QED BY <2>1, <1>1, <1>4, <1>5, Frame DEF Covers
<1>9. warnings' = {o \in Openers' \ Entries' : o < at'}
  <2>1. \A o \in Openers \ Entries : o < k + 1 <=> o < k \/ o = k
        BY <1>1, <1>3, Inputs
  <2>2. warnings = {o \in Openers \ Entries : o < k}
        BY <1>1, <1>3 DEF Parsing
  <2>3. k < k + 1
        OBVIOUS
  <2> QED BY <2>1, <2>2, <2>3, <1>1, <1>3, <1>5, Frame
<1> QED BY <1>1, <1>3, <1>5, <1>7, <1>8, <1>9, Frame DEF Parsing

\* A line that opens nothing leaves facts and warnings as they are.
LEMMA WithinSection ==
    ASSUME IInv, stage = "parse", at \in DOMAIN document, document[at].key # "fact_id",
           UNCHANGED <<inputs, facts, warnings>>, at' = at + 1,
           current' \in Fact \cup {None},
           current # None <=> current' # None,
           current # None => current'.line = current.line /\ OpenAt(at)'
    PROVE  Parsing' /\ at' <= Len(document') + 1
<1>1. /\ TypeOK /\ Parsing /\ UNCHANGED inputs /\ at \in 1..Len(document)
      /\ at \notin Openers /\ Len(document) \in Nat
      BY Inputs DEF IInv, TypeOK, Openers, inputs
<1>2. PICK fs : fs = facts
      OBVIOUS
<1>3. PICK k \in Nat : k = at
      BY <1>1
<1>4. fs \in Seq(Fact) /\ Final(fs, k + 1)' /\ Sorted(fs) /\ HasLatest(fs)
      BY <1>1, <1>2, <1>3, ReadLater DEF Parsing, Read
<1>5. Read(facts, at)'
      BY <1>2, <1>3, <1>4 DEF Read, Final, Sorted, HasLatest
<1>6. \A o \in Openers : o < k + 1 <=> o < k
      BY <1>1, <1>3, Inputs
<1>7. \A s \in Entries' : s < at' => (current' # None /\ current'.line = s) \/ \E n \in DOMAIN facts' : facts'[n].line = s
      BY <1>1, <1>3, <1>6, Frame, Inputs DEF Parsing
<1>8. warnings' = {o \in Openers' \ Entries' : o < at'}
  <2>1. warnings = {o \in Openers \ Entries : o < k}
        BY <1>1, <1>3 DEF Parsing
  <2> QED BY <2>1, <1>1, <1>3, <1>6, Frame
<1> QED BY <1>1, <1>3, <1>5, <1>7, <1>8, Frame DEF Parsing

\* The section of the open entry goes on.
LEMMA StillOpen ==
    ASSUME IInv, stage = "parse", at \in DOMAIN document, document[at].key # "fact_id",
           UNCHANGED <<inputs, facts>>, at' = at + 1, current # None,
           current'.line = current.line, current'.id = current.id,
           StatusSoFar(current.line, at + 1, current'.status)
    PROVE  OpenAt(at)'
<1>1. /\ TypeOK /\ OpenAt(at) /\ UNCHANGED inputs /\ at \in 1..Len(document)
      /\ at \notin Openers /\ Len(document) \in Nat
      BY Inputs DEF IInv, Parsing, Openers
<1>2. PICK k \in Nat : k = at
      BY <1>1
<1>3. PICK c : c = current.line
      OBVIOUS
<1>4. PICK v : v = current'.status
      OBVIOUS
<1>5. c \in Entries' /\ document' = document
      BY <1>1, <1>3, Frame DEF OpenAt
<1>6. c < k + 1 /\ k + 1 \in Nat
  <2>1. c \in Nat /\ c < k
        BY <1>1, <1>2, <1>3, Inputs DEF OpenAt
  <2> QED BY <2>1
<1>7. StatusSoFar(c, k + 1, v)'
      BY <1>1, <1>2, <1>3, <1>4, Frame
<1>8. \A o \in Openers' : ~(c < o /\ o < k + 1)
  <2>1. \A o \in Openers : o < k + 1 <=> o < k
        BY <1>1, <1>2, Inputs
  <2> QED BY <2>1, <1>1, <1>2, <1>3, Frame DEF OpenAt
<1>9. /\ current'.line = c /\ current'.id = document[c].value /\ at' = k + 1
      /\ \A n \in DOMAIN facts' : facts'[n].line < c
      BY <1>1, <1>2, <1>3 DEF OpenAt
<1> QED BY <1>4, <1>5, <1>6, <1>7, <1>8, <1>9 DEF OpenAt, StatusSoFar, LinesBelow

LEMMA SetStatusStep ==
    ASSUME IInv, SetStatus
    PROVE  Parsing' /\ at' <= Len(document') + 1
<1>1. /\ current \in Fact /\ OpenAt(at) /\ TypeOK /\ stage = "parse" /\ at' = at + 1
      /\ at \in DOMAIN document /\ document[at].key = "status" /\ current # None
      /\ UNCHANGED <<inputs, facts, warnings>>
      BY DEF IInv, Parsing, SetStatus, Reading
<1>2. ParseStatus(document[at].value) \in FactStatus
      BY StatusType
<1>3. /\ current' \in Fact /\ current'.line = current.line /\ current'.id = current.id
      /\ current'.status = ParseStatus(document[at].value)
      BY <1>1, <1>2 DEF SetStatus, Fact
<1>4. current' # None
  <2>1. current'.line # 0
        BY <1>3 DEF Fact
  <2> QED BY <2>1 DEF None
<1>5. StatusSoFar(current.line, at + 1, current'.status)
  <2>1. /\ at \in Nat /\ current.line \in Nat /\ current.line < at
        /\ \A o \in Openers : ~(current.line < o /\ o < at)
        BY <1>1, Inputs DEF OpenAt
  <2>2. at \in StatusLines(current.line)
        BY <1>1, <2>1 DEF StatusLines
  <2>3. at \in LinesBelow(current.line, at + 1)
        BY <2>1, <2>2 DEF LinesBelow
  <2>4. \A m \in LinesBelow(current.line, at + 1) : m <= at
        BY <2>1, Inputs, <1>1 DEF LinesBelow, StatusLines
  <2> QED BY <2>3, <2>4, <1>3 DEF StatusSoFar
<1>6. OpenAt(at)'
      BY <1>1, <1>3, <1>5, StillOpen
<1> QED BY <1>1, <1>3, <1>4, <1>6, WithinSection

LEMMA SkipLineStep ==
    ASSUME IInv, SkipLine
    PROVE  Parsing' /\ at' <= Len(document') + 1
<1>1. /\ TypeOK /\ Parsing /\ stage = "parse" /\ at' = at + 1
      /\ at \in DOMAIN document /\ document[at].key # "fact_id"
      /\ current # None => document[at].key # "status"
      /\ UNCHANGED <<inputs, facts, warnings, current>> /\ current \in Fact \cup {None}
      BY DEF IInv, Parsing, SkipLine, Reading, parseVars
<1>2. ASSUME current # None
      PROVE  OpenAt(at)'
  <2>1. OpenAt(at) /\ document[at].key # "status"
        BY <1>1, <1>2 DEF Parsing
  <2>2. at \in Nat /\ at \notin StatusLines(current.line) /\ StatusLines(current.line) \subseteq Nat
        BY <2>1, <1>1, Inputs DEF StatusLines
  <2>3. LinesBelow(current.line, at + 1) = LinesBelow(current.line, at)
        BY <2>2 DEF LinesBelow
  <2>4. StatusSoFar(current.line, at + 1, current'.status)
        BY <2>1, <2>3, <1>1 DEF OpenAt, StatusSoFar
  <2> QED BY <2>4, <1>1, <1>2, StillOpen
<1> QED BY <1>1, <1>2, WithinSection

LEMMA EndOfDocumentStep ==
    ASSUME IInv, EndOfDocument
    PROVE  Complete' /\ Scanned'
<1>1. /\ TypeOK /\ Parsing /\ UNCHANGED inputs /\ at > Len(document) /\ Len(document) \in Nat
      /\ at = Len(document) + 1 /\ referenced = {} /\ referenced' = {} /\ at' = 1 /\ current' = None
      BY Inputs DEF IInv, EndOfDocument, TypeOK
<1>2. PICK fs : fs = Closed
      OBVIOUS
<1>3. PICK k \in Nat : k = at
      BY <1>1
<1>4. Read(fs, k) /\ Covers(fs, k)
      BY <1>1, <1>2, <1>3, Closing
<1>5. facts' = fs /\ warnings' = warnings \cup Unclear(fs)
      BY <1>2 DEF EndOfDocument
<1>6. fs \in Seq(Fact) /\ Final(fs, k)' /\ Sorted(fs) /\ HasLatest(fs)
      BY <1>1, <1>4, ReadLater DEF Read
<1>7. Read(facts, Len(document) + 1)'
      BY <1>1, <1>3, <1>5, <1>6, Frame DEF Read, Final, Sorted, HasLatest
<1>8. Covers(facts, Len(document) + 1)'
      BY <1>1, <1>3, <1>4, <1>5, Frame DEF Covers
<1>9. \A s \in Openers : s < k
      BY <1>1, <1>3, Inputs
<1>10. Unclear(fs) = {s \in Entries : StatusOf(s) = "unknown"}
  <2>1. \A n \in DOMAIN fs : fs[n].line \in Entries /\ fs[n].status = StatusOf(fs[n].line)
        BY <1>4 DEF Read, Final
  <2>2. \A s \in Entries : \E n \in DOMAIN fs : fs[n].line = s
        BY <1>1, <1>4, <1>9, Inputs DEF Covers
  <2> QED BY <2>1, <2>2 DEF Unclear
<1>11. warnings = Openers \ Entries
      BY <1>1, <1>3, <1>9 DEF Parsing
<1>12. warnings' = (Openers' \ Entries') \cup {s \in Entries' : StatusOf(s)' = "unknown"}
      BY <1>1, <1>5, <1>10, <1>11, Frame
<1>13. Scanned'
      BY <1>1 DEF Scanned
<1> QED BY <1>1, <1>7, <1>8, <1>12, <1>13 DEF Complete

LEMMA CompleteStays ==
    ASSUME Complete, UNCHANGED <<inputs, facts, current, warnings>>
    PROVE  Complete'
<1>1. PICK fs : fs = facts
      OBVIOUS
<1>2. PICK k : k = Len(document) + 1
      OBVIOUS
<1>3. /\ fs \in Seq(Fact) /\ Final(fs, k)' /\ Sorted(fs) /\ HasLatest(fs) /\ Covers(fs, k)'
      BY <1>1, <1>2, Frame DEF Complete, Read, Final, Covers
<1> QED BY <1>1, <1>2, <1>3, Frame DEF Complete, Read, Final, Sorted, HasLatest, Covers

LEMMA ScanLineStep ==
    ASSUME IInv, ScanLine
    PROVE  Complete' /\ Scanned'
<1>1. /\ Complete /\ Scanned /\ UNCHANGED <<inputs, facts, current, warnings>>
      /\ source' = source /\ at \in Nat /\ at \in DOMAIN source
      /\ DOMAIN source \subseteq Nat /\ at' = at + 1
      /\ referenced' = referenced \cup {id \in source[at] : Recognised(id)}
  <2>1. DOMAIN source = 1..Len(source) /\ Len(source) \in Nat
        BY Inputs DEF IInv
  <2> QED BY <2>1 DEF IInv, TypeOK, ScanLine, parseVars, inputs
<1>2. {m \in DOMAIN source : m < at + 1} = {m \in DOMAIN source : m < at} \cup {at}
      BY <1>1
<1>3. Scanned'
      BY <1>1, <1>2 DEF Scanned
<1> QED BY <1>1, <1>3, CompleteStays

LEMMA AuditStep ==
    ASSUME IInv, Audit
    PROVE  Reported'
<1>1. /\ Complete /\ Scanned /\ UNCHANGED <<inputs, facts, current, warnings, referenced, at>>
      /\ at > Len(source) /\ source' = source
      BY DEF IInv, Audit, parseVars, inputs
<1>2. Complete'
      BY <1>1, CompleteStays
<1>3. Scanned' /\ at' > Len(source')
      BY <1>1 DEF Scanned
<1>4. report'.parsed = [j \in FactKind |-> Count(j)']
      BY <1>1 DEF Audit, Count
<1>5. exit' = "ok" <=> /\ ConfirmedWithoutClause' = {} /\ UndecidedSuspicions' = {}
                       /\ DanglingReferences' = {} /\ ReferencesNotConfirmed' = {}
      BY <1>1 DEF Audit, Exit, ConfirmedWithoutClause, UndecidedSuspicions, DanglingReferences,
                  ReferencesNotConfirmed, Latest, WithId
<1> QED BY <1>2, <1>3, <1>4, <1>5 DEF Reported

LEMMA StepInv ==
    ASSUME IInv, [Next]_vars
    PROVE  IInv'
<1>1. CASE Open
  <2>1. TypeOK'
        BY <1>1, TypeStep DEF Next
  <2>2. Parsing'
    <3>1. /\ facts' = <<>> /\ current' = None /\ warnings' = {} /\ at' = 1 /\ UNCHANGED inputs
          BY <1>1 DEF Open, IInv, parseVars
    <3>2. \A o \in Openers' : ~(o < 1) /\ Entries' \subseteq Openers'
          BY <3>1, Inputs, Frame DEF IInv
    <3>3. \A s \in Entries' : ~(s < 1)
          BY <3>1, Inputs, Frame DEF IInv
    <3>4. Read(facts, at)'
          BY <3>1 DEF Read, Final, Sorted, HasLatest
    <3> QED BY <3>1, <3>2, <3>3, <3>4 DEF Parsing
  <2>3. at' <= Len(document') + 1 /\ report' = <<>> /\ referenced' = {} /\ stage' \in {"parse", "exit"}
        BY <1>1, Inputs DEF Open, IInv, inputs, parseVars, Exit
  <2> QED BY <2>1, <2>2, <2>3 DEF IInv
<1>2. CASE OpenFact \/ Malformed \/ SetStatus \/ SkipLine
  <2>1. TypeOK'
        BY <1>2, TypeStep DEF Next
  <2>2. Parsing' /\ at' <= Len(document') + 1
        BY <1>2, OpenFactStep, MalformedStep, SetStatusStep, SkipLineStep
  <2>3. stage' = "parse" /\ report' = <<>> /\ referenced' = {}
        BY <1>2 DEF OpenFact, Malformed, SetStatus, SkipLine, Reading, IInv
  <2> QED BY <2>1, <2>2, <2>3 DEF IInv
<1>3. CASE EndOfDocument \/ ScanLine
  <2>1. TypeOK'
        BY <1>3, TypeStep DEF Next
  <2>2. Complete' /\ Scanned'
        BY <1>3, EndOfDocumentStep, ScanLineStep
  <2>3. stage' = "scan" /\ report' = <<>>
        BY <1>3 DEF EndOfDocument, ScanLine, IInv
  <2> QED BY <2>1, <2>2, <2>3 DEF IInv
<1>4. CASE Audit
  <2>1. TypeOK'
        BY <1>4, TypeStep DEF Next
  <2>2. stage' = "exit"
        BY <1>4 DEF Audit, Exit
  <2> QED BY <2>1, <2>2, <1>4, AuditStep DEF IInv
<1>5. CASE UNCHANGED vars
  <2>1. UNCHANGED <<inputs, facts, current, warnings>> /\ UNCHANGED <<stage, at, referenced, report, exit>>
        /\ UNCHANGED <<document, source, found>>
        BY <1>5 DEF vars, parseVars, inputs
  <2>2. TypeOK'
        BY <2>1 DEF IInv, TypeOK
  <2>3. Parsing => Parsing'
        BY <2>1, Frame DEF Parsing, Read, Final, Sorted, HasLatest, OpenAt, StatusSoFar, LinesBelow
  <2>4. Complete => Complete'
        BY <2>1, CompleteStays
  <2>5. Scanned => Scanned'
        BY <2>1 DEF Scanned
  <2>6. Reported => Reported'
        BY <2>1, <2>4, <2>5 DEF Reported, Count, ConfirmedWithoutClause, UndecidedSuspicions,
              DanglingReferences, ReferencesNotConfirmed, Latest, WithId
  <2> QED BY <2>1, <2>2, <2>3, <2>4, <2>5, <2>6 DEF IInv
<1> QED BY <1>1, <1>2, <1>3, <1>4, <1>5 DEF Next

THEOREM Inv == Spec => []IInv
<1>1. Init => IInv
      BY InitInv
<1>2. IInv /\ [Next]_vars => IInv'
      BY StepInv
<1> QED BY <1>1, <1>2, PTL DEF Spec

-----------------------------------------------------------------------------
(* What follows from it. *)

\* Trace keeps its type.
THEOREM TypeCorrect == Spec => []TypeOK
<1>1. IInv => TypeOK
      BY DEF IInv
<1> QED BY <1>1, Inv, PTL

LEMMA ParsedIsComplete == IInv /\ Parsed => Complete /\ TypeOK
BY DEF IInv, Parsed, Reported

\* Every fact_id line of a document is a fact, once, or a warning (parse_facts).
THEOREM NothingEverLost == Spec => []NothingIsLost
<1>1. IInv => NothingIsLost
  <2> SUFFICES ASSUME IInv, Parsed PROVE NothingIsLost
      BY DEF NothingIsLost
  <2>1. Complete /\ TypeOK
        BY ParsedIsComplete
  <2>2. \A s \in Entries : s < Len(document) + 1
        BY <2>1, Inputs
  <2>3. {facts[n].line : n \in DOMAIN facts} = Entries
        BY <2>1, <2>2 DEF Complete, Read, Final, Covers
  <2> QED BY <2>1, <2>3 DEF NothingIsLost, Complete, Read, Sorted
<1> QED BY <1>1, Inv, PTL

\* A fact carries its own id and status (parse_facts).
THEOREM StatusAlwaysOwn == Spec => []StatusIsOwn
<1>1. IInv => StatusIsOwn
      BY ParsedIsComplete DEF StatusIsOwn, Complete, Read, Final
<1> QED BY <1>1, Inv, PTL

\* The report counts the facts of the document (facts.rs, "Why the parse count
\* is reported").
THEOREM CountAlwaysTrue == Spec => []CountIsTrue
<1>1. IInv => CountIsTrue
  <2> SUFFICES ASSUME IInv, report # <<>>, NEW k \in FactKind
               PROVE  report.parsed[k] = Cardinality({s \in Entries : document[s].value[3] = k})
      BY DEF CountIsTrue
  <2>1. Complete /\ TypeOK /\ report.parsed[k] = Count(k)
        BY ParsedIsComplete DEF IInv, Reported, Parsed
  <2> DEFINE A == {n \in DOMAIN facts : facts[n].id[3] = k}
             B == {s \in Entries : document[s].value[3] = k}
             f == [n \in A |-> facts[n].line]
  <2>2. /\ \A n \in DOMAIN facts : facts[n].line \in Entries /\ facts[n].id = document[facts[n].line].value
        /\ \A m, n \in DOMAIN facts : m < n => facts[m].line < facts[n].line
        /\ DOMAIN facts = 1..Len(facts) /\ Len(facts) \in Nat
        BY <2>1 DEF Complete, Read, Final, Sorted, TypeOK
  <2>3. \A s \in Entries : s \in Nat /\ \E n \in DOMAIN facts : facts[n].line = s
    <3>1. \A s \in Entries : s \in Nat /\ s < Len(document) + 1
          BY <2>1, Inputs
    <3> QED BY <2>1, <3>1 DEF Complete, Covers
  <2>4. IsFiniteSet(A)
    <3>1. IsFiniteSet(1..Len(facts))
          BY <2>2, FS_Interval
    <3> QED BY <3>1, <2>2, FS_Subset
  <2>5. f \in Bijection(A, B)
    <3>1. f \in [A -> B]
          BY <2>2
    <3>2. \A m, n \in A : f[m] = f[n] => m = n
      <4>1. ASSUME NEW m \in A, NEW n \in A, f[m] = f[n], m # n
            PROVE  FALSE
        <5>1. m < n \/ n < m
              BY <4>1, <2>2
        <5>2. facts[m].line \in Nat /\ facts[n].line \in Nat /\ facts[m].line = facts[n].line
              BY <4>1, <2>2, <2>3
        <5>3. facts[m].line < facts[n].line \/ facts[n].line < facts[m].line
              BY <5>1, <2>2
        <5> QED BY <5>2, <5>3
      <4> QED BY <4>1
    <3>3. \A s \in B : \E n \in A : f[n] = s
          BY <2>2, <2>3
    <3> QED BY <3>1, <3>2, <3>3 DEF Bijection, Injection, Surjection, IsInjective
  <2> HIDE DEF A, B, f
  <2>6. Cardinality(B) = Cardinality(A)
        BY <2>4, <2>5, FS_Bijection DEF ExistsBijection
  <2> QED BY <2>1, <2>6 DEF Count, A, B
<1> QED BY <1>1, Inv, PTL

\* The latest of the facts with an id is the last entry with it.
LEMMA LatestDecides ==
    ASSUME Complete, TypeOK, NEW n \in DOMAIN facts
    PROVE  Decides(facts[n].line) <=> Latest(facts[n].id) = n
<1>1. /\ \A m \in DOMAIN facts : facts[m].line \in Entries /\ facts[m].id = document[facts[m].line].value
      /\ \A m, j \in DOMAIN facts : m < j => facts[m].line < facts[j].line
      /\ DOMAIN facts = 1..Len(facts) /\ Len(facts) \in Nat
      BY DEF Complete, Read, Final, Sorted, TypeOK
<1>2. \A s \in Entries : s \in Nat /\ \E m \in DOMAIN facts : facts[m].line = s
  <2>1. \A s \in Entries : s \in Nat /\ s < Len(document) + 1
        BY Inputs
  <2> QED BY <2>1 DEF Complete, Covers
<1>3. Decides(facts[n].line) <=> \A m \in WithId(facts[n].id) : m <= n
  <2>1. ASSUME NEW m \in DOMAIN facts
        PROVE  facts[m].line <= facts[n].line <=> m <= n
    <3>1. CASE m = n BY <3>1, <1>1, <1>2
    <3>2. CASE m < n BY <3>2, <1>1, <1>2
    <3>3. CASE n < m BY <3>3, <1>1, <1>2
    <3> QED BY <3>1, <3>2, <3>3, <1>1
  <2>2. WithId(facts[n].id) = {m \in DOMAIN facts : facts[m].id = facts[n].id}
        BY DEF WithId
  <2>3. ASSUME NEW m \in WithId(facts[n].id), Decides(facts[n].line)
        PROVE  m <= n
    <3>1. facts[m].line \in Entries /\ document[facts[m].line].value = document[facts[n].line].value
          BY <2>2, <2>3, <1>1
    <3> QED BY <3>1, <2>1, <2>2, <2>3 DEF Decides
  <2>4. ASSUME \A m \in WithId(facts[n].id) : m <= n, NEW o \in Entries,
               document[o].value = document[facts[n].line].value
        PROVE  o <= facts[n].line
    <3>1. PICK m \in DOMAIN facts : facts[m].line = o
          BY <1>2
    <3>2. m \in WithId(facts[n].id)
          BY <3>1, <2>2, <2>4, <1>1
    <3> QED BY <3>1, <3>2, <2>1, <2>4
  <2> QED BY <2>3, <2>4 DEF Decides
<1>4. WithId(facts[n].id) \subseteq Nat /\ n \in WithId(facts[n].id)
      BY <1>1 DEF WithId
<1>5. PICK m \in WithId(facts[n].id) : \A j \in WithId(facts[n].id) : j <= m
      BY DEF Complete, Read, HasLatest, WithId
<1>6. Latest(facts[n].id) = m
      BY <1>4, <1>5, NewestIs DEF Latest
<1>7. m = n <=> \A j \in WithId(facts[n].id) : j <= n
      BY <1>4, <1>5
<1> QED BY <1>3, <1>6, <1>7

\* Green means a faithful translation, and a faithful translation is green
\* (audit, TraceReport::ok).
THEOREM GateAlwaysExact == Spec => []GateIsExact
<1>1. IInv => GateIsExact
  <2> SUFFICES ASSUME IInv, report # <<>> PROVE exit = "ok" <=> Faithful
      BY DEF GateIsExact
  <2>1. Complete /\ TypeOK /\ Scanned /\ at > Len(source)
        BY ParsedIsComplete DEF IInv, Reported, Parsed
  <2>2. /\ \A m \in DOMAIN facts : /\ facts[m].line \in Entries
                                    /\ facts[m].id = document[facts[m].line].value
                                    /\ facts[m].status = StatusOf(facts[m].line)
        /\ \A s \in Entries : \E m \in DOMAIN facts : facts[m].line = s
    <3>1. \A s \in Entries : s < Len(document) + 1
          BY <2>1, Inputs
    <3> QED BY <2>1, <3>1 DEF Complete, Read, Final, Covers
  <2>3. referenced = Mentioned
    <3>1. at \in Nat /\ DOMAIN source = 1..Len(source) /\ Len(source) \in Nat
          BY <2>1, Inputs DEF TypeOK
    <3>2. {m \in DOMAIN source : m < at} = DOMAIN source
          BY <3>1, <2>1
    <3> QED BY <2>1, <3>2 DEF Scanned, Mentioned
  <2>4. ConfirmedWithoutClause = {} <=>
            \A s \in Entries : StatusOf(s) = "confirmed" => document[s].value \in Mentioned
        BY <2>2, <2>3 DEF ConfirmedWithoutClause
  <2>5. UndecidedSuspicions = {} <=>
            \A s \in Entries : StatusOf(s) = "draft" => document[s].value[3] = "BEH"
    <3>1. \A s \in Entries : document[s].value[3] \in {"BEH", "SUS", "UNK"}
          BY <2>1, Inputs DEF FromId, FactKind
    <3> QED BY <3>1, <2>2 DEF UndecidedSuspicions
  <2>6. ASSUME NEW id \in Mentioned
        PROVE  (id \notin DanglingReferences /\ id \notin ReferencesNotConfirmed) <=>
                 \E s \in Entries : document[s].value = id /\ Decides(s) /\ StatusOf(s) = "confirmed"
    <3>1. ASSUME id \notin DanglingReferences, id \notin ReferencesNotConfirmed
          PROVE  \E s \in Entries : document[s].value = id /\ Decides(s) /\ StatusOf(s) = "confirmed"
      <4>1. WithId(id) # {} /\ facts[Latest(id)].status = "confirmed"
            BY <3>1, <2>6, <2>3 DEF DanglingReferences, ReferencesNotConfirmed
      <4>2. PICK n \in DOMAIN facts : facts[n].id = id
            BY <4>1 DEF WithId
      <4>3. PICK m \in WithId(id) : \A j \in WithId(id) : j <= m
            BY <4>2, <2>1 DEF Complete, Read, HasLatest, WithId
      <4>4. m \in DOMAIN facts /\ facts[m].id = id /\ WithId(id) \subseteq Nat
            BY <4>3, <2>1 DEF WithId, TypeOK
      <4>5. Latest(id) = m
            BY <4>3, <4>4, NewestIs DEF Latest
      <4>6. Decides(facts[m].line)
            BY <4>4, <4>5, <2>1, LatestDecides
      <4> QED BY <4>1, <4>4, <4>5, <4>6, <2>2
    <3>2. ASSUME NEW s \in Entries, document[s].value = id, Decides(s), StatusOf(s) = "confirmed"
          PROVE  id \notin DanglingReferences /\ id \notin ReferencesNotConfirmed
      <4>1. PICK n \in DOMAIN facts : facts[n].line = s
            BY <2>2, <3>2
      <4>2. facts[n].id = id /\ facts[n].status = "confirmed" /\ WithId(id) # {}
            BY <4>1, <3>2, <2>2 DEF WithId
      <4>3. Latest(id) = n
            BY <4>1, <4>2, <3>2, <2>1, LatestDecides
      <4> QED BY <4>2, <4>3 DEF DanglingReferences, ReferencesNotConfirmed
    <3> QED BY <3>1, <3>2
  <2>7. /\ DanglingReferences \subseteq Mentioned /\ ReferencesNotConfirmed \subseteq Mentioned
        BY <2>3 DEF DanglingReferences, ReferencesNotConfirmed
  <2>8. exit = "ok" <=> /\ ConfirmedWithoutClause = {} /\ UndecidedSuspicions = {}
                        /\ DanglingReferences = {} /\ ReferencesNotConfirmed = {}
        BY DEF IInv, Reported
  <2>9. DanglingReferences = {} /\ ReferencesNotConfirmed = {} <=>
            \A id \in Mentioned : \E s \in Entries :
                document[s].value = id /\ Decides(s) /\ StatusOf(s) = "confirmed"
        BY <2>6, <2>7
  <2> QED BY <2>4, <2>5, <2>8, <2>9 DEF Faithful
<1> QED BY <1>1, Inv, PTL

=============================================================================
