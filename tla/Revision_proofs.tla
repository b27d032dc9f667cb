-------------------------- MODULE Revision_proofs --------------------------
(***************************************************************************)
(* What a comparison of two files reports, for all files, clauses, words    *)
(* and orders of the two indices.                                           *)
(***************************************************************************)
EXTENDS Revision, FiniteSetTheorems, TLAPS

-----------------------------------------------------------------------------
(* The report as a function of the keys visited so far. *)

AddedAt(k) == [change |-> "added", key |-> k]
RemovedAt(k) == [change |-> "removed", key |-> k]
ModifiedAt(o, n, k) ==
    [change |-> "modified", key |-> k, class |-> Classify(Indexed(o, k), Indexed(n, k))]

Differ(o, n) == {k \in Keys(o) \cap Keys(n) : Indexed(o, k) # Indexed(n, k)}
Report(o, n, N, O) ==
    {AddedAt(k) : k \in N \ Keys(o)}
    \cup {ModifiedAt(o, n, k) : k \in N \cap Differ(o, n)}
    \cup {RemovedAt(k) : k \in O \ Keys(n)}

ChangesInv ==
    /\ stage = "parse" \/ exit = "fail" => changes = {}
    /\ stage = "new" => left \subseteq Keys(new) /\ changes = Report(old, new, Keys(new) \ left, {})
    /\ stage = "old" => left \subseteq Keys(old) /\ changes = Report(old, new, Keys(new), Keys(old) \ left)
    /\ Compared => changes = Report(old, new, Keys(new), Keys(old))

CountInv ==
    /\ IsFiniteSet(changes)
    /\ added + removed + modified = Cardinality(changes)
    /\ breaking = Cardinality({c \in changes : Breaks(c)})

\* What impact has found when it looks at declaration m next.
GoalsBefore(n, touched, m) ==
    {n.decls[i].name : i \in {j \in DOMAIN n.decls :
        j < m /\ n.decls[j].decl = "goal" /\ Items(n.decls[j].realizedBy) \cap touched # {}}}
TextsOf(o, touched) == UNION {Texts(d) : d \in {i \in Decls(o) : i.decl = "intent" /\ i.name \in touched}}
CoveragesBefore(o, n, touched, m) ==
    {n.decls[i].name : i \in {j \in DOMAIN n.decls :
        /\ j < m /\ n.decls[j].decl = "coverage"
        /\ \E e \in TextsOf(o, touched) : Values(n.decls[j]) \cap Occurs[e] # {}}}

ImpactInv ==
    /\ stage \notin {"impact", "exit"} \/ exit = "fail" => at = 1
    /\ affectedGoals = GoalsBefore(new, Touched, at)
    /\ affectedCoverages = CoveragesBefore(old, new, Touched, at)

ExitInv == /\ exit = "running" <=> stage # "exit"
           /\ exit = "ok" => at = Len(new.decls) + 1

IInv == TypeOK /\ ChangesInv /\ CountInv /\ ImpactInv /\ ExitInv

-----------------------------------------------------------------------------
(* Declarations and their keys. *)

LEMMA NodeFacts ==
    ASSUME NEW d \in Node
    PROVE  /\ d.name \in STRING
           /\ d.decl \in Kind
           /\ Key(d) \in Kind \X STRING
  <1>1. \/ d \in IntentNode \/ d \in SafetyNode \/ d \in TheoremNode
        \/ d \in GoalNode \/ d \in CoverageNode \/ d \in OtherNode
    BY DEF Node
  <1>2. /\ d.name \in STRING
        /\ d.decl \in Kind
    <2>1. CASE d \in IntentNode
      BY <2>1 DEF IntentNode, Kind
    <2>2. CASE d \in SafetyNode
      BY <2>2 DEF SafetyNode, Kind
    <2>3. CASE d \in TheoremNode
      BY <2>3 DEF TheoremNode, Kind
    <2>4. CASE d \in GoalNode
      BY <2>4 DEF GoalNode, Kind
    <2>5. CASE d \in CoverageNode
      BY <2>5 DEF CoverageNode, Kind
    <2>6. CASE d \in OtherNode
      BY <2>6 DEF OtherNode, Kind
    <2> QED BY <1>1, <2>1, <2>2, <2>3, <2>4, <2>5, <2>6
  <1> QED BY <1>2 DEF Key

LEMMA DeclFacts ==
    ASSUME NEW p \in Source
    PROVE  /\ p.decls \in Seq(Node)
           /\ Decls(p) \subseteq Node
           /\ \A m \in DOMAIN p.decls : p.decls[m] \in Node /\ p.decls[m] \in Decls(p)
  BY DEF Source, Decls, Items

LEMMA KeysAreNames ==
    ASSUME NEW p \in Source
    PROVE  Keys(p) \subseteq Kind \X STRING
  BY DeclFacts, NodeFacts DEF Keys

LEMMA ClassifyIsClass ==
    ASSUME NEW o, NEW n
    PROVE  Classify(o, n) \in {"loosened", "tightened", "reshaped"}
  BY DEF Classify

LEMMA EntriesAreChanges ==
    ASSUME NEW o \in Source, NEW n \in Source, NEW k \in Keys(o) \cup Keys(n)
    PROVE  {AddedAt(k), RemovedAt(k), ModifiedAt(o, n, k)} \subseteq Change
  <1>1. k \in Kind \X STRING
    BY KeysAreNames
  <1>2. Classify(Indexed(o, k), Indexed(n, k)) \in {"loosened", "tightened", "reshaped"}
    BY ClassifyIsClass
  <1> QED BY <1>1, <1>2 DEF Change, AddedAt, RemovedAt, ModifiedAt

\* A declaration that is alone under its key is the one the index holds.
LEMMA IndexedAlone ==
    ASSUME NEW p \in Source, DistinctKeys(p), NEW d \in Decls(p)
    PROVE  Indexed(p, Key(d)) = Signature(d)
  <1>1. PICK m \in DOMAIN p.decls : p.decls[m] = d
    BY DEF Decls, Items
  <1>2. WithKey(p, Key(d)) = {m}
    BY <1>1 DEF WithKey, DistinctKeys
  <1>3. m <= m
    BY <1>1, DeclFacts
  <1>4. (CHOOSE j \in WithKey(p, Key(d)) : \A i \in WithKey(p, Key(d)) : i <= j) = m
    BY <1>2, <1>3
  <1> QED BY <1>1, <1>4 DEF Indexed

-----------------------------------------------------------------------------
(* One more key. *)

LEMMA ReportStarts ==
    ASSUME NEW o, NEW n
    PROVE  /\ Report(o, n, {}, {}) = {}
           /\ \A K : Report(o, n, K \ {}, {}) = Report(o, n, K, {})
           /\ \A K : Report(o, n, Keys(n), K \ K) = Report(o, n, Keys(n), {})
  BY DEF Report

\* A key not visited yet has no entry.
LEMMA ReportLacks ==
    ASSUME NEW o, NEW n, NEW N, NEW O, NEW k
    PROVE  /\ k \notin N => AddedAt(k) \notin Report(o, n, N, O) /\ ModifiedAt(o, n, k) \notin Report(o, n, N, O)
           /\ k \notin O => RemovedAt(k) \notin Report(o, n, N, O)
  <1>1. \A x : AddedAt(k).change = "added" /\ RemovedAt(k).change = "removed"
               /\ ModifiedAt(o, n, k).change = "modified" /\ AddedAt(k).key = k
               /\ RemovedAt(k).key = k /\ ModifiedAt(o, n, k).key = k
               /\ AddedAt(x).change = "added" /\ RemovedAt(x).change = "removed"
               /\ ModifiedAt(o, n, x).change = "modified" /\ AddedAt(x).key = x
               /\ RemovedAt(x).key = x /\ ModifiedAt(o, n, x).key = x
    BY DEF AddedAt, RemovedAt, ModifiedAt
  <1> QED BY <1>1 DEF Report

LEMMA OneMore ==
    ASSUME NEW S, IsFiniteSet(S), NEW x, x \notin S
    PROVE  /\ IsFiniteSet(S \cup {x})
           /\ Cardinality(S \cup {x}) = Cardinality(S) + 1
           /\ Cardinality(S) \in Nat
           /\ Breaks(x) => Cardinality({c \in S \cup {x} : Breaks(c)}) = Cardinality({c \in S : Breaks(c)}) + 1
           /\ ~Breaks(x) => {c \in S \cup {x} : Breaks(c)} = {c \in S : Breaks(c)}
           /\ Cardinality({c \in S : Breaks(c)}) \in Nat
  <1> DEFINE B == {c \in S : Breaks(c)}
  <1>1. IsFiniteSet(B) /\ Cardinality(B) \in Nat
    BY FS_Subset, FS_CardinalityType
  <1>2. IsFiniteSet(S \cup {x}) /\ Cardinality(S \cup {x}) = Cardinality(S) + 1 /\ Cardinality(S) \in Nat
    BY FS_AddElement, FS_CardinalityType
  <1>3. Breaks(x) => {c \in S \cup {x} : Breaks(c)} = B \cup {x}
    OBVIOUS
  <1>4. Cardinality(B \cup {x}) = Cardinality(B) + 1
    BY <1>1, FS_AddElement
  <1>5. ~Breaks(x) => {c \in S \cup {x} : Breaks(c)} = B
    OBVIOUS
  <1> QED BY <1>1, <1>2, <1>3, <1>4, <1>5

-----------------------------------------------------------------------------
(* One more declaration for impact. *)

LEMMA NothingBefore ==
    ASSUME NEW o, NEW n \in Source, NEW touched
    PROVE  GoalsBefore(n, touched, 1) = {} /\ CoveragesBefore(o, n, touched, 1) = {}
  <1>1. \A j \in DOMAIN n.decls : ~(j < 1)
    BY DeclFacts
  <1> QED BY <1>1 DEF GoalsBefore, CoveragesBefore

LEMMA OneFurther ==
    ASSUME NEW n \in Source, NEW m \in DOMAIN n.decls
    PROVE  /\ m \in 1..Len(n.decls) /\ m + 1 \in 1..Len(n.decls) + 1
           /\ \A j \in DOMAIN n.decls : j < m + 1 <=> j < m \/ j = m
  BY DeclFacts

-----------------------------------------------------------------------------
(* The invariant holds at first and is preserved. *)

LEMMA Starts == Init => IInv
  <1> SUFFICES ASSUME Init PROVE IInv
    OBVIOUS
  <1>1. old \in Source /\ new \in Source
    BY RevisionsAssumption DEF Init
  <1>2. TypeOK
    BY <1>1, DeclFacts DEF Init, TypeOK
  <1>3. ChangesInv
    BY DEF Init, ChangesInv, Compared
  <1>4. CountInv
    <2>1. {c \in changes : Breaks(c)} = {} /\ changes = {}
      BY DEF Init
    <2> QED BY <2>1, FS_EmptySet DEF Init, CountInv
  <1>5. ImpactInv
    BY <1>1, NothingBefore DEF Init, ImpactInv
  <1>6. ExitInv
    BY DEF Init, ExitInv
  <1> QED BY <1>2, <1>3, <1>4, <1>5, <1>6 DEF IInv

\* Comparing touches nothing that impact reads.
LEMMA ImpactWaits ==
    ASSUME IInv, UNCHANGED <<inputs, at, impactVars>>,
           stage \in {"parse", "new", "old"},
           stage' \notin {"impact", "exit"} \/ at = 1
    PROVE  ImpactInv'
  <1>1. at = 1 /\ affectedGoals = {} /\ affectedCoverages = {} /\ new \in Source
    BY NothingBefore DEF IInv, TypeOK, ImpactInv
  <1>2. at' = 1 /\ affectedGoals' = {} /\ affectedCoverages' = {} /\ new' \in Source
    BY <1>1 DEF inputs, impactVars
  <1>3. GoalsBefore(new', Touched', 1) = {} /\ CoveragesBefore(old', new', Touched', 1) = {}
    BY <1>2, NothingBefore
  <1> QED BY <1>2, <1>3 DEF ImpactInv

LEMMA Comparing ==
    ASSUME IInv, Parse \/ TurnToOld \/ TurnToImpact
    PROVE  IInv'
  <1> USE DEF inputs, summary, diffVars, impactVars
  <1>1. stage \in {"parse", "new", "old"} /\ at = 1 /\ exit = "running"
    BY DEF IInv, ImpactInv, ExitInv, Parse, TurnToOld, TurnToImpact
  <1>2. UNCHANGED <<inputs, diffVars, at, impactVars>>
    BY DEF Parse, TurnToOld, TurnToImpact
  <1>3. TypeOK'
    BY <1>2 DEF IInv, TypeOK, Parse, TurnToOld, TurnToImpact
  <1>4. CountInv'
    BY <1>2 DEF IInv, CountInv
  <1>5. ImpactInv'
    BY <1>1, <1>2, ImpactWaits
  <1>6. ExitInv'
    BY <1>1 DEF IInv, ExitInv, Parse, TurnToOld, TurnToImpact
  <1>7. ChangesInv'
    <2>1. CASE Parse
      <3>1. changes = {}
        BY <2>1 DEF IInv, ChangesInv, Parse
      <3>2. Report(old, new, Keys(new) \ Keys(new), {}) = {}
        BY ReportStarts
      <3> QED BY <1>2, <2>1, <3>1, <3>2 DEF ChangesInv, Compared, Parse
    <2>2. CASE TurnToOld
      <3>1. changes = Report(old, new, Keys(new), {})
        BY <2>2, ReportStarts DEF IInv, ChangesInv, TurnToOld
      <3>2. Report(old, new, Keys(new), Keys(old) \ Keys(old)) = Report(old, new, Keys(new), {})
        BY ReportStarts
      <3> QED BY <1>1, <1>2, <2>2, <3>1, <3>2 DEF ChangesInv, Compared, TurnToOld
    <2>3. CASE TurnToImpact
      <3>1. changes = Report(old, new, Keys(new), Keys(old))
        BY <2>3 DEF IInv, ChangesInv, TurnToImpact
      <3> QED BY <1>1, <1>2, <2>3, <3>1 DEF ChangesInv, Compared, TurnToImpact
    <2> QED BY <2>1, <2>2, <2>3
  <1> QED BY <1>3, <1>4, <1>5, <1>6, <1>7 DEF IInv

\* One more entry: what its numbers and its place in the report must be.
LEMMA Counted ==
    ASSUME CountInv, NEW x, x \notin changes, changes' = changes \cup {x},
           added \in Nat, removed \in Nat, modified \in Nat, breaking \in Nat,
           added' + removed' + modified' = added + removed + modified + 1,
           breaking' = IF Breaks(x) THEN breaking + 1 ELSE breaking
    PROVE  CountInv'
  <1>1. Cardinality(changes') = Cardinality(changes) + 1 /\ IsFiniteSet(changes')
    BY OneMore DEF CountInv
  <1>2. Cardinality({c \in changes' : Breaks(c)}) = breaking'
    BY OneMore DEF CountInv
  <1>3. added' + removed' + modified' = Cardinality(changes')
    BY <1>1 DEF CountInv
  <1> QED BY <1>1, <1>2, <1>3 DEF CountInv, Breaks

LEMMA Visiting ==
    ASSUME IInv, NEW k \in left, Added(k) \/ Modified(k) \/ Unchanged(k) \/ Removed(k)
    PROVE  IInv'
  <1> USE DEF inputs, summary, diffVars, impactVars
  <1>1. /\ stage \in {"new", "old"} /\ stage' = stage /\ left' = left \ {k}
        /\ UNCHANGED <<inputs, at, impactVars, exit>>
    BY DEF Added, Modified, Unchanged, Removed, Visit
  <1>2. /\ stage = "new" => k \in Keys(new) /\ Keys(new) \ left' = (Keys(new) \ left) \cup {k}
        /\ stage = "old" => k \in Keys(old) /\ Keys(old) \ left' = (Keys(old) \ left) \cup {k}
        /\ left' \subseteq left
    BY <1>1 DEF IInv, ChangesInv
  <1>3. old \in Source /\ new \in Source
    BY DEF IInv, TypeOK
  <1>4. k \in Keys(old) \cup Keys(new)
    BY <1>1, <1>2
  <1>5. {AddedAt(k), RemovedAt(k), ModifiedAt(old, new, k)} \subseteq Change
    BY <1>3, <1>4, EntriesAreChanges
  <1>6. ~Breaks(AddedAt(k)) /\ Breaks(RemovedAt(k))
        /\ (Breaks(ModifiedAt(old, new, k)) <=> Classify(Indexed(old, k), Indexed(new, k)) # "loosened")
    BY DEF Breaks, AddedAt, RemovedAt, ModifiedAt
  <1>7. /\ stage = "new" => changes = Report(old, new, Keys(new) \ left, {})
        /\ stage = "old" => changes = Report(old, new, Keys(new), Keys(old) \ left)
    BY DEF IInv, ChangesInv
  <1>8. added \in Nat /\ removed \in Nat /\ modified \in Nat /\ breaking \in Nat /\ CountInv
    BY DEF IInv, TypeOK
  <1>9. ImpactInv' /\ ExitInv'
    <2>1. ImpactInv'
      BY <1>1, ImpactWaits
    <2>2. ExitInv'
      BY <1>1 DEF IInv, ExitInv
    <2> QED BY <2>1, <2>2
  <1>10. /\ TypeOK' /\ CountInv'
         /\ stage = "new" => changes' = Report(old, new, (Keys(new) \ left) \cup {k}, {})
         /\ stage = "old" => changes' = Report(old, new, Keys(new), (Keys(old) \ left) \cup {k})
    <2>1. CASE Added(k)
      <3>1. /\ changes' = changes \cup {AddedAt(k)} /\ stage = "new" /\ k \notin Keys(old)
            /\ added' = added + 1 /\ UNCHANGED <<removed, modified, breaking>>
        BY <2>1 DEF Added, Visit, AddedAt
      <3>2. AddedAt(k) \notin changes
        BY <1>7, <3>1, ReportLacks
      <3>3. added' + removed' + modified' = added + removed + modified + 1
        BY <1>8, <3>1
      <3>4. CountInv'
        BY <1>6, <1>8, <3>1, <3>2, <3>3, Counted
      <3>5. changes' = Report(old, new, (Keys(new) \ left) \cup {k}, {})
        <4>1. Report(old, new, (Keys(new) \ left) \cup {k}, {})
                = Report(old, new, Keys(new) \ left, {}) \cup {AddedAt(k)}
          BY <3>1 DEF Report, Differ
        <4> QED BY <1>7, <3>1, <4>1
      <3>6. TypeOK'
        BY <1>1, <1>5, <1>8, <3>1 DEF IInv, TypeOK
      <3> QED BY <3>1, <3>4, <3>5, <3>6
    <2>2. CASE Modified(k)
      <3>1. /\ changes' = changes \cup {ModifiedAt(old, new, k)} /\ stage = "new"
            /\ k \in Keys(old) /\ Indexed(old, k) # Indexed(new, k)
            /\ modified' = modified + 1 /\ UNCHANGED <<removed, added>>
            /\ breaking' = IF Classify(Indexed(old, k), Indexed(new, k)) = "loosened"
                           THEN breaking ELSE breaking + 1
        BY <2>2 DEF Modified, Visit, ModifiedAt
      <3>2. ModifiedAt(old, new, k) \notin changes
        BY <1>7, <3>1, ReportLacks
      <3>3. added' + removed' + modified' = added + removed + modified + 1
        BY <1>8, <3>1
      <3>4. CountInv'
        BY <1>6, <1>8, <3>1, <3>2, <3>3, Counted
      <3>5. k \in Differ(old, new)
        BY <1>2, <3>1 DEF Differ
      <3>6. changes' = Report(old, new, (Keys(new) \ left) \cup {k}, {})
        <4>1. Report(old, new, (Keys(new) \ left) \cup {k}, {})
                = Report(old, new, Keys(new) \ left, {}) \cup {ModifiedAt(old, new, k)}
          BY <3>1, <3>5 DEF Report
        <4> QED BY <1>7, <3>1, <4>1
      <3>7. breaking' \in Nat /\ modified' \in Nat /\ added' \in Nat /\ removed' \in Nat
        BY <1>8, <3>1
      <3>8. TypeOK'
        BY <1>1, <1>5, <3>1, <3>7 DEF IInv, TypeOK
      <3> QED BY <3>1, <3>4, <3>6, <3>8
    <2>3. CASE Unchanged(k)
      <3>1. UNCHANGED diffVars
        BY <2>3 DEF Unchanged
      <3>2. /\ stage = "new" => k \in Keys(old) \ Differ(old, new)
            /\ stage = "old" => k \in Keys(new)
        BY <2>3 DEF Unchanged, Visit, Differ
      <3>3. /\ stage = "new" => changes' = Report(old, new, (Keys(new) \ left) \cup {k}, {})
            /\ stage = "old" => changes' = Report(old, new, Keys(new), (Keys(old) \ left) \cup {k})
        <4>1. k \in Keys(old) \ Differ(old, new) =>
                Report(old, new, (Keys(new) \ left) \cup {k}, {}) = Report(old, new, Keys(new) \ left, {})
          BY DEF Report, Differ
        <4>2. k \in Keys(new) =>
                Report(old, new, Keys(new), (Keys(old) \ left) \cup {k}) = Report(old, new, Keys(new), Keys(old) \ left)
          BY DEF Report, Differ
        <4> QED BY <1>7, <3>1, <3>2, <4>1, <4>2
      <3>4. CountInv'
        BY <1>8, <3>1 DEF CountInv
      <3>5. TypeOK'
        BY <1>1, <3>1 DEF IInv, TypeOK
      <3> QED BY <3>3, <3>4, <3>5
    <2>4. CASE Removed(k)
      <3>1. /\ changes' = changes \cup {RemovedAt(k)} /\ stage = "old" /\ k \notin Keys(new)
            /\ removed' = removed + 1 /\ breaking' = breaking + 1 /\ UNCHANGED <<added, modified>>
        BY <2>4 DEF Removed, Visit, RemovedAt
      <3>2. RemovedAt(k) \notin changes
        BY <1>7, <3>1, ReportLacks
      <3>3. added' + removed' + modified' = added + removed + modified + 1
        BY <1>8, <3>1
      <3>4. CountInv'
        BY <1>6, <1>8, <3>1, <3>2, <3>3, Counted
      <3>5. changes' = Report(old, new, Keys(new), (Keys(old) \ left) \cup {k})
        <4>1. Report(old, new, Keys(new), (Keys(old) \ left) \cup {k})
                = Report(old, new, Keys(new), Keys(old) \ left) \cup {RemovedAt(k)}
          BY <3>1 DEF Report, Differ
        <4> QED BY <1>7, <3>1, <4>1
      <3>6. TypeOK'
        BY <1>1, <1>5, <1>8, <3>1 DEF IInv, TypeOK
      <3> QED BY <3>1, <3>4, <3>5, <3>6
    <2> QED BY <2>1, <2>2, <2>3, <2>4
  <1>11. ChangesInv'
    BY <1>1, <1>2, <1>7, <1>10 DEF IInv, ChangesInv, Compared, ExitInv
  <1> QED BY <1>9, <1>10, <1>11 DEF IInv

LEMMA Looked ==
    ASSUME IInv, LookAtGoal \/ LookAtCoverage \/ PassOver
    PROVE  IInv'
  <1> USE DEF inputs, summary, diffVars, impactVars
  <1>1. /\ stage = "impact" /\ at \in DOMAIN new.decls /\ at' = at + 1
        /\ UNCHANGED <<inputs, stage, left, diffVars, exit>>
    BY DEF LookAtGoal, LookAtCoverage, PassOver, Looking
  <1>2. old \in Source /\ new \in Source
    BY DEF IInv, TypeOK
  <1>3. Touched' = Touched
    BY <1>1 DEF Touched
  <1> DEFINE d == new.decls[at]
             goals == IF d.decl = "goal" /\ Items(d.realizedBy) \cap Touched # {} THEN {d.name} ELSE {}
             coverages == IF d.decl = "coverage"
                             /\ \E e \in TextsOf(old, Touched) : Values(d) \cap Occurs[e] # {}
                          THEN {d.name} ELSE {}
  <1>4. affectedGoals' = affectedGoals \cup goals /\ affectedCoverages' = affectedCoverages \cup coverages
    <2>1. CASE LookAtGoal
      BY <2>1 DEF LookAtGoal, Looking
    <2>2. CASE LookAtCoverage
      <3>1. ReadsTouched(d) <=> \E e \in TextsOf(old, Touched) : Values(d) \cap Occurs[e] # {}
        BY DEF ReadsTouched, TouchedTexts, TextsOf
      <3> QED BY <2>2, <3>1 DEF LookAtCoverage, Looking
    <2>3. CASE PassOver
      BY <2>3 DEF PassOver, Looking
    <2> QED BY <2>1, <2>2, <2>3
  <1>5. /\ at \in 1..Len(new.decls) /\ at + 1 \in 1..Len(new.decls) + 1
        /\ GoalsBefore(new, Touched, at + 1) = GoalsBefore(new, Touched, at) \cup goals
        /\ CoveragesBefore(old, new, Touched, at + 1) = CoveragesBefore(old, new, Touched, at) \cup coverages
    <2>0. \A j \in DOMAIN new.decls : j < at + 1 <=> j < at \/ j = at
      BY <1>1, <1>2, OneFurther
    <2>1. at \in 1..Len(new.decls) /\ at + 1 \in 1..Len(new.decls) + 1 /\ ~(at < at)
      BY <1>1, <1>2, OneFurther
    <2>2. GoalsBefore(new, Touched, at + 1) = GoalsBefore(new, Touched, at) \cup goals
      BY <1>1, <2>0, <2>1 DEF GoalsBefore
    <2>3. CoveragesBefore(old, new, Touched, at + 1) = CoveragesBefore(old, new, Touched, at) \cup coverages
      BY <1>1, <2>0, <2>1 DEF CoveragesBefore
    <2> QED BY <2>1, <2>2, <2>3
  <1>6. exit = "running" /\ exit' = "running" /\ stage' = "impact"
    BY <1>1 DEF IInv, ExitInv
  <1>7. ImpactInv'
    <2>1. affectedGoals' = GoalsBefore(new', Touched', at')
      BY <1>1, <1>3, <1>4, <1>5 DEF IInv, ImpactInv
    <2>2. affectedCoverages' = CoveragesBefore(old', new', Touched', at')
      BY <1>1, <1>3, <1>4, <1>5 DEF IInv, ImpactInv
    <2> QED BY <1>6, <2>1, <2>2 DEF ImpactInv
  <1>8. TypeOK'
    <2>1. {d.name} \subseteq {x.name : x \in Decls(new)}
      BY <1>1, <1>2, DeclFacts
    <2>2. affectedGoals' \subseteq {x.name : x \in Decls(new)}
          /\ affectedCoverages' \subseteq {x.name : x \in Decls(new)}
      BY <1>4, <2>1 DEF IInv, TypeOK
    <2> QED BY <1>1, <1>5, <1>6, <2>2 DEF IInv, TypeOK
  <1>9. ChangesInv' /\ CountInv' /\ ExitInv'
    <2>1. ChangesInv'
      BY <1>1, <1>6 DEF IInv, ChangesInv, Compared
    <2>2. CountInv'
      BY <1>1 DEF IInv, CountInv
    <2>3. ExitInv'
      BY <1>6 DEF ExitInv
    <2> QED BY <2>1, <2>2, <2>3
  <1> QED BY <1>7, <1>8, <1>9 DEF IInv

LEMMA Printed ==
    ASSUME IInv, Finish
    PROVE  IInv'
  <1> USE DEF inputs, summary, diffVars, impactVars
  <1>1. /\ stage = "impact" /\ stage' = "exit" /\ exit' = "ok" /\ at > Len(new.decls)
        /\ UNCHANGED <<inputs, left, diffVars, at, impactVars>>
    BY DEF Finish
  <1>2. exit = "running"
    BY <1>1 DEF IInv, ExitInv
  <1>3. TypeOK'
    BY <1>1 DEF IInv, TypeOK
  <1>4. ChangesInv'
    BY <1>1, <1>2 DEF IInv, ChangesInv, Compared
  <1>5. CountInv'
    BY <1>1 DEF IInv, CountInv
  <1>6. Touched' = Touched
    BY <1>1 DEF Touched
  <1>7. ImpactInv'
    BY <1>1, <1>6 DEF IInv, ImpactInv
  <1>8. at = Len(new.decls) + 1
    <2>1. at \in 1..Len(new.decls) + 1 /\ Len(new.decls) \in Nat
      BY DeclFacts DEF IInv, TypeOK
    <2> QED BY <1>1, <2>1
  <1>9. ExitInv'
    BY <1>1, <1>8 DEF ExitInv
  <1> QED BY <1>3, <1>4, <1>5, <1>7, <1>9 DEF IInv

LEMMA Stutters ==
    ASSUME IInv, UNCHANGED vars
    PROVE  IInv'
  <1> USE DEF inputs, summary, diffVars, impactVars, vars
  <1>1. Touched' = Touched
    BY DEF Touched
  <1>2. TypeOK' /\ CountInv' /\ ExitInv'
    BY DEF IInv, TypeOK, CountInv, ExitInv
  <1>3. ChangesInv'
    BY DEF IInv, ChangesInv, Compared
  <1>4. ImpactInv'
    BY <1>1 DEF IInv, ImpactInv
  <1> QED BY <1>2, <1>3, <1>4 DEF IInv

LEMMA Preserved == IInv /\ [Next]_vars => IInv'
  <1> SUFFICES ASSUME IInv, [Next]_vars PROVE IInv'
    OBVIOUS
  <1>1. CASE Parse \/ TurnToOld \/ TurnToImpact
    BY <1>1, Comparing
  <1>2. CASE \E k \in left : Added(k) \/ Modified(k) \/ Unchanged(k) \/ Removed(k)
    BY <1>2, Visiting
  <1>3. CASE LookAtGoal \/ LookAtCoverage \/ PassOver
    BY <1>3, Looked
  <1>4. CASE Finish
    BY <1>4, Printed
  <1>5. CASE UNCHANGED vars
    BY <1>5, Stutters
  <1> QED BY <1>1, <1>2, <1>3, <1>4, <1>5 DEF Next

\* The strengthened invariant is one.
THEOREM Inv == Spec => []IInv
  BY Starts, Preserved, PTL DEF Spec

\* Every step of a comparison keeps its state in the declared ranges: positions,
\* classes of change and names that are reported (diff and impact).
THEOREM TypeCorrect == Spec => []TypeOK
  <1>1. IInv => TypeOK
    BY DEF IInv
  <1> QED BY <1>1, Inv, PTL

-----------------------------------------------------------------------------
(* What the finished report says. *)

LEMMA EntryParts ==
    ASSUME NEW o, NEW n, NEW k
    PROVE  /\ AddedAt(k).change = "added" /\ AddedAt(k).key = k
           /\ RemovedAt(k).change = "removed" /\ RemovedAt(k).key = k
           /\ ModifiedAt(o, n, k).change = "modified" /\ ModifiedAt(o, n, k).key = k
           /\ ModifiedAt(o, n, k).class = Classify(Indexed(o, k), Indexed(n, k))
  BY DEF AddedAt, RemovedAt, ModifiedAt

LEMMA FinalReport ==
    ASSUME IInv, Compared
    PROVE  /\ {c.key : c \in {d \in changes : d.change = "added"}} = Keys(new) \ Keys(old)
           /\ {c.key : c \in {d \in changes : d.change = "removed"}} = Gone
           /\ {c.key : c \in {d \in changes : d.change = "modified"}} = Differing
           /\ {c.key : c \in {d \in changes : d.change # "added"}} = Gone \cup Differing
  <1>1. \A c : c \in changes <=>
               \/ \E k \in Keys(new) \ Keys(old) : c = AddedAt(k)
               \/ \E k \in Differing : c = ModifiedAt(old, new, k)
               \/ \E k \in Gone : c = RemovedAt(k)
    BY DEF IInv, ChangesInv, Report, Differ, Differing, Gone
  <1>2. {c.key : c \in {d \in changes : d.change = "added"}} = Keys(new) \ Keys(old)
    <2>1. \A c \in changes : c.change = "added" => c.key \in Keys(new) \ Keys(old)
      <3> TAKE c \in changes
      <3>1. CASE \E k \in Keys(new) \ Keys(old) : c = AddedAt(k)
        BY <3>1, EntryParts
      <3>2. CASE \E k \in Differing : c = ModifiedAt(old, new, k)
        BY <3>2, EntryParts
      <3>3. CASE \E k \in Gone : c = RemovedAt(k)
        BY <3>3, EntryParts
      <3> QED BY <1>1, <3>1, <3>2, <3>3
    <2>2. \A k \in Keys(new) \ Keys(old) :
            AddedAt(k) \in changes /\ AddedAt(k).change = "added" /\ AddedAt(k).key = k
      BY <1>1, EntryParts
    <2> QED BY <2>1, <2>2
  <1>3. {c.key : c \in {d \in changes : d.change = "removed"}} = Gone
    BY <1>1, EntryParts
  <1>4. {c.key : c \in {d \in changes : d.change = "modified"}} = Differing
    BY <1>1, EntryParts
  <1>5. {c.key : c \in {d \in changes : d.change # "added"}} = Gone \cup Differing
    BY <1>1, EntryParts
  <1> QED BY <1>2, <1>3, <1>4, <1>5

\* In whatever order the hash maps are walked, the report names every difference
\* once and its summary counts it (diff).
THEOREM ReportAlwaysExact == Spec => []ReportIsExact
  <1>1. IInv => ReportIsExact
    BY FinalReport DEF ReportIsExact, IInv, CountInv
  <1> QED BY <1>1, Inv, PTL

\* The touched names are those of the keys that are gone or different.
LEMMA TouchedNames ==
    ASSUME IInv, Compared
    PROVE  Touched = {k[2] : k \in Gone \cup Differing}
  <1>1. Touched = {k[2] : k \in {c.key : c \in {d \in changes : d.change # "added"}}}
    BY DEF Touched
  <1> QED BY <1>1, FinalReport

\* A quiet comparison flags nothing: no key is gone, and what differs is loosened.
LEMMA QuietReport ==
    ASSUME IInv, Compared, breaking = 0
    PROVE  /\ Keys(old) \subseteq Keys(new)
           /\ \A k \in Keys(old) : \/ Indexed(old, k) = Indexed(new, k)
                                    \/ Classify(Indexed(old, k), Indexed(new, k)) = "loosened"
  <1>1. {c \in changes : Breaks(c)} = {}
    <2>1. IsFiniteSet({c \in changes : Breaks(c)})
      BY FS_Subset DEF IInv, CountInv
    <2> QED BY <2>1, FS_EmptySet DEF IInv, CountInv
  <1>2. changes = Report(old, new, Keys(new), Keys(old))
    BY DEF IInv, ChangesInv
  <1>3. ASSUME NEW k \in Keys(old) PROVE k \in Keys(new)
    <2>1. SUFFICES ASSUME k \notin Keys(new) PROVE FALSE
      OBVIOUS
    <2>2. RemovedAt(k) \in changes
      BY <1>2, <2>1 DEF Report
    <2> QED BY <1>1, <2>2, EntryParts DEF Breaks
  <1>4. ASSUME NEW k \in Keys(old), Indexed(old, k) # Indexed(new, k)
        PROVE  Classify(Indexed(old, k), Indexed(new, k)) = "loosened"
    <2>1. k \in Differ(old, new)
      BY <1>3, <1>4 DEF Differ
    <2>2. ModifiedAt(old, new, k) \in changes
      BY <1>2, <1>3, <2>1 DEF Report
    <2> QED BY <1>1, <2>2, EntryParts DEF Breaks
  <1> QED BY <1>3, <1>4

\* Fewer requires, more ensures and a frame no wider: the successor serves.
LEMMA ServesBySubsets ==
    ASSUME NEW o, NEW n,
           Items(n.requires) \subseteq Items(o.requires), Items(o.ensures) \subseteq Items(n.ensures),
           SameShape(o, n), SameInvariants(o, n)
    PROVE  Serves(n, o)
  <1> SUFFICES ASSUME NEW s \in State, NEW t \in State, Accepts(o, s, t)
               PROVE  Accepts(n, s, t) /\ (Permits(n, s, t) => Permits(o, s, t))
    BY DEF Serves
  <1>1. Accepts(n, s, t)
    BY DEF Accepts, SameInvariants
  <1>2. Framed(o, Frame(o)) \subseteq Framed(n, Frame(n))
    BY DEF Framed, SameShape
  <1>3. Agree(s, t, Framed(n, Frame(n))) => Agree(s, t, Framed(o, Frame(o)))
    BY <1>2 DEF Agree
  <1>4. Permits(n, s, t) => Permits(o, s, t)
    BY <1>3 DEF Permits, SameInvariants
  <1> QED BY <1>1, <1>4

LEMMA IntentSignature ==
    ASSUME NEW d, d.decl = "intent"
    PROVE  /\ Signature(d).requires = d.requires /\ Signature(d).ensures = d.ensures
           /\ Signature(d).invariants = d.invariants
           /\ Key(d) = <<"intent", d.name>>
  BY DEF Signature, Key

\* With nothing potentially breaking in it a comparison is safe for the callers
\* of the old intents, if parameters, frames and invariants are as they were
\* (classify and the summary of diff).
THEOREM QuietIsCompatible == Spec => []QuietMeansCompatible
  <1>1. ASSUME IInv, Compared, breaking = 0, DistinctKeys(old), DistinctKeys(new), NEW o \in IntentsOf(old)
        PROVE  \E n \in IntentsOf(new) :
                  n.name = o.name /\ (SameShape(o, n) /\ SameInvariants(o, n) => Serves(n, o))
    <2> DEFINE k == Key(o)
    <2>1. old \in Source /\ new \in Source /\ o \in Decls(old) /\ o.decl = "intent"
      BY <1>1 DEF IInv, TypeOK, IntentsOf
    <2>2. k \in Keys(old) /\ k = <<"intent", o.name>>
      BY <2>1 DEF Keys, Key
    <2>3. k \in Keys(new)
      BY <1>1, <2>2, QuietReport
    <2>4. PICK n \in Decls(new) : Key(n) = k
      BY <2>3 DEF Keys
    <2>5. n.decl = "intent" /\ n.name = o.name /\ n \in IntentsOf(new)
      BY <2>2, <2>4 DEF Key, IntentsOf
    <2>6. Indexed(old, k) = Signature(o) /\ Indexed(new, k) = Signature(n)
      <3>1. Indexed(old, k) = Signature(o)
        BY <1>1, <2>1, IndexedAlone
      <3>2. Indexed(new, Key(n)) = Signature(n)
        BY <1>1, <2>1, <2>4, IndexedAlone
      <3> QED BY <2>4, <3>1, <3>2
    <2>7. Signature(o) = Signature(n) \/ Classify(Signature(o), Signature(n)) = "loosened"
      BY <1>1, <2>2, <2>6, QuietReport
    <2>8. /\ Items(n.requires) \subseteq Items(o.requires)
          /\ Items(o.ensures) \subseteq Items(n.ensures)
      <3>1. CASE Signature(o) = Signature(n)
        <4>1. o.requires = n.requires /\ o.ensures = n.ensures
          BY <2>1, <2>5, <3>1, IntentSignature
        <4> QED BY <4>1
      <3>2. CASE Classify(Signature(o), Signature(n)) = "loosened"
        <4>1. Loosens(Signature(o), Signature(n))
          BY <3>2 DEF Classify
        <4> QED BY <2>1, <2>5, <4>1, IntentSignature DEF Loosens
      <3> QED BY <2>7, <3>1, <3>2
    <2>9. SameShape(o, n) /\ SameInvariants(o, n) => Serves(n, o)
      BY <2>8, ServesBySubsets
    <2> QED BY <2>5, <2>9
  <1>2. IInv => QuietMeansCompatible
    BY <1>1 DEF QuietMeansCompatible
  <1> QED BY <1>2, Inv, PTL

\* An untouched intent still says what it said.
LEMMA UntouchedTexts ==
    ASSUME IInv, Compared, DistinctKeys(old), DistinctKeys(new),
           NEW i \in IntentsOf(old), i.name \notin Touched
    PROVE  \E n \in Decls(new) : Texts(n) = Texts(i)
  <1>1. old \in Source /\ new \in Source /\ i \in Decls(old) /\ i.decl = "intent"
    BY DEF IInv, TypeOK, IntentsOf
  <1>2. Key(i) \in Keys(old) /\ Key(i) = <<"intent", i.name>>
    BY <1>1 DEF Keys, Key
  <1>3. Key(i) \notin Gone \cup Differing
    <2>1. Key(i)[2] = i.name
      BY <1>2
    <2> QED BY <2>1, TouchedNames
  <1>4. Key(i) \in Keys(new) /\ Indexed(old, Key(i)) = Indexed(new, Key(i))
    BY <1>2, <1>3 DEF Gone, Differing
  <1>5. PICK n \in Decls(new) : Key(n) = Key(i)
    BY <1>4 DEF Keys
  <1>6. n.decl = "intent"
    BY <1>2, <1>5 DEF Key
  <1>7. Indexed(old, Key(i)) = Signature(i) /\ Indexed(new, Key(n)) = Signature(n)
    BY <1>1, <1>5, IndexedAlone
  <1>8. n.requires = i.requires /\ n.ensures = i.ensures /\ n.invariants = i.invariants
    BY <1>1, <1>4, <1>5, <1>6, <1>7, IntentSignature
  <1> QED BY <1>1, <1>6, <1>8 DEF Texts

\* A combination that an old intent witnessed and nothing witnesses any more is
\* among the affected coverages (coverage_report and impact).
THEOREM LostWitnessAlwaysReported == Spec => []LostWitnessIsReported
  <1>1. ASSUME IInv, Reported, DistinctKeys(old), DistinctKeys(new),
               NEW c \in Decls(new), c.decl = "coverage", c.dimensions # <<>>,
               NEW f \in Combinations(c),
               \E i \in IntentsOf(old) : Witnesses(i, f) # {}, ~Covered(new, f)
        PROVE  c.name \in affectedCoverages
    <2>1. Compared /\ at = Len(new.decls) + 1 /\ new \in Source
      BY <1>1 DEF IInv, ExitInv, TypeOK, Reported, Compared
    <2>2. PICK i \in IntentsOf(old) : Witnesses(i, f) # {}
      BY <1>1
    <2>3. PICK e \in Texts(i) : Items(f) \subseteq Occurs[e]
      BY <2>2 DEF Witnesses
    <2>4. i.name \in Touched
      <3>1. SUFFICES ASSUME i.name \notin Touched PROVE FALSE
        OBVIOUS
      <3>2. PICK n \in Decls(new) : Texts(n) = Texts(i)
        BY <1>1, <2>1, <3>1, UntouchedTexts
      <3> QED BY <1>1, <2>3, <3>2 DEF Covered, Witnesses
    <2>5. e \in TextsOf(old, Touched)
      BY <2>3, <2>4 DEF TextsOf, IntentsOf
    <2>6. Values(c) \cap Occurs[e] # {}
      <3>1. c \in CoverageNode
        <4>1. c \in Node
          BY <2>1, DeclFacts
        <4> QED BY <1>1, <4>1 DEF Node, IntentNode, SafetyNode, TheoremNode, GoalNode, OtherNode
      <3>2. c.dimensions \in Seq(Seq(Word))
        BY <3>1 DEF CoverageNode
      <3>3. 1 \in DOMAIN c.dimensions
        BY <1>1, <3>2
      <3>4. DOMAIN f = DOMAIN c.dimensions /\ f[1] \in Items(c.dimensions[1]) /\ f[1] \in Items(f)
        BY <3>3 DEF Combinations, Items
      <3>5. Items(c.dimensions[1]) \subseteq Values(c)
        BY <3>3 DEF Values, Items
      <3> QED BY <2>3, <3>4, <3>5
    <2>7. PICK m \in DOMAIN new.decls : new.decls[m] = c
      BY DEF Decls, Items
    <2>8. m < at
      BY <2>1, <2>7, DeclFacts
    <2>9. c.name \in CoveragesBefore(old, new, Touched, at)
      BY <1>1, <2>5, <2>6, <2>7, <2>8 DEF CoveragesBefore
    <2> QED BY <1>1, <2>9 DEF IInv, ImpactInv
  <1>2. IInv => LostWitnessIsReported
    BY <1>1 DEF LostWitnessIsReported
  <1> QED BY <1>2, Inv, PTL

\* A goal is reported affected exactly when something of the old file with the
\* name of what realizes it is gone or different (impact).
THEOREM GoalImpactAlwaysExact == Spec => []GoalImpactIsExact
  <1>1. ASSUME IInv, Reported,
               NEW g
        PROVE  g \in affectedGoals <=>
                  \E d \in Decls(new) : \E k \in Gone \cup Differing :
                      d.decl = "goal" /\ d.name = g /\ k[2] \in Items(d.realizedBy)
    <2>1. Compared /\ at = Len(new.decls) + 1 /\ new \in Source
      BY <1>1 DEF IInv, ExitInv, TypeOK, Reported, Compared
    <2>2. \A m \in DOMAIN new.decls : m < at
      BY <2>1, DeclFacts
    <2>3. g \in affectedGoals <=>
            \E m \in DOMAIN new.decls : /\ new.decls[m].decl = "goal" /\ new.decls[m].name = g
                                       /\ Items(new.decls[m].realizedBy) \cap Touched # {}
      BY <1>1, <2>2 DEF IInv, ImpactInv, GoalsBefore
    <2>4. \A d : Items(d.realizedBy) \cap Touched # {}
                    <=> \E k \in Gone \cup Differing : k[2] \in Items(d.realizedBy)
      BY <1>1, <2>1, TouchedNames
    <2>5. \A d : d \in Decls(new) <=> \E m \in DOMAIN new.decls : new.decls[m] = d
      BY DEF Decls, Items
    <2> QED BY <2>3, <2>4, <2>5
  <1>2. IInv => GoalImpactIsExact
    BY <1>1 DEF GoalImpactIsExact
  <1> QED BY <1>2, Inv, PTL

=============================================================================
