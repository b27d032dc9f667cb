------------------------------ MODULE Revision ------------------------------
(***************************************************************************)
(* `intent diff` and `intent impact`: two revisions of a file compared      *)
(* declaration by declaration (diff, index_decls, classify and impact of    *)
(* crates/intent-lang-core/src/analysis.rs), with the coverage report whose *)
(* losses impact is to announce.  The indices are hash maps, so the order   *)
(* of the comparison is not fixed.                                          *)
(***************************************************************************)
EXTENDS Vcgen

CONSTANTS
    Word,        \* values of the dimensions of a coverage
    Occurs,      \* Occurs[e]: the words the text of clause e contains
    Revisions    \* pairs of files, an old and a new one

\* The text of a clause is its name in Expr.
IntentNode == [decl : {"intent"}, name : STRING, params : SUBSET Param, modifies : ModifiesSpec,
               requires : Seq(Expr), ensures : Seq(Expr), invariants : Seq(Expr)]
SafetyNode == [decl : {"safety"}, name : STRING, invariants : Seq(Expr)]
TheoremNode == [decl : {"theorem"}, name : STRING, body : Expr]
GoalNode == [decl : {"goal"}, name : STRING, realizedBy : Seq(STRING), body : Seq(STRING)]
CoverageNode == [decl : {"coverage"}, name : STRING, dimensions : Seq(Seq(Word))]
OtherNode == [decl : {"type", "enum", "function", "axiom"}, name : STRING, body : Seq(STRING)]
Node == IntentNode \cup SafetyNode \cup TheoremNode \cup GoalNode \cup CoverageNode \cup OtherNode

Kind == {"intent", "safety", "theorem", "goal", "coverage", "type", "enum", "function", "axiom"}

Source == [parses : BOOLEAN, decls : Seq(Node)]

ASSUME WordAssumption == Occurs \in [Expr -> SUBSET Word]
ASSUME RevisionsAssumption == Revisions \subseteq Source \X Source

VARIABLES
    old, new,
    stage,
    left,                                 \* keys of the index not yet visited
    changes,
    added, removed, modified, breaking,   \* the summary
    at,                                   \* declaration impact looks at next
    affectedGoals, affectedCoverages,
    exit

inputs == <<old, new>>
summary == <<added, removed, modified, breaking>>
diffVars == <<changes, summary>>
impactVars == <<affectedGoals, affectedCoverages>>
vars == <<inputs, stage, left, diffVars, at, impactVars, exit>>

Items(seq) == {seq[n] : n \in DOMAIN seq}
Decls(p) == Items(p.decls)

-----------------------------------------------------------------------------
(* Coverage: a combination of one word per dimension is witnessed by every   *)
(* clause whose text contains all of them.                                   *)

Texts(d) ==
    CASE d.decl = "intent"  -> Items(d.requires) \cup Items(d.ensures) \cup Items(d.invariants)
      [] d.decl = "safety"  -> Items(d.invariants)
      [] d.decl = "theorem" -> {d.body}
      [] d.decl \notin {"intent", "safety", "theorem"} -> {}

Combinations(c) ==
    {f \in [DOMAIN c.dimensions -> Word] : \A n \in DOMAIN f : f[n] \in Items(c.dimensions[n])}
Witnesses(d, combination) == {e \in Texts(d) : Items(combination) \subseteq Occurs[e]}
Covered(p, combination) == \E d \in Decls(p) : Witnesses(d, combination) # {}

-----------------------------------------------------------------------------
(* index_decls: the signature of a declaration under its kind and name; some *)
(* kinds have none.  Of two declarations with one key the later one is kept. *)

Key(d) == <<d.decl, d.name>>
Keys(p) == {Key(d) : d \in {x \in Decls(p) : x.decl \notin {"function", "axiom"}}}

Signature(d) ==
    CASE d.decl = "intent"   -> [requires |-> d.requires, ensures |-> d.ensures,
                                 invariants |-> d.invariants, body |-> <<>>]
      [] d.decl = "safety"   -> [requires |-> <<>>, ensures |-> <<>>, invariants |-> d.invariants, body |-> <<>>]
      [] d.decl = "theorem"  -> [requires |-> <<>>, ensures |-> <<>>, invariants |-> <<>>, body |-> <<d.body>>]
      [] d.decl = "goal"     -> [requires |-> <<>>, ensures |-> <<>>, invariants |-> d.realizedBy, body |-> d.body]
      [] d.decl = "coverage" -> [requires |-> <<>>, ensures |-> <<>>, invariants |-> <<>>, body |-> d.dimensions]
      [] d.decl \in {"type", "enum", "function", "axiom"} ->
                                [requires |-> <<>>, ensures |-> <<>>, invariants |-> <<>>, body |-> d.body]

WithKey(p, k) == {n \in DOMAIN p.decls : Key(p.decls[n]) = k}
Indexed(p, k) == Signature(p.decls[CHOOSE n \in WithKey(p, k) : \A m \in WithKey(p, k) : m <= n])

\* Fewer requires are looser, whatever happens to the ensures.
ClassifyByRequires(o, n) ==
    IF Items(n.requires) \subseteq Items(o.requires) THEN "loosened"
    ELSE IF Items(o.requires) \subseteq Items(n.requires) THEN "tightened" ELSE "reshaped"

\* A reordering is a class of its own.
ClassifyReordered(o, n) ==
    IF Items(n.requires) = Items(o.requires) /\ Items(n.ensures) = Items(o.ensures) THEN "reordered"
    ELSE IF Items(n.requires) \subseteq Items(o.requires) THEN "loosened" ELSE "tightened"

\* classify; the invariants and the body have no say.
ConditionsDiffer(o, n) == Items(n.requires) # Items(o.requires) \/ Items(n.ensures) # Items(o.ensures)
Loosens(o, n) ==
    Items(n.requires) \subseteq Items(o.requires) /\ Items(o.ensures) \subseteq Items(n.ensures)
Classify(o, n) ==
    IF Loosens(o, n) /\ ConditionsDiffer(o, n) THEN "loosened"
    ELSE IF Loosens(n, o) /\ ConditionsDiffer(o, n) THEN "tightened" ELSE "reshaped"

-----------------------------------------------------------------------------
(* diff: the new index, then the old one, each in any order. *)

Change == [change : {"added", "removed"}, key : Kind \X STRING]
          \cup [change : {"modified"}, key : Kind \X STRING, class : {"loosened", "tightened", "reshaped"}]

Init ==
    /\ \E r \in Revisions : old = r[1] /\ new = r[2]
    /\ stage = "parse" /\ left = {}
    /\ changes = {} /\ added = 0 /\ removed = 0 /\ modified = 0 /\ breaking = 0
    /\ at = 1 /\ affectedGoals = {} /\ affectedCoverages = {}
    /\ exit = "running"

Parse ==
    /\ stage = "parse"
    /\ IF old.parses /\ new.parses
       THEN stage' = "new" /\ left' = Keys(new) /\ UNCHANGED exit
       ELSE stage' = "exit" /\ exit' = "fail" /\ UNCHANGED left
    /\ UNCHANGED <<inputs, diffVars, at, impactVars>>

Visit(in, k) == stage = in /\ k \in left /\ left' = left \ {k}

Added(k) ==
    /\ Visit("new", k) /\ k \notin Keys(old)
    /\ changes' = changes \cup {[change |-> "added", key |-> k]}
    /\ added' = added + 1
    /\ UNCHANGED <<inputs, stage, removed, modified, breaking, at, impactVars, exit>>

Modified(k) ==
    /\ Visit("new", k) /\ k \in Keys(old) /\ Indexed(old, k) # Indexed(new, k)
    /\ LET class == Classify(Indexed(old, k), Indexed(new, k)) IN
          /\ changes' = changes \cup {[change |-> "modified", key |-> k, class |-> class]}
          /\ breaking' = IF class = "loosened" THEN breaking ELSE breaking + 1
    /\ modified' = modified + 1
    /\ UNCHANGED <<inputs, stage, added, removed, at, impactVars, exit>>

Unchanged(k) ==
    /\ \/ Visit("new", k) /\ k \in Keys(old) /\ Indexed(old, k) = Indexed(new, k)
       \/ Visit("old", k) /\ k \in Keys(new)
    /\ UNCHANGED <<inputs, stage, diffVars, at, impactVars, exit>>

TurnToOld ==
    /\ stage = "new" /\ left = {}
    /\ stage' = "old" /\ left' = Keys(old)
    /\ UNCHANGED <<inputs, diffVars, at, impactVars, exit>>

\* A removal is counted and not flagged.
RemovedQuietly(k) ==
    /\ Visit("old", k) /\ k \notin Keys(new)
    /\ changes' = changes \cup {[change |-> "removed", key |-> k]}
    /\ removed' = removed + 1
    /\ UNCHANGED <<inputs, stage, added, modified, breaking, at, impactVars, exit>>

Removed(k) ==
    /\ Visit("old", k) /\ k \notin Keys(new)
    /\ changes' = changes \cup {[change |-> "removed", key |-> k]}
    /\ removed' = removed + 1
    /\ breaking' = breaking + 1
    /\ UNCHANGED <<inputs, stage, added, modified, at, impactVars, exit>>

TurnToImpact ==
    /\ stage = "old" /\ left = {}
    /\ stage' = "impact"
    /\ UNCHANGED <<inputs, left, diffVars, at, impactVars, exit>>

-----------------------------------------------------------------------------
(* impact: what the goals and coverages of the new file have to do with the  *)
(* declarations that were modified or removed.                               *)

\* Only what is still in the file.
TouchedButRemoved == {c.key[2] : c \in {d \in changes : d.change = "modified"}}
Touched == {c.key[2] : c \in {d \in changes : d.change # "added"}}

\* What the touched intents used to say.
TouchedTexts == UNION {Texts(d) : d \in {i \in Decls(old) : i.decl = "intent" /\ i.name \in Touched}}

Values(c) == UNION {Items(d) : d \in Items(c.dimensions)}
ReadsTouched(c) == \E e \in TouchedTexts : Values(c) \cap Occurs[e] # {}

Looking(kinds) == stage = "impact" /\ at \in DOMAIN new.decls /\ new.decls[at].decl \in kinds

\* A goal is affected when everything that realizes it is.
LookAtGoalForAll ==
    /\ Looking({"goal"})
    /\ affectedGoals' = IF Items(new.decls[at].realizedBy) \subseteq Touched
                        THEN affectedGoals \cup {new.decls[at].name} ELSE affectedGoals
    /\ at' = at + 1
    /\ UNCHANGED <<inputs, stage, left, diffVars, affectedCoverages, exit>>

LookAtGoal ==
    /\ Looking({"goal"})
    /\ affectedGoals' = IF Items(new.decls[at].realizedBy) \cap Touched # {}
                        THEN affectedGoals \cup {new.decls[at].name} ELSE affectedGoals
    /\ at' = at + 1
    /\ UNCHANGED <<inputs, stage, left, diffVars, affectedCoverages, exit>>

LookAtCoverage ==
    /\ Looking({"coverage"})
    /\ affectedCoverages' = IF ReadsTouched(new.decls[at])
                            THEN affectedCoverages \cup {new.decls[at].name} ELSE affectedCoverages
    /\ at' = at + 1
    /\ UNCHANGED <<inputs, stage, left, diffVars, affectedGoals, exit>>

PassOver ==
    /\ Looking({"intent", "safety", "theorem", "type", "enum", "function", "axiom"})
    /\ at' = at + 1
    /\ UNCHANGED <<inputs, stage, left, diffVars, impactVars, exit>>

Finish ==
    /\ stage = "impact" /\ at > Len(new.decls)
    /\ stage' = "exit" /\ exit' = "ok"
    /\ UNCHANGED <<inputs, left, diffVars, at, impactVars>>

Next ==
    \/ Parse \/ TurnToOld \/ TurnToImpact
    \/ \E k \in left : Added(k) \/ Modified(k) \/ Unchanged(k) \/ Removed(k)
    \/ LookAtGoal \/ LookAtCoverage \/ PassOver \/ Finish

Spec == Init /\ [][Next]_vars

-----------------------------------------------------------------------------
(* What an intent promises: where it accepts a call, and how it may leave    *)
(* the state.  An invariant is assumed before and proved after.              *)

Frame(i) ==
    CASE i.modifies.spec = "wildcard" -> Path
      [] i.modifies.spec = "paths"    -> i.modifies.paths
      [] i.modifies.spec = "inferred" -> UNION {Primed[e] : e \in Items(i.ensures)}

Accepts(i, s, t) ==
    /\ \A e \in Items(i.requires) : Denotes(Is(e), s, t)
    /\ \A e \in Items(i.invariants) : Denotes(Unprime(e), s, t)
Permits(i, s, t) ==
    /\ \A e \in Items(i.ensures) : Denotes(Is(e), s, t)
    /\ \A e \in Items(i.invariants) : Denotes(InvariantGoal(e), s, t)
    /\ Agree(s, t, Framed(i, Frame(i)))

\* Whoever may call o may call n instead, and gets no less.
Serves(n, o) ==
    \A s, t \in State : Accepts(o, s, t) => Accepts(n, s, t) /\ (Permits(n, s, t) => Permits(o, s, t))

\* What the index has no trace of: parameters and frame.
SameShape(o, n) == n.params = o.params /\ Frame(n) \subseteq Frame(o)
SameInvariants(o, n) == Items(n.invariants) = Items(o.invariants)

-----------------------------------------------------------------------------
(* Properties. *)

TypeOK ==
    /\ old \in Source /\ new \in Source
    /\ stage \in {"parse", "new", "old", "impact", "exit"}
    /\ left \subseteq Keys(old) \cup Keys(new)
    /\ changes \subseteq Change
    /\ added \in Nat /\ removed \in Nat /\ modified \in Nat /\ breaking \in Nat
    /\ at \in 1..Len(new.decls) + 1
    /\ affectedGoals \subseteq {d.name : d \in Decls(new)}
    /\ affectedCoverages \subseteq {d.name : d \in Decls(new)}
    /\ exit \in {"running", "ok", "fail"}

Compared == stage \in {"impact", "exit"} /\ exit # "fail"
Reported == exit = "ok"

\* One declaration to a kind and name.
DistinctKeys(p) == \A m, n \in DOMAIN p.decls : Key(p.decls[m]) = Key(p.decls[n]) => m = n
IntentsOf(p) == {d \in Decls(p) : d.decl = "intent"}

Gone == Keys(old) \ Keys(new)
Differing == {k \in Keys(old) \cap Keys(new) : Indexed(old, k) # Indexed(new, k)}

Breaks(c) == c.change = "removed" \/ (c.change = "modified" /\ c.class # "loosened")

\* In whatever order the two hash maps are walked, every key on which the files
\* differ is reported once, and the summary counts what is reported: a removal
\* and every modification that is not loosened is potentially breaking.
ReportIsExact ==
    Compared =>
        /\ {c.key : c \in {d \in changes : d.change = "added"}} = Keys(new) \ Keys(old)
        /\ {c.key : c \in {d \in changes : d.change = "removed"}} = Gone
        /\ {c.key : c \in {d \in changes : d.change = "modified"}} = Differing
        /\ added + removed + modified = Cardinality(changes)
        /\ breaking = Cardinality({c \in changes : Breaks(c)})

\* A comparison with nothing potentially breaking in it is safe for the callers:
\* every intent of the old file has a successor of its name that serves in its
\* place, if the parameters and the frame, which no signature holds, and the
\* invariants, which classify does not read, are the same.
QuietMeansCompatible ==
    Compared /\ breaking = 0 /\ DistinctKeys(old) /\ DistinctKeys(new) =>
        \A o \in IntentsOf(old) : \E n \in IntentsOf(new) :
            /\ n.name = o.name
            /\ SameShape(o, n) /\ SameInvariants(o, n) => Serves(n, o)

\* A combination of a coverage that a clause of an old intent witnessed and
\* that nothing witnesses any more is never lost in silence.
LostWitnessIsReported ==
    Reported /\ DistinctKeys(old) /\ DistinctKeys(new) =>
        \A c \in {d \in Decls(new) : d.decl = "coverage" /\ d.dimensions # <<>>} :
            \A combination \in Combinations(c) :
                /\ \E i \in IntentsOf(old) : Witnesses(i, combination) # {}
                /\ ~Covered(new, combination)
                => c.name \in affectedCoverages

\* Where a name stands for one thing only, a goal is reported affected exactly
\* when something of the old file that realizes it is gone or different.
GoalImpactIsExact ==
    Reported =>
        \A g \in {d.name : d \in {x \in Decls(new) : x.decl = "goal"}} :
            g \in affectedGoals <=>
                \E d \in Decls(new) : \E k \in Gone \cup Differing :
                    d.decl = "goal" /\ d.name = g /\ k[2] \in Items(d.realizedBy)

=============================================================================
