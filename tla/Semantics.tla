----------------------------- MODULE Semantics -----------------------------
(***************************************************************************)
(* What an intent means, stated without verification conditions: the steps  *)
(* it permits, and what it owes to its invariants and to the safety rules   *)
(* in scope.  The promise of `intent check` is phrased with these.          *)
(***************************************************************************)
EXTENDS Vcgen

\* SPEC.md 3, D2: an explicit modifies lists what may change, `*` leaves all of
\* it open, and without one a path may change iff an ensure speaks of its new value.
MayChange(i, p) ==
    \/ i.modifies.spec = "wildcard"
    \/ i.modifies.spec = "paths" /\ p \in i.modifies.paths
    \/ i.modifies.spec = "inferred" /\ \E c \in ClausesOf(i, "ensure") : p \in Primed[i.clauses[c].expr]

\* A field of the parameters that changed is one that may.
StaysInFrame(i, s, t) ==
    \A p \in Field : Owner[p] \in i.params /\ t[p] # s[p] => MayChange(i, p)

ChangesNothing(i, s, t) == \A p \in Field : Owner[p] \in i.params => t[p] = s[p]

\* A call with its requires met, its ensures delivered and its frame respected.
Permits(i, s, t) ==
    /\ \A e \in ExprsOf(i, "require") : <<s, t>> \in Rel[e]
    /\ \A e \in ExprsOf(i, "ensure") : <<s, t>> \in Rel[e]
    /\ StaysInFrame(i, s, t)

\* Clause c of i rejects the call: it is false, the others hold, nothing changes.
Rejects(i, c, s, t) ==
    /\ <<s, t>> \notin Rel[i.clauses[c].expr]
    /\ \A r \in ClausesOf(i, "require") \ {c} : <<s, t>> \in Rel[i.clauses[r].expr]
    /\ ChangesNothing(i, s, t)

\* An invariant before and after a step: a two-state one relates the two.
HoldsBefore(e, s) == <<s, s>> \in Rel[e]
HoldsAfter(e, s, t) ==
    IF MentionsPostState(e) THEN <<s, t>> \in Rel[e]
                            ELSE <<After(s, t), After(s, t)>> \in Rel[e]

\* From a state where its obligations hold, every permitted call keeps them.
Keeps(prog, i) ==
    \A s, t \in State :
        Permits(i, s, t) /\ (\A e \in Obligations(prog, i) : HoldsBefore(e, s))
            => \A e \in Obligations(prog, i) : HoldsAfter(e, s, t)

KeepsOnReject(prog, i, c) ==
    \A s, t \in State :
        Rejects(i, c, s, t) /\ (\A e \in Obligations(prog, i) : HoldsBefore(e, s))
            => \A e \in Obligations(prog, i) : HoldsAfter(e, s, t)

\* Some run of the intent has the values the example pins down.
Realizes(i, bindings) ==
    \E s, t \in State :
        /\ \A b \in bindings : <<s, t>> \in Rel[b]
        /\ Permits(i, s, t)
        /\ \A e \in ExprsOf(i, "invariant") : HoldsBefore(e, s) /\ <<s, t>> \in Rel[e]

-----------------------------------------------------------------------------
(* The same, of the clauses as they stand.  An invariant without primes holds *)
(* before and after (SPEC.md:101); one with primes relates the two states of  *)
(* a step (SPEC.md:106-111) and says nothing of the first one alone.          *)

SingleState(e) == ~MentionsPostState(e)

MetBefore(prog, i, s)   == \A e \in Obligations(prog, i) : SingleState(e) => HoldsBefore(e, s)
MetAfter(prog, i, s, t) == \A e \in Obligations(prog, i) : HoldsAfter(e, s, t)

\* Some call is served, and every call that is served meets the obligations.
Delivers(prog, i) ==
    /\ \E s, t \in State : Permits(i, s, t) /\ MetBefore(prog, i, s)
    /\ \A s, t \in State : Permits(i, s, t) /\ MetBefore(prog, i, s) => MetAfter(prog, i, s, t)

\* Some call is turned away by clause c, and every such call meets them too.
TurnsAway(prog, i, c) ==
    /\ \E s, t \in State : Rejects(i, c, s, t) /\ MetBefore(prog, i, s)
    /\ \A s, t \in State : Rejects(i, c, s, t) /\ MetBefore(prog, i, s) => MetAfter(prog, i, s, t)

\* Some call has the values of the example.
Illustrates(i, bindings) ==
    \E s, t \in State :
        /\ \A b \in bindings : <<s, t>> \in Rel[b]
        /\ Permits(i, s, t)
        /\ \A e \in ExprsOf(i, "invariant") : <<s, t>> \in Rel[e]

\* A claim about steps that a step without a change satisfies, wherever it starts.
StandsStill(e) == \A s \in State : HoldsBefore(e, s)

-----------------------------------------------------------------------------
\* Two declarations of one name cannot be told apart by the commands.
UniqueNames(prog) ==
    \A d1, d2 \in DOMAIN prog.decls :
        prog.decls[d1].name = prog.decls[d2].name => d1 = d2

Primary(prog) == {d \in Intents(prog) : ~prog.decls[d].asis}

\* What a green `intent check` lets the reader conclude.
Sound(prog) ==
    /\ \A d \in Primary(prog) :
          /\ Keeps(prog, prog.decls[d])
          /\ \A c \in RejectingClauses(prog.decls[d]) : KeepsOnReject(prog, prog.decls[d], c)
    /\ \A n \in DOMAIN prog.examples : \E d \in Intents(prog) :
          /\ prog.decls[d].name = prog.examples[n].intent
          /\ Realizes(prog.decls[d], prog.examples[n].bindings)

\* The names in a file tell its declarations apart, or nothing is promised.
Deserving(prog) == UniqueNames(prog) => Sound(prog)

=============================================================================
