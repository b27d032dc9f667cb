------------------------------- MODULE World -------------------------------
(***************************************************************************)
(* `intent check` and the system its file describes.  Once the command has  *)
(* accepted the file, the system goes into service: calls to its intents,   *)
(* in any order and with any input, each served as the intent says or       *)
(* rejected by one of its `else reject` clauses.  The question is whether    *)
(* what the command concludes, one call at a time and from what Z3 answers, *)
(* holds along every run.                                                   *)
(***************************************************************************)
EXTENDS Check

VARIABLES
    live,   \* the system is in service
    world   \* from then on, the fields of its entities; inputs are chosen at each call

system == <<vars, live, world>>

\* The intents in force; @asis ones describe what is being replaced.
AllIntents(p) == {p.decls[d] : d \in Primary(p)}

\* The rules of the file and the invariants of its intents, and the entities
\* each of them speaks about.
Claims(p) == p.safety \cup
    UNION {{[params |-> i.params, expr |-> e] : e \in ExprsOf(i, "invariant")} : i \in AllIntents(p)}

Initially(p, w) == \A c \in Claims(p) : SingleState(c.expr) => HoldsBefore(c.expr, w)

Start == Init /\ live = FALSE /\ world = {}

Command == Next /\ UNCHANGED <<live, world>>

\* A green exit is the only thing the project waits for.
Deploy ==
    /\ exit = "ok" /\ ~live
    /\ live' = TRUE
    /\ world' \in State /\ Initially(prog, world')
    /\ UNCHANGED vars

\* An intent reaches the fields of its parameters and no others.
Untouched(i) == {p \in Field : Owner[p] \notin i.params}

Execute(i) ==
    /\ live
    /\ \E s, t \in State :
          /\ Agree(world, s, Field)
          /\ Permits(i, s, t)
          /\ Agree(s, t, Untouched(i))
          /\ world' = t
    /\ UNCHANGED <<vars, live>>

Reject(i, c) ==
    /\ live
    /\ \E s, t \in State :
          /\ Agree(world, s, Field)
          /\ Rejects(i, c, s, t)
          /\ Agree(s, t, Untouched(i))
          /\ world' = t
    /\ UNCHANGED <<vars, live>>

Run ==
    \/ Command \/ Deploy
    \/ \E i \in AllIntents(prog) :
          \/ Execute(i)
          \/ \E c \in RejectingClauses(i) : Reject(i, c)

System == Start /\ [][Run]_system

-----------------------------------------------------------------------------
(* When checking calls one by one is enough. *)

\* A claim is guarded when it speaks of state only, its two-state form lets
\* the state stand still, and every intent that shares an entity with it
\* has to prove it: as its own invariant or as a safety rule in scope.
StateOnly(c) == \A p \in Reads[c.expr] \cup Primed[c.expr] : p \in Field /\ Owner[p] \in c.params

Guarded(p, c) ==
    /\ StateOnly(c)
    /\ SingleState(c.expr) \/ StandsStill(c.expr)
    /\ \A i \in AllIntents(p) : i.params \cap c.params # {} => c.expr \in Obligations(p, i)

Closed(p) == UniqueNames(p) /\ \A c \in Claims(p) : Guarded(p, c)

\* A system in service has a file that was accepted, and a state.
WorldOK == live \in BOOLEAN /\ (live => exit = "ok" /\ world \in State)

\* In a closed file, an invariant holds in every state, whatever calls came
\* before (rfc-workflow-hardening.md:689; generate_vcs assumes it of each call).
InvariantsHold ==
    live /\ Closed(prog) => \A c \in Claims(prog) : SingleState(c.expr) => HoldsBefore(c.expr, world)

\* And every step, rejections and calls on other entities included, respects
\* every two-state claim.
TwoStateClaimsHold ==
    [][live /\ Closed(prog) =>
          \A c \in Claims(prog) : MentionsPostState(c.expr) => <<world, world'>> \in Rel[c.expr]]_world

=============================================================================
