----------------------------- MODULE Structure -----------------------------
(***************************************************************************)
(* The structural checks of `intent check`: check_structure and             *)
(* lifecycle_diags of crates/intent-lang-core/src/structure.rs, and the     *)
(* two searches of analyze_state_machine (syntax/src/structure.rs), one     *)
(* visit at a time.  The order of the search stack is abstracted.           *)
(***************************************************************************)
EXTENDS Machine, Sequences

CONSTANTS Files, Lifecycles
ASSUME FilesAssumption ==
    /\ \A f \in Files : \A n \in DOMAIN f : f[n] \in Intent
    /\ Lifecycles \in Seq(Enum)

VARIABLES
    file,       \* the intents of the file
    strict,     \* the flag --strict
    lacking,    \* S0001: something no goal claims; S0002: an intent without example
    k,          \* position in the list of @lifecycle enums
    stage,      \* what is being done for enum k
    stack, seen,             \* the search that is running
    unreachable, trapped,    \* what the searches of enum k found
    diags       \* findings so far: <<code, level>>

inputs == <<file, strict, lacking>>
vars == <<inputs, k, stage, stack, seen, unreachable, trapped, diags>>

en == Lifecycles[k]
soft == IF strict THEN "error" ELSE "warning"
When(condition, code, level) == IF condition THEN {<<code, level>>} ELSE {}

Init ==
    /\ file \in Files /\ strict \in BOOLEAN /\ lacking \in SUBSET {"S0001", "S0002"}
    /\ k = 1
    /\ stage = IF Len(Lifecycles) = 0 THEN "done" ELSE "derive"
    /\ stack = {} /\ seen = {} /\ unreachable = {} /\ trapped = {}
    /\ diags = lacking \X {soft}

NextLifecyclePastTheEnd ==
    /\ k' = IF k <= Len(Lifecycles) THEN k + 1 ELSE k
    /\ stage' = IF k <= Len(Lifecycles) THEN "derive" ELSE "done"

NextLifecycleButLast ==
    /\ k' = IF k + 1 < Len(Lifecycles) THEN k + 1 ELSE k
    /\ stage' = IF k + 1 < Len(Lifecycles) THEN "derive" ELSE "done"

NextLifecycle ==
    /\ k' = IF k < Len(Lifecycles) THEN k + 1 ELSE k
    /\ stage' = IF k < Len(Lifecycles) THEN "derive" ELSE "done"

\* An enum that drives no transition is reported and left.
Derive ==
    /\ stage = "derive"
    /\ unreachable' = {} /\ trapped' = {} /\ seen' = {}
    /\ stack' = Initial(file, en)
    /\ IF States(file, en) = {}
       THEN /\ diags' = diags \cup When(Conflicts(file, en) # {}, "S0007", "error")
                              \cup {<<"S0003", soft>>}
            /\ NextLifecycle
       ELSE /\ diags' = diags \cup When(Conflicts(file, en) # {}, "S0007", "error")
            /\ stage' = "forward"
            /\ UNCHANGED k
    /\ UNCHANGED inputs

VisitUnmarked(E) ==
    \E v \in stack :
        /\ stack' = (stack \ {v}) \cup Successors(E, v)
        /\ seen' = seen \cup {v}

Visit(E) ==
    \E v \in stack :
        /\ stack' = (stack \ {v}) \cup (IF v \in seen THEN {} ELSE Successors(E, v))
        /\ seen' = seen \cup {v}

Forward ==
    /\ stage = "forward" /\ stack # {}
    /\ Visit(Edges(file, en))
    /\ UNCHANGED <<inputs, k, stage, unreachable, trapped, diags>>

ForwardDoneKeepingSeen ==
    /\ stage = "forward" /\ stack = {}
    /\ unreachable' = IF Initial(file, en) = {} THEN {} ELSE States(file, en) \ seen
    /\ stage' = "backward"
    /\ stack' = Terminals(file, en)
    /\ UNCHANGED <<inputs, k, seen, trapped, diags>>

\* Without a creation edge, "unreachable" says nothing.
ForwardDone ==
    /\ stage = "forward" /\ stack = {}
    /\ unreachable' = IF Initial(file, en) = {} THEN {} ELSE States(file, en) \ seen
    /\ stage' = "backward"
    /\ stack' = Terminals(file, en)
    /\ seen' = {}
    /\ UNCHANGED <<inputs, k, trapped, diags>>

Backward ==
    /\ stage = "backward" /\ stack # {}
    /\ Visit(Backwards(Edges(file, en)))
    /\ UNCHANGED <<inputs, k, stage, unreachable, trapped, diags>>

BackwardDone ==
    /\ stage = "backward" /\ stack = {}
    /\ trapped' = IF Terminals(file, en) = {} THEN {} ELSE States(file, en) \ seen
    /\ stage' = "report"
    /\ UNCHANGED <<inputs, k, stack, seen, unreachable, diags>>

Report ==
    /\ stage = "report"
    /\ diags' = diags
         \cup When(Initial(file, en) = {}, "S0003", soft)
         \cup When(\E v, w \in Initial(file, en) : v # w, "S0008", soft)
         \cup When(unreachable # {}, "S0004", "error")
         \cup When(Terminals(file, en) = {}, "S0005", soft)
         \cup When(trapped # {}, "S0006", soft)
    /\ NextLifecycle
    /\ UNCHANGED <<inputs, stack, seen, unreachable, trapped>>

Next == Derive \/ Forward \/ ForwardDone \/ Backward \/ BackwardDone \/ Report

Spec == Init /\ [][Next]_vars

\* The analysis is a sequential function: it goes on while it can.
FairSpec == Spec /\ WF_vars(Next)

-----------------------------------------------------------------------------
(* Properties. *)

Codes == {"S0001", "S0002", "S0003", "S0004", "S0005", "S0006", "S0007", "S0008"}

\* The variables stay in the sets the code gives them.
TypeOK ==
    /\ file \in Files /\ strict \in BOOLEAN /\ lacking \in SUBSET {"S0001", "S0002"}
    /\ k \in Nat \ {0}
    /\ stage \in {"derive", "forward", "backward", "report", "done"}
    /\ stage # "done" => k \in DOMAIN Lifecycles
    /\ stack \subseteq Variant /\ seen \subseteq Variant
    /\ unreachable \subseteq Variant /\ trapped \subseteq Variant
    /\ diags \subseteq Codes \X {"warning", "error"}

\* What the two searches report is what the graph says, whatever the order of
\* the visits (analyze_state_machine).
FindingsAreExact ==
    stage = "report" =>
        /\ unreachable = Unreachable(file, en)
        /\ trapped = Trapped(file, en)

\* The gate closes exactly on a defect of some lifecycle, of the first as of
\* the last; --strict closes it on any finding (severity policy of
\* core/src/structure.rs:9-29).
Defect(e) == Conflicts(file, e) # {} \/ Unreachable(file, e) # {}
Failed == \E d \in diags : d[2] = "error"
GateIsExact ==
    stage = "done" =>
        (Failed <=> \/ \E j \in DOMAIN Lifecycles : Defect(Lifecycles[j])
                    \/ strict /\ diags # {})

\* The searches end although their stack can grow.
Terminates == <>(stage = "done")

=============================================================================
