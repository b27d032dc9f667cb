-------------------------------- MODULE Gate --------------------------------
(***************************************************************************)
(* The promise of `intent check` as one decision: a file is accepted only   *)
(* if it deserves to be, it may be refused for any reason (a time-out is    *)
(* one), and the decision is final.                                         *)
(***************************************************************************)
CONSTANTS Programs, Deserving(_)

VARIABLES prog, verdict
vars == <<prog, verdict>>

Init == prog \in Programs /\ verdict = "pending"

Decide(outcome) ==
    /\ verdict = "pending"
    /\ verdict' = outcome
    /\ UNCHANGED prog

Accept == Deserving(prog) /\ Decide("accepted")
Refuse == Decide("refused")

Next == Accept \/ Refuse

Spec == Init /\ [][Next]_vars

=============================================================================
