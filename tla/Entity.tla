------------------------------- MODULE Entity -------------------------------
(***************************************************************************)
(* The entities whose lifecycle Machine draws: each path holds a state, and *)
(* an intent moves the paths of its frame as its clauses allow.  The question  *)
(* is whether what the drawn machine says is true of every run.             *)
(***************************************************************************)
EXTENDS Machine

PrimedPaths(i) == UNION {{q[1] : q \in e.cons.eqs} : e \in i.ensures}

\* What an intent may move: all paths under `modifies *`, those of an explicit
\* modifies, and by default those its ensures prime.
MayMove(i) ==
    CASE i.modifies.spec = "wildcard" -> Path
      [] i.modifies.spec = "paths"    -> i.modifies.paths
      [] i.modifies.spec = "inferred" -> PrimedPaths(i)

\* E0007: a primed path is one that the intent may move.
CONSTANT Files
ASSUME FilesAssumption ==
    \A f \in Files : \A n \in DOMAIN f : f[n] \in Intent /\ PrimedPaths(f[n]) \subseteq MayMove(f[n])

VARIABLES file, at
vars == <<file, at>>

Holds(formula, s) ==
    IF formula.join = "all" THEN \A q \in formula.eqs : s[q[1]] = q[2]
                            ELSE \E q \in formula.eqs : s[q[1]] = q[2]

\* A condition on something else than states may hold or not.
MayHold(formula, s) == formula.eqs = {} \/ Holds(formula, s)
MayFail(formula, s) == formula.eqs = {} \/ ~Holds(formula, s)

Enabled(i, s) == \A r \in i.requires : MayHold(r, s)

\* A path in the frame is free where the ensures say nothing; others stay.
Step(i, s, t) ==
    /\ Enabled(i, s)
    /\ \A e \in i.ensures : (e.guarded /\ MayFail(e.ante, s)) \/ MayHold(e.cons, t)
    /\ \A p \in Path \ MayMove(i) : t[p] = s[p]

States0 == {s \in [Path -> Variant] : \A p \in Path : s[p] \in VariantsOf[EnumOf[p]]}

\* Every entity starts where a creation edge puts it, if the file has one.
Init ==
    /\ file \in Files
    /\ at \in States0
    /\ \A p \in Path : Initial(file, EnumOf[p]) # {} => at[p] \in Initial(file, EnumOf[p])

Call(n) ==
    /\ at' \in States0
    /\ Step(file[n], at, at')
    /\ UNCHANGED file

Next == \E n \in DOMAIN file : Call(n)

Spec == Init /\ [][Next]_vars

-----------------------------------------------------------------------------
(* When the drawing is complete. *)

Moves(e, p) == e.cons.join = "all" /\ \E q \in e.cons.eqs : q[1] = p

\* A require that pins the path down, so that its state is among the sources.
Pins(r, p) ==
    \/ r.join = "all" /\ \E q \in r.eqs : q[1] = p
    \/ r.join = "any" /\ r.eqs # {} /\ \A q \in r.eqs : q[1] = p

\* The intent decides where p goes: always, from a known source or from none,
\* or by a case on the state that p is in.
Decides(i, p, s) ==
    \/ /\ \E e \in i.ensures : ~e.guarded /\ Moves(e, p)
       /\ Sources(i, EnumOf[p]) = {} \/ \E r \in i.requires : Pins(r, p)
    \/ \E e \in i.ensures : e.guarded /\ e.ante.eqs = {<<p, s[p]>>} /\ Moves(e, p)

Disciplined(f) ==
    \A n \in DOMAIN f : \A s \in States0 :
        Enabled(f[n], s) => \A p \in MayMove(f[n]) : Decides(f[n], p, s)

-----------------------------------------------------------------------------
(* Properties. *)

TypeOK == file \in Files /\ at \in States0

\* S0004 raises no false alarm: in a disciplined file, no run puts an entity
\* into a state the machine calls unreachable.
UnreachableIsNeverEntered ==
    Disciplined(file) => \A p \in Path : at[p] \notin Unreachable(file, EnumOf[p])

\* S0006 neither: an entity in a trapped state stays in one, unless an intent
\* without a source state starts its lifecycle anew.
TrappedStaysTrapped ==
    [][Disciplined(file) =>
          \A p \in Path :
              at[p] \in Trapped(file, EnumOf[p]) =>
                  at'[p] \in Trapped(file, EnumOf[p]) \cup Initial(file, EnumOf[p])]_vars

\* core/src/structure.rs:12-15: "Only two findings are unconditional errors,
\* because only they are unambiguous defects": no entity is in a state that S0004
\* reports, and no call of an intent that S0007 reports is possible.
HardErrorsAreDefects ==
    /\ \A p \in Path : at[p] \notin Unreachable(file, EnumOf[p])
    /\ \A en \in Enum : \A n \in Conflicts(file, en) : ~\E t \in States0 : Step(file[n], at, t)

=============================================================================
