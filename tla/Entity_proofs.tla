--------------------------- MODULE Entity_proofs ---------------------------
(***************************************************************************)
(* What the drawn machine says of a disciplined file is true of every run,  *)
(* for any enums, entities and files.                                       *)
(***************************************************************************)
EXTENDS Entity, TLAPS

\* Reachability contains what it starts from.
LEMMA ReachableStart ==
    ASSUME NEW I, NEW E, NEW v \in I, v \in Variant
    PROVE  v \in ReachableFrom(I, E)
BY DEF ReachableFrom

\* Reachability follows edges.
LEMMA ReachableStep ==
    ASSUME NEW I, NEW E, NEW v \in ReachableFrom(I, E), NEW w \in Variant, <<v, w>> \in E
    PROVE  w \in ReachableFrom(I, E)
<1>1. SUFFICES ASSUME NEW S \in SUBSET Variant, I \subseteq S, Closed(S, E)
               PROVE  w \in S
      BY DEF ReachableFrom
<1>2. v \in S
      BY <1>1 DEF ReachableFrom
<1>3. <<v, w>>[1] \in S => <<v, w>>[2] \in S
      BY <1>1 DEF Closed
<1> QED BY <1>2, <1>3

LEMMA StateInVariant ==
    ASSUME NEW s \in States0, NEW p \in Path
    PROVE  /\ s[p] \in VariantsOf[EnumOf[p]]
           /\ s[p] \in Variant
<1>1. s[p] \in VariantsOf[EnumOf[p]]
      BY DEF States0
<1>2. EnumOf[p] \in Enum
      BY EnumAssumption
<1> QED BY <1>1, <1>2 DEF Variant

\* A require that pins a path has the state of the path among the sources.
LEMMA PinnedSource ==
    ASSUME NEW i, NEW r \in i.requires, NEW s \in States0, NEW p \in Path,
           Pins(r, p), Enabled(i, s)
    PROVE  s[p] \in Sources(i, EnumOf[p])
<1>1. MayHold(r, s)
      BY DEF Enabled
<1>2. r.eqs # {} /\ Holds(r, s)
      BY <1>1, Zenon DEF MayHold, Pins
<1>3. \E q \in r.eqs : q[1] = p /\ s[p] = q[2]
  <2>1. CASE r.join = "all" /\ \E q \in r.eqs : q[1] = p
    <3>1. PICK q \in r.eqs : q[1] = p
          BY <2>1
    <3>2. s[q[1]] = q[2]
          BY <1>2, <2>1 DEF Holds
    <3> QED BY <3>1, <3>2
  <2>2. CASE r.join = "any" /\ \A q \in r.eqs : q[1] = p
    <3>1. PICK q \in r.eqs : s[q[1]] = q[2]
          BY <1>2, <2>2 DEF Holds
    <3> QED BY <2>2, <3>1
  <2> QED BY <2>1, <2>2 DEF Pins
<1>4. s[p] \in Collected(r)
      BY <1>3 DEF Collected
<1>5. s[p] \in VariantsOf[EnumOf[p]]
      BY StateInVariant
<1>6. s[p] \in UNION {Collected(x) : x \in i.requires}
      BY <1>4
<1> QED BY <1>5, <1>6 DEF Sources

\* A step moves an entity of a disciplined file along the drawn machine only:
\* it stays, follows an edge, or is created.
LEMMA StepFollowsMachine ==
    ASSUME NEW f, Disciplined(f), NEW n \in DOMAIN f,
           NEW s \in States0, NEW t \in States0, Step(f[n], s, t), NEW p \in Path
    PROVE  \/ t[p] = s[p]
           \/ t[p] \in Initial(f, EnumOf[p])
           \/ <<s[p], t[p]>> \in Edges(f, EnumOf[p])
<1> DEFINE i == f[n]
           e0 == EnumOf[p]
<1>t. /\ t[p] \in VariantsOf[e0]
      /\ s[p] \in VariantsOf[e0]
      BY StateInVariant
<1>0. Enabled(i, s)
      BY DEF Step
<1>1. CASE p \notin MayMove(i)
      BY <1>1 DEF Step
<1>2. CASE p \in MayMove(i)
  <2>1. Decides(i, p, s)
        BY <1>0, <1>2 DEF Disciplined
  <2>2. SUFFICES ASSUME t[p] # s[p]
                 PROVE  \/ t[p] \in Initial(f, e0)
                        \/ <<s[p], t[p]>> \in Edges(f, e0)
        OBVIOUS
  <2>e. ASSUME <<s[p], t[p]>> \in Cases(i, e0) \cup (Sources(i, e0) \X PlainTargets(i, e0))
        PROVE  <<s[p], t[p]>> \in Edges(f, e0)
    <3>1. <<s[p], t[p]>>[1] # <<s[p], t[p]>>[2]
          BY <2>2
    <3>2. <<s[p], t[p]>> \in EdgesOf(i, e0)
          BY <2>e, <3>1 DEF EdgesOf
    <3> QED BY <3>2 DEF Edges
  <2>3. CASE /\ \E e \in i.ensures : ~e.guarded /\ Moves(e, p)
             /\ Sources(i, e0) = {} \/ \E r \in i.requires : Pins(r, p)
    <3>1. PICK e \in i.ensures : ~e.guarded /\ Moves(e, p)
          BY <2>3
    <3>2. PICK q \in e.cons.eqs : q[1] = p
          BY <3>1 DEF Moves
    <3>3. MayHold(e.cons, t)
          BY <3>1 DEF Step
    <3>4. t[p] = q[2]
          BY <3>1, <3>2, <3>3 DEF MayHold, Holds, Moves
    <3>5. t[p] \in Asserted(e.cons)
          BY <3>1, <3>2, <3>4 DEF Asserted, Collected, Moves
    <3>6. t[p] \in UNION {Asserted(x.cons) : x \in {x \in i.ensures : ~x.guarded}}
          BY <3>1, <3>5
    <3>7. t[p] \in PlainTargets(i, e0)
          BY <3>6, <1>t DEF PlainTargets, Unconditional
    <3>8. CASE Sources(i, e0) = {}
      <4>1. t[p] \in CreatedBy(i, e0)
            BY <3>7, <3>8 DEF CreatedBy
      <4> QED BY <4>1 DEF Initial
    <3>9. CASE \E r \in i.requires : Pins(r, p)
      <4>1. s[p] \in Sources(i, e0)
            BY <3>9, <1>0, PinnedSource
      <4> QED BY <4>1, <3>7, <2>e
    <3> QED BY <2>3, <3>8, <3>9
  <2>4. CASE \E e \in i.ensures : e.guarded /\ e.ante.eqs = {<<p, s[p]>>} /\ Moves(e, p)
    <3>1. PICK e \in i.ensures : e.guarded /\ e.ante.eqs = {<<p, s[p]>>} /\ Moves(e, p)
          BY <2>4
    <3>2. PICK q \in e.cons.eqs : q[1] = p
          BY <3>1 DEF Moves
    <3>a. <<p, s[p]>> \in e.ante.eqs /\ e.ante.eqs # {}
          BY <3>1
    <3>b. Holds(e.ante, s)
      <4>1. \A x \in e.ante.eqs : s[x[1]] = x[2]
            BY <3>1
      <4> QED BY <4>1, <3>a DEF Holds
    <3>3. MayHold(e.cons, t)
          BY <3>1, <3>a, <3>b DEF Step, MayFail
    <3>4. t[p] = q[2]
          BY <3>1, <3>2, <3>3 DEF MayHold, Holds, Moves
    <3>5. t[p] \in Collected(e.cons)
          BY <3>2, <3>4 DEF Collected
    <3>6. s[p] \in Collected(e.ante)
      <4>1. <<p, s[p]>>[2] = s[p]
            OBVIOUS
      <4> QED BY <4>1, <3>a DEF Collected
    <3>7. <<s[p], t[p]>> \in Collected(e.ante) \X Collected(e.cons)
          BY <3>5, <3>6
    <3>8. <<s[p], t[p]>> \in UNION {Collected(x.ante) \X Collected(x.cons) : x \in {x \in i.ensures : x.guarded}}
          BY <3>1, <3>7
    <3>9. <<s[p], t[p]>> \in Cases(i, e0)
          BY <3>8, <1>t DEF Cases
    <3> QED BY <3>9, <2>e
  <2> QED BY <2>1, <2>3, <2>4 DEF Decides
<1> QED BY <1>1, <1>2

-----------------------------------------------------------------------------

Reached ==
    Disciplined(file) =>
        \A p \in Path :
            Initial(file, EnumOf[p]) # {} =>
                at[p] \in ReachableFrom(Initial(file, EnumOf[p]), Edges(file, EnumOf[p]))

IInv == TypeOK /\ Reached

\* An entity is where a path of the machine leads.
THEOREM Inductive == Spec => []IInv
<1>1. Init => IInv
  <2> SUFFICES ASSUME Init
               PROVE  IInv
      OBVIOUS
  <2>1. TypeOK
        BY DEF Init, TypeOK
  <2>2. ASSUME NEW p \in Path, Initial(file, EnumOf[p]) # {}
        PROVE  at[p] \in ReachableFrom(Initial(file, EnumOf[p]), Edges(file, EnumOf[p]))
    <3>1. at[p] \in Initial(file, EnumOf[p])
          BY <2>2 DEF Init
    <3>2. at[p] \in Variant
          BY <2>1, StateInVariant DEF TypeOK
    <3> QED BY <3>1, <3>2, ReachableStart
  <2> QED BY <2>1, <2>2 DEF IInv, Reached
<1>2. IInv /\ [Next]_vars => IInv'
  <2> SUFFICES ASSUME IInv, [Next]_vars
               PROVE  IInv'
      OBVIOUS
  <2>1. ASSUME NEW n \in DOMAIN file, Call(n)
        PROVE  IInv'
    <3>1. TypeOK'
          BY <2>1 DEF IInv, TypeOK, Call
    <3>2. file' = file
          BY <2>1 DEF Call
    <3>3. ASSUME Disciplined(file), NEW p \in Path, Initial(file, EnumOf[p]) # {}
          PROVE  at'[p] \in ReachableFrom(Initial(file, EnumOf[p]), Edges(file, EnumOf[p]))
      <4>1. /\ at \in States0 /\ at' \in States0
            /\ Step(file[n], at, at')
            BY <2>1, <3>1 DEF IInv, TypeOK, Call
      <4>2. \/ at'[p] = at[p]
            \/ at'[p] \in Initial(file, EnumOf[p])
            \/ <<at[p], at'[p]>> \in Edges(file, EnumOf[p])
            BY <3>3, <4>1, StepFollowsMachine
      <4>3. at[p] \in ReachableFrom(Initial(file, EnumOf[p]), Edges(file, EnumOf[p]))
            BY <3>3 DEF IInv, Reached
      <4>4. at'[p] \in Variant
            BY <4>1, StateInVariant
      <4> QED BY <4>2, <4>3, <4>4, ReachableStart, ReachableStep
    <3> QED BY <3>1, <3>2, <3>3 DEF IInv, Reached
  <2>2. CASE UNCHANGED vars
        BY <2>2 DEF vars, IInv, TypeOK, Reached
  <2> QED BY <2>1, <2>2 DEF Next
<1> QED BY <1>1, <1>2, PTL DEF Spec

\* No run enters a state that the machine calls unreachable, whatever the
\* disciplined file (S0004).
THEOREM UnreachableNeverEntered == Spec => []UnreachableIsNeverEntered
<1>1. IInv => UnreachableIsNeverEntered
      BY DEF IInv, Reached, UnreachableIsNeverEntered, Unreachable
<1> QED BY <1>1, Inductive, PTL

\* The entities of a disciplined file that are trapped stay trapped (S0006).
THEOREM TrappedAlwaysStays == Spec => TrappedStaysTrapped
<1>1. TypeOK /\ [Next]_vars =>
        [Disciplined(file) =>
            \A p \in Path :
              at[p] \in Trapped(file, EnumOf[p]) =>
                  at'[p] \in Trapped(file, EnumOf[p]) \cup Initial(file, EnumOf[p])]_vars
  <2> SUFFICES ASSUME TypeOK, Next, Disciplined(file), NEW p \in Path,
                      at[p] \in Trapped(file, EnumOf[p])
               PROVE  at'[p] \in Trapped(file, EnumOf[p]) \cup Initial(file, EnumOf[p])
      OBVIOUS
  <2> DEFINE E0 == Edges(file, EnumOf[p])
             T0 == Terminals(file, EnumOf[p])
  <2>1. PICK n \in DOMAIN file : Call(n)
        BY DEF Next
  <2>2. /\ at \in States0 /\ at' \in States0
        /\ Step(file[n], at, at')
        BY <2>1 DEF TypeOK, Call
  <2>3. \/ at'[p] = at[p]
        \/ at'[p] \in Initial(file, EnumOf[p])
        \/ <<at[p], at'[p]>> \in E0
        BY <2>2, StepFollowsMachine
  <2>4. CASE <<at[p], at'[p]>> \in E0
    <3>1. <<at'[p], at[p]>> \in Backwards(E0)
      <4>1. <<at'[p], at[p]>> = <<<<at[p], at'[p]>>[2], <<at[p], at'[p]>>[1]>>
            OBVIOUS
      <4> QED BY <4>1, <2>4 DEF Backwards
    <3>2. at[p] \in Variant /\ at'[p] \in Variant
          BY <2>2, StateInVariant
    <3>3. T0 # {} /\ at[p] \notin ReachableFrom(T0, Backwards(E0))
          BY DEF Trapped
    <3>4. at'[p] \notin ReachableFrom(T0, Backwards(E0))
          BY <3>1, <3>2, <3>3, ReachableStep
    <3>5. at'[p] \in States(file, EnumOf[p])
      <4>1. at'[p] = <<at[p], at'[p]>>[2]
            OBVIOUS
      <4> QED BY <4>1, <2>4 DEF States
    <3> QED BY <3>3, <3>4, <3>5 DEF Trapped
  <2> QED BY <2>3, <2>4
<1>2. IInv => TypeOK
      BY DEF IInv
<1> QED BY <1>1, <1>2, Inductive, PTL DEF Spec, TrappedStaysTrapped

=============================================================================
