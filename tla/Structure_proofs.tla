-------------------------- MODULE Structure_proofs --------------------------
(***************************************************************************)
(* The structural checks report what the graph says, for any enums, files   *)
(* and order of the searches, and their errors are exactly the defects.     *)
(***************************************************************************)
EXTENDS Structure, TLAPS

-----------------------------------------------------------------------------
(* The derived machine stays within the variants of the enums. *)

LEMMA MachineType ==
    ASSUME NEW f, NEW e \in Enum
    PROVE  /\ Edges(f, e) \subseteq Variant \X Variant
           /\ Backwards(Edges(f, e)) \subseteq Variant \X Variant
           /\ Initial(f, e) \subseteq Variant
           /\ States(f, e) \subseteq Variant
           /\ Terminals(f, e) \subseteq Variant
<1>v. VariantsOf[e] \subseteq Variant
      BY DEF Variant
<1>1. ASSUME NEW i
      PROVE  /\ PlainTargets(i, e) \subseteq VariantsOf[e]
             /\ Sources(i, e) \subseteq VariantsOf[e]
             /\ Cases(i, e) \subseteq VariantsOf[e] \X VariantsOf[e]
  <2>1. Unconditional(i, e) \subseteq VariantsOf[e]
        BY DEF Unconditional
  <2> QED BY <2>1 DEF PlainTargets, Sources, Cases
<1>2. ASSUME NEW i
      PROVE  EdgesOf(i, e) \subseteq VariantsOf[e] \X VariantsOf[e]
      BY <1>1 DEF EdgesOf
<1>3. Edges(f, e) \subseteq VariantsOf[e] \X VariantsOf[e]
      BY <1>2 DEF Edges
<1>4. Initial(f, e) \subseteq VariantsOf[e]
      BY <1>1 DEF Initial, CreatedBy
<1>5. States(f, e) \subseteq VariantsOf[e]
      BY <1>1, <1>3 DEF States
<1>6. Backwards(Edges(f, e)) \subseteq VariantsOf[e] \X VariantsOf[e]
      BY <1>3 DEF Backwards
<1> QED BY <1>v, <1>3, <1>4, <1>5, <1>6 DEF Terminals

-----------------------------------------------------------------------------
(* One search, forward or backward. *)

\* A search from I along E has found I, nothing that a closed set around I does
\* not hold, and it will come to the successors of what it has seen.
Searching(I, E, stk, visited) ==
    /\ I \subseteq visited \cup stk
    /\ \A S \in SUBSET Variant : I \subseteq S /\ Closed(S, E) => visited \cup stk \subseteq S
    /\ \A g \in E : g[1] \in visited => g[2] \in visited \cup stk

LEMMA SearchStart ==
    ASSUME NEW I, NEW E
    PROVE  Searching(I, E, I, {})
BY DEF Searching

LEMMA SearchVisit ==
    ASSUME NEW I, NEW E, E \subseteq Variant \X Variant,
           stack \subseteq Variant, seen \subseteq Variant,
           Searching(I, E, stack, seen), Visit(E)
    PROVE  /\ Searching(I, E, stack', seen')
           /\ stack' \subseteq Variant /\ seen' \subseteq Variant
<1>1. PICK v \in stack :
          /\ stack' = (stack \ {v}) \cup (IF v \in seen THEN {} ELSE Successors(E, v))
          /\ seen' = seen \cup {v}
      BY DEF Visit
<1>2. stack' \subseteq Variant /\ seen' \subseteq Variant
      BY <1>1 DEF Successors
<1>3. I \subseteq seen' \cup stack'
      BY <1>1 DEF Searching
<1>4. ASSUME NEW S \in SUBSET Variant, I \subseteq S, Closed(S, E)
      PROVE  seen' \cup stack' \subseteq S
  <2>1. seen \cup stack \subseteq S
        BY <1>4 DEF Searching
  <2>2. Successors(E, v) \subseteq S
    <3> SUFFICES ASSUME NEW w \in Successors(E, v)
                 PROVE  w \in S
        OBVIOUS
    <3>1. <<v, w>> \in E
          BY DEF Successors
    <3>2. <<v, w>>[1] \in S => <<v, w>>[2] \in S
          BY <3>1, <1>4 DEF Closed
    <3> QED BY <3>2, <2>1
  <2> QED BY <1>1, <2>1, <2>2
<1>5. ASSUME NEW g \in E, g[1] \in seen'
      PROVE  g[2] \in seen' \cup stack'
  <2>1. CASE g[1] \in seen
        BY <2>1, <1>1 DEF Searching
  <2>2. CASE g[1] = v /\ v \notin seen
    <3>1. g = <<g[1], g[2]>> /\ g[2] \in Variant
          OBVIOUS
    <3>2. g[2] \in Successors(E, v)
          BY <3>1, <2>2 DEF Successors
    <3> QED BY <3>2, <2>2, <1>1
  <2> QED BY <2>1, <2>2, <1>1, <1>5
<1> QED BY <1>2, <1>3, <1>4, <1>5 DEF Searching

\* A search that has nothing left to visit has seen what is reachable.
LEMMA SearchEnd ==
    ASSUME NEW I, NEW E, NEW visited \in SUBSET Variant, Searching(I, E, {}, visited)
    PROVE  visited = ReachableFrom(I, E)
<1>1. I \subseteq visited /\ Closed(visited, E)
      BY DEF Searching, Closed
<1>2. ASSUME NEW v \in ReachableFrom(I, E)
      PROVE  v \in visited
      BY <1>1 DEF ReachableFrom
<1>3. ASSUME NEW v \in visited
      PROVE  v \in ReachableFrom(I, E)
      BY <1>1 DEF ReachableFrom, Searching
<1> QED BY <1>2, <1>3

-----------------------------------------------------------------------------
(* The invariant. *)

Here == stage \in {"forward", "backward", "report"}

Searches ==
    /\ stage = "forward" => Searching(Initial(file, en), Edges(file, en), stack, seen)
    /\ stage = "backward" =>
          Searching(Terminals(file, en), Backwards(Edges(file, en)), stack, seen)
    /\ stage \in {"backward", "report"} => unreachable = Unreachable(file, en)
    /\ stage = "report" => trapped = Trapped(file, en)

Hard == {"S0004", "S0007"}

\* The defects of the lifecycles done so far, and what is known of this one.
DefectSoFar ==
    \/ \E j \in DOMAIN Lifecycles : (stage = "done" \/ j < k) /\ Defect(Lifecycles[j])
    \/ Here /\ Conflicts(file, en) # {}

Levels ==
    /\ \A d \in diags : d[2] = IF d[1] \in Hard THEN "error" ELSE soft
    /\ (\E d \in diags : d[1] \in Hard) <=> DefectSoFar
    /\ stage = "done" => k >= Len(Lifecycles)
    /\ stage # "done" => k \in 1..Len(Lifecycles)

IInv == TypeOK /\ Searches /\ Levels

USE DEF inputs

LEMMA EnumHere ==
    ASSUME TypeOK, stage # "done"
    PROVE  en \in Enum
BY FilesAssumption DEF TypeOK, en

\* TypeOK is inductive on its own but for the searches.
LEMMA TypePreserved ==
    ASSUME TypeOK, Searches, Levels, Next
    PROVE  TypeOK'
<1> USE DEF TypeOK
<1>k. ASSUME NextLifecycle, stage # "done"
      PROVE  /\ k' \in Nat \ {0}
             /\ stage' \in {"derive", "done"}
             /\ stage' # "done" => k' \in DOMAIN Lifecycles
      BY <1>k, FilesAssumption DEF NextLifecycle, Levels
<1>s. soft \in {"warning", "error"}
      BY DEF soft
<1>1. CASE Derive
  <2>1. en \in Enum
        BY <1>1, EnumHere DEF Derive
  <2>2. Initial(file, en) \subseteq Variant
        BY <2>1, MachineType
  <2> QED BY <1>1, <1>k, <1>s, <2>2 DEF Derive, When, Codes
<1>2. CASE Forward
  <2>1. en \in Enum
        BY <1>2, EnumHere DEF Forward
  <2>2. stack' \subseteq Variant /\ seen' \subseteq Variant
        BY <1>2, <2>1, MachineType, SearchVisit DEF Forward, Searches
  <2> QED BY <1>2, <2>2 DEF Forward
<1>3. CASE ForwardDone
  <2>1. en \in Enum
        BY <1>3, EnumHere DEF ForwardDone
  <2>2. Terminals(file, en) \subseteq Variant /\ States(file, en) \subseteq Variant
        BY <2>1, MachineType
  <2> QED BY <1>3, <2>2 DEF ForwardDone
<1>4. CASE Backward
  <2>1. en \in Enum
        BY <1>4, EnumHere DEF Backward
  <2>2. stack' \subseteq Variant /\ seen' \subseteq Variant
        BY <1>4, <2>1, MachineType, SearchVisit DEF Backward, Searches
  <2> QED BY <1>4, <2>2 DEF Backward
<1>5. CASE BackwardDone
  <2>1. en \in Enum
        BY <1>5, EnumHere DEF BackwardDone
  <2>2. States(file, en) \subseteq Variant
        BY <2>1, MachineType
  <2> QED BY <1>5, <2>2 DEF BackwardDone
<1>6. CASE Report
      BY <1>6, <1>k, <1>s DEF Report, When, Codes
<1> QED BY <1>1, <1>2, <1>3, <1>4, <1>5, <1>6 DEF Next

\* The searches keep their invariant and end with the right answers.
LEMMA SearchesPreserved ==
    ASSUME TypeOK, Searches, Next
    PROVE  Searches'
<1> USE DEF Searches
<1>n. ASSUME NextLifecycle
      PROVE  Searches'
      BY <1>n DEF NextLifecycle
<1>1. CASE Derive
  <2>1. CASE States(file, en) = {}
        BY <1>1, <2>1, <1>n DEF Derive
  <2>2. CASE States(file, en) # {}
    <3>1. /\ stage' = "forward" /\ k' = k /\ file' = file
          /\ stack' = Initial(file, en) /\ seen' = {}
          BY <1>1, <2>2 DEF Derive
    <3>2. en' = en
          BY <3>1 DEF en
    <3> QED BY <3>1, <3>2, SearchStart
  <2> QED BY <2>1, <2>2
<1>2. CASE Forward
  <2>0. /\ stage = "forward" /\ stage' = stage /\ k' = k /\ file' = file
        /\ Visit(Edges(file, en))
        BY <1>2 DEF Forward
  <2>1. en' = en
        BY <2>0 DEF en
  <2>2. Searching(Initial(file, en), Edges(file, en), stack', seen')
        BY <2>0, EnumHere, MachineType, SearchVisit DEF TypeOK
  <2> QED BY <2>0, <2>1, <2>2
<1>3. CASE ForwardDone
  <2>0. /\ stage = "forward" /\ stage' = "backward" /\ k' = k /\ file' = file /\ stack = {}
        /\ stack' = Terminals(file, en) /\ seen' = {}
        /\ unreachable' = IF Initial(file, en) = {} THEN {} ELSE States(file, en) \ seen
        BY <1>3 DEF ForwardDone
  <2>1. en' = en
        BY <2>0 DEF en
  <2>2. seen = ReachableFrom(Initial(file, en), Edges(file, en))
        BY <2>0, SearchEnd DEF TypeOK
  <2>3. unreachable' = Unreachable(file, en)
        BY <2>0, <2>2 DEF Unreachable
  <2> QED BY <2>0, <2>1, <2>3, SearchStart
<1>4. CASE Backward
  <2>0. /\ stage = "backward" /\ stage' = stage /\ k' = k /\ file' = file
        /\ unreachable' = unreachable
        /\ Visit(Backwards(Edges(file, en)))
        BY <1>4 DEF Backward
  <2>1. en' = en
        BY <2>0 DEF en
  <2>2. Searching(Terminals(file, en), Backwards(Edges(file, en)), stack', seen')
        BY <2>0, EnumHere, MachineType, SearchVisit DEF TypeOK
  <2> QED BY <2>0, <2>1, <2>2
<1>5. CASE BackwardDone
  <2>0. /\ stage = "backward" /\ stage' = "report" /\ k' = k /\ file' = file /\ stack = {}
        /\ unreachable' = unreachable
        /\ trapped' = IF Terminals(file, en) = {} THEN {} ELSE States(file, en) \ seen
        BY <1>5 DEF BackwardDone
  <2>1. en' = en
        BY <2>0 DEF en
  <2>2. seen = ReachableFrom(Terminals(file, en), Backwards(Edges(file, en)))
        BY <2>0, SearchEnd DEF TypeOK
  <2>3. trapped' = Trapped(file, en)
        BY <2>0, <2>2 DEF Trapped
  <2> QED BY <2>0, <2>1, <2>3
<1>6. CASE Report
      BY <1>6, <1>n DEF Report
<1> QED BY <1>1, <1>2, <1>3, <1>4, <1>5, <1>6 DEF Next

-----------------------------------------------------------------------------
(* The levels. *)

\* Going on to the next lifecycle turns what is known of this one into what is
\* known of those that are done.
LEMMA DefectsAfter ==
    ASSUME TypeOK, Levels, stage # "done", NextLifecycle, file' = file
    PROVE  /\ DefectSoFar' <=> \/ \E j \in DOMAIN Lifecycles : j < k /\ Defect(Lifecycles[j])
                               \/ Defect(en)
           /\ stage' = "done" => k' >= Len(Lifecycles)
           /\ stage' # "done" => k' \in 1..Len(Lifecycles)
<1>1. /\ k \in 1..Len(Lifecycles) /\ Len(Lifecycles) \in Nat
      /\ DOMAIN Lifecycles = 1..Len(Lifecycles)
      BY FilesAssumption DEF Levels
<1>2. \A j \in DOMAIN Lifecycles : (stage' = "done" \/ j < k') <=> (j < k \/ j = k)
      BY <1>1 DEF NextLifecycle
<1>3. ~Here'
      BY DEF NextLifecycle, Here
<1>4. \A e : Defect(e)' <=> Defect(e)
      BY DEF Defect
<1>5. DefectSoFar' <=> \E j \in DOMAIN Lifecycles : (stage' = "done" \/ j < k') /\ Defect(Lifecycles[j])
      BY <1>3, <1>4 DEF DefectSoFar
<1>6. k \in DOMAIN Lifecycles /\ en = Lifecycles[k]
      BY <1>1 DEF en
<1> DEFINE D(j) == Defect(Lifecycles[j])
<1>7. DefectSoFar' <=> \E j \in DOMAIN Lifecycles : (j < k \/ j = k) /\ D(j)
      BY <1>2, <1>5
<1>8. D(k) <=> Defect(en)
      BY <1>6
<1>9. (stage' = "done" => k' >= Len(Lifecycles)) /\ (stage' # "done" => k' \in 1..Len(Lifecycles))
      BY <1>1 DEF NextLifecycle
<1> HIDE DEF D
<1>10. DefectSoFar' <=> (\E j \in DOMAIN Lifecycles : j < k /\ D(j)) \/ D(k)
      BY <1>6, <1>7
<1> QED BY <1>8, <1>9, <1>10 DEF D

LEMMA LevelsPreserved ==
    ASSUME TypeOK, Searches, Levels, Next
    PROVE  Levels'
<1>i. strict' = strict /\ file' = file
      BY DEF Next, Derive, Forward, ForwardDone, Backward, BackwardDone, Report
<1>s. soft' = soft
      BY <1>i DEF soft
<1>h. "S0004" \in Hard /\ "S0007" \in Hard
      BY DEF Hard
<1>n. "S0003" \notin Hard /\ "S0005" \notin Hard /\ "S0006" \notin Hard /\ "S0008" \notin Hard
      BY DEF Hard
<1> DEFINE Earlier == \E j \in DOMAIN Lifecycles : j < k /\ Defect(Lifecycles[j])
           Found == \E d \in diags : d[1] \in Hard
           Conf == Conflicts(file, en) # {}
<1>1. CASE Derive
  <2> DEFINE new == When(Conf, "S0007", "error")
  <2>1. stage = "derive"
        BY <1>1 DEF Derive
  <2>2. Found <=> Earlier
        BY <2>1 DEF Levels, DefectSoFar, Here
  <2>3. CASE States(file, en) = {}
    <3>1. diags' = diags \cup new \cup {<<"S0003", soft>>} /\ NextLifecycle
          BY <1>1, <2>3 DEF Derive
    <3>2. Unreachable(file, en) = {}
          BY <2>3 DEF Unreachable
    <3>3. DefectSoFar' <=> Earlier \/ Conf
          BY <2>1, <3>1, <3>2, <1>i, DefectsAfter DEF Defect
    <3>4. (\E d \in diags' : d[1] \in Hard) <=> Found \/ Conf
      <4>1. \A d \in diags' : d \in diags \/ (Conf /\ d = <<"S0007", "error">>) \/ d = <<"S0003", soft>>
            BY <3>1 DEF When
      <4>2. Conf => <<"S0007", "error">> \in diags'
            BY <3>1 DEF When
      <4> QED BY <4>1, <4>2, <3>1, <1>h, <1>n
    <3>5. \A d \in diags' : d[2] = IF d[1] \in Hard THEN "error" ELSE soft
          BY <3>1, <1>h, <1>n DEF When, Levels
    <3>6. /\ stage' = "done" => k' >= Len(Lifecycles)
          /\ stage' # "done" => k' \in 1..Len(Lifecycles)
          BY <2>1, <3>1, <1>i, DefectsAfter
    <3> QED BY <1>s, <2>2, <3>3, <3>4, <3>5, <3>6 DEF Levels
  <2>4. CASE States(file, en) # {}
    <3>1. diags' = diags \cup new /\ stage' = "forward" /\ k' = k
          BY <1>1, <2>4 DEF Derive
    <3>2. en' = en
          BY <3>1 DEF en
    <3>3. DefectSoFar' <=> Earlier \/ Conf
          BY <3>1, <3>2, <1>i DEF DefectSoFar, Here, Defect
    <3>4. (\E d \in diags' : d[1] \in Hard) <=> Found \/ Conf
      <4>1. \A d \in diags' : d \in diags \/ (Conf /\ d = <<"S0007", "error">>)
            BY <3>1 DEF When
      <4>2. Conf => <<"S0007", "error">> \in diags'
            BY <3>1 DEF When
      <4> QED BY <4>1, <4>2, <3>1, <1>h
    <3>5. \A d \in diags' : d[2] = IF d[1] \in Hard THEN "error" ELSE soft
          BY <3>1, <1>h DEF When, Levels
    <3>6. k' \in 1..Len(Lifecycles)
          BY <2>1, <3>1 DEF Levels
    <3> QED BY <1>s, <2>2, <3>1, <3>3, <3>4, <3>5, <3>6 DEF Levels
  <2> QED BY <2>3, <2>4
<1>2. CASE Forward \/ ForwardDone \/ Backward \/ BackwardDone
  <2>1. /\ stage \in {"forward", "backward"} /\ stage' \in {"forward", "backward", "report"}
        /\ k' = k /\ diags' = diags
        BY <1>2 DEF Forward, ForwardDone, Backward, BackwardDone
  <2>2. en' = en
        BY <2>1 DEF en
  <2>3. DefectSoFar' <=> DefectSoFar
        BY <2>1, <2>2, <1>i DEF DefectSoFar, Here, Defect
  <2> QED BY <2>1, <2>3, <1>s DEF Levels
<1>3. CASE Report
  <2>1. stage = "report" /\ NextLifecycle
        BY <1>3 DEF Report
  <2>2. unreachable = Unreachable(file, en)
        BY <2>1 DEF Searches
  <2>3. Found <=> Earlier \/ Conf
        BY <2>1 DEF Levels, DefectSoFar, Here
  <2>4. DefectSoFar' <=> Earlier \/ Conf \/ unreachable # {}
        BY <2>1, <2>2, <1>i, DefectsAfter DEF Defect
  <2>5. \A d \in diags' : \/ d \in diags
                          \/ unreachable # {} /\ d = <<"S0004", "error">>
                          \/ d \in {"S0003", "S0005", "S0006", "S0008"} \X {soft}
        BY <1>3 DEF Report, When
  <2>6. diags \subseteq diags' /\ (unreachable # {} => <<"S0004", "error">> \in diags')
        BY <1>3 DEF Report, When
  <2>7. (\E d \in diags' : d[1] \in Hard) <=> Found \/ unreachable # {}
        BY <2>5, <2>6, <1>h, <1>n
  <2>8. \A d \in diags' : d[2] = IF d[1] \in Hard THEN "error" ELSE soft
        BY <2>5, <1>h, <1>n DEF Levels
  <2>9. /\ stage' = "done" => k' >= Len(Lifecycles)
        /\ stage' # "done" => k' \in 1..Len(Lifecycles)
        BY <2>1, <1>i, DefectsAfter
  <2> QED BY <1>s, <2>3, <2>4, <2>7, <2>8, <2>9 DEF Levels
<1> QED BY <1>1, <1>2, <1>3 DEF Next

-----------------------------------------------------------------------------

THEOREM Inductive == Spec => []IInv
<1>1. Init => IInv
  <2> SUFFICES ASSUME Init
               PROVE  IInv
      OBVIOUS
  <2>1. TypeOK
    <3>1. Len(Lifecycles) \in Nat /\ DOMAIN Lifecycles = 1..Len(Lifecycles)
          BY FilesAssumption
    <3>2. /\ k \in Nat \ {0}
          /\ stage \in {"derive", "done"}
          /\ stage # "done" => k \in DOMAIN Lifecycles
          BY <3>1 DEF Init
    <3>3. diags \subseteq Codes \X {"warning", "error"}
          BY DEF Init, Codes, soft
    <3> QED BY <3>2, <3>3 DEF Init, TypeOK
  <2>2. Searches
        BY DEF Init, Searches
  <2>3. Levels
    <3>1. \A d \in diags : d[2] = soft /\ d[1] \in {"S0001", "S0002"}
          BY DEF Init
    <3>2. ~\E d \in diags : d[1] \in Hard
          BY <3>1 DEF Hard
    <3>3. k = 1 /\ (stage = "done" <=> Len(Lifecycles) = 0) /\ ~Here /\ Len(Lifecycles) \in Nat
          BY FilesAssumption DEF Init, Here
    <3>4. ~DefectSoFar
          BY <3>3, FilesAssumption DEF DefectSoFar
    <3> QED BY <3>1, <3>2, <3>3, <3>4 DEF Levels
  <2> QED BY <2>1, <2>2, <2>3 DEF IInv
<1>2. IInv /\ [Next]_vars => IInv'
  <2> SUFFICES ASSUME IInv, [Next]_vars
               PROVE  IInv'
      OBVIOUS
  <2>1. CASE Next
        BY <2>1, TypePreserved, SearchesPreserved, LevelsPreserved DEF IInv
  <2>2. CASE UNCHANGED vars
        BY <2>2 DEF vars, IInv, TypeOK, Searches, Levels, DefectSoFar, Here, Defect, en, soft
  <2> QED BY <2>1, <2>2
<1> QED BY <1>1, <1>2, PTL DEF Spec

\* The variables have their types, whatever the file.
THEOREM TypeCorrect == Spec => []TypeOK
<1>1. IInv => TypeOK
      BY DEF IInv
<1> QED BY <1>1, Inductive, PTL

\* The searches find exactly the unreachable and the trapped states, whatever
\* the graph and the order of the visits.
THEOREM FindingsAlwaysExact == Spec => []FindingsAreExact
<1>1. IInv => FindingsAreExact
      BY DEF IInv, Searches, FindingsAreExact
<1> QED BY <1>1, Inductive, PTL

\* The check of the structure fails exactly on the defects of some lifecycle,
\* or on any finding when it is strict.
THEOREM GateAlwaysExact == Spec => []GateIsExact
<1>1. IInv => GateIsExact
  <2> SUFFICES ASSUME IInv, stage = "done"
               PROVE  Failed <=> \/ \E j \in DOMAIN Lifecycles : Defect(Lifecycles[j])
                                 \/ strict /\ diags # {}
      BY DEF GateIsExact
  <2>1. (\E d \in diags : d[1] \in Hard) <=> \E j \in DOMAIN Lifecycles : Defect(Lifecycles[j])
        BY DEF IInv, Levels, DefectSoFar, Here
  <2>2. \A d \in diags : d[2] = IF d[1] \in Hard THEN "error" ELSE soft
        BY DEF IInv, Levels
  <2>3. soft = (IF strict THEN "error" ELSE "warning")
        BY DEF soft
  <2>4. Failed <=> (\E d \in diags : d[1] \in Hard) \/ (strict /\ diags # {})
        BY <2>2, <2>3 DEF Failed
  <2> QED BY <2>1, <2>4
<1> QED BY <1>1, Inductive, PTL

=============================================================================
