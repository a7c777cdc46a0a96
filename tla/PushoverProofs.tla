--------------------------- MODULE PushoverProofs ---------------------------
(****************************************************************************)
(* Proofs about PushoverControl, for every list of options, every number of *)
(* steps and attempts and every grid.                                       *)
(****************************************************************************)
EXTENDS PushoverControl, TLAPS

(* Between two actions nobody has moved the elements: an attempt ends with  *)
(* a commit or with a rollback.                                             *)
AtRest == elems.trial = elems.at

(* What the record, the driver's own factor and the elements say agrees.    *)
RecordInv ==
  /\ phase = "longTerm" => count = 0 /\ lambda = 0 /\ elems.at.lambda = 0 /\ ~reached
  /\ count = 0 => ~reached
  /\ count > 0 => last = [factor |-> elems.at.lambda, at |-> elems.at]
  /\ phase \in {"load", "displacement?", "displacement", "arc?"} =>
       lambda = elems.at.lambda
  /\ phase = "arc" => lambda \in {elems.at.lambda, ArcStart(elems.at.lambda)}

(* What an attempt aims for lies ahead of the committed state.              *)
GoalInv ==
  /\ phase = "longTerm" =>
       /\ step <= GravitySteps
       /\ goal \in Nat /\ elems.at.long <= step * Grid
       /\ step < GravitySteps => goal >= elems.at.long /\ goal <= (step + 1) * Grid
  /\ phase = "load" => \/ goal = None
                       \/ goal \in (lambda + 1)..LambdaLimit
  /\ phase = "displacement" =>
       /\ TargetEnabled /\ disp.steps > 0 /\ disp.steps <= Bound - disp.from
       /\ step <= disp.steps
       /\ elems.at.roof <= RoofTarget(disp, step)
       /\ step < disp.steps => /\ goal \in (elems.at.roof + 1)..Bound
                               /\ goal <= RoofTarget(disp, step + 1)

(* The reason of the end is on hand when a phase is left.                   *)
OutcomeInv ==
  /\ outcome.kind \in {"Error", "TargetReached"} => phase = "done"
  /\ phase = "longTerm" => outcome.kind = "Unknown"
  /\ phase = "load" /\ step > 0 => outcome.kind # "Unknown"
  /\ phase \notin {"longTerm", "load"} => reached \/ outcome.kind # "Unknown"
  /\ phase \in {"load", "displacement"} => ~reached
  /\ phase = "arc" => ~reached

IInv ==
  /\ TypeOK /\ AtRest /\ RecordInv /\ GoalInv /\ OutcomeInv
  /\ PrematureEndNamesCommittedFactor /\ EndIsExplained


(* Arithmetic of the grid *)

LEMMA Products ==
  ASSUME NEW a \in Nat, NEW b \in Nat, NEW c \in Nat, a <= b
  PROVE  a * c <= b * c /\ a * c \in Nat
  BY SMT

LEMMA HalfWay ==
  ASSUME NEW a \in Int, NEW b \in Int, a <= b
  PROVE  /\ Halved(a, b) \in a..b
         /\ a < b => Halved(a, b) \in (a + 1)..b
  BY SMT DEF Halved

LEMMA Share ==
  ASSUME NEW d \in Nat, NEW k \in Nat, NEW n \in Nat \ {0}
  PROVE  /\ (d * k) \div n \in Nat
         /\ k <= n => (d * k) \div n <= d
         /\ n <= d => (d * k) \div n < (d * (k + 1)) \div n
  BY SMT

LEMMA BoundType ==
  ASSUME opt \in Options, TargetEnabled
  PROVE  Bound \in Roofs
<1> DEFINE L == {opt.disp, opt.angle} \ {None}
<1>1. opt.disp \in Roofs \union {None} /\ opt.angle \in Roofs \union {None}
  BY OptionsAssumption DEF OptionType
<1>2. \A a, b \in Roofs : a <= b \/ b <= a
  BY SizesAssumption DEF Roofs
<1>3. \A a \in Roofs : a <= a
  BY SizesAssumption DEF Roofs
<1>4. PICK b \in L : \A c \in L : b <= c
  <2>1. CASE opt.disp = None
    <3>1. opt.angle \in Roofs /\ L = {opt.angle}
      BY <1>1, <2>1 DEF TargetEnabled
    <3>. QED
      BY <3>1, <1>3
  <2>2. CASE opt.angle = None
    <3>1. opt.disp \in Roofs /\ L = {opt.disp}
      BY <1>1, <2>2 DEF TargetEnabled
    <3>. QED
      BY <3>1, <1>3
  <2>3. CASE opt.disp # None /\ opt.angle # None
    <3>1. opt.disp \in Roofs /\ opt.angle \in Roofs /\ L = {opt.disp, opt.angle}
      BY <1>1, <2>3
    <3>. QED
      BY <3>1, <1>2, <1>3
  <2>. QED
    BY <2>1, <2>2, <2>3
<1>5. Bound \in L
  BY <1>4 DEF Bound
<1>. QED
  BY <1>1, <1>5

LEMMA OptionsKept ==
  ASSUME opt' = opt
  PROVE  Bound' = Bound /\ LambdaLimit' = LambdaLimit /\ (TargetEnabled' <=> TargetEnabled)
  BY DEF Bound, LambdaLimit, TargetEnabled

LEMMA LimitType == LambdaLimit \in 1..MaxLambda /\ NSteps * Grid \in 1..MaxLambda
<1>1. \A a, b \in Nat \ {0} : a * b \in Nat \ {0}
  BY SMT
<1>2. {NSteps, Extension, Grid} \subseteq Nat \ {0}
  BY SizesAssumption
<1>3. NSteps * Grid \in Nat \ {0} /\ Extension * (NSteps * Grid) \in Nat \ {0}
  BY <1>1, <1>2
<1>. QED
  BY <1>3, SizesAssumption DEF LambdaLimit

LEMMA RoofTargets ==
  ASSUME NEW d \in [from : Roofs, steps : Nat], NEW k \in Nat,
         Bound \in Roofs, d.steps > 0, d.steps <= Bound - d.from
  PROVE  /\ RoofTarget(d, k) \in Nat
         /\ RoofTarget(d, k) >= d.from
         /\ k <= d.steps => RoofTarget(d, k) <= Bound
         /\ RoofTarget(d, k) < RoofTarget(d, k + 1)
<1> DEFINE w == Bound - d.from
<1>1. w \in Nat /\ d.steps \in Nat \ {0} /\ d.steps <= w /\ d.from \in Nat
  BY SizesAssumption DEF Roofs
<1>2. /\ (w * k) \div d.steps \in Nat
      /\ k <= d.steps => (w * k) \div d.steps <= w
      /\ (w * k) \div d.steps < (w * (k + 1)) \div d.steps
  BY <1>1, Share
<1>3. (w * (k + 1)) \div d.steps \in Nat
  BY <1>1, Share
<1> HIDE DEF w
<1>4. /\ RoofTarget(d, k) = d.from + (w * k) \div d.steps
      /\ RoofTarget(d, k + 1) = d.from + (w * (k + 1)) \div d.steps
  BY DEF RoofTarget, w
<1>5. Bound = d.from + w
  BY <1>1, SizesAssumption DEF w, Roofs
<1>. QED
  BY <1>1, <1>2, <1>3, <1>4, <1>5

(* The elements *)

LEMMA CommitMoves ==
  ASSUME TypeOK, NEW p \in Point
  PROVE  Commit(Moved(elems, p)) = [at |-> p, trial |-> p]
<1>1. elems \in [at : Point, trial : Point \union {Diverged}]
  BY DEF TypeOK
<1>2. Moved(elems, p) = [at |-> elems.at, trial |-> p]
  BY <1>1 DEF Moved
<1>. QED
  BY <1>2 DEF Commit

LEMMA RollBackRestores == RolledBack <=> elems' = elems
  BY DEF RolledBack, Restore


LEMMA Zeros ==
  /\ 0 \in Lambdas /\ 0 \in Roofs /\ 0 \in 0..(Attempts - 1)
  /\ 0 \in 0..FullLoad /\ FullLoad \in 0..FullLoad
<1>1. {GravitySteps, Grid, Attempts} \subseteq Nat \ {0} /\ MaxLambda \in Nat /\ MaxRoof \in Nat
  BY SizesAssumption
<1>2. GravitySteps * Grid \in Nat
  BY <1>1, Products
<1>. QED
  BY <1>1, <1>2 DEF Lambdas, Roofs, FullLoad

LEMMA OutcomeTypes ==
  ASSUME TypeOK, NEW k \in Outcomes, NEW l \in Lambdas
  PROVE  {Stopped(k), LambdaCap, Premature(k, l)} \subseteq
           [kind : Outcomes, phase : Phases \union {None}, factor : Lambdas \union {None}]
  BY DEF Stopped, LambdaCap, Premature, TypeOK, Outcomes

(****************************************************************************)
(* The inductive invariant                                                  *)
(****************************************************************************)

LEMMA InitIInv == Init => IInv
<1> SUFFICES ASSUME Init PROVE IInv
  OBVIOUS
<1>1. TypeOK
  <2>1. Origin \in Point
    BY Zeros DEF Origin, Point
  <2>2. Grid \in Nat
    BY SizesAssumption
  <2>3. outcome \in [kind : Outcomes, phase : Phases \union {None},
                     factor : Lambdas \union {None}]
    BY DEF Init, Stopped, Outcomes
  <2>. QED
    BY <2>1, <2>2, <2>3, Zeros DEF Init, TypeOK, Phases
<1>2. AtRest /\ RecordInv
  BY DEF Init, AtRest, RecordInv, Origin
<1>3. GoalInv
  <2>1. CASE opt.longTerm
    <3>1. Grid \in Nat \ {0} /\ GravitySteps \in Nat \ {0}
      BY SizesAssumption
    <3>2. goal = Grid /\ step = 0 /\ elems.at.long = 0 /\ phase = "longTerm"
      BY <2>1 DEF Init, Origin
    <3>. QED
      BY <3>1, <3>2 DEF GoalInv
  <2>2. CASE ~opt.longTerm
    BY <2>2 DEF Init, GoalInv
  <2>. QED
    BY <2>1, <2>2
<1>4. OutcomeInv /\ PrematureEndNamesCommittedFactor /\ EndIsExplained
  BY DEF Init, OutcomeInv, PrematureEndNamesCommittedFactor, EndIsExplained, Stopped
<1>. QED
  BY <1>1, <1>2, <1>3, <1>4 DEF IInv

LEMMA LongTermConvergesKeeps ==
  ASSUME IInv, LongTermConverges
  PROVE  IInv'
<1> USE DEF IInv
<1>1. PICK roof \in Roofs : Committed([long |-> goal, lambda |-> 0, roof |-> roof])
  BY DEF LongTermConverges
<1> DEFINE p == [long |-> goal, lambda |-> 0, roof |-> roof]
<1>2. /\ step \in Nat /\ step < GravitySteps /\ goal \in Nat /\ goal <= (step + 1) * Grid
      /\ GravitySteps \in Nat /\ Grid \in Nat
  BY SizesAssumption DEF LongTermConverges, GoalInv, TypeOK
<1>3. /\ (step + 1) * Grid <= FullLoad /\ (step + 1) * Grid \in Nat /\ FullLoad \in Nat
      /\ (step + 2) * Grid \in Nat /\ (step + 1) * Grid <= (step + 2) * Grid
  BY <1>2, Products DEF FullLoad
<1>4. p \in Point
  BY <1>2, <1>3, Zeros DEF Point
<1>5. elems' = [at |-> p, trial |-> p]
  BY <1>1, <1>4, CommitMoves DEF Committed
<1>6. TypeOK'
  <2>1. (step + 2) * Grid \in Nat /\ step + 1 \in Nat
    BY <1>2, <1>3
  <2>. QED
    BY <1>4, <1>5, <2>1, Zeros DEF LongTermConverges, NextStep, TypeOK
<1>7. AtRest' /\ RecordInv'
  BY <1>5 DEF LongTermConverges, AtRest, RecordInv
<1>8. GoalInv'
  <2>1. step' = step + 1 /\ goal' = (step + 2) * Grid /\ elems'.at.long = goal
    BY <1>5 DEF LongTermConverges, NextStep
  <2>2. step + 1 + 1 = step + 2
    BY <1>2
  <2>. QED
    BY <1>2, <1>3, <2>1, <2>2 DEF LongTermConverges, GoalInv
<1>9. OutcomeInv' /\ PrematureEndNamesCommittedFactor' /\ EndIsExplained'
  BY DEF LongTermConverges, OutcomeInv, PrematureEndNamesCommittedFactor, EndIsExplained,
         RecordInv, TypeOK
<1>. QED
  BY <1>6, <1>7, <1>8, <1>9

LEMMA LongTermFailsKeeps ==
  ASSUME IInv, LongTermFails
  PROVE  IInv'
<1> USE DEF IInv
<1>1. elems' = elems
  BY RollBackRestores DEF LongTermFails
<1>2. CASE GiveUp("done", Stopped("Error"))
  <2>1. TypeOK'
    BY <1>1, <1>2, OutcomeTypes, Zeros
    DEF LongTermFails, GiveUp, Leave, Enter, TypeOK, Phases, Outcomes
  <2>2. AtRest' /\ RecordInv' /\ GoalInv' /\ OutcomeInv' /\ EndIsExplained'
        /\ PrematureEndNamesCommittedFactor'
    BY <1>1, <1>2 DEF LongTermFails, GiveUp, Leave, Enter, Stopped, AtRest, RecordInv, GoalInv,
       OutcomeInv, EndIsExplained, PrematureEndNamesCommittedFactor
  <2>. QED
    BY <2>1, <2>2
<1>3. CASE Retry(elems.at.long)
  <2>1. elems.at.long \in Nat /\ goal \in Nat /\ elems.at.long <= goal
    BY DEF LongTermFails, GoalInv, TypeOK, Point
  <2>2. goal' \in Nat /\ elems.at.long <= goal' /\ goal' <= goal
    BY <1>3, <2>1, HalfWay DEF Retry
  <2>3. TypeOK'
    BY <1>1, <1>3, <2>2, SizesAssumption DEF LongTermFails, Retry, TypeOK
  <2>4. GoalInv'
    <3>1. (step + 1) * Grid \in Nat
      BY SizesAssumption, Products DEF TypeOK
    <3>2. goal' <= (step + 1) * Grid
      BY <2>1, <2>2, <3>1 DEF LongTermFails, GoalInv
    <3>. QED
      BY <1>1, <1>3, <2>2, <3>2 DEF LongTermFails, Retry, GoalInv
  <2>5. AtRest' /\ RecordInv' /\ OutcomeInv' /\ EndIsExplained'
        /\ PrematureEndNamesCommittedFactor'
    BY <1>1, <1>3 DEF LongTermFails, Retry, AtRest, RecordInv, OutcomeInv, EndIsExplained,
       PrematureEndNamesCommittedFactor
  <2>. QED
    BY <2>3, <2>4, <2>5
<1>. QED
  BY <1>2, <1>3 DEF LongTermFails

LEMMA LongTermEndsKeeps ==
  ASSUME IInv, LongTermEnds
  PROVE  IInv'
<1> USE DEF IInv
<1>1. last' = [factor |-> 0, at |-> elems.at] /\ count' = count + 1 /\ elems' = elems
  BY DEF LongTermEnds, Record, Entry
<1>2. TypeOK'
  BY <1>1, Zeros DEF LongTermEnds, Leave, Enter, TypeOK, Phases
<1>3. AtRest' /\ RecordInv' /\ GoalInv'
  BY <1>1 DEF LongTermEnds, Leave, Enter, TypeOK, AtRest, RecordInv, GoalInv
<1>4. OutcomeInv' /\ EndIsExplained' /\ PrematureEndNamesCommittedFactor'
  BY <1>1 DEF LongTermEnds, Leave, Enter, RecordInv, OutcomeInv, EndIsExplained,
     PrematureEndNamesCommittedFactor
<1>. QED
  BY <1>2, <1>3, <1>4

LEMMA BeginLoadStepKeeps ==
  ASSUME IInv, BeginLoadStep
  PROVE  IInv'
<1> USE DEF IInv
<1>1. goal' \in (lambda + 1)..LambdaLimit
  <2>1. lambda \in Int /\ LambdaLimit \in Int /\ Grid \in Nat \ {0} /\ lambda < LambdaLimit
    BY LimitType, SizesAssumption DEF BeginLoadStep, TypeOK, Lambdas
  <2>. QED
    BY <2>1 DEF BeginLoadStep, Smaller
<1>2. goal' \in Nat
  BY <1>1, LimitType, SizesAssumption DEF TypeOK, Lambdas
<1>3. LambdaLimit' = LambdaLimit /\ Bound' = Bound
  BY OptionsKept DEF BeginLoadStep
<1>4. TypeOK'
  BY <1>2 DEF BeginLoadStep, TypeOK
<1>5. AtRest' /\ RecordInv' /\ GoalInv'
  BY <1>1, <1>3 DEF BeginLoadStep, AtRest, RecordInv, GoalInv
<1>6. OutcomeInv' /\ EndIsExplained' /\ PrematureEndNamesCommittedFactor'
  BY DEF BeginLoadStep, OutcomeInv, EndIsExplained, PrematureEndNamesCommittedFactor
<1>. QED
  BY <1>4, <1>5, <1>6

LEMMA LoadConvergesKeeps ==
  ASSUME IInv, LoadConverges
  PROVE  IInv'
<1> USE DEF IInv
<1>1. PICK roof \in Roofs : /\ Committed([long |-> FullLoad, lambda |-> goal, roof |-> roof])
                           /\ reached' \in Reached(roof)
  BY DEF LoadConverges
<1> DEFINE p == [long |-> FullLoad, lambda |-> goal, roof |-> roof]
<1>2. goal \in (lambda + 1)..LambdaLimit
  BY DEF LoadConverges, GoalInv
<1>3. goal \in Lambdas
  BY <1>2, LimitType, SizesAssumption DEF TypeOK, Lambdas
<1>4. p \in Point
  BY <1>3, Zeros DEF Point
<1>5. elems' = [at |-> p, trial |-> p]
  BY <1>1, <1>4, CommitMoves DEF Committed
<1>6. last' = [factor |-> goal, at |-> p] /\ count' = count + 1 /\ lambda' = goal
  BY <1>5 DEF LoadConverges, Record, Entry
<1>7. reached' \in BOOLEAN
  BY <1>1 DEF Reached
<1>8. CASE reached'
  <2>1. TypeOK'
    BY <1>3, <1>4, <1>5, <1>6, <1>7, <1>8, Zeros
    DEF LoadConverges, Leave, Enter, TypeOK, Phases
  <2>2. AtRest' /\ RecordInv' /\ GoalInv'
    BY <1>5, <1>6, <1>8 DEF LoadConverges, Leave, Enter, TypeOK, AtRest, RecordInv, GoalInv
  <2>3. OutcomeInv' /\ EndIsExplained' /\ PrematureEndNamesCommittedFactor'
    BY <1>8 DEF LoadConverges, Leave, Enter, OutcomeInv, EndIsExplained,
       PrematureEndNamesCommittedFactor
  <2>. QED
    BY <2>1, <2>2, <2>3
<1>9. CASE ~reached'
  <2>1. Stopped("ScheduleCompleted") \in
          [kind : Outcomes, phase : Phases \union {None}, factor : Lambdas \union {None}]
    BY OutcomeTypes, Zeros DEF Outcomes
  <2>2. TypeOK'
    BY <1>3, <1>4, <1>5, <1>6, <1>7, <1>9, <2>1, Zeros DEF LoadConverges, NextStep, TypeOK
  <2>3. AtRest' /\ RecordInv' /\ GoalInv'
    BY <1>5, <1>6, <1>9 DEF LoadConverges, NextStep, TypeOK, AtRest, RecordInv, GoalInv
  <2>4. OutcomeInv' /\ EndIsExplained' /\ PrematureEndNamesCommittedFactor'
    BY <1>9 DEF LoadConverges, NextStep, Stopped, OutcomeInv, EndIsExplained,
       PrematureEndNamesCommittedFactor
  <2>. QED
    BY <2>2, <2>3, <2>4
<1>. QED
  BY <1>8, <1>9

LEMMA LoadFailsKeeps ==
  ASSUME IInv, LoadFails
  PROVE  IInv'
<1> USE DEF IInv
<1>1. elems' = elems
  BY RollBackRestores DEF LoadFails
<1>2. CASE GiveUp("displacement?", Premature("NonConvergence", lambda))
  <2>1. Premature("NonConvergence", lambda) \in
          [kind : Outcomes, phase : Phases \union {None}, factor : Lambdas \union {None}]
    BY OutcomeTypes DEF Outcomes, TypeOK
  <2>2. TypeOK'
    BY <1>1, <1>2, <2>1, Zeros DEF LoadFails, GiveUp, Leave, Enter, TypeOK, Phases
  <2>3. AtRest' /\ RecordInv' /\ GoalInv'
    BY <1>1, <1>2 DEF LoadFails, GiveUp, Leave, Enter, AtRest, RecordInv, GoalInv
  <2>4. OutcomeInv' /\ EndIsExplained' /\ PrematureEndNamesCommittedFactor'
    BY <1>1, <1>2 DEF LoadFails, GiveUp, Leave, Enter, Premature, RecordInv, OutcomeInv,
       EndIsExplained, PrematureEndNamesCommittedFactor
  <2>. QED
    BY <2>2, <2>3, <2>4
<1>3. CASE Retry(lambda)
  <2>1. /\ lambda \in Int /\ goal \in Int /\ lambda < goal /\ goal <= LambdaLimit
        /\ LambdaLimit \in Int
    BY LimitType DEF LoadFails, GoalInv, TypeOK, Lambdas
  <2>2. goal' \in (lambda + 1)..LambdaLimit
    BY <1>3, <2>1, HalfWay DEF Retry
  <2>3. goal' \in Nat
    BY <2>2, LimitType, SizesAssumption DEF TypeOK, Lambdas
  <2>4. LambdaLimit' = LambdaLimit
    BY OptionsKept DEF LoadFails
  <2>5. TypeOK'
    BY <1>1, <1>3, <2>3, SizesAssumption DEF LoadFails, Retry, TypeOK
  <2>6. AtRest' /\ RecordInv' /\ GoalInv'
    BY <1>1, <1>3, <2>2, <2>4 DEF LoadFails, Retry, AtRest, RecordInv, GoalInv
  <2>7. OutcomeInv' /\ EndIsExplained' /\ PrematureEndNamesCommittedFactor'
    BY <1>1, <1>3 DEF LoadFails, Retry, OutcomeInv, EndIsExplained,
       PrematureEndNamesCommittedFactor
  <2>. QED
    BY <2>5, <2>6, <2>7
<1>. QED
  BY <1>2, <1>3 DEF LoadFails

LEMMA LoadEndsKeeps ==
  ASSUME IInv, LoadEnds
  PROVE  IInv'
<1> USE DEF IInv
<1>1. BudgetFactor * NSteps > 0
  <2>1. \A a, b \in Nat \ {0} : a * b > 0
    BY SMT
  <2>. QED
    BY <2>1, SizesAssumption
<1>2. ((outcome' = outcome /\ step > 0) \/ outcome' = LambdaCap) /\ elems' = elems
  BY <1>1 DEF LoadEnds, LambdaCap, TypeOK, OutcomeInv
<1>3. LambdaCap \in
        [kind : Outcomes, phase : Phases \union {None}, factor : Lambdas \union {None}]
  BY OutcomeTypes, Zeros DEF Outcomes
<1>4. TypeOK'
  BY <1>2, <1>3, Zeros DEF LoadEnds, Leave, Enter, TypeOK, Phases
<1>5. AtRest' /\ RecordInv' /\ GoalInv'
  BY <1>2 DEF LoadEnds, Leave, Enter, AtRest, RecordInv, GoalInv
<1>6. OutcomeInv' /\ EndIsExplained' /\ PrematureEndNamesCommittedFactor'
  BY <1>2 DEF LoadEnds, Leave, Enter, LambdaCap, OutcomeInv, EndIsExplained,
     PrematureEndNamesCommittedFactor
<1>. QED
  BY <1>4, <1>5, <1>6

LEMMA EnterDisplacementKeeps ==
  ASSUME IInv, EnterDisplacement
  PROVE  IInv'
<1> USE DEF IInv
<1>1. CASE DisplacementWanted
  <2>1. PICK n \in Nat \ {0} :
          disp' = [from |-> elems.at.roof, steps |-> Smaller(n, Bound - elems.at.roof)]
    <3>1. {DispSteps, NSteps} \subseteq Nat \ {0}
      BY SizesAssumption
    <3>2. (IF opt.adaptive THEN 1..(2 * NSteps) ELSE {DispSteps}) \subseteq Nat \ {0}
      BY <3>1
    <3>. QED
      BY <1>1, <3>2 DEF EnterDisplacement
  <2>2. TargetEnabled /\ Bound \in Roofs /\ Bound > elems.at.roof
    BY <1>1, BoundType DEF DisplacementWanted, TypeOK
  <2>3. elems.at.roof \in Roofs
    BY DEF TypeOK, Point
  <2>4. Smaller(n, Bound - elems.at.roof) \in Nat \ {0}
        /\ Smaller(n, Bound - elems.at.roof) <= Bound - elems.at.roof
    BY <2>2, <2>3, SizesAssumption DEF Smaller, Roofs
  <2>5. /\ disp' \in [from : Roofs, steps : Nat] /\ disp'.from = elems.at.roof
        /\ disp'.steps > 0 /\ disp'.steps <= Bound - disp'.from
    BY <2>1, <2>3, <2>4
  <2>6. /\ RoofTarget(disp', 0) >= disp'.from /\ RoofTarget(disp', 1) \in Nat
        /\ RoofTarget(disp', 0) \in Nat
        /\ RoofTarget(disp', 1) <= Bound /\ RoofTarget(disp', 0) < RoofTarget(disp', 1)
    <3>1. disp'.steps >= 1
      BY <2>5
    <3>2. /\ RoofTarget(disp', 0) >= disp'.from /\ RoofTarget(disp', 0) \in Nat
          /\ RoofTarget(disp', 0) < RoofTarget(disp', 0 + 1)
      BY <2>2, <2>5, RoofTargets
    <3>3. RoofTarget(disp', 1) \in Nat /\ RoofTarget(disp', 1) <= Bound
      BY <2>2, <2>5, <3>1, RoofTargets
    <3>. QED
      BY <3>2, <3>3
  <2>7. /\ phase' = "displacement" /\ step' = 0 /\ attempt' = 0
        /\ goal' = RoofTarget(disp', 1)
    BY <1>1 DEF EnterDisplacement, Enter
  <2>8. /\ Bound' = Bound /\ (TargetEnabled' <=> TargetEnabled)
    BY OptionsKept DEF EnterDisplacement
  <2>9. RoofTarget(disp, 0)' = RoofTarget(disp', 0) /\ RoofTarget(disp, 1)' = RoofTarget(disp', 1)
    BY <2>8 DEF RoofTarget
  <2>10. TypeOK'
    BY <2>5, <2>6, <2>7, Zeros DEF EnterDisplacement, TypeOK, Phases
  <2>11. AtRest' /\ RecordInv'
    BY <2>7 DEF EnterDisplacement, AtRest, RecordInv
  <2>12. GoalInv'
    <3>1. goal' \in (elems'.at.roof + 1)..Bound
      BY <2>2, <2>3, <2>5, <2>6, <2>7, SizesAssumption DEF EnterDisplacement, Roofs
    <3>2. elems'.at.roof <= RoofTarget(disp', 0) /\ goal' <= RoofTarget(disp', 0 + 1)
      BY <2>5, <2>6, <2>7 DEF EnterDisplacement
    <3>. QED
      BY <2>2, <2>5, <2>6, <2>7, <2>8, <2>9, <3>1, <3>2 DEF GoalInv
  <2>13. OutcomeInv' /\ EndIsExplained' /\ PrematureEndNamesCommittedFactor'
    BY <1>1, <2>7 DEF EnterDisplacement, DisplacementWanted, OutcomeInv, EndIsExplained,
       PrematureEndNamesCommittedFactor
  <2>. QED
    BY <2>10, <2>11, <2>12, <2>13
<1>2. CASE ~DisplacementWanted
  <2>1. TypeOK'
    BY <1>2, Zeros DEF EnterDisplacement, Leave, Enter, TypeOK, Phases
  <2>2. AtRest' /\ RecordInv' /\ GoalInv'
    BY <1>2 DEF EnterDisplacement, Leave, Enter, AtRest, RecordInv, GoalInv
  <2>3. OutcomeInv' /\ EndIsExplained' /\ PrematureEndNamesCommittedFactor'
    BY <1>2 DEF EnterDisplacement, Leave, Enter, OutcomeInv, EndIsExplained,
       PrematureEndNamesCommittedFactor
  <2>. QED
    BY <2>1, <2>2, <2>3
<1>. QED
  BY <1>1, <1>2

(* where displacement control stands before a step *)
LEMMA DisplacementFacts ==
  ASSUME IInv, phase = "displacement", step < disp.steps
  PROVE  /\ Bound \in Roofs /\ TargetEnabled
         /\ elems.at.roof \in Roofs
         /\ goal \in (elems.at.roof + 1)..Bound /\ goal \in Roofs
         /\ goal <= RoofTarget(disp, step + 1)
         /\ RoofTarget(disp, step + 1) \in Nat /\ RoofTarget(disp, step + 1) <= Bound
         /\ RoofTarget(disp, step + 2) \in Nat
         /\ RoofTarget(disp, step + 1) < RoofTarget(disp, step + 2)
         /\ step + 2 <= disp.steps => RoofTarget(disp, step + 2) <= Bound
<1> USE DEF IInv
<1>1. Bound \in Roofs /\ TargetEnabled
  BY BoundType DEF GoalInv, TypeOK
<1>2. /\ goal \in (elems.at.roof + 1)..Bound /\ goal <= RoofTarget(disp, step + 1)
      /\ disp.steps > 0 /\ disp.steps <= Bound - disp.from
  BY DEF GoalInv
<1>3. elems.at.roof \in Roofs /\ disp \in [from : Roofs, steps : Nat] /\ step \in Nat
  BY DEF TypeOK, Point
<1>4. goal \in Roofs
  BY <1>1, <1>2, <1>3, SizesAssumption DEF Roofs
<1>5. step + 1 \in Nat /\ step + 2 \in Nat /\ step + 1 <= disp.steps /\ step + 2 = (step + 1) + 1
  BY <1>3
<1>6. /\ RoofTarget(disp, step + 1) \in Nat /\ RoofTarget(disp, step + 1) <= Bound
      /\ RoofTarget(disp, step + 1) < RoofTarget(disp, (step + 1) + 1)
  BY <1>1, <1>2, <1>3, <1>5, RoofTargets
<1>7. /\ RoofTarget(disp, step + 2) \in Nat
      /\ step + 2 <= disp.steps => RoofTarget(disp, step + 2) <= Bound
  BY <1>1, <1>2, <1>3, <1>5, RoofTargets
<1>. QED
  BY <1>1, <1>2, <1>3, <1>4, <1>5, <1>6, <1>7

LEMMA DisplacementConvergesKeeps ==
  ASSUME IInv, DisplacementConverges
  PROVE  IInv'
<1> USE DEF IInv
<1>1. phase = "displacement" /\ step < disp.steps
  BY DEF DisplacementConverges
<1>2. PICK l \in Lambdas : /\ lambda' = l
                          /\ Committed([long |-> FullLoad, lambda |-> l, roof |-> goal])
  BY DEF DisplacementConverges
<1> DEFINE p == [long |-> FullLoad, lambda |-> l, roof |-> goal]
<1>3. p \in Point
  BY <1>1, DisplacementFacts, Zeros DEF Point
<1>4. elems' = [at |-> p, trial |-> p]
  BY <1>2, <1>3, CommitMoves DEF Committed
<1>5. last' = [factor |-> l, at |-> p] /\ count' = count + 1 /\ lambda' = l
  BY <1>2, <1>4 DEF DisplacementConverges, Record, Entry
<1>6. reached' \in BOOLEAN
  BY DEF DisplacementConverges, Reached
<1>7. Stopped("ScheduleCompleted") \in
        [kind : Outcomes, phase : Phases \union {None}, factor : Lambdas \union {None}]
  BY OutcomeTypes, Zeros DEF Outcomes
<1>8. CASE reached'
  <2>1. TypeOK'
    BY <1>2, <1>3, <1>4, <1>5, <1>6, <1>7, <1>8, Zeros
    DEF DisplacementConverges, Leave, Enter, TypeOK, Phases
  <2>2. AtRest' /\ RecordInv' /\ GoalInv'
    BY <1>4, <1>5, <1>8 DEF DisplacementConverges, Leave, Enter, TypeOK, AtRest, RecordInv,
       GoalInv
  <2>3. OutcomeInv' /\ EndIsExplained' /\ PrematureEndNamesCommittedFactor'
    BY <1>8 DEF DisplacementConverges, Leave, Enter, Stopped, OutcomeInv, EndIsExplained,
       PrematureEndNamesCommittedFactor
  <2>. QED
    BY <2>1, <2>2, <2>3
<1>9. CASE ~reached'
  <2>1. goal' = RoofTarget(disp, step + 2) /\ step' = step + 1 /\ attempt' = 0
        /\ phase' = "displacement" /\ disp' = disp
    BY <1>1, <1>9 DEF DisplacementConverges, NextStep
  <2>2. TypeOK'
    BY <1>1, <1>2, <1>3, <1>4, <1>5, <1>6, <1>7, <2>1, DisplacementFacts, Zeros
    DEF DisplacementConverges, TypeOK
  <2>3. AtRest' /\ RecordInv'
    BY <1>4, <1>5, <2>1 DEF DisplacementConverges, TypeOK, AtRest, RecordInv
  <2>4. Bound' = Bound /\ (TargetEnabled' <=> TargetEnabled)
    BY OptionsKept DEF DisplacementConverges
  <2>5. /\ RoofTarget(disp, step)' = RoofTarget(disp, step + 1)
        /\ RoofTarget(disp, step + 1)' = RoofTarget(disp, (step + 1) + 1)
    BY <2>1, <2>4 DEF RoofTarget
  <2>6. step \in Nat /\ (step + 1) + 1 = step + 2 /\ disp.steps \in Nat
    BY DEF TypeOK
  <2>7. step' < disp'.steps => /\ goal' \in (elems'.at.roof + 1)..Bound
                               /\ goal' <= RoofTarget(disp, (step + 1) + 1)
    BY <1>1, <1>4, <2>1, <2>6, DisplacementFacts, SizesAssumption DEF Roofs
  <2>8. GoalInv'
    BY <1>1, <1>4, <2>1, <2>4, <2>5, <2>6, <2>7, DisplacementFacts DEF GoalInv
  <2>9. OutcomeInv' /\ EndIsExplained' /\ PrematureEndNamesCommittedFactor'
    BY <1>9, <2>1 DEF DisplacementConverges, Stopped, OutcomeInv, EndIsExplained,
       PrematureEndNamesCommittedFactor
  <2>. QED
    BY <2>2, <2>3, <2>8, <2>9
<1>. QED
  BY <1>8, <1>9

LEMMA DisplacementFailsKeeps ==
  ASSUME IInv, DisplacementFails
  PROVE  IInv'
<1> USE DEF IInv
<1>1. elems' = elems /\ lambda' = lambda
  BY RollBackRestores DEF DisplacementFails, RestoreLambda
<1>2. phase = "displacement" /\ step < disp.steps
  BY DEF DisplacementFails
<1>3. CASE GiveUp("arc?", Premature("NonConvergence", lambda'))
  <2>1. Premature("NonConvergence", lambda) \in
          [kind : Outcomes, phase : Phases \union {None}, factor : Lambdas \union {None}]
    BY OutcomeTypes DEF Outcomes, TypeOK
  <2>2. TypeOK'
    BY <1>1, <1>3, <2>1, Zeros DEF DisplacementFails, GiveUp, Leave, Enter, TypeOK, Phases
  <2>3. AtRest' /\ RecordInv' /\ GoalInv'
    BY <1>1, <1>3 DEF DisplacementFails, GiveUp, Leave, Enter, AtRest, RecordInv, GoalInv
  <2>4. OutcomeInv' /\ EndIsExplained' /\ PrematureEndNamesCommittedFactor'
    BY <1>1, <1>3 DEF DisplacementFails, GiveUp, Leave, Enter, Premature, RecordInv, OutcomeInv,
       EndIsExplained, PrematureEndNamesCommittedFactor
  <2>. QED
    BY <2>2, <2>3, <2>4
<1>4. CASE Retry(elems.at.roof)
  <2>1. /\ elems.at.roof \in Nat /\ goal \in Nat /\ elems.at.roof < goal
        /\ goal <= Bound /\ Bound \in Nat
    BY <1>2, DisplacementFacts, SizesAssumption DEF Roofs
  <2>2. goal' \in (elems.at.roof + 1)..goal
    BY <1>4, <2>1, HalfWay DEF Retry
  <2>3. goal' \in Nat /\ goal' \in (elems.at.roof + 1)..Bound
        /\ goal' <= RoofTarget(disp, step + 1)
    BY <1>2, <2>1, <2>2, DisplacementFacts
  <2>4. Bound' = Bound /\ (TargetEnabled' <=> TargetEnabled)
    BY OptionsKept DEF DisplacementFails
  <2>5. phase' = phase /\ step' = step /\ disp' = disp /\ outcome' = outcome
    BY <1>4 DEF DisplacementFails, Retry
  <2>6. /\ RoofTarget(disp, step)' = RoofTarget(disp, step)
        /\ RoofTarget(disp, step + 1)' = RoofTarget(disp, step + 1)
    BY <2>4, <2>5 DEF RoofTarget
  <2>7. TypeOK'
    BY <1>1, <1>4, <2>3, SizesAssumption DEF DisplacementFails, Retry, TypeOK
  <2>8. GoalInv'
    BY <1>1, <1>2, <2>3, <2>4, <2>5, <2>6 DEF GoalInv
  <2>9. AtRest' /\ RecordInv' /\ OutcomeInv' /\ EndIsExplained'
        /\ PrematureEndNamesCommittedFactor'
    BY <1>1, <2>5 DEF DisplacementFails, AtRest, RecordInv, OutcomeInv, EndIsExplained,
       PrematureEndNamesCommittedFactor
  <2>. QED
    BY <2>7, <2>8, <2>9
<1>. QED
  BY <1>3, <1>4 DEF DisplacementFails

LEMMA DisplacementEndsKeeps ==
  ASSUME IInv, DisplacementEnds
  PROVE  IInv'
<1> USE DEF IInv
<1>1. TypeOK'
  BY Zeros DEF DisplacementEnds, Leave, Enter, TypeOK, Phases
<1>2. AtRest' /\ RecordInv' /\ GoalInv'
  BY DEF DisplacementEnds, Leave, Enter, AtRest, RecordInv, GoalInv
<1>3. OutcomeInv' /\ EndIsExplained' /\ PrematureEndNamesCommittedFactor'
  BY DEF DisplacementEnds, Leave, Enter, OutcomeInv, EndIsExplained,
     PrematureEndNamesCommittedFactor
<1>. QED
  BY <1>1, <1>2, <1>3

LEMMA EnterArcKeeps ==
  ASSUME IInv, EnterArc
  PROVE  IInv'
<1> USE DEF IInv
<1>1. ArcStart(lambda) \in Lambdas
  BY LimitType, SizesAssumption DEF ArcStart, TypeOK, Lambdas
<1>2. ArcStart(elems.at.lambda)' = ArcStart(elems.at.lambda)
  BY DEF EnterArc, ArcStart
<1>3. TypeOK'
  BY <1>1, Zeros DEF EnterArc, Leave, Enter, TypeOK, Phases
<1>4. AtRest' /\ RecordInv' /\ GoalInv'
  BY <1>2 DEF EnterArc, Leave, Enter, AtRest, RecordInv, GoalInv
<1>5. OutcomeInv' /\ EndIsExplained' /\ PrematureEndNamesCommittedFactor'
  BY <1>2 DEF EnterArc, Leave, Enter, OutcomeInv, EndIsExplained,
     PrematureEndNamesCommittedFactor
<1>. QED
  BY <1>3, <1>4, <1>5

LEMMA ArcConvergesKeeps ==
  ASSUME IInv, ArcConverges
  PROVE  IInv'
<1> USE DEF IInv
<1>1. PICK l \in Lambdas, roof \in Roofs :
        /\ lambda' = l /\ Committed([long |-> FullLoad, lambda |-> l, roof |-> roof])
        /\ Record(l) /\ reached' \in Reached(roof)
  BY DEF ArcConverges
<1> DEFINE p == [long |-> FullLoad, lambda |-> l, roof |-> roof]
<1>2. p \in Point
  BY Zeros DEF Point
<1>3. elems' = [at |-> p, trial |-> p]
  BY <1>1, <1>2, CommitMoves DEF Committed
<1>4. last' = [factor |-> l, at |-> p] /\ count' = count + 1 /\ reached' \in BOOLEAN
  BY <1>1, <1>3 DEF Record, Entry, Reached
<1>5. Stopped("ScheduleCompleted") \in
        [kind : Outcomes, phase : Phases \union {None}, factor : Lambdas \union {None}]
  BY OutcomeTypes, Zeros DEF Outcomes
<1>6. TypeOK'
  BY <1>1, <1>2, <1>3, <1>4, <1>5, Zeros DEF ArcConverges, Leave, Enter, NextStep, TypeOK, Phases
<1>7. AtRest' /\ RecordInv' /\ GoalInv'
  BY <1>1, <1>3, <1>4 DEF ArcConverges, Leave, Enter, NextStep, TypeOK, AtRest, RecordInv, GoalInv
<1>8. OutcomeInv' /\ EndIsExplained' /\ PrematureEndNamesCommittedFactor'
  BY <1>4 DEF ArcConverges, Leave, Enter, NextStep, Stopped, OutcomeInv, EndIsExplained,
     PrematureEndNamesCommittedFactor
<1>. QED
  BY <1>6, <1>7, <1>8

LEMMA ArcFailsKeeps ==
  ASSUME IInv, ArcFails
  PROVE  IInv'
<1> USE DEF IInv
<1>1. elems' = elems
  BY RollBackRestores DEF ArcFails
<1>2. PICK k \in {"TangentSingular", "NonConvergence"} : outcome' = Premature(k, lambda)
  BY DEF ArcFails
<1>3. Premature(k, lambda) \in
        [kind : Outcomes, phase : Phases \union {None}, factor : Lambdas \union {None}]
  BY OutcomeTypes DEF Outcomes, TypeOK
<1>4. TypeOK'
  BY <1>1, <1>2, <1>3, Zeros DEF ArcFails, Leave, Enter, TypeOK, Phases
<1>5. AtRest' /\ RecordInv' /\ GoalInv'
  BY <1>1 DEF ArcFails, Leave, Enter, AtRest, RecordInv, GoalInv
<1>6. ArcStart(elems.at.lambda)' = ArcStart(elems.at.lambda)
  BY <1>1 DEF ArcStart
<1>7. OutcomeInv' /\ EndIsExplained' /\ PrematureEndNamesCommittedFactor'
  BY <1>1, <1>2, <1>6 DEF ArcFails, Leave, Enter, Premature, RecordInv, OutcomeInv,
     EndIsExplained, PrematureEndNamesCommittedFactor
<1>. QED
  BY <1>4, <1>5, <1>7

LEMMA ArcEndsKeeps ==
  ASSUME IInv, ArcEnds
  PROVE  IInv'
<1> USE DEF IInv
<1>1. TypeOK'
  BY Zeros DEF ArcEnds, Leave, Enter, TypeOK, Phases
<1>2. AtRest' /\ RecordInv' /\ GoalInv'
  BY DEF ArcEnds, Leave, Enter, AtRest, RecordInv, GoalInv
<1>3. ArcStart(elems.at.lambda)' = ArcStart(elems.at.lambda)
  BY DEF ArcEnds, ArcStart
<1>4. OutcomeInv' /\ EndIsExplained' /\ PrematureEndNamesCommittedFactor'
  BY <1>3 DEF ArcEnds, Leave, Enter, OutcomeInv, EndIsExplained,
     PrematureEndNamesCommittedFactor
<1>. QED
  BY <1>1, <1>2, <1>4

LEMMA CloseKeeps ==
  ASSUME IInv, Close
  PROVE  IInv'
<1> USE DEF IInv
<1>1. {Stopped("Error"), Stopped("TargetReached")} \subseteq
        [kind : Outcomes, phase : Phases \union {None}, factor : Lambdas \union {None}]
  BY OutcomeTypes, Zeros DEF Outcomes
<1>2. TypeOK'
  BY <1>1, Zeros DEF Close, Leave, Enter, TypeOK, Phases
<1>3. AtRest' /\ RecordInv' /\ GoalInv'
  BY DEF Close, Leave, Enter, AtRest, RecordInv, GoalInv
<1>4. ArcStart(elems.at.lambda)' = ArcStart(elems.at.lambda)
  BY DEF Close, ArcStart
<1>5. OutcomeInv' /\ EndIsExplained' /\ PrematureEndNamesCommittedFactor'
  BY <1>4 DEF Close, Leave, Enter, Stopped, RecordInv, TypeOK, OutcomeInv, EndIsExplained,
     PrematureEndNamesCommittedFactor
<1>. QED
  BY <1>2, <1>3, <1>5

LEMMA NextIInv == IInv /\ [Next]_vars => IInv'
<1> SUFFICES ASSUME IInv, [Next]_vars PROVE IInv'
  OBVIOUS
<1>1. CASE UNCHANGED vars
  <2>1. ArcStart(elems.at.lambda)' = ArcStart(elems.at.lambda)
    BY <1>1 DEF vars, ArcStart
  <2>2. TypeOK' /\ AtRest' /\ RecordInv'
    BY <1>1, <2>1 DEF vars, IInv, TypeOK, AtRest, RecordInv
  <2>3. GoalInv'
    BY <1>1, OptionsKept DEF vars, IInv, GoalInv, RoofTarget
  <2>4. OutcomeInv' /\ EndIsExplained' /\ PrematureEndNamesCommittedFactor'
    BY <1>1, <2>1 DEF vars, IInv, OutcomeInv, EndIsExplained, PrematureEndNamesCommittedFactor
  <2>. QED
    BY <2>2, <2>3, <2>4 DEF IInv
<1>2. CASE LongTermConverges \/ LongTermFails \/ LongTermEnds
  BY <1>2, LongTermConvergesKeeps, LongTermFailsKeeps, LongTermEndsKeeps
<1>3. CASE BeginLoadStep \/ LoadConverges \/ LoadFails \/ LoadEnds
  BY <1>3, BeginLoadStepKeeps, LoadConvergesKeeps, LoadFailsKeeps, LoadEndsKeeps
<1>4. CASE EnterDisplacement \/ DisplacementConverges \/ DisplacementFails \/ DisplacementEnds
  BY <1>4, EnterDisplacementKeeps, DisplacementConvergesKeeps, DisplacementFailsKeeps,
     DisplacementEndsKeeps
<1>5. CASE EnterArc \/ ArcConverges \/ ArcFails \/ ArcEnds \/ Close
  BY <1>5, EnterArcKeeps, ArcConvergesKeeps, ArcFailsKeeps, ArcEndsKeeps, CloseKeeps
<1>. QED
  BY <1>1, <1>2, <1>3, <1>4, <1>5 DEF Next

(****************************************************************************)
(* Theorems                                                                 *)
(****************************************************************************)

(* The record, the driver's factor and the committed states agree, what an
   attempt aims for lies ahead, and a reason for the end is on hand, at every
   step of the driver (driver.rs:196-660). *)
THEOREM DriverInvariant == SafetySpec => []IInv
<1>. QED
  BY InitIInv, NextIInv, PTL DEF SafetySpec

(* Every variable keeps its type; above all no attempt is made beyond the
   five allowed, and no factor or roof leaves its range. *)
THEOREM TypeCorrect == SafetySpec => []TypeOK
<1>1. IInv => TypeOK
  BY DEF IInv
<1>. QED
  BY <1>1, DriverInvariant, PTL

(* What is returned shows the latest record: no trial state of a failed
   attempt and no rolled back commit gets into it. *)
THEOREM RecordShown == SafetySpec => []ResultShowsLatestRecord
<1>1. IInv => ResultShowsLatestRecord
  BY DEF IInv, AtRest, RecordInv, ResultShowsLatestRecord
<1>. QED
  BY <1>1, DriverInvariant, PTL

(* A premature end names the factor of the committed state, however far the
   iterations of failed attempts had moved the factor. *)
THEOREM PrematureFactorCommitted == SafetySpec => []PrematureEndNamesCommittedFactor
<1>1. IInv => PrematureEndNamesCommittedFactor
  BY DEF IInv
<1>. QED
  BY <1>1, DriverInvariant, PTL

(* An analysis that ends says why, and says so truthfully. *)
THEOREM EndExplained == SafetySpec => []EndIsExplained
<1>1. IInv => EndIsExplained
  BY DEF IInv
<1>. QED
  BY <1>1, DriverInvariant, PTL

(* Once a recorded step meets the target the remaining phases load nothing. *)
THEOREM NothingLoadedAfterTarget == SafetySpec => NothingAfterTarget
<1>1. IInv /\ [Next]_vars => [reached => UNCHANGED <<elems, last, count, reached>>]_vars
  <2> SUFFICES ASSUME IInv, Next, reached
               PROVE  UNCHANGED <<elems, last, count, reached>>
    OBVIOUS
  <2>1. phase \notin {"longTerm", "load", "displacement", "arc"}
    BY DEF IInv, RecordInv, OutcomeInv
  <2>2. EnterDisplacement \/ EnterArc \/ Close
    BY <2>1 DEF Next, LongTermConverges, LongTermFails, LongTermEnds, BeginLoadStep,
       LoadConverges, LoadFails, LoadEnds, DisplacementConverges, DisplacementFails,
       DisplacementEnds, ArcConverges, ArcFails, ArcEnds
  <2>. QED
    BY <2>2 DEF EnterDisplacement, EnterArc, Close
<1>. QED
  BY <1>1, DriverInvariant, PTL DEF SafetySpec, NothingAfterTarget

(* Who counts a record. *)
LEMMA Recorders ==
  ASSUME IInv, Next, count' = count + 1
  PROVE  LongTermEnds \/ LoadConverges \/ DisplacementConverges \/ ArcConverges
<1>1. count \in Nat
  BY DEF IInv, TypeOK
<1>2. count' # count
  BY <1>1
<1>. QED
  BY <1>2 DEF Next, LongTermConverges, LongTermFails, BeginLoadStep, LoadFails, LoadEnds,
     EnterDisplacement, DisplacementFails, DisplacementEnds, EnterArc, ArcFails, ArcEnds, Close

(* A recorded step of load control lies above the one before and below its
   limit, one of displacement control further along and not past the bound,
   however often the increment was halved on the way. *)
THEOREM StepsGoForward == SafetySpec => StepsAdvance
<1>1. IInv /\ [Next]_vars =>
        [count' = count + 1 =>
           /\ phase = "load" => /\ lambda' > elems.at.lambda
                                /\ lambda' <= LambdaLimit
           /\ phase = "displacement" => /\ elems'.at.roof > elems.at.roof
                                        /\ elems'.at.roof <= Bound]_vars
  <2> SUFFICES ASSUME IInv, Next, count' = count + 1
               PROVE  /\ phase = "load" => lambda' > elems.at.lambda /\ lambda' <= LambdaLimit
                      /\ phase = "displacement" => /\ elems'.at.roof > elems.at.roof
                                                   /\ elems'.at.roof <= Bound
    OBVIOUS
  <2>1. CASE phase = "load"
    <3>1. LoadConverges
      BY <2>1, Recorders DEF LongTermEnds, DisplacementConverges, ArcConverges
    <3>2. lambda = elems.at.lambda /\ goal \in (lambda + 1)..LambdaLimit
      BY <2>1, <3>1 DEF IInv, RecordInv, GoalInv, LoadConverges
    <3>3. lambda \in Int /\ LambdaLimit \in Int
      BY LimitType DEF IInv, TypeOK, Lambdas
    <3>. QED
      BY <2>1, <3>1, <3>2, <3>3 DEF LoadConverges
  <2>2. CASE phase = "displacement"
    <3>1. DisplacementConverges
      BY <2>2, Recorders DEF LongTermEnds, LoadConverges, ArcConverges
    <3>2. /\ goal \in (elems.at.roof + 1)..Bound /\ TargetEnabled
          /\ elems.at.roof \in Roofs /\ opt \in Options
      BY <2>2, <3>1 DEF IInv, GoalInv, TypeOK, Point, DisplacementConverges
    <3>3. Bound \in Nat /\ elems.at.roof \in Nat /\ Bound \in Roofs
      BY <3>2, BoundType, SizesAssumption DEF Roofs
    <3>4. goal \in Roofs
      BY <3>2, <3>3, SizesAssumption DEF Roofs
    <3>5. PICK l \in Lambdas : Committed([long |-> FullLoad, lambda |-> l, roof |-> goal])
      BY <3>1 DEF DisplacementConverges
    <3> DEFINE p == [long |-> FullLoad, lambda |-> l, roof |-> goal]
    <3>6. p \in Point
      BY <3>4, Zeros DEF Point
    <3>7. elems' = [at |-> p, trial |-> p]
      BY <3>5, <3>6, CommitMoves DEF Committed, IInv
    <3>. QED
      BY <2>2, <3>2, <3>3, <3>7
  <2>. QED
    BY <2>1, <2>2
<1>. QED
  BY <1>1, DriverInvariant, PTL DEF SafetySpec, StepsAdvance

(****************************************************************************)
(* Refinement                                                               *)
(****************************************************************************)

(* Without a record nothing but a long-term load has moved the structure. *)
Unmoved == count = 0 /\ phase \notin {"longTerm", "done"} => elems.at = Origin

LEMMA UnmovedInvariant == SafetySpec => []Unmoved
<1>1. Init => Unmoved
  BY DEF Init, Unmoved
<1>2. IInv /\ Unmoved /\ [Next]_vars => Unmoved'
  <2> SUFFICES ASSUME IInv, Unmoved, [Next]_vars PROVE Unmoved'
    OBVIOUS
  <2>1. count \in Nat
    BY DEF IInv, TypeOK
  <2>2. CASE LongTermEnds \/ LoadConverges \/ DisplacementConverges \/ ArcConverges
    <3>1. count' = count + 1
      BY <2>2 DEF LongTermEnds, LoadConverges, DisplacementConverges, ArcConverges, Record
    <3>. QED
      BY <2>1, <3>1 DEF Unmoved
  <2>3. CASE LongTermConverges \/ LongTermFails
    <3>1. phase' \in {"longTerm", "done"}
      BY <2>3 DEF LongTermConverges, LongTermFails, Retry, GiveUp, Leave, Enter
    <3>. QED
      BY <3>1 DEF Unmoved
  <2>4. CASE BeginLoadStep \/ LoadFails \/ LoadEnds \/ DisplacementFails \/ DisplacementEnds
             \/ ArcFails \/ ArcEnds \/ EnterDisplacement \/ EnterArc \/ Close \/ UNCHANGED vars
    <3>1. elems' = elems /\ count' = count
      BY <2>4, RollBackRestores DEF BeginLoadStep, LoadFails, LoadEnds, DisplacementFails,
         DisplacementEnds, ArcFails, ArcEnds, EnterDisplacement, EnterArc, Close, vars
    <3>2. phase' \in {"longTerm", "done"} \/ phase \notin {"longTerm", "done"}
      BY <2>4 DEF BeginLoadStep, LoadFails, LoadEnds, DisplacementFails,
         DisplacementEnds, ArcFails, ArcEnds, EnterDisplacement, EnterArc, Close, vars
    <3>. QED
      BY <3>1, <3>2 DEF Unmoved
  <2>. QED
    BY <2>2, <2>3, <2>4 DEF Next
<1>. QED
  BY <1>1, <1>2, DriverInvariant, PTL DEF SafetySpec

(* The driver implements the path of equilibrium points: an attempt that does
   not converge leaves no trace, a converged one adds its point, the target
   ends the path, and the verdict is the path's own. *)
THEOREM DriverImplementsPath == SafetySpec => ImplementsEquilibriumPath
<1>1. Init => Path!PathInit
  BY DEF Init, Path!PathInit, Stopped
<1>2. IInv /\ IInv' /\ Unmoved /\ [Next]_vars => [Path!PathNext]_(Path!pathVars)
  <2> SUFFICES ASSUME IInv, IInv', Unmoved, Next
               PROVE  Path!PathNext \/ UNCHANGED Path!pathVars
    BY DEF vars, Path!pathVars
  <2>0. /\ count \in Nat /\ reached \in BOOLEAN /\ reached' \in BOOLEAN
        /\ elems.trial = elems.at /\ elems'.trial = elems'.at /\ elems'.at \in Point
    BY DEF IInv, TypeOK, AtRest
  <2>1. CASE LongTermConverges
    <3>1. phase # "done" /\ phase' # "done" /\ count = 0 /\ count' = count /\ reached' = reached
      BY <2>1 DEF LongTermConverges, IInv, RecordInv
    <3>2. Path!Approach
      BY <2>0, <3>1 DEF Path!Approach
    <3>. QED
      BY <3>2 DEF Path!PathNext
  <2>2. CASE LongTermFails
    <3>1. elems' = elems /\ count = 0 /\ count' = count /\ reached' = reached /\ phase # "done"
      BY <2>2, RollBackRestores DEF LongTermFails, IInv, RecordInv
    <3>2. CASE phase' = "done"
      <4>1. outcome' = Stopped("Error")
        BY <2>2, <3>2 DEF LongTermFails, Retry, GiveUp
      <4>2. Path!Conclude
        BY <2>0, <3>1, <3>2, <4>1 DEF Path!Conclude, Stopped
      <4>. QED
        BY <4>2 DEF Path!PathNext
    <3>3. CASE phase' # "done"
      BY <3>1, <3>3 DEF Path!pathVars
    <3>. QED
      BY <3>2, <3>3
  <2>3. CASE LongTermEnds
    <3>1. elems' = elems /\ count' = count + 1 /\ reached' = reached /\ ~reached
      BY <2>3 DEF LongTermEnds, Record, IInv, RecordInv
    <3>2. phase # "done" /\ phase' # "done"
      BY <2>3 DEF LongTermEnds, Leave, Enter
    <3>3. Path!Show
      BY <2>0, <3>1, <3>2 DEF Path!Show
    <3>. QED
      BY <3>3 DEF Path!PathNext
  <2>4. CASE LoadConverges \/ DisplacementConverges \/ ArcConverges
    <3>1. count' = count + 1 /\ ~reached
      BY <2>4 DEF LoadConverges, DisplacementConverges, ArcConverges, Record, IInv, OutcomeInv
    <3>2. phase # "done" /\ phase' # "done"
      BY <2>4 DEF LoadConverges, DisplacementConverges, ArcConverges, Leave, Enter, NextStep
    <3>3. count > 0 \/ elems.trial = Origin
      <4>1. phase \notin {"longTerm", "done"}
        BY <2>4 DEF LoadConverges, DisplacementConverges, ArcConverges
      <4>. QED
        BY <2>0, <4>1 DEF Unmoved
    <3>4. Path!Show
      BY <2>0, <3>1, <3>2, <3>3 DEF Path!Show
    <3>. QED
      BY <3>4 DEF Path!PathNext
  <2>5. CASE Close
    <3>1. /\ elems' = elems /\ count' = count /\ reached' = reached
          /\ phase # "done" /\ phase' = "done"
      BY <2>5 DEF Close, Leave, Enter
    <3>2. outcome.kind \notin {"Error", "TargetReached"} /\ (count = 0 => ~reached)
      BY <3>1 DEF IInv, OutcomeInv, RecordInv
    <3>3. outcome'.kind = IF count = 0 THEN "Error"
                          ELSE IF reached THEN "TargetReached" ELSE outcome.kind
      BY <2>5 DEF Close, Stopped
    <3>4. Path!Conclude
      BY <2>0, <3>1, <3>2, <3>3 DEF Path!Conclude
    <3>. QED
      BY <3>4 DEF Path!PathNext
  <2>6. CASE BeginLoadStep \/ LoadFails \/ LoadEnds \/ DisplacementFails \/ DisplacementEnds
             \/ ArcFails \/ ArcEnds \/ EnterDisplacement \/ EnterArc
    <3>1. elems' = elems /\ count' = count /\ reached' = reached
      BY <2>6, RollBackRestores DEF BeginLoadStep, LoadFails, LoadEnds, DisplacementFails,
         DisplacementEnds, ArcFails, ArcEnds, EnterDisplacement, EnterArc
    <3>2. phase # "done" /\ phase' # "done"
      BY <2>6 DEF BeginLoadStep, LoadFails, LoadEnds, DisplacementFails, DisplacementEnds,
         ArcFails, ArcEnds, EnterDisplacement, EnterArc, Retry, GiveUp, Leave, Enter
    <3>. QED
      BY <3>1, <3>2 DEF Path!pathVars
  <2>. QED
    BY <2>1, <2>2, <2>3, <2>4, <2>5, <2>6 DEF Next
<1>. QED
  BY <1>1, <1>2, DriverInvariant, UnmovedInvariant, PTL
     DEF SafetySpec, ImplementsEquilibriumPath, Path!PathSpec

=============================================================================
