--------------------------- MODULE PushoverControl ---------------------------
(****************************************************************************)
(* The driver of the pushover analysis: long-term loads first, then load    *)
(* control, displacement control and arc-length control, each phase a loop  *)
(* over steps and in it a loop over attempts with a halved increment.  An   *)
(* attempt works on the trial states of the elements; it is committed and   *)
(* recorded, or rolled back to the snapshot it started from.                *)
(*                                                                          *)
(* The equations are not solved: whether a Newton iteration converges and   *)
(* what the structure answers is chosen freely.  Load factors and roof      *)
(* displacements are whole numbers: a full increment of the load factor has *)
(* Grid of them, and a halved increment is rounded up.                      *)
(****************************************************************************)
EXTENDS Integers

CONSTANTS
  Options,       \* what the user may ask for, see OptionType
  NSteps,        \* n_steps: increments up to load factor 1
  GravitySteps,  \* n_grav: increments of the long-term load (5)
  Attempts,      \* attempts at one step (5)
  Extension,     \* lambda_cap of a load-only analysis with a target (10)
  BudgetFactor,  \* max_load_steps / n_steps (10)
  DispSteps,     \* n_disp_steps of a displacement control that is not adaptive (10)
  ArcSteps,      \* arc-length steps (20)
  Grid,          \* bound: grid points of one increment
  MaxLambda,     \* bound: largest load factor a solution may have
  MaxRoof,       \* bound: largest roof displacement
  None           \* an absent Option

ASSUME SizesAssumption ==
  /\ {NSteps, GravitySteps, Attempts, Extension, BudgetFactor} \subseteq Nat \ {0}
  /\ {DispSteps, ArcSteps, Grid} \subseteq Nat \ {0}
  /\ MaxLambda \in Nat /\ MaxRoof \in Nat
  /\ NSteps * Grid <= MaxLambda /\ Extension * (NSteps * Grid) <= MaxLambda
  /\ None \notin Int /\ None \notin [long : Int, lambda : Int, roof : Int]

Roofs == 0..MaxRoof
Lambdas == -1..MaxLambda     \* past the peak the load factor may turn negative

\* disp, angle: PushoverTarget, the angle as the roof displacement it stands for
OptionType ==
  [control : {"Phased", "LoadOnly"}, disp : Roofs \union {None},
   angle : Roofs \union {None}, longTerm : BOOLEAN, arc : BOOLEAN,
   roofDof : BOOLEAN, adaptive : BOOLEAN]

\* adaptive steps need displacement control's roof and bound
ASSUME OptionsAssumption ==
  /\ Options \subseteq OptionType
  /\ \A o \in Options : o.adaptive =>
       o.control = "Phased" /\ o.roofDof /\ (o.disp # None \/ o.angle # None)

VARIABLES
  opt,      \* the arguments of the analysis
  phase,    \* where the driver is
  step,     \* _step, gstep: steps of this phase so far
  attempt,  \* _attempt: failed attempts at this step
  goal,     \* mu_target, current_lambda, sub_target: what this attempt aims for
  lambda,   \* lambda, and arc_lambda once the arc-length phase has begun
  elems,    \* behaviors and total_disp: committed and trial states
  last,     \* the latest entry of the recorder
  count,    \* step_no: how many entries it has
  reached,  \* target_reached
  outcome,  \* phase_outcome
  disp      \* initial_disp and n_disp_steps of displacement control

vars == <<opt, phase, step, attempt, goal, lambda, elems, last, count, reached,
          outcome, disp>>

----------------------------------------------------------------------------
(* States of the structure *)

FullLoad == GravitySteps * Grid
Point == [long : 0..FullLoad, lambda : Lambdas, roof : Roofs]
Origin == [long |-> 0, lambda |-> 0, roof |-> 0]
Diverged == None    \* trial states that are no equilibrium

Moved(e, p) == [e EXCEPT !.trial = p]
Commit(e) == [e EXCEPT !.at = e.trial]
\* Faulty variant: rolls back what the elements committed, not their trial states
RestoreCommitted(snapshot, e) == [e EXCEPT !.at = snapshot.at]
Restore(snapshot, e) == snapshot

\* Faulty variant: keeps the factor the iteration ended with
RestoreNoLambda(snapshot, l) == l
RestoreLambda(snapshot, l) == snapshot

\* An attempt that does not converge leaves trial states behind; they are rolled back.
\* Faulty variant: the next attempt starts from there
LeftBehind == elems' = Moved(elems, Diverged)
RolledBack == elems' = Restore(elems, Moved(elems, Diverged))
Committed(p) == elems' = Commit(Moved(elems, p))

\* StepRecorder::record is given the factor and reads everything else from the elements.
Entry(factor, e) == [factor |-> factor, at |-> e.at]
Record(factor) == last' = Entry(factor, elems') /\ count' = count + 1

Smaller(m, n) == IF m < n THEN m ELSE n
\* Faulty variant: halves what is aimed for, not the way to it
HalvedGoal(from, to) == to \div 2
\* half of the way from one grid point to a later one
Halved(from, to) == from + (to - from + 1) \div 2

(* Targets *)

TargetEnabled == opt.disp # None \/ opt.angle # None
Bound == CHOOSE b \in {opt.disp, opt.angle} \ {None} :
           \A c \in {opt.disp, opt.angle} \ {None} : b <= c

\* A roof past its target hits it, one held at the target does up to rounding; the story
\* drifts hit theirs at any time.
Reached(roof) ==
  {hit \in BOOLEAN :
     /\ opt.disp # None /\ roof > opt.disp => hit
     /\ hit => opt.angle # None \/ (opt.disp # None /\ roof >= opt.disp)}

Stopped(kind) == [kind |-> kind, phase |-> None, factor |-> None]
LambdaCap == [kind |-> "LambdaCap", phase |-> None, factor |-> lambda]
Premature(kind, l) == [kind |-> kind, phase |-> phase, factor |-> l]

NextStep(g) == step' = step + 1 /\ attempt' = 0 /\ goal' = g
Retry(from) ==
  /\ attempt + 1 < Attempts
  /\ attempt' = attempt + 1 /\ goal' = Halved(from, goal)
  /\ UNCHANGED <<step, phase, outcome>>
Enter(to, g) == phase' = to /\ step' = 0 /\ attempt' = 0 /\ goal' = g
Leave(to) == Enter(to, None)
GiveUp(to, why) == attempt + 1 = Attempts /\ Leave(to) /\ outcome' = why

Init ==
  /\ opt \in Options
  /\ phase = IF opt.longTerm THEN "longTerm" ELSE "load"
  /\ step = 0 /\ attempt = 0 /\ lambda = 0
  /\ goal = IF opt.longTerm THEN Grid ELSE None
  /\ elems = [at |-> Origin, trial |-> Origin]
  /\ last = None /\ count = 0
  /\ reached = FALSE
  /\ outcome = Stopped("Unknown")
  /\ disp = [from |-> 0, steps |-> 0]

----------------------------------------------------------------------------
(* Long-term loads *)

\* Faulty variant: the step is not counted
LongTermUncounted ==
  /\ phase = "longTerm" /\ step < GravitySteps
  /\ \E roof \in Roofs : Committed([long |-> goal, lambda |-> 0, roof |-> roof])
  /\ attempt' = 0 /\ goal' = (step + 1) * Grid
  /\ UNCHANGED <<opt, phase, step, lambda, last, count, reached, outcome, disp>>
LongTermConverges ==
  /\ phase = "longTerm" /\ step < GravitySteps
  /\ \E roof \in Roofs : Committed([long |-> goal, lambda |-> 0, roof |-> roof])
  /\ NextStep((step + 2) * Grid)
  /\ UNCHANGED <<opt, phase, lambda, last, count, reached, outcome, disp>>

LongTermFails ==
  /\ phase = "longTerm" /\ step < GravitySteps
  /\ RolledBack
  /\ GiveUp("done", Stopped("Error")) \/ Retry(elems.at.long)
  /\ UNCHANGED <<opt, lambda, last, count, reached, disp>>

LongTermEnds ==
  /\ phase = "longTerm" /\ step = GravitySteps
  /\ UNCHANGED <<opt, lambda, elems, reached, outcome, disp>>
  /\ Record(0)
  /\ Leave("load")

(* Load control *)

LambdaLimit ==
  IF opt.control = "LoadOnly" /\ TargetEnabled THEN Extension * (NSteps * Grid)
  ELSE NSteps * Grid

BeginLoadStep ==
  /\ phase = "load" /\ goal = None
  /\ step < BudgetFactor * NSteps /\ lambda < LambdaLimit
  /\ goal' \in IF opt.adaptive THEN (lambda + 1)..LambdaLimit
               ELSE {Smaller(lambda + Grid, LambdaLimit)}
  /\ UNCHANGED <<opt, phase, step, attempt, lambda, elems, last, count,
                 reached, outcome, disp>>

LoadConverges ==
  /\ phase = "load" /\ goal # None
  /\ lambda' = goal
  /\ \E roof \in Roofs :
       /\ Committed([long |-> FullLoad, lambda |-> goal, roof |-> roof])
       /\ reached' \in Reached(roof)
  /\ Record(goal)
  /\ IF reached' THEN Leave("displacement?") /\ UNCHANGED outcome
     ELSE NextStep(None) /\ outcome' = Stopped("ScheduleCompleted") /\ UNCHANGED phase
  /\ UNCHANGED <<opt, disp>>

LoadFails ==
  /\ phase = "load" /\ goal # None
  /\ RolledBack
  /\ GiveUp("displacement?", Premature("NonConvergence", lambda)) \/ Retry(lambda)
  /\ UNCHANGED <<opt, lambda, last, count, reached, disp>>

LoadEnds ==
  /\ phase = "load" /\ goal = None
  /\ \/ step = BudgetFactor * NSteps /\ UNCHANGED outcome
     \/ step < BudgetFactor * NSteps /\ lambda >= LambdaLimit /\ outcome' = LambdaCap
  /\ Leave("displacement?")
  /\ UNCHANGED <<opt, lambda, elems, last, count, reached, disp>>

----------------------------------------------------------------------------
(* Displacement control *)

DisplacementWanted ==
  /\ opt.control = "Phased" /\ TargetEnabled /\ ~reached /\ opt.roofDof
  /\ Bound > elems.at.roof

\* the roof displacement that step k of d.steps ends at
RoofTarget(d, k) == d.from + ((Bound - d.from) * k) \div d.steps

\* bound: no more steps than there are grid points on the way
EnterDisplacement ==
  /\ phase = "displacement?"
  /\ IF DisplacementWanted
     THEN /\ \E n \in IF opt.adaptive THEN 1..(2 * NSteps) ELSE {DispSteps} :
               disp' = [from |-> elems.at.roof, steps |-> Smaller(n, Bound - elems.at.roof)]
          /\ Enter("displacement", RoofTarget(disp', 1))
     ELSE Leave("arc?") /\ UNCHANGED disp
  /\ UNCHANGED <<opt, lambda, elems, last, count, reached, outcome>>

DisplacementConverges ==
  /\ phase = "displacement" /\ step < disp.steps
  /\ \E l \in Lambdas :
       /\ lambda' = l
       /\ Committed([long |-> FullLoad, lambda |-> l, roof |-> goal])
  /\ Record(lambda')
  /\ reached' \in Reached(goal)
  /\ outcome' = Stopped("ScheduleCompleted")
  /\ IF reached' THEN Leave("arc?")
     ELSE NextStep(RoofTarget(disp, step + 2)) /\ UNCHANGED phase
  /\ UNCHANGED <<opt, disp>>

\* Every iteration moves lambda; it goes back to lambda_snap.
DisplacementFails ==
  /\ phase = "displacement" /\ step < disp.steps
  /\ RolledBack
  /\ \E l \in Lambdas : lambda' = RestoreLambda(lambda, l)
  /\ GiveUp("arc?", Premature("NonConvergence", lambda')) \/ Retry(elems.at.roof)
  /\ UNCHANGED <<opt, last, count, reached, disp>>

DisplacementEnds ==
  /\ phase = "displacement" /\ step = disp.steps
  /\ Leave("arc?")
  /\ UNCHANGED <<opt, lambda, elems, last, count, reached, outcome, disp>>

(* Arc-length control *)

ArcStart(l) == IF l > 0 THEN l ELSE NSteps * Grid

EnterArc ==
  /\ phase = "arc?"
  /\ IF opt.arc /\ opt.control = "Phased" /\ ~reached
     THEN Leave("arc") /\ lambda' = ArcStart(lambda)
     ELSE Leave("closing") /\ UNCHANGED lambda
  /\ UNCHANGED <<opt, elems, last, count, reached, outcome, disp>>

ArcConverges ==
  /\ phase = "arc" /\ step < ArcSteps
  /\ \E l \in Lambdas, roof \in Roofs :
       /\ lambda' = l
       /\ Committed([long |-> FullLoad, lambda |-> l, roof |-> roof])
       /\ Record(l)
       /\ reached' \in Reached(roof)
  /\ IF reached' THEN Leave("closing") /\ UNCHANGED outcome
     ELSE NextStep(None) /\ outcome' = Stopped("ScheduleCompleted") /\ UNCHANGED phase
  /\ UNCHANGED <<opt, disp>>

\* The tangent cannot be factorized, or the one attempt does not converge.
ArcFails ==
  /\ phase = "arc" /\ step < ArcSteps
  /\ RolledBack
  /\ \E kind \in {"TangentSingular", "NonConvergence"} : outcome' = Premature(kind, lambda)
  /\ Leave("closing")
  /\ UNCHANGED <<opt, lambda, last, count, reached, disp>>

ArcEnds ==
  /\ phase = "arc" /\ step = ArcSteps
  /\ Leave("closing")
  /\ UNCHANGED <<opt, lambda, elems, last, count, reached, outcome, disp>>

\* Faulty variant: returns a result without a single record
CloseEmpty ==
  /\ phase = "closing"
  /\ Leave("done")
  /\ outcome' = IF reached THEN Stopped("TargetReached") ELSE outcome
  /\ UNCHANGED <<opt, lambda, elems, last, count, reached, disp>>

Close ==
  /\ phase = "closing"
  /\ Leave("done")
  /\ outcome' = IF count = 0 THEN Stopped("Error")
                ELSE IF reached THEN Stopped("TargetReached") ELSE outcome
  /\ UNCHANGED <<opt, lambda, elems, last, count, reached, disp>>

----------------------------------------------------------------------------
Next ==
  \/ LongTermConverges \/ LongTermFails \/ LongTermEnds
  \/ BeginLoadStep \/ LoadConverges \/ LoadFails \/ LoadEnds
  \/ EnterDisplacement \/ DisplacementConverges \/ DisplacementFails \/ DisplacementEnds
  \/ EnterArc \/ ArcConverges \/ ArcFails \/ ArcEnds
  \/ Close

SafetySpec == Init /\ [][Next]_vars
\* The driver is one loop on one thread: it goes on whenever it can.
Spec == SafetySpec /\ WF_vars(Next)
----------------------------------------------------------------------------
(* Properties *)

Phases == {"longTerm", "load", "displacement?", "displacement", "arc?", "arc",
           "closing", "done"}
Outcomes == {"Unknown", "Error", "TargetReached", "LambdaCap", "ScheduleCompleted",
             "NonConvergence", "TangentSingular"}

\* Every variable keeps its type.
TypeOK ==
  /\ opt \in Options
  /\ phase \in Phases
  /\ step \in Nat /\ attempt \in 0..(Attempts - 1)
  /\ goal \in Nat \union {None}
  /\ lambda \in Lambdas
  /\ elems \in [at : Point, trial : Point \union {Diverged}]
  /\ last \in [factor : Lambdas, at : Point] \union {None}
  /\ count \in Nat
  /\ reached \in BOOLEAN
  /\ outcome \in [kind : Outcomes, phase : Phases \union {None},
                  factor : Lambdas \union {None}]
  /\ disp \in [from : Roofs, steps : Nat]

\* The result shows the elements as they are: the latest record, the capacity curve's
\* last point, belongs to the states that the member responses and the fiber states
\* are read from when the analysis closes, with the factor they are in equilibrium
\* with, however many attempts failed after it (driver.rs:618-654, types.rs:288).
ResultShowsLatestRecord ==
  count > 0 => /\ last.at = elems.at /\ last.factor = elems.at.lambda
               /\ elems.trial = elems.at

\* A premature end names the load factor of the elements' committed state
\* (types.rs:81-93), except that an arc-length phase that no step of came through
\* reports the factor 1 it starts from when the phases before it ended at 0 or below.
PrematureEndNamesCommittedFactor ==
  outcome.kind \in {"NonConvergence", "TangentSingular"} /\ ~reached =>
    \/ outcome.factor = elems.at.lambda
    \/ outcome.phase = "arc" /\ outcome.factor = ArcStart(elems.at.lambda)

\* An analysis that ends says why: the target if and only if the record it stopped at
\* met it, an error only if there is no record to show (driver.rs:599-616, 655-659).
EndIsExplained ==
  phase = "done" =>
    /\ outcome.kind # "Unknown"
    /\ outcome.kind = "TargetReached" <=> reached
    /\ outcome.kind = "Error" <=> count = 0

\* Nothing is loaded any further once the target is met, whichever phase met it.
NothingAfterTarget == [][reached => UNCHANGED <<elems, last, count, reached>>]_vars

\* Every recorded step goes on from the one before: load control raises the factor
\* and displacement control the roof, neither past its limit, although failed attempts
\* shorten the steps in between.
StepsAdvance ==
  [][count' = count + 1 =>
       /\ phase = "load" => /\ lambda' > elems.at.lambda
                            /\ lambda' <= LambdaLimit
       /\ phase = "displacement" => /\ elems'.at.roof > elems.at.roof
                                    /\ elems'.at.roof <= Bound]_vars

\* The analysis ends (driver.rs:294-594: bounded loops only).
AnalysisEnds == <>(phase = "done")

\* The driver adds one equilibrium point after the other to a path, and nothing else.
Path == INSTANCE EquilibriumPath WITH
  Points <- Point, Start <- Origin,
  point <- elems.trial, points <- count,
  verdict <- IF phase # "done" THEN "running"
             ELSE IF outcome.kind = "Error" THEN "error"
             ELSE IF outcome.kind = "TargetReached" THEN "reached" ELSE "stopped",
  hit <- reached
ImplementsEquilibriumPath == Path!PathSpec

=============================================================================
