---------------------------- MODULE TimeHistory ----------------------------
(***************************************************************************)
(* Nonlinear time history analysis (dynamic/timehistory/nonlinear.rs): the *)
(* long-term loads are put on in increments, the initial displacement is   *)
(* committed, then every sample of the wave is one step of Newmark's       *)
(* method, solved by Newton iterations on the trial states of the          *)
(* elements.                                                               *)
(*                                                                         *)
(* The structure has one degree of freedom; whether an iteration converges *)
(* and by how much it corrects the displacement is chosen freely.  With    *)
(* beta = 1/4, gamma = 1/2 and dt = 2 Newmark's coefficients are whole     *)
(* numbers.  The damping coefficient is 1 and constant.  A halved          *)
(* increment of the long-term load is rounded up to a part of Grid.        *)
(***************************************************************************)
EXTENDS Recording

CONSTANTS
  NSteps,         \* n_steps: samples of the wave
  MaxIter,        \* cfg.newton: iterations of one step
  GravitySteps,   \* n_grav: increments of the long-term load (5)
  MaxAttempts,    \* max_attempts at one of them (5)
  Grid,           \* bound: the long-term load has this many parts per increment
  Everys,         \* values of record_every
  Corrections,    \* bound: what an iteration may add to the displacement
  Starts          \* bound: initial displacements, velocities and accelerations

ASSUME SizesAssumption ==
  /\ NSteps \in Nat /\ {MaxIter, GravitySteps, MaxAttempts, Grid} \subseteq Nat \ {0}
  /\ Everys \subseteq Nat \ {0}
  /\ Corrections \subseteq Int /\ Starts \subseteq Int

VARIABLES
  phase,       \* where the analysis is
  applied,     \* LoadFractionState: long-term load that is committed,
  increment,   \*   next increment,
  attempts,    \*   failures at it
  accumulation,  \* DampingAccumulation
  n,           \* steps done
  iter,        \* iterations in this step
  u, v, a,     \* committed displacement, velocity and acceleration
  du,          \* du_total, v_trial, a_trial of this step
  vTrial, aTrial,
  damp,        \* f_damp: damping force kept from step to step
  dampLast,    \* c_v_last: damping force of the last residual
  elems,       \* behaviors: committed and trial state
  recorder,
  history,     \* history.node_disp, one entry per step
  count        \* non_converged_steps

load == <<applied, increment, attempts>>
motion == <<u, v, a>>
guess == <<du, vTrial, aTrial>>
record == <<recorder, history, count>>
vars == <<phase, load, accumulation, n, iter, motion, guess, damp, dampLast, elems, record>>

-----------------------------------------------------------------------------
(* Elements: where they are and how far they have been on either side; a     *)
(* trial starts from the committed state, never from an earlier trial.       *)

Virgin == [at |-> 0, high |-> 0, low |-> 0]
State == [at : Int, high : Int, low : Int]

Moved(s, x) ==
  [at |-> x, high |-> IF s.high < x THEN x ELSE s.high, low |-> IF x < s.low THEN x ELSE s.low]

\* Faulty variant: the trial goes on from the trial before it
ApplyDuToTrial(e, d) == [e EXCEPT !.trial = Moved(e.trial, e.trial.at + d)]
ApplyDuTrial(e, d) == [e EXCEPT !.trial = Moved(e.committed, e.trial.at + d)]
CommitState(e) == [e EXCEPT !.committed = e.trial]
Revert(e) == [e EXCEPT !.trial = e.committed]
Restore(snapshot, e) == snapshot

-----------------------------------------------------------------------------
(* Long-term loads: LoadFractionState and apply_long_term_static.            *)

Full == GravitySteps * Grid

NextTarget == IF applied + increment < Full THEN applied + increment ELSE Full

\* Newton iterations move the trial states to wherever they end.
LongTermConverges ==
  /\ phase = "longTerm" /\ applied < Full
  /\ \E d \in Corrections : /\ elems' = CommitState(ApplyDuTrial(elems, d))
                            /\ u' = u + d
  /\ applied' = NextTarget /\ increment' = Grid /\ attempts' = 0
  /\ UNCHANGED <<phase, accumulation, n, iter, v, a, guess, damp, dampLast, record>>

LongTermFails ==
  /\ phase = "longTerm" /\ applied < Full
  /\ \E d \in Corrections : elems' = Restore(elems, ApplyDuTrial(elems, d))
  /\ attempts' = attempts + 1
  /\ IF attempts' < MaxAttempts
     THEN increment' = (increment + 1) \div 2 /\ UNCHANGED phase
     ELSE phase' = "failed" /\ UNCHANGED increment
  /\ UNCHANGED <<applied, accumulation, n, iter, motion, guess, damp, dampLast, record>>

\* The static tangent cannot be factorised, or the initial acceleration not solved.
StartFails ==
  /\ phase = "longTerm"
  /\ phase' = "failed"
  /\ UNCHANGED <<load, accumulation, n, iter, motion, guess, damp, dampLast, elems, record>>

-----------------------------------------------------------------------------
(* The first state of the time history.                                      *)

StartStepping ==
  /\ phase = "longTerm" /\ applied = Full
  /\ phase' = "stepping"
  /\ \E u0, v0, a0 \in Starts, k \in Everys :
       /\ elems' = CommitState(ApplyDuTrial(elems, u0))
       /\ u' = u + u0 /\ v' = v0 /\ a' = a0
       /\ damp' = v0
       /\ recorder' = RecordStep(NewRecorder(NSteps, k), 0, u + u0)
       /\ history' = <<u + u0>>
  /\ UNCHANGED <<load, accumulation, n, iter, guess, dampLast, count>>

-----------------------------------------------------------------------------
(* A time step.                                                              *)

\* The predictor keeps the displacement.
BeginStep ==
  /\ phase = "stepping" /\ n < NSteps
  /\ phase' = "iterating" /\ iter' = 0
  /\ du' = 0 /\ vTrial' = -v /\ aTrial' = -2 * v - a
  /\ UNCHANGED <<load, accumulation, n, motion, damp, dampLast, elems, record>>

\* Faulty variant: the increment alone
DampingIncrement == IF accumulation = "Cumulative" THEN vTrial - v ELSE vTrial
\* Damping force of the residual
DampingForce == IF accumulation = "Cumulative" THEN damp + (vTrial - v) ELSE vTrial

\* Faulty variant: the velocity is left to the end of the step
CorrectDisplacement(d) ==
  /\ du' = du + d /\ aTrial' = aTrial + d
  /\ UNCHANGED vTrial
Correct(d) ==
  /\ du' = du + d /\ vTrial' = vTrial + d /\ aTrial' = aTrial + d

Iterate ==
  /\ phase = "iterating" /\ iter < MaxIter
  /\ iter' = iter + 1
  /\ dampLast' = DampingForce
  /\ \E d \in Corrections : Correct(d) /\ elems' = ApplyDuTrial(elems, d)
  /\ UNCHANGED <<phase, load, accumulation, n, motion, damp, record>>

Recorded ==
  /\ recorder' = RecordStep(recorder, n + 1, u + du)
  /\ history' = Append(history, u + du)

Kept(force) == damp' = IF accumulation = "Cumulative" THEN force ELSE damp

CommitStep(force) ==
  /\ phase' = "stepping" /\ n' = n + 1
  /\ u' = u + du /\ v' = vTrial /\ a' = aTrial
  /\ Kept(force)
  /\ elems' = CommitState(elems)
  /\ Recorded
  /\ UNCHANGED <<load, accumulation, iter, guess>>

StepConverges ==
  /\ phase = "iterating" /\ iter < MaxIter
  /\ dampLast' = DampingForce
  /\ CommitStep(DampingForce)
  /\ UNCHANGED count

\* Faulty variant: rolled back and tried again with the same step
StepRetried ==
  /\ phase = "iterating" /\ iter = MaxIter
  /\ phase' = "stepping"
  /\ elems' = Revert(elems)
  /\ UNCHANGED <<load, accumulation, n, iter, motion, guess, damp, dampLast, record>>
\* A step whose iterations are used up is committed all the same.
StepUnconverged ==
  /\ phase = "iterating" /\ iter = MaxIter
  /\ CommitStep(dampLast)
  /\ count' = count + 1
  /\ UNCHANGED dampLast

\* unless the displacement is not finite
StepDiverges ==
  /\ phase = "iterating" /\ iter = MaxIter
  /\ phase' = "failed"
  /\ elems' = Revert(elems)
  /\ UNCHANGED <<load, accumulation, n, iter, motion, guess, damp, dampLast, record>>

\* The tangent cannot be factorised.
SolverFails ==
  /\ phase = "iterating" /\ iter < MaxIter
  /\ phase' = "failed" /\ dampLast' = DampingForce
  /\ UNCHANGED <<load, accumulation, n, iter, motion, guess, damp, elems, record>>

Finish ==
  /\ phase = "stepping" /\ n = NSteps
  /\ phase' = "done"
  /\ UNCHANGED <<load, accumulation, n, iter, motion, guess, damp, dampLast, elems, record>>

Init ==
  /\ phase = "longTerm"
  /\ applied \in {0, Full}        \* without long-term loads there is nothing to apply
  /\ increment = Grid /\ attempts = 0
  /\ accumulation \in {"Cumulative", "NonCumulative"}
  /\ n = 0 /\ iter = 0
  /\ u = 0 /\ v = 0 /\ a = 0 /\ du = 0 /\ vTrial = 0 /\ aTrial = 0
  /\ damp = 0 /\ dampLast = 0
  /\ elems = [committed |-> Virgin, trial |-> Virgin]
  /\ recorder = NewRecorder(NSteps, 1) /\ history = <<>> /\ count = 0

Next ==
  \/ LongTermConverges \/ LongTermFails \/ StartFails \/ StartStepping
  \/ BeginStep \/ Iterate \/ StepConverges \/ StepUnconverged \/ StepDiverges
  \/ SolverFails \/ Finish

Spec == Init /\ [][Next]_vars /\ WF_vars(Next)

-----------------------------------------------------------------------------
(* Properties                                                                *)

Frame == [step : Nat, at : Int]
Recorders == [nSteps : {NSteps}, every : Nat \ {0}, peak : Nat, frames : Seq(Frame)]

\* Every variable keeps its type; the increment of the long-term load never vanishes
\* (LoadFractionState, nonlinear.rs:516-572).
TypeOK ==
  /\ phase \in {"longTerm", "stepping", "iterating", "done", "failed"}
  /\ applied \in 0..Full /\ increment \in 1..Grid /\ attempts \in 0..MaxAttempts
  /\ accumulation \in {"Cumulative", "NonCumulative"}
  /\ n \in 0..NSteps /\ iter \in 0..MaxIter
  /\ u \in Int /\ v \in Int /\ a \in Int
  /\ du \in Int /\ vTrial \in Int /\ aTrial \in Int
  /\ damp \in Int /\ dampLast \in Int
  /\ elems \in [committed : State, trial : State]
  /\ recorder \in Recorders
  /\ history \in Seq(Int)
  /\ count \in Nat

\* However many corrections a step took and whether it converged, what is committed
\* obeys Newmark's relations between displacement, velocity and acceleration
\* (nonlinear.rs:309-318, 413-441).
NewmarkKinematics ==
  [][n' = n + 1 => v' + v = u' - u /\ a' + a = v' - v]_vars

\* A commit takes the elements from their last committed state to the committed
\* displacement in one move: where the iterations and the failed increments have been
\* in between is not remembered (apply_du_trial, StateSnapshot; nonlinear.rs:419, 443-445, 594-622).
IterationsLeaveNoTrace ==
  [][elems.committed' = elems.committed \/ elems.committed' = Moved(elems.committed, u')]_vars

\* The damping force that is summed up over the steps is the one of the velocity, as
\* long as every step converged (DampingAccumulation, nonlinear.rs:352-367, 437-439).
DampingFollowsVelocity == accumulation = "Cumulative" /\ count = 0 => damp = v

\* The frames of a finished analysis reach from the start to the last step without a
\* gap wider than record_every and show the states of their steps; the peak is that of
\* all steps, those between the frames included (recording.rs:424-478).
RecordingShowsHistory ==
  phase = "done" =>
    LET f == recorder.frames
    IN  /\ f[1].step = 0 /\ f[Len(f)].step = NSteps
        /\ \A i \in 1..Len(f) - 1 : f[i + 1].step - f[i].step \in 1..recorder.every
        /\ \A i \in 1..Len(f) : f[i].at = history[f[i].step + 1]
        /\ \A i \in 1..NSteps + 1 : Magnitude(history[i]) <= recorder.peak
        /\ \E i \in 1..NSteps + 1 : Magnitude(history[i]) = recorder.peak

\* A step that does not converge is rolled back to the state it began with
\* (nonlinear.rs:77-78).
UnconvergedIsRolledBack == [][count' = count + 1 => elems.committed' = elems.committed]_vars

\* Every analysis ends, with halved increments and unconverged steps anywhere
\* (nonlinear.rs:298-319, 593; LoadFractionState).
AnalysisEnds == <>(phase \in {"done", "failed"})
=============================================================================
