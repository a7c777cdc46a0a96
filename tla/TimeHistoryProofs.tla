-------------------------- MODULE TimeHistoryProofs --------------------------
(***************************************************************************)
(* Proofs about the nonlinear time history: types, Newmark's relations,    *)
(* the memory of the elements and the damping force, for every number of   *)
(* steps, iterations, attempts and for all corrections.                    *)
(***************************************************************************)
EXTENDS TimeHistory, TLAPS

(* What a step of Newton's method keeps between displacement, velocity and  *)
(* acceleration *)
GuessObeysNewmark ==
  phase = "iterating" => vTrial + v = du /\ aTrial + a = vTrial - v

(* Committed states lie at the committed displacement; trial states are one *)
(* move away from them. *)
ElementsFollow ==
  /\ phase # "failed" => elems.committed.at = u
  /\ phase \in {"longTerm", "stepping"} => elems.trial = elems.committed
  /\ phase = "iterating" =>
       /\ elems.trial.at = u + du
       /\ \/ elems.trial = elems.committed
          \/ elems.trial = Moved(elems.committed, elems.trial.at)

(* Nothing moves until the first step. *)
RestBeforeStart == phase = "longTerm" => n = 0 /\ v = 0 /\ damp = 0

(* A failure at the last attempt ended the analysis. *)
AttemptsLeft == phase = "longTerm" => attempts < MaxAttempts

(* A step is begun only while samples are left. *)
StepAhead == phase = "iterating" => n < NSteps

(* It is over when none are left. *)
StepsDone == phase = "done" => n = NSteps

Inv ==
  /\ TypeOK
  /\ AttemptsLeft
  /\ StepAhead
  /\ StepsDone
  /\ GuessObeysNewmark
  /\ ElementsFollow
  /\ RestBeforeStart
  /\ DampingFollowsVelocity

-----------------------------------------------------------------------------
(* What the operators return *)

LEMMA MovedState ==
  ASSUME NEW s \in State, NEW x \in Int
  PROVE  Moved(s, x) \in State /\ Moved(s, x).at = x
BY DEF Moved, State

LEMMA NewRecorderType ==
  ASSUME NEW k \in Everys
  PROVE  NewRecorder(NSteps, k) \in Recorders
BY SizesAssumption DEF NewRecorder, Recorders

LEMMA RecordedStep ==
  ASSUME NEW r \in Recorders, NEW k \in Nat, NEW x \in Int
  PROVE  RecordStep(r, k, x) \in Recorders
<1> DEFINE peak == IF r.peak < Magnitude(x) THEN Magnitude(x) ELSE r.peak
           frames == IF IsFrame(r, k) THEN Append(r.frames, [step |-> k, at |-> x]) ELSE r.frames
<1>1. peak \in Nat
  BY DEF Magnitude, Recorders
<1>2. frames \in Seq(Frame)
  <2>1. [step |-> k, at |-> x] \in Frame /\ r.frames \in Seq(Frame)
    BY DEF Frame, Recorders
  <2>2. Append(r.frames, [step |-> k, at |-> x]) \in Seq(Frame)
    BY <2>1
  <2>3. QED
    BY <2>1, <2>2
<1>3. RecordStep(r, k, x) = [r EXCEPT !.peak = peak, !.frames = frames]
  BY DEF RecordStep
<1> HIDE DEF peak, frames
<1>4. QED
  BY <1>1, <1>2, <1>3 DEF Recorders

LEMMA Sizes ==
  /\ NSteps \in Nat
  /\ MaxIter \in Nat \ {0} /\ GravitySteps \in Nat \ {0}
  /\ MaxAttempts \in Nat \ {0} /\ Grid \in Nat \ {0}
  /\ Corrections \subseteq Int /\ Starts \subseteq Int
BY SizesAssumption

LEMMA FullType == Full \in Nat \ {0}
<1>1. \A x, y \in Nat \ {0} : x * y \in Nat \ {0}
  OBVIOUS
<1>2. QED
  BY <1>1, Sizes DEF Full

-----------------------------------------------------------------------------
(* The invariant holds initially and is kept by every action. *)

LEMMA Initially == Init => Inv
<1> SUFFICES ASSUME Init PROVE Inv
  OBVIOUS
<1> USE Sizes, FullType
<1>1. TypeOK
  <2>1. NewRecorder(NSteps, 1) \in Recorders
    BY DEF NewRecorder, Recorders
  <2>2. elems \in [committed : State, trial : State]
    BY DEF Init, State, Virgin
  <2>3. QED
    BY <2>1, <2>2 DEF Init, TypeOK
<1>2. AttemptsLeft /\ StepAhead /\ StepsDone /\ GuessObeysNewmark /\ RestBeforeStart /\ DampingFollowsVelocity
  BY DEF Init, AttemptsLeft, StepAhead, StepsDone, GuessObeysNewmark, RestBeforeStart, DampingFollowsVelocity
<1>3. ElementsFollow
  BY DEF Init, ElementsFollow, Virgin
<1>4. QED
  BY <1>1, <1>2, <1>3 DEF Inv

(* Newton's iterations and the long-term load *)

LEMMA LongTermKeeps ==
  ASSUME Inv, LongTermConverges \/ LongTermFails \/ StartFails
  PROVE  Inv'
<1> USE Sizes, FullType DEF Inv
<1>1. CASE LongTermConverges
  <2> USE <1>1 DEF LongTermConverges
  <2>1. PICK d \in Corrections : /\ elems' = CommitState(ApplyDuTrial(elems, d))
                                 /\ u' = u + d
    OBVIOUS
  <2>2. elems.trial.at + d = u'
    BY <2>1 DEF ElementsFollow, TypeOK
  <2>3. u' \in Int /\ elems.committed \in State /\ d \in Int
    BY <2>1 DEF TypeOK
  <2>4. elems' = [committed |-> Moved(elems.committed, u'), trial |-> Moved(elems.committed, u')]
    BY <2>1, <2>2 DEF CommitState, ApplyDuTrial, TypeOK
  <2>5. Moved(elems.committed, u') \in State /\ Moved(elems.committed, u').at = u'
    BY <2>3, MovedState
  <2>6. NextTarget \in 0..Full
    BY DEF NextTarget, TypeOK
  <2>7. TypeOK'
    BY <2>3, <2>4, <2>5, <2>6 DEF TypeOK, motion, guess, record
  <2>8. AttemptsLeft' /\ StepAhead' /\ StepsDone' /\ GuessObeysNewmark' /\ RestBeforeStart' /\ DampingFollowsVelocity'
    BY DEF AttemptsLeft, StepAhead, StepsDone, GuessObeysNewmark, RestBeforeStart, DampingFollowsVelocity, guess, record
  <2>9. ElementsFollow'
    BY <2>4, <2>5 DEF ElementsFollow
  <2>10. QED
    BY <2>7, <2>8, <2>9
<1>2. CASE LongTermFails
  <2> USE <1>2 DEF LongTermFails
  <2>1. elems' = elems
    BY DEF Restore
  <2>2. TypeOK'
    BY <2>1 DEF TypeOK, AttemptsLeft, motion, guess, record
  <2>3. AttemptsLeft' /\ StepAhead' /\ StepsDone' /\ GuessObeysNewmark' /\ RestBeforeStart' /\ DampingFollowsVelocity'
    BY DEF AttemptsLeft, StepAhead, StepsDone, GuessObeysNewmark, RestBeforeStart, DampingFollowsVelocity, guess, record, motion
  <2>4. ElementsFollow'
    BY <2>1 DEF ElementsFollow, motion, guess
  <2>5. QED
    BY <2>2, <2>3, <2>4
<1>3. CASE StartFails
  <2> USE <1>3 DEF StartFails, load, motion, guess, record
  <2>1. TypeOK'
    BY DEF TypeOK
  <2>2. AttemptsLeft' /\ StepAhead' /\ StepsDone' /\ GuessObeysNewmark' /\ RestBeforeStart' /\ DampingFollowsVelocity' /\ ElementsFollow'
    BY DEF AttemptsLeft, StepAhead, StepsDone, GuessObeysNewmark, RestBeforeStart, DampingFollowsVelocity, ElementsFollow
  <2>3. QED
    BY <2>1, <2>2
<1>4. QED
  BY <1>1, <1>2, <1>3

LEMMA StartKeeps ==
  ASSUME Inv, StartStepping
  PROVE  Inv'
<1> USE Sizes, FullType DEF Inv
<1>1. PICK u0 \in Starts, v0 \in Starts, a0 \in Starts, k \in Everys :
        /\ elems' = CommitState(ApplyDuTrial(elems, u0))
        /\ u' = u + u0 /\ v' = v0 /\ a' = a0
        /\ damp' = v0
        /\ recorder' = RecordStep(NewRecorder(NSteps, k), 0, u + u0)
        /\ history' = <<u + u0>>
  BY DEF StartStepping
<1>2. elems.trial.at + u0 = u'
  BY <1>1 DEF ElementsFollow, TypeOK, StartStepping
<1>3. u' \in Int /\ elems.committed \in State /\ u0 \in Int /\ v0 \in Int /\ a0 \in Int
  BY <1>1 DEF TypeOK
<1>4. elems' = [committed |-> Moved(elems.committed, u'), trial |-> Moved(elems.committed, u')]
  BY <1>1, <1>2 DEF CommitState, ApplyDuTrial, TypeOK
<1>5. Moved(elems.committed, u') \in State /\ Moved(elems.committed, u').at = u'
  BY <1>3, MovedState
<1>6. recorder' \in Recorders
  BY <1>1, <1>3, NewRecorderType, RecordedStep
<1>7. TypeOK'
  <2>1. history' \in Seq(Int)
    BY <1>1, <1>3
  <2>2. elems' \in [committed : State, trial : State]
    BY <1>4, <1>5
  <2>3. QED
    BY <1>1, <1>3, <1>6, <2>1, <2>2 DEF TypeOK, StartStepping, load, guess
<1>8. AttemptsLeft' /\ StepAhead' /\ StepsDone' /\ GuessObeysNewmark' /\ RestBeforeStart' /\ DampingFollowsVelocity'
  BY <1>1 DEF AttemptsLeft, StepAhead, StepsDone, GuessObeysNewmark, RestBeforeStart, DampingFollowsVelocity, StartStepping
<1>9. ElementsFollow'
  BY <1>4, <1>5 DEF ElementsFollow, StartStepping
<1>10. QED
  BY <1>7, <1>8, <1>9

LEMMA IterationKeeps ==
  ASSUME Inv, BeginStep \/ Iterate
  PROVE  Inv'
<1> USE Sizes DEF Inv
<1>1. CASE BeginStep
  <2> USE <1>1 DEF BeginStep, load, motion, record
  <2>1. TypeOK'
    BY DEF TypeOK
  <2>2. AttemptsLeft' /\ StepAhead' /\ StepsDone' /\ GuessObeysNewmark' /\ RestBeforeStart' /\ DampingFollowsVelocity'
    BY DEF AttemptsLeft, StepAhead, StepsDone, GuessObeysNewmark, RestBeforeStart, DampingFollowsVelocity, TypeOK
  <2>3. ElementsFollow'
    BY DEF ElementsFollow, TypeOK
  <2>4. QED
    BY <2>1, <2>2, <2>3
<1>2. CASE Iterate
  <2> USE <1>2 DEF Iterate, load, motion, record
  <2>1. PICK d \in Corrections : Correct(d) /\ elems' = ApplyDuTrial(elems, d)
    OBVIOUS
  <2>2. d \in Int /\ du' = du + d /\ vTrial' = vTrial + d /\ aTrial' = aTrial + d
    BY <2>1 DEF Correct
  <2>3. elems.trial.at + d = u + du'
    BY <2>2 DEF ElementsFollow, TypeOK
  <2>4. u + du' \in Int /\ elems.committed \in State /\ DampingForce \in Int
    BY <2>2 DEF TypeOK, DampingForce
  <2>5. elems' = [committed |-> elems.committed, trial |-> Moved(elems.committed, u + du')]
    BY <2>1, <2>3 DEF ApplyDuTrial, TypeOK
  <2>6. Moved(elems.committed, u + du') \in State /\ Moved(elems.committed, u + du').at = u + du'
    BY <2>4, MovedState
  <2>7. TypeOK'
    BY <2>2, <2>4, <2>5, <2>6 DEF TypeOK
  <2>8. AttemptsLeft' /\ StepAhead' /\ StepsDone' /\ GuessObeysNewmark' /\ RestBeforeStart' /\ DampingFollowsVelocity'
    BY <2>2 DEF AttemptsLeft, StepAhead, StepsDone, GuessObeysNewmark, RestBeforeStart, DampingFollowsVelocity, TypeOK
  <2>9. ElementsFollow'
    BY <2>5, <2>6 DEF ElementsFollow
  <2>10. QED
    BY <2>7, <2>8, <2>9
<1>3. QED
  BY <1>1, <1>2

(* What a commit keeps and does, whether the step converged or not *)

LEMMA CommitKeeps ==
  ASSUME Inv, phase = "iterating", NEW force \in Int, CommitStep(force),
         dampLast' \in Int, count' \in Nat,
         accumulation = "Cumulative" /\ count' = 0 => force = vTrial
  PROVE  Inv'
<1> USE Sizes DEF Inv
<1>1. elems' = [committed |-> elems.trial, trial |-> elems.trial]
  BY DEF CommitStep, CommitState, TypeOK
<1>2. n + 1 \in 0..NSteps
  BY DEF TypeOK, StepAhead
<1>3. u + du \in Int /\ elems.trial \in State
  BY DEF TypeOK
<1>4. recorder' \in Recorders /\ history' \in Seq(Int)
  <2>1. recorder' = RecordStep(recorder, n + 1, u + du) /\ history' = Append(history, u + du)
    BY DEF CommitStep, Recorded
  <2>2. recorder \in Recorders /\ history \in Seq(Int) /\ n + 1 \in Nat
    BY DEF TypeOK
  <2>3. QED
    BY <1>3, <2>1, <2>2, RecordedStep
<1>5. TypeOK'
  BY <1>1, <1>2, <1>3, <1>4 DEF TypeOK, CommitStep, Kept, load, guess
<1>6. ElementsFollow'
  BY <1>1 DEF ElementsFollow, CommitStep
<1>7. DampingFollowsVelocity'
  BY DEF DampingFollowsVelocity, CommitStep, Kept
<1>8. AttemptsLeft' /\ StepAhead' /\ StepsDone' /\ GuessObeysNewmark' /\ RestBeforeStart'
  BY DEF AttemptsLeft, StepAhead, StepsDone, GuessObeysNewmark, RestBeforeStart, CommitStep
<1>9. QED
  BY <1>5, <1>6, <1>7, <1>8

LEMMA StepEndKeeps ==
  ASSUME Inv, StepConverges \/ StepUnconverged
  PROVE  Inv'
<1> USE DEF Inv
<1>1. DampingForce \in Int
  BY DEF DampingForce, TypeOK
<1>2. CASE StepConverges
  <2>1. accumulation = "Cumulative" /\ count' = 0 => DampingForce = vTrial
    BY <1>2 DEF StepConverges, DampingForce, DampingFollowsVelocity, TypeOK
  <2>2. phase = "iterating" /\ CommitStep(DampingForce) /\ dampLast' \in Int /\ count' \in Nat
    BY <1>1, <1>2 DEF StepConverges, TypeOK
  <2> HIDE DEF Inv
  <2>3. QED
    BY <1>1, <2>1, <2>2, CommitKeeps
<1>3. CASE StepUnconverged
  <2>1. phase = "iterating" /\ CommitStep(dampLast) /\ dampLast' \in Int /\ dampLast \in Int
    BY <1>3 DEF StepUnconverged, TypeOK
  <2>2. count' \in Nat /\ count' # 0
    BY <1>3 DEF StepUnconverged, TypeOK
  <2> HIDE DEF Inv
  <2>3. QED
    BY <2>1, <2>2, CommitKeeps
<1>4. QED
  BY <1>2, <1>3

LEMMA EndKeeps ==
  ASSUME Inv, StepDiverges \/ SolverFails \/ Finish
  PROVE  Inv'
<1> USE Sizes DEF Inv, load, motion, guess, record
<1>1. CASE StepDiverges
  <2>1. elems' \in [committed : State, trial : State]
    BY <1>1 DEF StepDiverges, Revert, TypeOK
  <2>2. TypeOK'
    BY <1>1, <2>1 DEF StepDiverges, TypeOK
  <2>3. QED
    BY <1>1, <2>2 DEF StepDiverges, AttemptsLeft, StepAhead, StepsDone, GuessObeysNewmark, RestBeforeStart,
                      DampingFollowsVelocity, ElementsFollow
<1>2. CASE SolverFails
  <2>1. DampingForce \in Int
    BY DEF DampingForce, TypeOK
  <2>2. TypeOK'
    BY <1>2, <2>1 DEF SolverFails, TypeOK
  <2>3. QED
    BY <1>2, <2>2 DEF SolverFails, AttemptsLeft, StepAhead, StepsDone, GuessObeysNewmark, RestBeforeStart,
                      DampingFollowsVelocity, ElementsFollow
<1>3. CASE Finish
  <2>1. TypeOK'
    BY <1>3 DEF Finish, TypeOK
  <2>2. QED
    BY <1>3, <2>1 DEF Finish, AttemptsLeft, StepAhead, StepsDone, GuessObeysNewmark, RestBeforeStart,
                      DampingFollowsVelocity, ElementsFollow
<1>4. QED
  BY <1>1, <1>2, <1>3

LEMMA StutterKeeps == Inv /\ UNCHANGED vars => Inv'
BY DEF Inv, vars, load, motion, guess, record, TypeOK, AttemptsLeft, StepAhead, StepsDone,
       GuessObeysNewmark, RestBeforeStart, DampingFollowsVelocity, ElementsFollow

LEMMA StepKeeps == Inv /\ [Next]_vars => Inv'
BY LongTermKeeps, StartKeeps, IterationKeeps, StepEndKeeps, EndKeeps, StutterKeeps DEF Next

-----------------------------------------------------------------------------
(* Theorems *)

(* The inductive invariant of the analysis. *)
THEOREM AnalysisInvariant == Spec => []Inv
BY Initially, StepKeeps, PTL DEF Spec

(* Every variable keeps its type, whatever the sizes. *)
THEOREM TypeCorrect == Spec => []TypeOK
<1>1. Inv => TypeOK
  BY DEF Inv
<1>2. QED
  BY <1>1, AnalysisInvariant, PTL

(* The damping force summed up over converged steps is that of the velocity. *)
THEOREM DampingCorrect == Spec => []DampingFollowsVelocity
<1>1. Inv => DampingFollowsVelocity
  BY DEF Inv
<1>2. QED
  BY <1>1, AnalysisInvariant, PTL

(* Only the end of a step changes the number of steps. *)
LEMMA OnlyCommitCounts ==
  ASSUME Inv, [Next]_vars, n' = n + 1
  PROVE  phase = "iterating" /\ \E force : CommitStep(force)
BY DEF Inv, TypeOK, Next, vars, LongTermConverges, LongTermFails, StartFails, StartStepping,
       BeginStep, Iterate, StepConverges, StepUnconverged, StepDiverges, SolverFails, Finish

(* Every committed step obeys Newmark's relations (nonlinear.rs:310-445). *)
THEOREM NewmarkHolds == Spec => NewmarkKinematics
<1>1. ASSUME Inv, [Next]_vars, n' = n + 1
      PROVE  v' + v = u' - u /\ a' + a = v' - v
  <2>1. phase = "iterating" /\ u' = u + du /\ v' = vTrial /\ a' = aTrial
    BY <1>1, OnlyCommitCounts DEF CommitStep
  <2>2. QED
    BY <1>1, <2>1 DEF Inv, GuessObeysNewmark, TypeOK
<1>2. QED
  BY <1>1, AnalysisInvariant, PTL DEF Spec, NewmarkKinematics

(* Newton's iterations and failed increments leave no trace in the elements *)
(* (nonlinear.rs:430-452, 597-640). *)
THEOREM NoTraceOfIterations == Spec => IterationsLeaveNoTrace
<1>1. ASSUME Inv, [Next]_vars
      PROVE  elems.committed' = elems.committed \/ elems.committed' = Moved(elems.committed, u')
  <2> USE <1>1
  <2>1. CASE LongTermConverges
    <3>1. PICK d \in Corrections : /\ elems' = CommitState(ApplyDuTrial(elems, d))
                                   /\ u' = u + d
      BY <2>1 DEF LongTermConverges
    <3>2. elems.trial.at + d = u'
      BY <2>1, <3>1 DEF LongTermConverges, Inv, ElementsFollow
    <3>3. QED
      BY <3>1, <3>2 DEF CommitState, ApplyDuTrial, Inv, TypeOK
  <2>2. CASE StartStepping
    <3>1. PICK d \in Starts : /\ elems' = CommitState(ApplyDuTrial(elems, d))
                              /\ u' = u + d
      BY <2>2 DEF StartStepping
    <3>2. elems.trial.at + d = u'
      BY <2>2, <3>1 DEF StartStepping, Inv, ElementsFollow
    <3>3. QED
      BY <3>1, <3>2 DEF CommitState, ApplyDuTrial, Inv, TypeOK
  <2>3. CASE StepConverges \/ StepUnconverged
    <3>1. phase = "iterating" /\ elems' = CommitState(elems) /\ u' = u + du
      BY <2>3 DEF StepConverges, StepUnconverged, CommitStep
    <3>2. elems.committed' = elems.trial
      BY <3>1 DEF CommitState, Inv, TypeOK
    <3>3. QED
      BY <3>1, <3>2 DEF Inv, ElementsFollow
  <2>4. CASE LongTermFails \/ BeginStep \/ Iterate \/ StepDiverges \/ SolverFails \/ Finish
             \/ StartFails \/ UNCHANGED vars
    <3>1. elems.committed' = elems.committed
      BY <2>4 DEF LongTermFails, BeginStep, Iterate, StepDiverges, SolverFails, Finish, StartFails,
                  vars, Restore, Revert, ApplyDuTrial, Inv, TypeOK
    <3>2. QED
      BY <3>1
  <2>5. QED
    BY <2>1, <2>2, <2>3, <2>4 DEF Next
<1>2. QED
  BY <1>1, AnalysisInvariant, PTL DEF Spec, IterationsLeaveNoTrace

-----------------------------------------------------------------------------
(* Frames and peaks of the recording *)

LEMMA DivMod ==
  ASSUME NEW k \in Nat \ {0}, NEW m \in Nat
  PROVE  m \div k \in Int /\ m % k \in 0..k-1 /\ m = k * (m \div k) + (m % k)
OBVIOUS

LEMMA SmallMultiple ==
  ASSUME NEW k \in Nat \ {0}, NEW d \in Int, k * d \in 0..k-1
  PROVE  d = 0
<1>1. d >= 1 => k * d >= k
  OBVIOUS
<1>2. d <= -1 => k * d <= -k
  OBVIOUS
<1>3. QED
  BY <1>1, <1>2

LEMMA NextMultiple ==
  ASSUME NEW k \in Nat \ {0}, NEW m \in Nat, m % k = 0
  PROVE  (m + k) % k = 0
<1> DEFINE q == m \div k
           p == (m + k) \div k
           r == (m + k) % k
<1>1. q \in Int /\ m = k * q
  BY DivMod
<1>2. p \in Int /\ r \in 0..k-1 /\ m + k = k * p + r
  <2>1. m + k \in Nat
    OBVIOUS
  <2>2. QED
    BY <2>1, DivMod
<1> HIDE DEF q, p, r
<1>3. k * (q + 1 - p) = k * q + k - k * p
  BY <1>1, <1>2
<1>4. r = k * (q + 1 - p)
  BY <1>1, <1>2, <1>3
<1>5. q + 1 - p = 0
  BY <1>1, <1>2, <1>4, SmallMultiple
<1>6. r = 0
  BY <1>4, <1>5
<1>7. QED
  BY <1>6 DEF r

(* The frames f of a recorder show the history h of the steps 0..m. *)
FramesShow(r, h, m) ==
  LET f == r.frames
  IN  /\ Len(f) >= 1 /\ f[1].step = 0
      /\ f[Len(f)].step <= m
      /\ m = NSteps => f[Len(f)].step = NSteps
      /\ m < NSteps => f[Len(f)].step % r.every = 0 /\ m - f[Len(f)].step < r.every
      /\ \A i \in 1..Len(f) - 1 : f[i + 1].step - f[i].step \in 1..r.every
      /\ \A i \in 1..Len(f) : f[i].step \in 0..m /\ f[i].at = h[f[i].step + 1]

(* Its peak is that of the history. *)
PeakShows(r, h, m) ==
  /\ \A i \in 1..m + 1 : Magnitude(h[i]) <= r.peak
  /\ \E i \in 1..m + 1 : Magnitude(h[i]) = r.peak

Shows(r, h, m) ==
  /\ r \in Recorders /\ m \in 0..NSteps
  /\ h \in Seq(Int) /\ Len(h) = m + 1
  /\ FramesShow(r, h, m) /\ PeakShows(r, h, m)

(* What is to be shown of the frames, one fact each. *)
LEMMA FramesShowIf ==
  ASSUME NEW s, NEW g, NEW k,
         Len(s.frames) >= 1 /\ s.frames[1].step = 0,
         s.frames[Len(s.frames)].step <= k,
         k = NSteps => s.frames[Len(s.frames)].step = NSteps,
         k < NSteps => /\ s.frames[Len(s.frames)].step % s.every = 0
                       /\ k - s.frames[Len(s.frames)].step < s.every,
         \A i \in 1..Len(s.frames) - 1 : s.frames[i + 1].step - s.frames[i].step \in 1..s.every,
         \A i \in 1..Len(s.frames) :
            s.frames[i].step \in 0..k /\ s.frames[i].at = g[s.frames[i].step + 1]
  PROVE  FramesShow(s, g, k)
BY Zenon DEF FramesShow

LEMMA FirstShows ==
  ASSUME NEW k \in Everys, NEW x \in Int
  PROVE  Shows(RecordStep(NewRecorder(NSteps, k), 0, x), <<x>>, 0)
<1> DEFINE r == RecordStep(NewRecorder(NSteps, k), 0, x)
<1>1. k \in Nat \ {0} /\ 0 % k = 0
  <2>1. k \in Nat \ {0}
    BY SizesAssumption
  <2>2. \A j \in Nat \ {0} : 0 % j = 0
    OBVIOUS
  <2>3. QED
    BY <2>1, <2>2
<1>2. r = [nSteps |-> NSteps, every |-> k, frames |-> <<[step |-> 0, at |-> x]>>,
           peak |-> Magnitude(x)]
  <2>1. NewRecorder(NSteps, k) = [nSteps |-> NSteps, every |-> k, frames |-> <<>>, peak |-> 0]
    BY DEF NewRecorder
  <2>2. IsFrame(NewRecorder(NSteps, k), 0)
    BY <1>1, <2>1 DEF IsFrame
  <2>3. (IF 0 < Magnitude(x) THEN Magnitude(x) ELSE 0) = Magnitude(x)
    BY DEF Magnitude
  <2>4. Append(<<>>, [step |-> 0, at |-> x]) = <<[step |-> 0, at |-> x]>>
    OBVIOUS
  <2>5. r = [NewRecorder(NSteps, k) EXCEPT !.peak = IF @ < Magnitude(x) THEN Magnitude(x) ELSE @,
                !.frames = Append(@, [step |-> 0, at |-> x])]
    BY <2>2 DEF RecordStep
  <2> HIDE DEF r
  <2>6. r.nSteps = NSteps /\ r.every = k /\ r.frames = <<[step |-> 0, at |-> x]>>
    BY <2>1, <2>4, <2>5
  <2>7. r.peak = Magnitude(x)
    BY <2>1, <2>3, <2>5
  <2>8. r = [nSteps |-> r.nSteps, every |-> r.every, frames |-> r.frames, peak |-> r.peak]
    BY <2>1, <2>5
  <2>9. QED
    BY <2>6, <2>7, <2>8
<1>3. r \in Recorders
  BY NewRecorderType, RecordedStep
<1>4. FramesShow(r, <<x>>, 0)
  BY <1>1, <1>2, Sizes DEF FramesShow
<1>5. PeakShows(r, <<x>>, 0)
  BY <1>2 DEF PeakShows, Magnitude
<1>6. QED
  BY <1>3, <1>4, <1>5, Sizes DEF Shows

LEMMA NextShows ==
  ASSUME NEW r, NEW h, NEW m, Shows(r, h, m), m < NSteps, NEW x \in Int
  PROVE  Shows(RecordStep(r, m + 1, x), Append(h, x), m + 1)
<1> DEFINE s == RecordStep(r, m + 1, x)
           g == Append(h, x)
           f == r.frames
           new == [step |-> m + 1, at |-> x]
<1>1. /\ r \in Recorders /\ m \in Nat /\ m + 1 \in 0..NSteps /\ NSteps \in Nat
      /\ h \in Seq(Int) /\ Len(h) = m + 1
  BY Sizes DEF Shows
<1>2. s \in Recorders
  BY <1>1, RecordedStep
<1>3. /\ g \in Seq(Int) /\ Len(g) = m + 2 /\ g[m + 2] = x
      /\ \A i \in 1..m + 1 : g[i] = h[i]
  BY <1>1
<1>4. /\ f \in Seq(Frame) /\ r.every \in Nat \ {0} /\ s.every = r.every /\ new \in Frame
      /\ r.nSteps = NSteps /\ r.peak \in Nat
  BY <1>1 DEF Recorders, RecordStep, Frame
<1>5. /\ Len(f) \in Nat /\ Len(f) >= 1 /\ f[1].step = 0 /\ f[Len(f)].step <= m
      /\ f[Len(f)].step % r.every = 0 /\ m - f[Len(f)].step < r.every
      /\ \A i \in 1..Len(f) - 1 : f[i + 1].step - f[i].step \in 1..r.every
      /\ \A i \in 1..Len(f) : f[i].step \in 0..m /\ f[i].at = h[f[i].step + 1]
      /\ f[Len(f)].step \in Nat
  BY <1>1, <1>4 DEF Shows, FramesShow
<1>6. \A i \in 1..Len(f) : f[i].step \in 0..m + 1 /\ f[i].at = g[f[i].step + 1]
  <2> HIDE DEF f, g
  <2> TAKE i \in 1..Len(f)
  <2>1. f[i].step \in 0..m /\ f[i].at = h[f[i].step + 1]
    BY <1>5
  <2>2. f[i].step + 1 \in 1..m + 1 /\ f[i].step \in 0..m + 1
    BY <2>1, <1>1
  <2>3. QED
    BY <2>1, <2>2, <1>3
<1>7. ASSUME IsFrame(r, m + 1)
      PROVE  FramesShow(s, g, m + 1)
  <2>1. s.frames = Append(f, new)
    BY <1>7, <1>1 DEF RecordStep, Recorders
  <2>2. /\ Len(s.frames) = Len(f) + 1 /\ s.frames[Len(f) + 1] = new
        /\ \A i \in 1..Len(f) : s.frames[i] = f[i]
    BY <2>1, <1>4
  <2>3. m + 1 < NSteps => (m + 1) % r.every = 0
    BY <1>7, <1>1, <1>4 DEF IsFrame
  <2>4. new.step = m + 1 /\ new.at = x
    OBVIOUS
  <2> HIDE DEF s, f, g, new
  <2>5. \A i \in 1..Len(s.frames) - 1 : s.frames[i + 1].step - s.frames[i].step \in 1..r.every
    <3>1. TAKE i \in 1..Len(s.frames) - 1
    <3>2. CASE i = Len(f)
      <4>1. s.frames[i] = f[i] /\ s.frames[i + 1] = new
        BY <2>2, <1>5, <3>2
      <4> DEFINE d == f[Len(f)].step
      <4>2. d \in 0..m /\ m - d < r.every /\ m \in Nat /\ r.every \in Nat
        BY <1>1, <1>4, <1>5
      <4>3. s.frames[i + 1].step = m + 1 /\ s.frames[i].step = d
        BY <4>1, <2>4, <3>2
      <4> HIDE DEF d
      <4>4. m + 1 - d \in 1..r.every
        BY <4>2
      <4>5. s.frames[i + 1].step - s.frames[i].step = m + 1 - d
        BY <4>2, <4>3
      <4>6. QED
        BY <4>4, <4>5
    <3>3. CASE i # Len(f)
      <4>1. i \in 1..Len(f) - 1 /\ s.frames[i] = f[i] /\ s.frames[i + 1] = f[i + 1]
        BY <2>2, <1>5, <3>3
      <4>2. QED
        BY <4>1, <1>5
    <3>4. QED
      BY <3>2, <3>3
  <2>6. \A i \in 1..Len(s.frames) :
           s.frames[i].step \in 0..m + 1 /\ s.frames[i].at = g[s.frames[i].step + 1]
    <3>1. TAKE i \in 1..Len(s.frames)
    <3>2. CASE i \in 1..Len(f)
      BY <3>2, <2>2, <1>6
    <3>3. CASE i = Len(f) + 1
      <4>1. s.frames[i].step = m + 1 /\ s.frames[i].at = g[m + 2]
        BY <3>3, <2>2, <2>4, <1>3
      <4>2. QED
        BY <4>1, <1>1
    <3>4. QED
      BY <3>2, <3>3, <2>2, <1>5
  <2>7. Len(s.frames) >= 1 /\ s.frames[1].step = 0
    BY <2>2, <1>5
  <2>8. /\ s.frames[Len(s.frames)].step = m + 1
        /\ (m + 1) - s.frames[Len(s.frames)].step < s.every
    BY <2>2, <2>4, <1>1, <1>4, <1>5
  <2>9. \A i \in 1..Len(s.frames) - 1 : s.frames[i + 1].step - s.frames[i].step \in 1..s.every
    BY <2>5, <1>4
  <2>10. s.frames[Len(s.frames)].step <= m + 1
    BY <2>8, <1>1
  <2>11. m + 1 = NSteps => s.frames[Len(s.frames)].step = NSteps
    BY <2>8
  <2>12. m + 1 < NSteps => /\ s.frames[Len(s.frames)].step % s.every = 0
                           /\ (m + 1) - s.frames[Len(s.frames)].step < s.every
    BY <2>3, <2>8, <1>4
  <2>13. QED
    BY <2>6, <2>7, <2>9, <2>10, <2>11, <2>12, FramesShowIf, Zenon
<1>8. ASSUME ~IsFrame(r, m + 1)
      PROVE  FramesShow(s, g, m + 1)
  <2>1. s.frames = f
    BY <1>8, <1>1 DEF RecordStep, Recorders
  <2>2. m + 1 # NSteps /\ (m + 1) % r.every # 0
    BY <1>8, <1>4 DEF IsFrame
  <2>3. m + 1 # f[Len(f)].step + r.every
    BY <2>2, <1>4, <1>5, NextMultiple
  <2> DEFINE t == f[Len(f)].step
             q == r.every
  <2> HIDE DEF s, f, g
  <2>4. (m + 1) - t < q /\ t <= m + 1
    <3>1. /\ t \in Nat /\ q \in Nat /\ m \in Nat /\ t <= m /\ m - t < q
          /\ m + 1 # t + q
      BY <2>3, <1>1, <1>4, <1>5
    <3> HIDE DEF t, q
    <3>2. QED
      BY <3>1
  <2>5. \A i \in 1..Len(s.frames) - 1 : s.frames[i + 1].step - s.frames[i].step \in 1..s.every
    BY <2>1, <1>4, <1>5
  <2>6. m + 1 < NSteps => /\ s.frames[Len(s.frames)].step % s.every = 0
                          /\ (m + 1) - s.frames[Len(s.frames)].step < s.every
    BY <2>1, <1>4, <1>5, <2>4
  <2>7. Len(s.frames) >= 1 /\ s.frames[1].step = 0
    BY <2>1, <1>5
  <2>8. s.frames[Len(s.frames)].step <= m + 1
    BY <2>1, <2>4
  <2>9. \A i \in 1..Len(s.frames) :
           s.frames[i].step \in 0..m + 1 /\ s.frames[i].at = g[s.frames[i].step + 1]
    BY <2>1, <1>6
  <2>10. m + 1 = NSteps => s.frames[Len(s.frames)].step = NSteps
    BY <2>2
  <2>11. QED
    BY <2>5, <2>6, <2>7, <2>8, <2>9, <2>10, FramesShowIf, Zenon
<1>9. PeakShows(s, g, m + 1)
  <2>1. s.peak = IF r.peak < Magnitude(x) THEN Magnitude(x) ELSE r.peak
    BY <1>1 DEF RecordStep, Recorders
  <2>2. PeakShows(r, h, m) /\ Magnitude(x) \in Nat
    BY DEF Shows, Magnitude
  <2>3. \A i \in 1..m + 1 : Magnitude(g[i]) = Magnitude(h[i]) /\ Magnitude(h[i]) \in Nat
    BY <1>1, <1>3 DEF Magnitude
  <2> HIDE DEF s, g
  <2>4. \A i \in 1..m + 2 : Magnitude(g[i]) <= s.peak
    <3>1. TAKE i \in 1..m + 2
    <3>2. CASE i \in 1..m + 1
      BY <3>2, <2>1, <2>2, <2>3, <1>4 DEF PeakShows
    <3>3. CASE i = m + 2
      BY <3>3, <2>1, <2>2, <1>3, <1>4
    <3>4. QED
      BY <3>2, <3>3, <1>1
  <2>5. \E i \in 1..m + 2 : Magnitude(g[i]) = s.peak
    <3>1. PICK j \in 1..m + 1 : Magnitude(h[j]) = r.peak
      BY <2>2 DEF PeakShows
    <3>2. CASE r.peak < Magnitude(x)
      BY <3>2, <2>1, <1>1, <1>3
    <3>3. CASE ~(r.peak < Magnitude(x))
      BY <3>1, <3>3, <2>1, <2>3, <1>1
    <3>4. QED
      BY <3>2, <3>3
  <2>6. m + 1 + 1 = m + 2
    BY <1>1
  <2>7. QED
    BY <2>4, <2>5, <2>6 DEF PeakShows
<1>10. QED
  BY <1>1, <1>2, <1>3, <1>7, <1>8, <1>9 DEF Shows

(* Once the first state is recorded, the recording shows the history. *)
RecordingIsCurrent == phase \in {"stepping", "iterating", "done"} => Shows(recorder, history, n)

LEMMA RecordingInitially == Init => RecordingIsCurrent
BY DEF Init, RecordingIsCurrent

LEMMA RecordingKept ==
  ASSUME Inv, Inv', RecordingIsCurrent, [Next]_vars
  PROVE  RecordingIsCurrent'
<1> USE Sizes
<1>1. CASE StartStepping
  <2>1. PICK x \in Int, k \in Everys :
          recorder' = RecordStep(NewRecorder(NSteps, k), 0, x) /\ history' = <<x>>
    BY <1>1 DEF StartStepping, Inv, TypeOK
  <2>2. Shows(recorder', history', 0)
    BY <2>1, FirstShows
  <2>3. n' = 0
    BY <1>1 DEF StartStepping, Inv, RestBeforeStart
  <2>4. QED
    BY <2>2, <2>3 DEF RecordingIsCurrent
<1>2. CASE StepConverges \/ StepUnconverged
  <2>1. /\ phase = "iterating" /\ n' = n + 1
        /\ recorder' = RecordStep(recorder, n + 1, u + du) /\ history' = Append(history, u + du)
    BY <1>2 DEF StepConverges, StepUnconverged, CommitStep, Recorded
  <2>2. Shows(recorder, history, n) /\ n < NSteps /\ u + du \in Int
    BY <2>1 DEF RecordingIsCurrent, Inv, StepAhead, TypeOK
  <2>3. Shows(recorder', history', n')
    BY <2>1, <2>2, NextShows
  <2>4. QED
    BY <2>3 DEF RecordingIsCurrent
<1>3. CASE LongTermConverges \/ LongTermFails \/ StartFails
  BY <1>3 DEF LongTermConverges, LongTermFails, StartFails, RecordingIsCurrent
<1>4. CASE BeginStep \/ Iterate \/ StepDiverges \/ SolverFails \/ Finish \/ UNCHANGED vars
  <2>1. recorder' = recorder /\ history' = history /\ n' = n
    BY <1>4 DEF BeginStep, Iterate, StepDiverges, SolverFails, Finish, vars, record
  <2>2. phase' \in {"stepping", "iterating", "done"} => phase \in {"stepping", "iterating", "done"}
    BY <1>4 DEF BeginStep, Iterate, StepDiverges, SolverFails, Finish, vars
  <2>3. QED
    BY <2>1, <2>2 DEF RecordingIsCurrent
<1>5. QED
  BY <1>1, <1>2, <1>3, <1>4 DEF Next

(* The frames and the peak of a finished analysis show its whole history *)
(* (recording.rs:482-551). *)
THEOREM RecordingCorrect == Spec => []RecordingShowsHistory
<1>1. Spec => []RecordingIsCurrent
  BY RecordingInitially, RecordingKept, AnalysisInvariant, PTL DEF Spec
<1>2. ASSUME Inv, RecordingIsCurrent
      PROVE  RecordingShowsHistory
  <2>1. SUFFICES ASSUME phase = "done" PROVE RecordingShowsHistory
    BY DEF RecordingShowsHistory
  <2>2. n = NSteps /\ Shows(recorder, history, NSteps)
    BY <1>2, <2>1 DEF RecordingIsCurrent, Inv, StepsDone
  <2>3. QED
    BY <2>2, Sizes DEF RecordingShowsHistory, Shows, FramesShow, PeakShows, Recorders, Frame
<1>3. QED
  BY <1>1, <1>2, AnalysisInvariant, PTL
=============================================================================
