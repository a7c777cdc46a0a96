-------------------------- MODULE HysteresisMaterial -------------------------
(***************************************************************************)
(* The restoring force of a lumped spring (sepika-material/src/hysteresis/ *)
(* material.rs): a state machine over branches that a caller drives with   *)
(* trial, commit and revert.  A trial is always evaluated from the         *)
(* committed state.  Deformations the caller asks for are whole numbers;   *)
(* everything the rule computes from them is an exact fraction.            *)
(***************************************************************************)
EXTENDS HysteresisRule, FiniteSets

CONSTANTS
    Springs,      \* pairs [pos, neg] of rules, the envelope on either side
    Reach,        \* deformations asked for lie in -Reach .. Reach
    MaxCommits    \* commits in one history

Symmetric(r) == [pos |-> r, neg |-> r]

\* with_negative_rule refuses envelopes of another kind or stiffness.
ASSUME SpringsAssumption ==
    \A s \in Springs : /\ {s.pos.kind, s.neg.kind} \subseteq Kinds
                       /\ s.pos.kind = s.neg.kind
                       /\ InitialStiffness(s.pos) = InitialStiffness(s.neg)

VARIABLES
    spring,       \* the envelopes of this spring
    committed,    \* the state of the last converged step
    trial,        \* the state of the last trial
    commits,
    astray        \* the history met one of the cases of Astray below

vars == <<spring, committed, trial, commits, astray>>

-----------------------------------------------------------------------------
Origin == <<Zero, Zero>>      \* a point: <<force, deformation>>

\* Which way the last move went: f64::signum is 1 for a difference of zero.
Signum(x) == IF Less(x, Zero) THEN -1 ELSE 1

Virgin ==
    [theta |-> Zero, m |-> Zero, dir |-> 0, maxPos |-> Origin, maxNeg |-> Origin,
     branch |-> [kind |-> "Skeleton"], reversal |-> Origin, peaksPos |-> 0, peaksNeg |-> 0]

At(s) == <<s.m, s.theta>>

RuleFor(x) == IF Less(x, Zero) THEN spring.neg ELSE spring.pos

RuleOfSide(dir) == IF dir < 0 THEN spring.neg ELSE spring.pos

Kind == spring.pos.kind

YieldAt(x) == Deformation(RuleFor(x).yield)

Mirrored(point) == <<Negated(Force(point)), Negated(Deformation(point))>>

Weakened(point, degrade) == <<Times(degrade, Force(point)), Deformation(point)>>

\* opposite_target_degraded: the experienced peak of the side that the move heads
\* for, its yield point if that side has none.
Target(dir, degrade) ==
    LET peak  == IF dir > 0 THEN committed.maxPos ELSE committed.maxNeg
        yield == RuleOfSide(dir).yield
    IN  Weakened(IF Deformation(peak) # Zero THEN peak
                 ELSE IF dir > 0 THEN yield ELSE Mirrored(yield), degrade)

HasYielded ==
    \/ Leq(Deformation(spring.pos.yield), Absolute(Deformation(committed.maxPos)))
    \/ Leq(Deformation(spring.neg.yield), Absolute(Deformation(committed.maxNeg)))

MaxDeformation ==
    Larger(Absolute(Deformation(committed.maxPos)), Absolute(Deformation(committed.maxNeg)))

DegradeFactor(s) ==
    Power(DegradationRate(spring.pos), IF s.peaksPos > s.peaksNeg THEN s.peaksPos ELSE s.peaksNeg)

\* unloading_slope from the committed point
UnloadingSlope ==
    LET r == RuleFor(committed.theta)
    IN  CASE committed.theta = Zero -> Over(Force(r.yield), Deformation(r.yield))
          [] r.kind \in Takedas     -> UnloadingStiffness(r, MaxDeformation)
          [] OTHER                  -> Absolute(Over(committed.m, committed.theta))

\* reload_line: straight, or pinched for the slip rule
ReloadLine(r, origin, target, theta) ==
    LET along  == Minus(Deformation(target), Deformation(origin))
        rise   == Minus(Force(target), Force(origin))
        pinch  == <<Plus(Force(origin), Times(Times(r.slip, r.slip), rise)),
                    Plus(Deformation(origin), Times(r.slip, along))>>
    IN  CASE along = Zero -> Force(origin)
          [] along # Zero /\ r.kind # "Slip" -> OnLine(origin, target, theta)
          [] OTHER ->
                IF Leq(Absolute(Minus(theta, Deformation(origin))),
                       Absolute(Minus(Deformation(pinch), Deformation(origin))))
                THEN OnLine(origin, pinch, theta)
                ELSE OnLine(pinch, target, theta)

Reached(origin, target, theta) ==
    IF Leq(Deformation(origin), Deformation(target))
    THEN Leq(Deformation(target), theta)
    ELSE Leq(theta, Deformation(target))

-----------------------------------------------------------------------------
(* The branch that a reversal at the committed point opens, and the peaks it *)
(* counts.                                                                   *)

Yielded == HasYielded \/ Leq(YieldAt(committed.theta), Absolute(committed.theta))

BranchOnReversal(dir) ==
    CASE Kind = "Standard" -> [kind |-> "Masing", reversal |-> At(committed)]
      [] Kind = "MaxPointOriented" ->
            IF Yielded THEN [kind |-> "PeakOriented", origin |-> At(committed), target |-> Target(dir, One)]
                       ELSE [kind |-> "Skeleton"]
      [] OTHER ->
            CASE committed.m = Zero ->
                    [kind |-> "Reloading", origin |-> At(committed), target |-> Target(dir, One)]
              [] committed.m # Zero /\ committed.branch.kind \in {"Reloading", "InnerLoop"} ->
                    [kind |-> "InnerLoop", origin |-> At(committed), target |-> committed.branch.origin,
                     outer |-> Target(dir, One)]
              [] OTHER ->
                    IF Yielded THEN [kind |-> "Unloading", ku |-> UnloadingSlope]
                               ELSE [kind |-> "Skeleton"]

Reversed(dir) ==
    LET fromSkeleton == committed.branch.kind = "Skeleton"
        ty == YieldAt(committed.theta)
    IN  [committed EXCEPT
            !.dir = dir, !.reversal = At(committed), !.branch = BranchOnReversal(dir),
            !.peaksPos = IF fromSkeleton /\ Less(ty, committed.theta) THEN @ + 1 ELSE @,
            !.peaksNeg = IF fromSkeleton /\ Less(committed.theta, Negated(ty)) THEN @ + 1 ELSE @]

-----------------------------------------------------------------------------
(* eval_on_branch: the force at theta and the branch it is read from.        *)

OnSkeleton(s, theta) ==
    [m |-> Skeleton(RuleFor(theta), theta, DegradeFactor(s)), branch |-> [kind |-> "Skeleton"]]

OnReload(s, branch, theta) ==
    [m |-> ReloadLine(RuleOfSide(s.dir), branch.origin, branch.target, theta), branch |-> branch]

\* Faulty variant: the opposite line starts at the reversal, not at the zero
OnUnloadingFromReversal(s, theta) ==
    LET m == Plus(Force(s.reversal), Times(s.branch.ku, Minus(theta, Deformation(s.reversal))))
    IN  IF Less(Zero, Force(s.reversal)) = Less(Zero, m)
        THEN [m |-> m, branch |-> s.branch]
        ELSE OnReload(s, [kind |-> "Reloading", origin |-> <<Zero, Deformation(s.reversal)>>,
                          target |-> Target(s.dir, DegradeFactor(s))], theta)
\* The unloading line, and past its zero the line to the opposite peak.
OnUnloading(s, theta) ==
    LET ku == s.branch.ku
        mr == Force(s.reversal)
        m  == Plus(mr, Times(ku, Minus(theta, Deformation(s.reversal))))
        crossedZero == \/ Less(Zero, mr) /\ Leq(m, Zero)
                       \/ Less(mr, Zero) /\ Leq(Zero, m)
        zeroPoint == <<Zero, Minus(Deformation(s.reversal), Over(mr, ku))>>
    IN  IF crossedZero
        THEN OnReload(s, [kind |-> "Reloading", origin |-> zeroPoint,
                          target |-> Target(s.dir, DegradeFactor(s))], theta)
        ELSE [m |-> m, branch |-> s.branch]

OnReloading(s, theta) ==
    IF Reached(s.branch.origin, s.branch.target, theta)
    THEN OnSkeleton(s, theta)
    ELSE OnReload(s, s.branch, theta)

\* Back to where the inner loop was left, from there to the outer peak.
OnInnerLoop(s, theta) ==
    LET b == s.branch
        ahead == Minus(theta, Deformation(b.outer))
        pastOuter == IF s.dir > 0 THEN Leq(Zero, ahead) ELSE Leq(ahead, Zero)
    IN  IF ~Reached(b.origin, b.target, theta)
        THEN OnReload(s, b, theta)
        ELSE IF pastOuter
             THEN OnSkeleton(s, theta)
             ELSE OnReload(s, [kind |-> "Reloading", origin |-> b.target, target |-> b.outer], theta)

\* Masing's rule: the skeleton magnified, until the mirrored reversal point.
OnMasing(s, theta) ==
    LET tr    == Deformation(s.branch.reversal)
        r     == RuleOfSide(s.dir)
        scale == Over(Plus(Force(spring.pos.yield), Force(spring.neg.yield)), Force(r.yield))
        back  == Minus(tr, theta)
        drop  == Times(scale, Skeleton(r, Over(Absolute(back), scale), One))
        mirror == Over(Times(Absolute(tr), Deformation(r.yield)), YieldAt(tr))
        along == IF s.dir > 0 THEN theta ELSE Negated(theta)
    IN  IF Leq(mirror, along)
        THEN [m |-> Skeleton(RuleFor(theta), theta, One), branch |-> [kind |-> "Skeleton"]]
        ELSE [m |-> IF Signum(back) > 0 THEN Minus(Force(s.branch.reversal), drop)
                                        ELSE Plus(Force(s.branch.reversal), drop),
              branch |-> s.branch]

\* Faulty variant: runs past the peak and never back to the skeleton
OnPeakOrientedForever(s, theta) ==
    [m |-> OnLine(s.branch.origin, s.branch.target, theta), branch |-> s.branch]
OnPeakOriented(s, theta) ==
    LET b == s.branch
    IN  CASE Reached(b.origin, b.target, theta) ->
                [m |-> Skeleton(RuleFor(theta), theta, One), branch |-> [kind |-> "Skeleton"]]
          [] ~Reached(b.origin, b.target, theta) /\ Deformation(b.origin) = Deformation(b.target) ->
                [m |-> Force(b.origin), branch |-> b]
          [] OTHER -> [m |-> OnLine(b.origin, b.target, theta), branch |-> b]

EvalOnBranch(s, theta) ==
    CASE s.branch.kind = "Skeleton"     -> OnSkeleton(s, theta)
      [] s.branch.kind = "Unloading"    -> OnUnloading(s, theta)
      [] s.branch.kind = "Reloading"    -> OnReloading(s, theta)
      [] s.branch.kind = "InnerLoop"    -> OnInnerLoop(s, theta)
      [] s.branch.kind = "Masing"       -> OnMasing(s, theta)
      [] s.branch.kind = "PeakOriented" -> OnPeakOriented(s, theta)

-----------------------------------------------------------------------------
(* evaluate                                                                  *)

\* Faulty variant: only the positive side keeps its peak
WithPositivePeak(s, pos, neg) == [s EXCEPT !.maxPos = IF Less(pos, s.theta) THEN At(s) ELSE @]
\* The experienced peaks, beyond the deformations pos and neg.
WithPeaks(s, pos, neg) ==
    [s EXCEPT !.maxPos = IF Less(pos, s.theta) THEN At(s) ELSE @,
              !.maxNeg = IF Less(s.theta, neg) THEN At(s) ELSE @]

\* The retrograde rule stays on the skeleton both ways.
EvaluateRetrograde(theta) ==
    WithPeaks([committed EXCEPT !.theta = theta, !.m = Skeleton(RuleFor(theta), theta, One),
                                !.dir = Signum(Minus(theta, committed.theta)),
                                !.branch = [kind |-> "Skeleton"]],
              Deformation(committed.maxPos), Deformation(committed.maxNeg))

\* Faulty variant: every step beyond yield counts as a peak, not every reversal
EvaluateCountingSteps(theta) ==
    LET s == [committed EXCEPT !.dir = Signum(Minus(theta, committed.theta)),
                               !.peaksPos = IF Less(YieldAt(theta), theta) THEN @ + 1 ELSE @,
                               !.peaksNeg = IF Less(theta, Negated(YieldAt(theta))) THEN @ + 1 ELSE @]
        e == EvalOnBranch(s, theta)
    IN  [s EXCEPT !.theta = theta, !.m = e.m, !.branch = e.branch]
\* Only a point on the skeleton beyond yield becomes a peak.
EvaluateOnBranches(theta) ==
    LET dir == Signum(Minus(theta, committed.theta))
        s == IF committed.dir # 0 /\ dir # committed.dir
             THEN Reversed(dir)
             ELSE [committed EXCEPT !.dir = dir]
        e == EvalOnBranch(s, theta)
        there == [s EXCEPT !.theta = theta, !.m = e.m, !.branch = e.branch]
        ty == YieldAt(theta)
    IN  IF e.branch.kind = "Skeleton"
        THEN WithPeaks(there, Larger(Deformation(committed.maxPos), ty),
                       Negated(Larger(Negated(Deformation(committed.maxNeg)), ty)))
        ELSE there

Evaluate(theta) ==
    IF Kind = "Retrograde" THEN EvaluateRetrograde(theta) ELSE EvaluateOnBranches(theta)

-----------------------------------------------------------------------------
(* Five ways in which the rule loses its envelope: it climbs an unloading    *)
(* line away from zero, it runs past the target of a reloading line, it      *)
(* takes standing still for a move upwards, it stops exactly at yield (where *)
(* a reversal counts as yielded and no peak is kept), or it reverses on a    *)
(* branch of Masing's rule.  A history without any of them is a regular one. *)

ClimbsUnloadingLine(s) ==
    s.branch.kind = "Unloading" /\ (IF s.dir > 0 THEN Less(Zero, s.m) ELSE Less(s.m, Zero))

PassesTarget(s) ==
    /\ s.branch.kind = "Reloading"
    /\ Reached(s.branch.origin, s.branch.target, s.theta)
    /\ s.theta # Deformation(s.branch.target)

StandsStill(s) == s.theta = committed.theta /\ s.dir # committed.dir

StopsAtYield(s) == s.branch.kind = "Skeleton" /\ Absolute(s.theta) = YieldAt(s.theta)

ReversesFromMasing(s) == Kind = "Standard" /\ committed.branch.kind = "Masing" /\ s.dir # committed.dir

Astray(s) ==
    /\ Kind # "Retrograde"
    /\ ClimbsUnloadingLine(s) \/ PassesTarget(s) \/ StandsStill(s) \/ StopsAtYield(s)
       \/ ReversesFromMasing(s)

-----------------------------------------------------------------------------
Deformations == {Whole(n) : n \in -Reach .. Reach}

Init ==
    /\ spring \in Springs
    /\ committed = Virgin
    /\ trial = Virgin
    /\ commits = 0
    /\ astray = FALSE

Trial(theta) ==
    /\ trial' = Evaluate(theta)
    /\ UNCHANGED <<spring, committed, commits, astray>>

Commit ==
    /\ commits < MaxCommits
    /\ commits' = commits + 1
    /\ committed' = trial
    /\ astray' = (astray \/ Astray(trial))
    /\ UNCHANGED <<spring, trial>>

Revert ==
    /\ trial' = committed
    /\ UNCHANGED <<spring, committed, commits, astray>>

Next ==
    \/ \E theta \in Deformations : Trial(theta)
    \/ Commit
    \/ Revert

Spec == Init /\ [][Next]_vars
=============================================================================
