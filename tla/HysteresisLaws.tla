--------------------------- MODULE HysteresisLaws ---------------------------
(***************************************************************************)
(* What a restoring force owes to the analyses that drive it.              *)
(***************************************************************************)
EXTENDS HysteresisMaterial

\* The material with c as its committed state.
After(c) == INSTANCE HysteresisMaterial WITH committed <- c

Regular == ~astray /\ ~Astray(trial)

StrengthAt(x) == Force(RuleFor(x).ultimate)

WithinStrength == Leq(Absolute(trial.m), StrengthAt(trial.m))

\* Past the ultimate point a spring keeps its ultimate strength: no history lets it
\* carry more (02_部材履歴則.md:62).  The code does not keep this: unloaded a little and
\* loaded again, a spring stays on its unloading line, which has no end on that side
\* (eval_on_branch, material.rs:276-289).  RegularWithinStrength sets these apart.
StrengthHeld == WithinStrength

\* A regular history keeps the force within the strength of its side, whatever
\* branches it went through (eval_on_branch, material.rs:266-384).
RegularWithinStrength == Regular => WithinStrength

\* No piece of the curve is steeper than this.
Steepest ==
    IF Kind = "Slip"
    THEN Times(Plus(One, spring.pos.slip), InitialStiffness(spring.pos))
    ELSE InitialStiffness(spring.pos)

\* In a regular history the force goes over from branch to branch without a jump: a
\* move changes it by no more than the steepest stiffness times the way
\* (eval_on_branch, material.rs:266-384).
NoJump ==
    Regular => Leq(Absolute(Minus(trial.m, committed.m)),
                   Times(Steepest, Absolute(Minus(trial.theta, committed.theta))))

Between(theta) ==
    {mid \in Deformations : \/ Less(committed.theta, mid) /\ Less(mid, theta)
                            \/ Less(theta, mid) /\ Less(mid, committed.theta)}

\* In a regular history a move in one direction ends at the same force whether it is
\* committed in one step or with a stop on the way, degradation included (evaluate,
\* material.rs:143-241).
StepIndependent ==
    Regular => \A mid \in Between(trial.theta) :
                  After(Evaluate(mid))!Evaluate(trial.theta).m = trial.m

MirroredBranch(b) ==
    [f \in DOMAIN b |-> IF f \in {"origin", "target", "outer", "reversal"} THEN Mirrored(b[f]) ELSE b[f]]

MirrorImage(s) ==
    [theta |-> Negated(s.theta), m |-> Negated(s.m), dir |-> -s.dir,
     maxPos |-> Mirrored(s.maxNeg), maxNeg |-> Mirrored(s.maxPos),
     branch |-> MirroredBranch(s.branch), reversal |-> Mirrored(s.reversal),
     peaksPos |-> s.peaksNeg, peaksNeg |-> s.peaksPos]

\* A spring with one envelope for both sides has no side: the mirrored history is
\* answered by the mirrored force (evaluate and the peaks it keeps for either side,
\* material.rs:143-241).
SidesAlike ==
    (Regular /\ spring.pos = spring.neg /\ trial.theta # committed.theta) =>
        After(MirrorImage(committed))!Evaluate(Negated(trial.theta)).m = Negated(trial.m)
=============================================================================
