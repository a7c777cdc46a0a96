--------------------------- MODULE HysteresisRule ---------------------------
(***************************************************************************)
(* The parameters of a member's hysteresis rule and its skeleton curve     *)
(* (sepika-material/src/hysteresis/rule.rs).  A rule is a record with its  *)
(* kind and its crack, yield and ultimate points <<force, deformation>>;   *)
(* the stiffness that the code returns beside every force is the slope of  *)
(* the piece that the force is read from and is left out.                  *)
(***************************************************************************)
EXTENDS Rational, Sequences

Kinds == {"Takeda", "TakedaDegrading", "OriginOriented", "Slip", "Retrograde",
          "Standard", "MaxPointOriented"}

Takedas == {"Takeda", "TakedaDegrading"}

\* Kinds whose skeleton has no crack point.
Bilinears == {"OriginOriented", "Slip"}

Force(point) == point[1]
Deformation(point) == point[2]

DegradationRate(r) == IF r.kind = "TakedaDegrading" THEN r.degradation ELSE One

\* The force at deformation t on the line from point a to point b.
OnLine(a, b, t) ==
    Plus(Force(a), Times(Over(Minus(Force(b), Force(a)), Minus(Deformation(b), Deformation(a))),
                         Minus(t, Deformation(a))))

\* The points that the skeleton connects, from the origin to the ultimate point.
Corners(r) ==
    IF r.kind \in Bilinears
    THEN <<<<Zero, Zero>>, r.yield, r.ultimate>>
    ELSE <<<<Zero, Zero>>, r.crack, r.yield, r.ultimate>>

\* Beyond the ultimate point the force stays what it is there.
Envelope(r, t) ==
    LET c == Corners(r)
        n == Len(c)
        i == CHOOSE j \in 1..n : /\ j = n \/ Leq(t, Deformation(c[j + 1]))
                                 /\ \A k \in 2..j : Less(Deformation(c[k]), t)
    IN  IF i = n THEN Force(c[n]) ELSE OnLine(c[i], c[i + 1], t)

\* The skeleton is symmetric and falls with the degradation factor.
Skeleton(r, t, degrade) ==
    LET m == Times(degrade, Envelope(r, Absolute(t)))
    IN  IF Less(t, Zero) THEN Negated(m) ELSE m

InitialStiffness(r) == Over(Force(Corners(r)[2]), Deformation(Corners(r)[2]))

\* Takeda's unloading stiffness, for the exponents 0 and 1 of the ductility.
UnloadingStiffness(r, deformation) ==
    LET ratio == Larger(Over(deformation, Deformation(r.yield)), One)
    IN  Over(Over(Force(r.crack), Deformation(r.crack)), Power(ratio, r.alpha))
=============================================================================
