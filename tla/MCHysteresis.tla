---------------------------- MODULE MCHysteresis ----------------------------
EXTENDS HysteresisLaws

Rule(kind, scale) ==
    [kind |-> kind,
     crack |-> <<Whole(2 * scale), Whole(scale)>>,
     yield |-> <<Whole(IF kind \in Bilinears THEN 6 * scale ELSE 4 * scale), Whole(3 * scale)>>,
     ultimate |-> <<Whole(IF kind \in Bilinears THEN 7 * scale ELSE 5 * scale), Whole(5 * scale)>>,
     alpha |-> 1, degradation |-> Frac(1, 2), slip |-> Frac(1, 2)]

SymmetricSprings == {Symmetric(Rule(k, 1)) : k \in Kinds}

\* A wall's shear spring is twice as strong on one side, after twice the deformation.
WallSpring(kind) == [pos |-> Rule(kind, 1), neg |-> Rule(kind, 2)]

WallKinds == {"Retrograde", "Standard", "OriginOriented", "Takeda", "MaxPointOriented"}

MCSprings == SymmetricSprings \cup {WallSpring(k) : k \in WallKinds}
=============================================================================
