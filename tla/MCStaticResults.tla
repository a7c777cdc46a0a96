-------------------------- MODULE MCStaticResults --------------------------
(* StaticResults for TLC: a long-term combination of the gravity case and a *)
(* short-term one that adds the standard seismic case.                      *)
EXTENDS StaticResults, TLC
CONSTANTS dl, ex, gl, gs
MCTerms == (gl :> {dl}) @@ (gs :> {dl, ex})
============================================================================
