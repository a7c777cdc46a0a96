-------------------------- MODULE EquilibriumPath --------------------------
(***************************************************************************)
(* What an incremental analysis promises: a path of equilibrium points,    *)
(* each reached from the one before.  A point may be a step on the way to  *)
(* the first record or a record itself; the analysis stops at the record   *)
(* that meets its target, stops short of it, or has no record to show.     *)
(* Attempts that do not converge leave no trace.                           *)
(***************************************************************************)
EXTENDS Naturals

CONSTANTS Points, Start

VARIABLES point, points, verdict, hit

pathVars == <<point, points, verdict, hit>>

PathInit == point = Start /\ points = 0 /\ verdict = "running" /\ hit = FALSE

(* the way to the first record *)
Approach ==
  /\ verdict = "running" /\ points = 0
  /\ point' \in Points
  /\ UNCHANGED <<points, verdict, hit>>

(* the first record may show the point that was approached *)
Show ==
  /\ verdict = "running" /\ ~hit
  /\ point' \in Points \union {point}
  /\ points' = points + 1
  /\ points > 0 \/ point' = point \/ point = Start
  /\ hit' \in BOOLEAN
  /\ UNCHANGED verdict

Conclude ==
  /\ verdict = "running"
  /\ verdict' = IF points = 0 THEN "error" ELSE IF hit THEN "reached" ELSE "stopped"
  /\ UNCHANGED <<point, points, hit>>

PathNext == Approach \/ Show \/ Conclude

PathSpec == PathInit /\ [][PathNext]_pathVars
=============================================================================
