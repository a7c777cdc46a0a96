---------------------------- MODULE UndoStackLaw ----------------------------
(***************************************************************************)
(* What UndoStack relies on: the commands obey the round-trip law of the   *)
(* EditCommand documentation (apply answers with the inverse command).     *)
(***************************************************************************)
EXTENDS UndoStack

ASSUME BoundsAreNaturals == MaxUndo \in Nat

ASSUME StartsAreModels == InitModels \subseteq Models

ASSUME CommandsClosed ==
    \A m \in Models : \A c \in Requests(m) :
        /\ After(m, c) \in Models
        /\ LET undo == InverseOf(m, c)
               redo == InverseOf(After(m, c), undo)
           IN  {undo, redo, InverseOf(m, redo)} \subseteq Commands

ASSUME RoundTripLaw ==
    \A m \in Models : \A c \in Requests(m) : Reversible(m, c)
==============================================================================
