----------------------------- MODULE MCUndoStack -----------------------------
(* The undo stack on the list of load combinations. *)
EXTENDS UndoStackLaw

CONSTANTS Combos, MaxCombos

C == INSTANCE CombinationEditing

MCModels == C!CombinationLists
MCCommands == C!CombinationCommands
MCExecute(m, c) == C!ExecuteCombination(m, c)
MCRequests(m) == C!CombinationRequests(m)
MCNoop == C!NoopCmd
MCInit == {<<>>}
==============================================================================
