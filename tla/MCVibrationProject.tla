------------------------- MODULE MCVibrationProject -------------------------
(* VibrationProject for TLC.  The wave library and the undo history only meet in   *)
(* the cases, so a session explores one of them: `focus' is chosen at the start.   *)
(* The library's session stays with one kind of analysis and saves small files, the *)
(* editing session is not asked about unset regions.                               *)
EXTENDS VibrationProject, TLC

VARIABLE focus

KindsAtWork == {j.kind : j \in {asked, job} \ {None}}

InFocus ==
  CASE focus = "library" -> /\ undo = NoUndo /\ ~asking
                            /\ KindsAtWork \subseteq {"spatial"}
                            /\ selection["lumped"] = None
    [] focus = "editing" -> /\ asked = None
                            /\ \A k \in Kinds : selection[k] = None
                            /\ \A w \in Waves : library[w] = 1

MCInit == Init /\ focus \in {"library", "editing"} /\ InFocus
MCNext == UNCHANGED focus /\ Next /\ InFocus'
MCSpec == MCInit /\ [][MCNext]_<<vars, focus>>

Alike == Permutations(Waves) \union Permutations(Settings)
=============================================================================
