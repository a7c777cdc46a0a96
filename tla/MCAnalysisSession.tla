------------------------- MODULE MCAnalysisSession -------------------------
(* AnalysisSession for TLC.  Kinds of analysis, settings of the      *)
(* seismic loads and regions left unset multiply without interacting, so a   *)
(* session explores one of them: `focus' is chosen at the start.             *)
EXTENDS AnalysisSession

CONSTANT Zone1   \* the setting of the sessions that do not change it

VARIABLE focus

KindsRunning == (IF job = None THEN {} ELSE {job.kind})
                  \union (IF pendingRun = None THEN {} ELSE {pendingRun.kind})

InFocus ==
  CASE focus = "kinds" -> /\ cfg.zone = Zone1
                          /\ model.own.unset = {}
                          /\ KindsRunning \subseteq {"pushover"}
    [] focus = "zones" -> /\ model.own.unset = {}
                          /\ KindsRunning \subseteq {"eigen"}
    [] focus = "regions" -> /\ cfg.zone = Zone1
                            /\ KindsRunning \subseteq {"static"}

MCInit == /\ Init
          /\ focus \in {"kinds", "zones", "regions"}
          /\ InFocus

MCNext == UNCHANGED focus /\ Next /\ InFocus'

MCSpec == MCInit /\ [][MCNext]_<<vars, focus>>
============================================================================
