--------------------------- MODULE AnalysisSession ---------------------------
(****************************************************************************)
(* One window of the desktop application: a model that the user edits, the  *)
(* preparation and the analysis results derived from it, the background job *)
(* that computes results from a copy of the model, and the project file.    *)
(*                                                                          *)
(* Everything here runs on the UI thread, one action per event, except      *)
(* WorkerEnds: the computing thread owns a copy of the model and answers    *)
(* over a channel that the UI polls once per frame.  While a job runs the   *)
(* run buttons are disabled, but editing, undo, settings, saving, opening   *)
(* and the confirmation dialogs are not.                                    *)
(*                                                                          *)
(* Model data is a token: `own' is what the user entered, `auto' what the   *)
(* preparation generated from it (self weight, floor and seismic loads).    *)
(* A derived value records the model it was computed from, so "is this      *)
(* result about that model" is an equality.                                 *)
(****************************************************************************)
EXTENDS Naturals, Sequences, SequencesExt, FiniteSets

CONSTANTS
  Kinds,        \* kinds of analysis the user starts, a subset of JobKinds
  Dirs,         \* loading directions offered by the settings, subset of {"X","Y"}
  Zones,        \* values of the seismic settings that the generated loads depend on
  Regions,      \* plate assignment regions that may be left unset
  None,         \* an absent Option
  MaxEdits,     \* bound: user edits and new projects in a behaviour
  MaxHistory    \* bound: entries of the undo stack, done and undone together

JobKinds == {"static", "pushover", "eigen"}

ASSUME KindsAssumption == Kinds \subseteq JobKinds
ASSUME DirsAssumption == Dirs \subseteq {"X", "Y"} /\ Dirs # {}
ASSUME ZonesAssumption == Zones # {}
ASSUME BoundsAssumption == MaxEdits \in Nat /\ MaxHistory \in Nat

VARIABLES
  model,       \* core.model: [own, auto]
  live,        \* regions of core.model that are unset now; rebuilt by preparation
  undo,        \* scoped.undo: the models that undo and redo lead to
  stale,       \* scoped.staleness
  syncHash,    \* scoped.auto_load_sync_hash
  prep,        \* scoped.preparation
  results,     \* scoped.results
  cfg,         \* core.analysis_cfg; survives a model swap
  job,         \* scoped.job and the message its worker sent
  ack,         \* scoped.unset_regions_ack, and the project it was given for
  pendingRun,  \* scoped.pending_unset_analysis, and the project it is about
  pendingSave, \* scoped.pending_save_recording: the project it is about
  path,        \* scoped.project_path is set
  disk,        \* the project file
  nextId       \* how many user edits and new projects there have been

scopedRest == <<ack, pendingRun, pendingSave, path>>
vars == <<model, live, undo, stale, syncHash, prep, results, cfg, job, ack,
          pendingRun, pendingSave, path, disk, nextId>>

----------------------------------------------------------------------------
(* Data *)

Own == [id : Nat, project : Nat, unset : SUBSET Regions]

\* The generated loads: those of the user data `from' under the settings
\* `zone', or none.
AutoLoads == [from : Nat, zone : Zones \union {None}]
NoLoads == [from |-> 0, zone |-> None]
LoadsFor(own, zone) == [from |-> own.id, zone |-> zone]

Model == [own : Own, auto : AutoLoads]

Prep == [of : Model, zone : Zones]

\* Provenance of one result: the model it was computed from and the direction.
Result == [of : Model, dir : Dirs]
Slots == {"static", "pushX", "pushY", "modal"}
Bundle == [Slots -> Result \union {None}]
EmptyBundle == [s \in Slots |-> None]

Settings == [dir : Dirs, zone : Zones]

Job == [kind : Kinds, of : Model, live : SUBSET Regions, cfg : Settings,
        st : {"running", "ok", "err", "lost"}]

File == [model : Model, live : SUBSET Regions, prep : Prep \union {None},
         results : Bundle \union {None}, cfg : Settings]

\* What the dialogs hold: the analysis that waits for an answer, and the set of
\* regions that was acknowledged, each with the project on display at the time.
Waiting == [kind : Kinds, project : Nat]
Acknowledged == [unset : SUBSET Regions, project : Nat]

ASSUME NoneAssumption ==
  /\ None \notin Zones
  /\ None \notin Prep
  /\ None \notin File
  /\ None \notin Waiting
  /\ None \notin Acknowledged
  /\ None \notin Nat

NewOwn(u) == [id |-> nextId, project |-> nextId, unset |-> u]
EditedOwn(u) == [id |-> nextId, project |-> model.own.project, unset |-> u]

----------------------------------------------------------------------------
(* Staleness *)

FreshScope == [results |-> FALSE, prep |-> TRUE, unsaved |-> FALSE]
AllStale == [results |-> TRUE, prep |-> TRUE, unsaved |-> TRUE]

\* Faulty variant: an edit does not invalidate the preparation.
MarkResultsEdited(s) == [s EXCEPT !.results = TRUE, !.unsaved = TRUE]

MarkEdited(s) == AllStale

\* Faulty variant: a finished analysis also counts as saved.
MarkAllFresh(s) == [s EXCEPT !.results = FALSE, !.unsaved = FALSE]

\* A finished analysis makes the results current; the file stays behind.
MarkFresh(s) == [s EXCEPT !.results = FALSE]

----------------------------------------------------------------------------
(* Undo stack: a command that changes nothing is not recorded. *)

EmptyUndo == [past |-> <<>>, future |-> <<>>]
RunCommand(u, from, to) ==
  IF from = to THEN u ELSE [past |-> Append(u.past, from), future |-> <<>>]
HistoryLength(u) == Len(u.past) + Len(u.future)

----------------------------------------------------------------------------
(* Results *)

Invalidate(b, slot) == IF b = None THEN b ELSE [b EXCEPT ![slot] = None]
Store(b, slot, r) == [(IF b = None THEN EmptyBundle ELSE b) EXCEPT ![slot] = r]
PushSlot(dir) == IF dir = "X" THEN "pushX" ELSE "pushY"

\* What a failed run of kind k takes out of the bundle: only the static
\* targets are invalidated.
DropTargets(k, b) == IF k = "static" THEN Invalidate(b, "static") ELSE b

----------------------------------------------------------------------------
(* Preparation *)

\* Faulty variant: the hash is taken before the loads are synchronised.
HashBeforeSync(m, zone, synced) == [of |-> m, zone |-> zone]

\* The hash that sync_auto_load_cases_action stores: of the model after it.
HashAfterSync(m, zone, synced) == [of |-> synced, zone |-> zone]

\* The synchronised model m, when every generated load can be computed.
Synced(m, zone) == [m EXCEPT !.auto = LoadsFor(m.own, zone)]

\* sync_auto_load_cases_action: the regions are rebuilt outside the undo
\* stack; the load cases are regenerated unless the hash says nothing changed.
\* A failure may come after the seismic loads were already removed, and keeps
\* the old hash.
SyncLoads(outcome) ==
  LET current == [of |-> model, zone |-> cfg.zone]
      synced == Synced(model, cfg.zone)
  IN /\ live' = model.own.unset
     /\ IF syncHash = current
          THEN outcome = "ok" /\ UNCHANGED <<model, undo, syncHash>>
          ELSE /\ model' = CASE outcome = "ok" -> synced
                             [] outcome = "failed" -> model
                             [] outcome = "removed" -> [model EXCEPT !.auto = NoLoads]
               /\ undo' = RunCommand(undo, model, model')
               /\ syncHash' = IF outcome = "ok"
                                THEN HashAfterSync(model, cfg.zone, synced)
                                ELSE syncHash
     /\ HistoryLength(undo') <= MaxHistory

Outcomes == {"ok", "failed", "removed"}

\* refresh_preparation, and what the start of a run of kind k does to the
\* results when it fails.
Prepare(outcome, k) ==
  LET marked == IF model' = model THEN stale ELSE MarkEdited(stale)
      kept == IF outcome = "removed" THEN Invalidate(results, "static") ELSE results
  IN /\ SyncLoads(outcome)
     /\ IF outcome = "ok"
          THEN /\ prep' = [of |-> model', zone |-> cfg.zone]
               /\ stale' = [marked EXCEPT !.prep = FALSE]
               /\ results' = results
          ELSE /\ prep' = prep
               /\ stale' = marked
               /\ results' = DropTargets(k, kept)

----------------------------------------------------------------------------
(* Starting an analysis *)

\* spawn_analysis_job: the worker gets a copy of the prepared model.
Spawn(k) ==
  job' = [kind |-> k, of |-> model', live |-> live', cfg |-> cfg, st |-> "running"]

\* start_*_job: refused while a job runs, otherwise prepared and spawned.
StartJob(k, outcome) ==
  IF job # None
    THEN outcome = "ok" /\ UNCHANGED <<model, live, undo, stale, syncHash, prep, results, job>>
    ELSE /\ Prepare(outcome, k)
         /\ IF outcome = "ok" THEN Spawn(k) ELSE job' = job

\* unset_regions_confirm_required
ConfirmRequired(unset) == unset # {} /\ (ack = None \/ ack.unset # unset)

\* request_analysis.  The run buttons are disabled while a job runs.
RequestAnalysis(k, outcome) ==
  /\ job = None
  /\ Prepare(outcome, k)
  /\ IF outcome # "ok"
       THEN UNCHANGED <<job, pendingRun>>
       ELSE IF ConfirmRequired(live')
              THEN /\ pendingRun' = [kind |-> k, project |-> model'.own.project]
                   /\ job' = job
              ELSE Spawn(k) /\ pendingRun' = pendingRun
  /\ UNCHANGED <<cfg, ack, pendingSave, path, disk, nextId>>

\* resume_pending_analysis: the set shown in the dialog is acknowledged, then
\* the analysis is started, which prepares the model again.
ResumePending(outcome) ==
  /\ pendingRun # None
  /\ pendingRun' = None
  /\ ack' = [unset |-> live, project |-> model.own.project]
  /\ StartJob(pendingRun.kind, outcome)
  /\ UNCHANGED <<cfg, pendingSave, path, disk, nextId>>

\* cancel_pending_analysis
CancelPending ==
  /\ pendingRun # None
  /\ pendingRun' = None
  /\ UNCHANGED <<model, live, undo, stale, syncHash, prep, results, cfg, job,
                 ack, pendingSave, path, disk, nextId>>

\* run_preparation.  Its button, too, is disabled while a job runs.
RunPreparation(outcome) ==
  /\ job = None
  /\ Prepare(outcome, "preparation")
  /\ UNCHANGED <<cfg, job, scopedRest, disk, nextId>>

----------------------------------------------------------------------------
(* Editing *)

\* A command run through the undo stack, followed by mark_edited.  It leaves
\* the regions as they are (the next preparation rebuilds them) unless it
\* assigns a plate to a region, which shows at once.
Edit(unset, atOnce) ==
  LET to == [model EXCEPT !.own = EditedOwn(unset)]
  IN /\ nextId <= MaxEdits
     /\ nextId' = nextId + 1
     /\ model' = to
     /\ undo' = RunCommand(undo, model, to)
     /\ HistoryLength(undo') <= MaxHistory
     /\ live' = IF atOnce THEN unset ELSE live
     /\ stale' = MarkEdited(stale)
     /\ UNCHANGED <<syncHash, prep, results, cfg, job, scopedRest, disk>>

\* undo_action.  Whether the undone command takes a plate assignment back at
\* once depends on the command.
UndoAction ==
  /\ undo.past # <<>>
  /\ model' = Last(undo.past)
  /\ undo' = [past |-> Front(undo.past), future |-> Append(undo.future, model)]
  /\ live' \in {live, model'.own.unset}
  /\ stale' = MarkEdited(stale)
  /\ UNCHANGED <<syncHash, prep, results, cfg, job, scopedRest, disk, nextId>>

\* redo_action
RedoAction ==
  /\ undo.future # <<>>
  /\ model' = Last(undo.future)
  /\ undo' = [past |-> Append(undo.past, model), future |-> Front(undo.future)]
  /\ live' \in {live, model'.own.unset}
  /\ stale' = MarkEdited(stale)
  /\ UNCHANGED <<syncHash, prep, results, cfg, job, scopedRest, disk, nextId>>

\* The settings panels write analysis_cfg and nothing else.
ChangeSettings(new) ==
  /\ new # cfg
  /\ cfg' = new
  /\ UNCHANGED <<model, live, undo, stale, syncHash, prep, results, job,
                 scopedRest, disk, nextId>>

----------------------------------------------------------------------------
(* The background job *)

\* The worker sends its result; a panic inside the computation is sent as an
\* error, and a thread that dies otherwise drops the channel.
WorkerEnds(outcome) ==
  /\ job # None
  /\ job.st = "running"
  /\ job' = [job EXCEPT !.st = outcome]
  /\ UNCHANGED <<model, live, undo, stale, syncHash, prep, results, cfg,
                 scopedRest, disk, nextId>>

\* apply_static_case_result, apply_pushover_result, apply_eigen_result.  The
\* pushover slot is the direction of the settings when the answer arrives.
\* A modal result does not end the staleness of the others.
ApplyResult ==
  LET r == [of |-> job.of, dir |-> job.cfg.dir]
  IN CASE job.kind = "static" ->
            results' = Store(results, "static", r) /\ stale' = MarkFresh(stale)
       [] job.kind = "pushover" ->
            results' = Store(results, PushSlot(cfg.dir), r) /\ stale' = MarkFresh(stale)
       [] job.kind = "eigen" ->
            results' = Store(results, "modal", r) /\ stale' = stale

\* poll_job
PollJob ==
  /\ job # None
  /\ job.st # "running"
  /\ job' = None
  /\ CASE job.st = "ok" -> ApplyResult
       [] job.st = "err" -> results' = DropTargets(job.kind, results) /\ stale' = stale
       [] job.st = "lost" -> UNCHANGED <<results, stale>>
  /\ UNCHANGED <<model, live, undo, syncHash, prep, cfg, scopedRest, disk, nextId>>

----------------------------------------------------------------------------
(* The project file *)

\* Faulty variant: the preparation is saved whether or not it is stale.
SavedAlways ==
  [model |-> model, live |-> live, prep |-> prep, results |-> results, cfg |-> cfg]

SaveResults == results # None /\ ~stale.results

\* What save_project_to_opts writes.
Saved == [model |-> model, live |-> live,
          prep |-> IF stale.prep THEN None ELSE prep,
          results |-> IF SaveResults THEN results ELSE None,
          cfg |-> cfg]

\* The file is written beside the old one and renamed over it.
WriteFile(ok) ==
  /\ IF ok
       THEN disk' = Saved /\ path' = TRUE /\ stale' = [stale EXCEPT !.unsaved = FALSE]
       ELSE UNCHANGED <<disk, path, stale>>
  /\ UNCHANGED <<model, live, undo, syncHash, prep, results, cfg, job, ack,
                 pendingRun, nextId>>

\* save_project_to: a large result with a detailed recording is asked about
\* first; nothing is written until the user has answered.
SaveProject(ok, large) ==
  IF SaveResults /\ large
    THEN /\ pendingSave' = model.own.project
         /\ UNCHANGED <<model, live, undo, stale, syncHash, prep, results, cfg,
                        job, ack, pendingRun, path, disk, nextId>>
    ELSE WriteFile(ok) /\ pendingSave' = pendingSave

\* resolve_pending_save_recording: saves what the session holds by then.
ResolveSave(save, ok) ==
  /\ pendingSave # None
  /\ pendingSave' = None
  /\ IF save
       THEN WriteFile(ok)
       ELSE UNCHANGED <<model, live, undo, stale, syncHash, prep, results, cfg,
                        job, ack, pendingRun, path, disk, nextId>>

\* Faulty variant: the dialogs survive the swap of the model.
ResetScopedKeepingDialogs ==
  /\ undo' = EmptyUndo
  /\ syncHash' = None
  /\ job' = None
  /\ UNCHANGED <<ack, pendingRun, pendingSave>>

\* ModelScoped::default: nothing of the replaced model is kept.
ResetScoped ==
  /\ undo' = EmptyUndo
  /\ syncHash' = None
  /\ job' = None
  /\ ack' = None
  /\ pendingRun' = None
  /\ pendingSave' = None

\* open_project_from, after load_model: what the file carries counts as
\* current for its model.
OpenProject ==
  /\ disk # None
  /\ ResetScoped
  /\ model' = disk.model
  /\ live' = disk.live
  /\ cfg' = disk.cfg
  /\ prep' = disk.prep
  /\ results' = disk.results
  /\ stale' = [FreshScope EXCEPT !.prep = (disk.prep = None)]
  /\ path' = TRUE
  /\ UNCHANGED <<disk, nextId>>

\* load_model of a new model: the settings are kept.
NewProject ==
  /\ nextId <= MaxEdits
  /\ nextId' = nextId + 1
  /\ ResetScoped
  /\ model' = [own |-> NewOwn({}), auto |-> NoLoads]
  /\ live' = {}
  /\ prep' = None
  /\ results' = None
  /\ stale' = FreshScope
  /\ path' = FALSE
  /\ UNCHANGED <<cfg, disk>>

----------------------------------------------------------------------------
(* Specification *)

Init ==
  /\ model = [own |-> [id |-> 1, project |-> 1, unset |-> {}], auto |-> NoLoads]
  /\ live = {}
  /\ undo = EmptyUndo
  /\ stale = FreshScope
  /\ syncHash = None
  /\ prep = None
  /\ results = None
  /\ cfg \in Settings
  /\ job = None
  /\ ack = None
  /\ pendingRun = None
  /\ pendingSave = None
  /\ path = FALSE
  /\ disk = None
  /\ nextId = 2

Next ==
  \/ \E k \in Kinds, o \in Outcomes : RequestAnalysis(k, o)
  \/ \E o \in Outcomes : ResumePending(o)
  \/ CancelPending
  \/ \E o \in Outcomes : RunPreparation(o)
  \/ \E u \in SUBSET Regions, atOnce \in BOOLEAN : Edit(u, atOnce)
  \/ UndoAction
  \/ RedoAction
  \/ \E new \in Settings : ChangeSettings(new)
  \/ \E o \in {"ok", "err", "lost"} : WorkerEnds(o)
  \/ PollJob
  \/ \E ok, large \in BOOLEAN : SaveProject(ok, large)
  \/ \E save, ok \in BOOLEAN : ResolveSave(save, ok)
  \/ OpenProject
  \/ NewProject

Spec == Init /\ [][Next]_vars

----------------------------------------------------------------------------
(* Properties *)

\* The state of the session keeps its shape.
SessionTypeOK ==
  /\ model \in Model
  /\ live \subseteq Regions
  /\ undo \in [past : Seq(Model), future : Seq(Model)]
  /\ stale \in [results : BOOLEAN, prep : BOOLEAN, unsaved : BOOLEAN]
  /\ syncHash \in [of : Model, zone : Zones] \union {None}
  /\ prep \in Prep \union {None}
  /\ results \in Bundle \union {None}
  /\ cfg \in Settings
  /\ job \in Job \union {None}
  /\ ack \in Acknowledged \union {None}
  /\ pendingRun \in Waiting \union {None}
  /\ pendingSave \in Nat \union {None}
  /\ path \in BOOLEAN
  /\ disk \in File \union {None}
  /\ nextId \in Nat

BundleOf(b, project) ==
  b # None => \A s \in Slots : b[s] # None => b[s].of.own.project = project

HistoryOf(u, project) ==
  /\ \A i \in 1 .. Len(u.past) : u.past[i].own.project = project
  /\ \A i \in 1 .. Len(u.future) : u.future[i].own.project = project

\* Swapping the model leaves nothing of the replaced one behind: results, the
\* preparation, the undo history, the running job, a dialog that waits for an
\* answer and the confirmation of unset regions all belong to the model that is
\* open, whatever was going on when it was opened (load_model, ModelScoped).  So
\* does what a file carries besides its model.
NothingForeign ==
  LET project == model.own.project
  IN /\ BundleOf(results, project)
     /\ HistoryOf(undo, project)
     /\ prep # None => prep.of.own.project = project
     /\ job # None => job.of.own.project = project
     /\ pendingRun # None => pendingRun.project = project
     /\ pendingSave # None => pendingSave = project
     /\ ack # None => ack.project = project
     /\ disk # None =>
          /\ BundleOf(disk.results, disk.model.own.project)
          /\ disk.prep # None => disk.prep.of.own.project = disk.model.own.project

\* While preparation_stale is clear, the preparation on display is that of the
\* model as it is now, however it got there (edits, undo, load
\* synchronisation that failed half-way, opening a file).
PreparationIsCurrent == ~stale.prep => prep # None /\ prep.of = model

\* Every job was given a model whose generated loads belong to its own data and
\* to the settings at its start, also when the synchronisation was skipped
\* because the hash matched (sync_auto_load_cases_action).
JobsRunOnSyncedModels ==
  job # None => job.of.auto = LoadsFor(job.of.own, job.cfg.zone)

\* Without the unsaved marker, a session with a file shows the model that is in
\* the file (Staleness::unsaved_changes), up to regions that preparation rebuilds.
\* Edits of what no calculation uses (axes, mark_non_calc_edited) and what else is
\* written beside the undo stack are outside the model.
NothingUnsavedUnmarked ==
  path /\ ~stale.unsaved => disk # None /\ disk.model = model

\* A preparation in the file is that of the model in the file, so that reading
\* it back may clear preparation_stale (save_project_to, open_project_from).
SavedPreparationIsCurrent ==
  disk # None /\ disk.prep # None => disk.prep.of = disk.model

\* A job over a model with unset plate regions runs only in a session whose
\* user confirmed unset regions of that project (unset_regions_ack).
UnsetRunsWereConfirmed == job # None /\ job.live # {} => ack # None

----------------------------------------------------------------------------
(* Claims of the documentation that the code does not meet *)

ComputedFrom(b, m) == \A s \in Slots : b[s] # None => b[s].of = m

\* Results are saved only when they are current for the model saved with them
\* (docs/model_io/01, save_project_to).
SavedResultsAreCurrent ==
  disk # None /\ disk.results # None => ComputedFrom(disk.results, disk.model)

\* The slot named for a direction holds the pushover of that direction
\* (ResultsBundle::pushover_x, pushover_y).
PushoverSlotsHoldTheirDirection ==
  results # None => \A d \in Dirs :
    results[PushSlot(d)] # None => results[PushSlot(d)].dir = d

\* A calculation over unset plate regions starts only after the user confirmed
\* that set (ADR 0020, ModelScoped::unset_regions_ack).
RunsAreConfirmed ==
  job # None /\ job.st = "running" /\ pendingRun = None =>
    job.live = {} \/ (ack # None /\ ack.unset = job.live)
============================================================================
