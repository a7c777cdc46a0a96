--------------------------- MODULE VibrationCases ---------------------------
(***************************************************************************)
(* The vibration cases of a project and the time history results behind    *)
(* them (sepika-app/src/app/vibration.rs and the actions that feed it).    *)
(* A case is part of the MODEL, its result is a slot of the RESULTS, and   *)
(* the two meet through a case number: finishing an analysis writes both,  *)
(* saving leaves the cases out of a file without results, opening drops    *)
(* the cases whose slot is missing, and undo knows nothing of either,      *)
(* except that undoing a story copy puts a whole earlier model back.       *)
(*                                                                         *)
(* There are two kinds of case, each with its own numbers: the spatial     *)
(* frame and the lumped mass model, whose eigenvalues are a result of the  *)
(* same window without being a time history.                               *)
(***************************************************************************)
EXTENDS Integers, Sequences, SequencesExt, FiniteSets

CONSTANTS Waves,       \* file names in the wave library
          Settings,    \* direction and linearity, as the settings offer them
          None,        \* an absent Option
          Sample,      \* the name of the built-in wave
          Csv,         \* a wave read from a file of the user's own
          MaxRuns,     \* bound: analyses requested
          MaxVersion,  \* bound: contents a library file goes through
          MaxTurns     \* bound: edits, undo steps, saves, changes of settings or library

Kinds == {"spatial", "lumped"}

\* What the name of a case tells, and what a run leaves: wave and setting are the truth,
\* `touched' that the label was chosen after the user had moved on.
Names == Waves \union {Sample, Csv}
Labels == [wave : Names, setting : Settings]
Results == [run : Nat, wave : Names, setting : Settings, timed : BOOLEAN, rec : BOOLEAN,
            touched : BOOLEAN]

\* A table of S by case number; the results of both kinds with the window of each.
Tables(S) == UNION {[D -> S] : D \in {N \in SUBSET Nat : IsFiniteSet(N)}}
Bundles == [Kinds -> [slots : Tables(Results), window : Results \union {None}]]

ASSUME NamesAssumption ==
  /\ None \notin Waves \union Settings /\ Sample \notin Waves /\ Csv \notin Waves
  /\ None \notin {Sample, Csv} /\ Sample # Csv
ASSUME NoneAssumption == None \notin Nat /\ None \notin Results
ASSUME VibrationBounds == MaxRuns \in Nat /\ MaxVersion \in Nat /\ MaxTurns \in Nat

VARIABLES
  cases,      \* core.model: per kind, the label of each case number
  bundle,     \* scoped.results: per kind [slots, window], or NoBundle
  view,       \* scoped.view_vibration_case and view_lumped_vibration_case
  graph,      \* time_history_data and stick_response
  stale,      \* staleness.results_stale
  settings,   \* core.analysis_cfg: per kind; survives a model swap
  selection,  \* the wave selected in the library, per kind
  sha,        \* which content of that wave was run last, per kind
  library,    \* the contents of the library's files; 0: there is no such file
  asked,      \* scoped.pending_unset_analysis
  job,        \* scoped.job: what its worker computes with
  undo,       \* scoped.undo: the cases of the models it can put back, or None
  asking,     \* scoped.pending_save_recording
  file,       \* the project file
  runs, turns,\* how many requests and turns there have been
  restored,   \* history: an undone or redone copy has replaced the cases
  requested   \* history: the library contents run or found in a file, per kind

vars == <<cases, bundle, view, graph, stale, settings, selection, sha, library,
          asked, job, undo, asking, file, runs, turns, restored, requested>>
input == <<settings, selection, sha, library>>
shown == <<cases, bundle, view, graph>>

-----------------------------------------------------------------------------
(* Results *)

\* What the run n computed.
RunResult(n, wave, setting, timed, rec, touched) ==
  [run |-> n, wave |-> wave, setting |-> setting, timed |-> timed, rec |-> rec,
   touched |-> touched]

NoSlots == <<>>
NoBundle == <<>>
EmptyBundle == [k \in Kinds |-> [slots |-> NoSlots, window |-> None]]
BundleOrEmpty == IF bundle = NoBundle THEN EmptyBundle ELSE bundle

Graph(k, r) == IF r = None \/ (k = "lumped" /\ ~r.timed) THEN None ELSE [r EXCEPT !.rec = FALSE]

Upsert(slots, id, r) == [i \in DOMAIN slots \union {id} |-> IF i = id THEN r ELSE slots[i]]
UpsertInWindow(b, k, id, r) == [b EXCEPT ![k].slots = Upsert(@, id, r), ![k].window = r]

\* next_vibration_case_id
NextId(cs) == IF DOMAIN cs = {} THEN 0 ELSE 1 + CHOOSE m \in DOMAIN cs : \A i \in DOMAIN cs : i <= m

\* upsert_vibration_case: the name of a case is its label
CaseIdOf(cs, label) ==
  IF \E i \in DOMAIN cs : cs[i] = label
  THEN CHOOSE i \in DOMAIN cs : cs[i] = label
  ELSE NextId(cs)
UpsertCase(cs, label) == Upsert(cs, CaseIdOf(cs, label), label)

\* spatial_th_wave_name, lumped_th_wave_name
WaveName(k) == IF selection[k] = None THEN Sample ELSE selection[k]
Label(wave, setting) == [wave |-> wave, setting |-> setting]

-----------------------------------------------------------------------------
(* The wave library and the settings *)

\* Faulty variant: the content run last stays beside the newly selected name
SetSelectionOnly(k, w) ==
  /\ selection' = [selection EXCEPT ![k] = w]
  /\ UNCHANGED sha
SetWaveLibrarySelection(k, w) ==
  /\ selection' = [selection EXCEPT ![k] = w]
  /\ sha' = [sha EXCEPT ![k] = IF w = selection[k] THEN @ ELSE None]

\* The drop-down stays usable while a confirmation waits or a job runs.
Touch(j, k) == IF j # None /\ j.kind = k THEN [j EXCEPT !.touched = TRUE] ELSE j

SelectWave ==
  /\ turns < MaxTurns
  /\ \E k \in Kinds, w \in Waves :
       /\ library[w] > 0 /\ w # selection[k]
       /\ SetWaveLibrarySelection(k, w)
       /\ asked' = Touch(asked, k) /\ job' = Touch(job, k)
  /\ turns' = turns + 1
  /\ UNCHANGED <<shown, stale, settings, library, undo, asking, file, runs, restored, requested>>

ChangeSettings ==
  /\ turns < MaxTurns
  /\ \E k \in Kinds, s \in Settings :
       /\ s # settings[k]
       /\ settings' = [settings EXCEPT ![k] = s]
       /\ job' = Touch(job, k)
  /\ turns' = turns + 1
  /\ UNCHANGED <<shown, stale, selection, sha, library, asked, undo, asking, file, runs,
                 restored, requested>>

\* register_wave copies a file into the library, over one of the same name
\* when the user has confirmed it.
RegisterWave ==
  /\ turns < MaxTurns /\ turns' = turns + 1
  /\ \E w \in Waves : library[w] < MaxVersion /\ library' = [library EXCEPT ![w] = @ + 1]
  /\ UNCHANGED <<shown, stale, settings, selection, sha, asked, job, undo, asking, file, runs,
                 restored, requested>>

-----------------------------------------------------------------------------
(* Running an analysis *)

NewJob(pending) ==
  [kind |-> pending.kind, wave |-> pending.wave, timed |-> pending.timed,
   touched |-> pending.touched, setting |-> settings[pending.kind], run |-> pending.run]

(* dispatch_analysis and start_..._job: nothing is started while a job runs or when
   the preparation fails. *)
Dispatch(pending) ==
  \/ job = None /\ job' = NewJob(pending)
  \/ UNCHANGED job

(* request_analysis: regions without a plate make it wait for a confirmation. *)
RequestAnalysis(k, wave, timed, misnamed) ==
  LET pending == [kind |-> k, wave |-> wave, timed |-> timed, touched |-> misnamed,
                  run |-> runs + 1] IN
  /\ job = None /\ runs < MaxRuns
  /\ runs' = runs + 1
  /\ \/ asked' = pending /\ UNCHANGED job
     \/ asked' = asked /\ Dispatch(pending)

\* The built-in wave and, for the frame, a file of the user's own.  Neither is
\* told to the case that the answer makes: it is named after the selection.
RunSample ==
  /\ \E k \in Kinds : RequestAnalysis(k, Sample, TRUE, selection[k] # None)
  /\ UNCHANGED <<shown, stale, input, undo, asking, file, turns, restored, requested>>
RunCsv ==
  /\ RequestAnalysis("spatial", Csv, TRUE, TRUE)
  /\ UNCHANGED <<shown, stale, input, undo, asking, file, turns, restored, requested>>
RunEigen ==
  /\ RequestAnalysis("lumped", Sample, FALSE, FALSE)
  /\ UNCHANGED <<shown, stale, input, undo, asking, file, turns, restored, requested>>

\* run_time_history_from_library: the content is marked as run when it is read.
RunFromLibrary ==
  /\ \E k \in Kinds :
       LET w == selection[k] IN
       /\ w # None /\ library[w] > 0
       /\ RequestAnalysis(k, w, TRUE, FALSE)
       /\ sha' = [sha EXCEPT ![k] = library[w]]
       /\ requested' = [requested EXCEPT ![k] = @ \union {<<w, library[w]>>}]
  /\ UNCHANGED <<shown, stale, settings, selection, library, undo, asking, file, turns, restored>>

\* resume_pending_analysis, cancel_pending_analysis
Resume ==
  /\ asked # None /\ asked' = None
  /\ Dispatch(asked)
  /\ UNCHANGED <<shown, stale, input, undo, asking, file, runs, turns, restored, requested>>
Cancel ==
  /\ asked # None /\ asked' = None
  /\ UNCHANGED <<shown, stale, input, job, undo, asking, file, runs, turns, restored, requested>>

(* apply_time_history_result, apply_lumped_mass_result: the case is named from what
   is selected and set when the answer arrives. *)
ShowResult(k, id, r) ==
  /\ view' = [view EXCEPT ![k] = id]
  /\ graph' = [graph EXCEPT ![k] = Graph(k, r)]

ApplyTimed(k, r) ==
  LET label == Label(WaveName(k), settings[k])
      id == CaseIdOf(cases[k], label) IN
  /\ cases' = [cases EXCEPT ![k] = UpsertCase(@, label)]
  /\ bundle' = UpsertInWindow(BundleOrEmpty, k, id, r)
  /\ ShowResult(k, id, r)
  /\ stale' = FALSE

\* Faulty variant: the case on display stays what it was
ApplyEigenKeepingView(r) ==
  /\ bundle' = [BundleOrEmpty EXCEPT !["lumped"].window = r]
  /\ graph' = [graph EXCEPT !["lumped"] = Graph("lumped", r)]
  /\ UNCHANGED <<cases, view, stale>>

(* Eigenvalues of the lumped mass model take the window and leave the cases. *)
ApplyEigen(r) ==
  /\ bundle' = [BundleOrEmpty EXCEPT !["lumped"].window = r]
  /\ ShowResult("lumped", None, r)
  /\ UNCHANGED <<cases, stale>>

ResultOfJob == RunResult(job.run, job.wave, job.setting, job.timed, job.kind = "spatial", job.touched)

JobSucceeds ==
  /\ job # None /\ job' = None
  /\ IF job.timed THEN ApplyTimed(job.kind, ResultOfJob) ELSE ApplyEigen(ResultOfJob)
  /\ UNCHANGED <<input, asked, undo, asking, file, runs, turns, restored, requested>>
JobFails ==
  /\ job # None /\ job' = None
  /\ UNCHANGED <<shown, stale, input, asked, undo, asking, file, runs, turns, restored, requested>>

(* Any other analysis: the bundle exists and counts as current. *)
OtherAnalysis ==
  /\ job = None
  /\ bundle' = BundleOrEmpty /\ stale' = FALSE
  /\ UNCHANGED <<cases, view, graph, input, asked, job, undo, asking, file, runs, turns,
                 restored, requested>>

\* focus_spatial_vibration_case, focus_lumped_vibration_case and the result tree
Focus ==
  /\ bundle # NoBundle
  /\ \E k \in Kinds : \E id \in DOMAIN bundle[k].slots :
       /\ bundle' = [bundle EXCEPT ![k].window = bundle[k].slots[id]]
       /\ ShowResult(k, id, bundle[k].slots[id])
  /\ UNCHANGED <<cases, stale, input, asked, job, undo, asking, file, runs, turns, restored, requested>>
=============================================================================
