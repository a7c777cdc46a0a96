-------------------------- MODULE VibrationProject --------------------------
(***************************************************************************)
(* The vibration cases under editing, undo, saving and opening: what the   *)
(* project file holds of them (app/actions/io.rs) and what the reader of a *)
(* file makes of it.                                                       *)
(***************************************************************************)
EXTENDS VibrationCases

-----------------------------------------------------------------------------
(* Editing.  Only a story copy (sepika-edit CopyStory) keeps the whole model to
   go back to; every other command leaves the cases alone. *)

Do(entry) ==
  /\ turns < MaxTurns /\ turns' = turns + 1
  /\ undo' = [past |-> Append(undo.past, entry), future |-> <<>>]
  /\ stale' = TRUE
  /\ UNCHANGED <<shown, input, asked, job, asking, file, runs, restored, requested>>
Edit == Do(None)
CopyStory == Do(cases)

\* The model that RestoreModel puts back brings its own cases.
CasesOf(entry) == IF entry = None THEN cases ELSE entry
AnswerTo(entry) == IF entry = None THEN None ELSE cases

Step(entry) ==
  /\ turns < MaxTurns /\ turns' = turns + 1
  /\ cases' = CasesOf(entry)
  /\ restored' = (restored \/ CasesOf(entry) # cases)
  /\ stale' = TRUE
  /\ UNCHANGED <<bundle, view, graph, input, asked, job, asking, file, runs, requested>>
Undo ==
  /\ undo.past # <<>>
  /\ undo' = [past |-> Front(undo.past), future |-> Append(undo.future, AnswerTo(Last(undo.past)))]
  /\ Step(Last(undo.past))
Redo ==
  /\ undo.future # <<>>
  /\ undo' = [past |-> Append(undo.past, AnswerTo(Last(undo.future))), future |-> Front(undo.future)]
  /\ Step(Last(undo.future))

-----------------------------------------------------------------------------
(* Saving.  The recordings are taken out of the results in memory while they are
   encoded, and put back. *)

Bare(r) == IF r = None THEN None ELSE [r EXCEPT !.rec = FALSE]
HasRecording(r) == r # None /\ r.rec
HasThRecording(b) ==
  \/ HasRecording(b["spatial"].window)
  \/ \E id \in DOMAIN b["spatial"].slots : HasRecording(b["spatial"].slots[id])

TakeThRecordings(b) ==
  [bundle |-> [b EXCEPT !["spatial"] =
                 [slots |-> [id \in DOMAIN @.slots |-> Bare(@.slots[id])], window |-> Bare(@.window)]],
   window |-> HasRecording(b["spatial"].window),
   slots  |-> {id \in DOMAIN b["spatial"].slots : HasRecording(b["spatial"].slots[id])}]

\* Faulty variant: only the recordings of the cases come back
RestoreSlotRecordings(taken) ==
  [taken.bundle EXCEPT !["spatial"].slots =
     [id \in DOMAIN @ |-> [@[id] EXCEPT !.rec = id \in taken.slots]]]
RestoreThRecordings(taken) ==
  [taken.bundle EXCEPT !["spatial"] =
     [slots  |-> [id \in DOMAIN @.slots |-> [@.slots[id] EXCEPT !.rec = id \in taken.slots]],
      window |-> IF taken.window THEN [@.window EXCEPT !.rec = TRUE] ELSE @.window]]

PersistResults == bundle # NoBundle /\ ~stale
NoCases == [k \in Kinds |-> <<>>]

(* save_project_to_opts once it is decided what becomes of the recordings.  The
   results may fail to encode: then the model is saved all the same. *)
Write(exclude) ==
  LET taken == TakeThRecordings(bundle)
      held == IF exclude /\ bundle # NoBundle THEN taken.bundle ELSE bundle
      saved == IF PersistResults THEN [bundle |-> held, view |-> view] ELSE None IN
  /\ bundle' = IF exclude /\ bundle # NoBundle THEN RestoreThRecordings(taken) ELSE bundle
  /\ \/ \E results \in {saved, None} :
          file' = [results |-> results, cases |-> IF PersistResults THEN cases ELSE NoCases,
                   settings |-> settings, selection |-> selection, sha |-> sha,
                   restored |-> restored]
     \/ UNCHANGED file
  /\ UNCHANGED <<cases, view, graph, stale, input, asked, job, undo, runs, restored, requested>>

Save ==
  /\ turns < MaxTurns /\ turns' = turns + 1
  /\ \/ ~asking /\ Write(FALSE) /\ UNCHANGED asking
     \/ /\ ~asking /\ PersistResults /\ HasThRecording(bundle)   \* and it is large
        /\ asking' = TRUE
        /\ UNCHANGED <<shown, stale, input, asked, job, undo, file, runs, restored, requested>>

\* resolve_pending_save_recording
ResolveSave ==
  /\ asking /\ asking' = FALSE /\ UNCHANGED turns
  /\ \/ \E exclude \in BOOLEAN : Write(exclude)
     \/ UNCHANGED <<shown, stale, input, asked, job, undo, file, runs, restored, requested>>

-----------------------------------------------------------------------------
(* Opening *)

\* restore_wave_library_selection: a name that the library no longer has is dropped.
Found(f, k) == f.selection[k] # None /\ library[f.selection[k]] > 0
RestoredSelection(f) == [k \in Kinds |-> IF Found(f, k) THEN f.selection[k] ELSE None]
RestoredSha(f) == [k \in Kinds |-> IF Found(f, k) THEN f.sha[k] ELSE None]

\* migrate_legacy_time_history, migrate_legacy_lumped: a file of before the cases has a
\* window and no slots; its case is named from the settings that came with it.  (Slots
\* without a window, vibration.rs:351-357, are in no file that the program has written:
\* an answer fills both, and the window is never emptied.)
Migrated(f, k) ==
  LET b == f.results.bundle[k]
      sel == RestoredSelection(f)[k]
      label == Label(IF sel = None THEN Sample ELSE sel, f.settings[k]) IN
  IF b.slots # NoSlots \/ b.window = None \/ ~b.window.timed
  THEN [cases |-> f.cases[k], slots |-> b.slots]
  ELSE [cases |-> UpsertCase(f.cases[k], label),
        slots |-> Upsert(NoSlots, CaseIdOf(f.cases[k], label), b.window)]

\* hydrate_saved_vibration_views
Hydrated(f, k) ==
  LET slots == Migrated(f, k).slots
      shows == f.results.view[k] \in DOMAIN slots
      window == IF shows THEN slots[f.results.view[k]] ELSE f.results.bundle[k].window IN
  [slots |-> slots, window |-> window, view |-> IF shows THEN f.results.view[k] ELSE None,
   graph |-> Graph(k, window)]

\* Faulty variant: cases without a slot are left in the model
OpenedUnpruned(f) ==
  IF f.results = None
  THEN [cases |-> f.cases, bundle |-> NoBundle, view |-> [k \in Kinds |-> None],
        graph |-> [k \in Kinds |-> None]]
  ELSE LET h == [k \in Kinds |-> Hydrated(f, k)] IN
       [cases |-> [k \in Kinds |-> Migrated(f, k).cases],
        bundle |-> [k \in Kinds |-> [slots |-> h[k].slots, window |-> h[k].window]],
        view |-> [k \in Kinds |-> h[k].view], graph |-> [k \in Kinds |-> h[k].graph]]
\* open_project_from: what the session is after reading f, with the cases that have no
\* slot pruned
Opened(f) ==
  IF f.results = None
  THEN [cases |-> NoCases, bundle |-> NoBundle, view |-> [k \in Kinds |-> None],
        graph |-> [k \in Kinds |-> None]]
  ELSE LET h == [k \in Kinds |-> Hydrated(f, k)] IN
       [cases |-> [k \in Kinds |->
                     Restrict(Migrated(f, k).cases, DOMAIN Migrated(f, k).cases \cap DOMAIN h[k].slots)],
        bundle |-> [k \in Kinds |-> [slots |-> h[k].slots, window |-> h[k].window]],
        view |-> [k \in Kinds |-> h[k].view], graph |-> [k \in Kinds |-> h[k].graph]]

NoUndo == [past |-> <<>>, future |-> <<>>]

Open ==
  /\ file # None
  /\ LET o == Opened(file) IN
     /\ cases' = o.cases /\ bundle' = o.bundle /\ view' = o.view /\ graph' = o.graph
  /\ settings' = file.settings
  /\ selection' = RestoredSelection(file) /\ sha' = RestoredSha(file)
  /\ stale' = FALSE /\ undo' = NoUndo
  /\ job' = None /\ asked' = None /\ asking' = FALSE
  /\ restored' = file.restored
  /\ UNCHANGED <<library, file, runs, turns, requested>>

\* Files of the library are removed outside the application.
DeleteWave ==
  /\ turns < MaxTurns /\ turns' = turns + 1
  /\ \E w \in Waves : library[w] > 0 /\ library' = [library EXCEPT ![w] = 0]
  /\ UNCHANGED <<shown, stale, settings, selection, sha, asked, job, undo, asking, file, runs,
                 restored, requested>>

-----------------------------------------------------------------------------
\* A project saved before there were cases: results of both kinds, no slots.
LegacyFile(s) ==
  [results |-> [bundle |-> [k \in Kinds |->
                   [slots |-> NoSlots,
                    window |-> RunResult(0, Sample, s, TRUE, k = "spatial", TRUE)]],
                view |-> [k \in Kinds |-> None]],
   cases |-> NoCases, settings |-> [k \in Kinds |-> s],
   selection |-> [k \in Kinds |-> None], sha |-> [k \in Kinds |-> None], restored |-> FALSE]

Init ==
  /\ cases = NoCases /\ bundle = NoBundle
  /\ view = [k \in Kinds |-> None] /\ graph = [k \in Kinds |-> None]
  /\ stale = FALSE
  /\ \E s \in Settings : settings = [k \in Kinds |-> s] /\ file \in {None, LegacyFile(s)}
  /\ selection = [k \in Kinds |-> None] /\ sha = [k \in Kinds |-> None]
  /\ library = [w \in Waves |-> 1]
  /\ asked = None /\ job = None /\ undo = NoUndo /\ asking = FALSE
  /\ runs = 0 /\ turns = 0
  /\ restored = FALSE /\ requested = [k \in Kinds |-> {}]

Next ==
  \/ SelectWave \/ ChangeSettings \/ RegisterWave \/ DeleteWave
  \/ RunSample \/ RunCsv \/ RunEigen \/ RunFromLibrary \/ Resume \/ Cancel
  \/ JobSucceeds \/ JobFails \/ OtherAnalysis \/ Focus
  \/ Edit \/ CopyStory \/ Undo \/ Redo
  \/ Save \/ ResolveSave \/ Open

Spec == Init /\ [][Next]_vars

-----------------------------------------------------------------------------
(* Properties *)

SlotsOf(b, k) == IF b = NoBundle THEN NoSlots ELSE b[k].slots

(* The case on display, its slot, the window that every graph is drawn from and the
   graph data are the same run, recordings included, whatever ran, was saved or was
   opened in between. *)
ViewShowsItsCase ==
  \A k \in Kinds :
    /\ view[k] # None => /\ view[k] \in DOMAIN SlotsOf(bundle, k)
                         /\ bundle[k].window = bundle[k].slots[view[k]]
    /\ graph[k] = IF bundle = NoBundle THEN None ELSE Graph(k, bundle[k].window)

(* A vibration case and its result come and go together
   (docs/preparation/11: a case is one half of a pair with a time history result). *)
CasesPairWithResults ==
  \A k \in Kinds : DOMAIN cases[k] = DOMAIN SlotsOf(bundle, k)

(* As long as no story copy has been undone or redone over them, cases and results
   are pairs, and a case has the name of the run it shows, unless the user moved on
   while the run was under way or ran a wave that the library does not know (the
   built-in one or a file, beside a selected wave of the library as well). *)
CasesNameTheirRuns ==
  ~restored =>
    /\ CasesPairWithResults
    /\ \A k \in Kinds : \A id \in DOMAIN cases[k] :
         LET r == bundle[k].slots[id] IN
         r.touched \/ cases[k][id] = Label(r.wave, r.setting)

(* The content hash beside a selected wave is of a content of THAT wave that the user
   asked to run: it is what a project file offers to check the library against. *)
HashNamesARun ==
  \A k \in Kinds : sha[k] # None => <<selection[k], sha[k]>> \in requested[k]

(* Saving changes nothing in memory, and opening the file gives back every case with
   its result and the case on display, with all the recordings or with none; a file
   without results has no cases. *)
SavedRoundTrip ==
  [][file' # file /\ file' # None =>
       LET o == Opened(file') IN
       /\ UNCHANGED shown
       /\ IF file'.results = None THEN o.cases = NoCases
          ELSE /\ \A k \in Kinds :
                    /\ o.cases[k] = Restrict(cases[k], DOMAIN cases[k] \cap DOMAIN bundle[k].slots)
                    /\ o.view[k] = view[k] /\ o.graph[k] = graph[k]
               /\ o.bundle \in {bundle, TakeThRecordings(bundle).bundle}]_vars
=============================================================================
