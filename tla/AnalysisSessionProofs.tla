------------------------ MODULE AnalysisSessionProofs ------------------------
(* Proofs about AnalysisSession, for every set of regions, directions and     *)
(* settings and without the bounds that TLC needs.                            *)
EXTENDS AnalysisSession, TLAPS, SequenceTheorems

Undo == [past : Seq(Model), future : Seq(Model)]
Stale == [results : BOOLEAN, prep : BOOLEAN, unsaved : BOOLEAN]

----------------------------------------------------------------------------
(* Operators *)

\* Running a command keeps the history a pair of sequences of models.
LEMMA RunCommandTyped ==
  ASSUME NEW u \in Undo, NEW from \in Model, NEW to \in Model
  PROVE  RunCommand(u, from, to) \in Undo
<1>1. Append(u.past, from) \in Seq(Model)
  BY AppendProperties DEF Undo
<1>2. <<>> \in Seq(Model)
  OBVIOUS
<1> QED
  BY <1>1, <1>2 DEF RunCommand, Undo

\* Removing a result from a bundle leaves a bundle.
LEMMA InvalidateTyped ==
  ASSUME NEW b \in Bundle \union {None}, NEW slot
  PROVE  Invalidate(b, slot) \in Bundle \union {None}
BY DEF Invalidate, Bundle

LEMMA DropTargetsTyped ==
  ASSUME NEW b \in Bundle \union {None}, NEW k
  PROVE  DropTargets(k, b) \in Bundle \union {None}
BY InvalidateTyped DEF DropTargets

\* Storing a result gives a bundle.
LEMMA StoreTyped ==
  ASSUME NEW b \in Bundle \union {None}, NEW slot, NEW r \in Result
  PROVE  Store(b, slot, r) \in Bundle \union {None}
BY DEF Store, Bundle, EmptyBundle

\* Synchronising a model gives a model.
LEMMA SyncedTyped ==
  ASSUME NEW m \in Model, NEW zone \in Zones
  PROVE  /\ Synced(m, zone) \in Model
         /\ [m EXCEPT !.auto = NoLoads] \in Model
BY DEF Synced, LoadsFor, Model, AutoLoads, Own, NoLoads

\* The preparation keeps the types of all it writes.
LEMMA PrepareTyped ==
  ASSUME SessionTypeOK, NEW o \in Outcomes, NEW k, Prepare(o, k)
  PROVE  /\ model' \in Model
         /\ live' \in SUBSET Regions
         /\ undo' \in Undo
         /\ stale' \in Stale
         /\ syncHash' \in [of : Model, zone : Zones] \union {None}
         /\ prep' \in Prep \union {None}
         /\ results' \in Bundle \union {None}
<1>1. model \in Model /\ cfg \in Settings /\ undo \in Undo /\ stale \in Stale
      /\ cfg.zone \in Zones
  BY DEF SessionTypeOK, Undo, Stale, Settings
<1>2. SyncLoads(o)
  BY DEF Prepare
<1>3. model' \in Model
  BY <1>1, <1>2, SyncedTyped DEF SyncLoads, Outcomes
<1>4. live' \in SUBSET Regions
  BY <1>1, <1>2 DEF SyncLoads, Model, Own
<1>5. undo' \in Undo
  BY <1>1, <1>2, <1>3, RunCommandTyped DEF SyncLoads
<1>6. syncHash' \in [of : Model, zone : Zones] \union {None}
  <2>1. HashAfterSync(model, cfg.zone, Synced(model, cfg.zone)) \in [of : Model, zone : Zones]
    BY <1>1, SyncedTyped DEF HashAfterSync
  <2>2. syncHash \in [of : Model, zone : Zones] \union {None}
    BY DEF SessionTypeOK
  <2> QED
    BY <1>2, <2>1, <2>2 DEF SyncLoads
<1>7. prep' \in Prep \union {None}
  BY <1>1, <1>3 DEF Prepare, Prep, SessionTypeOK
<1>8. stale' \in Stale
  <2>1. AllStale \in Stale
    BY DEF AllStale, Stale
  <2>2. \A s \in Stale : [s EXCEPT !.prep = FALSE] \in Stale
    BY DEF Stale
  <2>3. (IF model' = model THEN stale ELSE MarkEdited(stale)) \in Stale
    BY <1>1, <2>1 DEF MarkEdited
  <2> QED
    BY <2>2, <2>3 DEF Prepare
<1>9. results' \in Bundle \union {None}
  <2>1. results \in Bundle \union {None}
    BY DEF SessionTypeOK
  <2> QED
    BY <2>1, InvalidateTyped, DropTargetsTyped DEF Prepare
<1> QED
  BY <1>3, <1>4, <1>5, <1>6, <1>7, <1>8, <1>9

\* A spawned job is a job.
LEMMA SpawnTyped ==
  ASSUME NEW k \in Kinds, Spawn(k), model' \in Model, live' \in SUBSET Regions,
         cfg \in Settings
  PROVE  job' \in Job
BY DEF Spawn, Job

----------------------------------------------------------------------------
(* Type correctness *)

\* The session starts well typed.
LEMMA InitTyped == Init => SessionTypeOK
<1> SUFFICES ASSUME Init PROVE SessionTypeOK
  OBVIOUS
<1>1. model \in Model
  BY DEF Init, Model, Own, AutoLoads, NoLoads
<1>2. <<>> \in Seq(Model)
  OBVIOUS
<1>3. undo \in [past : Seq(Model), future : Seq(Model)]
  BY <1>2 DEF Init, EmptyUndo
<1> QED
  BY <1>1, <1>3 DEF Init, SessionTypeOK, FreshScope

\* Starting a job keeps the types of all it writes.
LEMMA StartJobTyped ==
  ASSUME SessionTypeOK, NEW k \in Kinds, NEW o \in Outcomes, StartJob(k, o)
  PROVE  /\ model' \in Model
         /\ live' \in SUBSET Regions
         /\ undo' \in Undo
         /\ stale' \in Stale
         /\ syncHash' \in [of : Model, zone : Zones] \union {None}
         /\ prep' \in Prep \union {None}
         /\ results' \in Bundle \union {None}
         /\ job' \in Job \union {None}
<1>1. CASE job # None
  BY <1>1 DEF StartJob, SessionTypeOK, Undo, Stale
<1>2. CASE job = None
  <2>1. Prepare(o, k)
    BY <1>2 DEF StartJob
  <2>2. job' \in Job \union {None}
    BY <1>2, <2>1, PrepareTyped, SpawnTyped DEF StartJob, SessionTypeOK
  <2> QED
    BY <2>1, <2>2, PrepareTyped
<1> QED
  BY <1>1, <1>2

\* Writing the file keeps the types of what it writes.
LEMMA WriteFileTyped ==
  ASSUME SessionTypeOK, NEW ok, WriteFile(ok)
  PROVE  /\ disk' \in File \union {None}
         /\ path' \in BOOLEAN
         /\ stale' \in Stale
<1>1. Saved \in File
  BY DEF Saved, SaveResults, File, SessionTypeOK
<1>2. [stale EXCEPT !.unsaved = FALSE] \in Stale
  BY DEF SessionTypeOK, Stale
<1>3. stale \in Stale
  BY DEF SessionTypeOK, Stale
<1> QED
  BY <1>1, <1>2, <1>3 DEF WriteFile, SessionTypeOK

\* Applying a result keeps the types of the bundle and of the flags.
LEMMA ApplyTyped ==
  ASSUME SessionTypeOK, job \in Job, ApplyResult
  PROVE  results' \in Bundle \union {None} /\ stale' \in Stale
<1> DEFINE r == [of |-> job.of, dir |-> job.cfg.dir]
<1>1. r \in Result /\ job.kind \in JobKinds
  BY KindsAssumption DEF Result, Job, Settings
<1>2. stale \in Stale /\ MarkFresh(stale) \in Stale
  BY DEF SessionTypeOK, Stale, MarkFresh
<1>3. \A slot : Store(results, slot, r) \in Bundle \union {None}
  BY <1>1, StoreTyped DEF SessionTypeOK
<1> QED
  BY <1>1, <1>2, <1>3 DEF ApplyResult, JobKinds

\* Every step keeps the types.
LEMMA NextTyped == SessionTypeOK /\ [Next]_vars => SessionTypeOK'
<1> SUFFICES ASSUME SessionTypeOK, [Next]_vars PROVE SessionTypeOK'
  OBVIOUS
<1> USE DEF scopedRest
<1>1. ASSUME NEW k \in Kinds, NEW o \in Outcomes, RequestAnalysis(k, o)
      PROVE  SessionTypeOK'
  <2>1. Prepare(o, k)
    BY <1>1 DEF RequestAnalysis
  <2>2. job' \in Job \union {None}
    BY <1>1, <2>1, PrepareTyped, SpawnTyped DEF RequestAnalysis, SessionTypeOK
  <2>3. pendingRun' \in Waiting \union {None}
    <3>1. model'.own.project \in Nat
      BY <2>1, PrepareTyped DEF Model, Own
    <3> QED
      BY <1>1, <3>1 DEF RequestAnalysis, Waiting, SessionTypeOK
  <2> QED
    BY <1>1, <2>1, <2>2, <2>3, PrepareTyped DEF RequestAnalysis, SessionTypeOK, Undo, Stale
<1>2. ASSUME NEW o \in Outcomes, ResumePending(o) PROVE SessionTypeOK'
  <2>1. pendingRun.kind \in Kinds /\ StartJob(pendingRun.kind, o)
    BY <1>2 DEF ResumePending, SessionTypeOK, Waiting
  <2>2. ack' \in Acknowledged
    BY <1>2 DEF ResumePending, SessionTypeOK, Model, Own, Acknowledged
  <2> QED
    BY <1>2, <2>1, <2>2, StartJobTyped DEF ResumePending, SessionTypeOK, Undo, Stale
<1>3. CASE CancelPending
  BY <1>3 DEF CancelPending, SessionTypeOK
<1>4. ASSUME NEW o \in Outcomes, RunPreparation(o) PROVE SessionTypeOK'
  BY <1>4, PrepareTyped DEF RunPreparation, SessionTypeOK, Undo, Stale
<1>5. ASSUME NEW u \in SUBSET Regions, NEW atOnce \in BOOLEAN, Edit(u, atOnce)
      PROVE  SessionTypeOK'
  <2>1. [model EXCEPT !.own = EditedOwn(u)] \in Model
    BY DEF SessionTypeOK, EditedOwn, Model, Own
  <2>2. undo' \in Undo
    BY <1>5, <2>1, RunCommandTyped DEF Edit, SessionTypeOK, Undo
  <2> QED
    BY <1>5, <2>1, <2>2 DEF Edit, SessionTypeOK, Undo, MarkEdited, AllStale
<1>6. CASE UndoAction
  <2>1. Last(undo.past) \in Model /\ Front(undo.past) \in Seq(Model)
    BY <1>6, SubSeqProperties DEF UndoAction, SessionTypeOK, Last, Front
  <2>2. Append(undo.future, model) \in Seq(Model)
    BY DEF SessionTypeOK
  <2>3. live' \in SUBSET Regions
    BY <1>6, <2>1 DEF UndoAction, SessionTypeOK, Model, Own
  <2> QED
    BY <1>6, <2>1, <2>2, <2>3 DEF UndoAction, SessionTypeOK, MarkEdited, AllStale
<1>7. CASE RedoAction
  <2>1. Last(undo.future) \in Model /\ Front(undo.future) \in Seq(Model)
    BY <1>7, SubSeqProperties DEF RedoAction, SessionTypeOK, Last, Front
  <2>2. Append(undo.past, model) \in Seq(Model)
    BY DEF SessionTypeOK
  <2>3. live' \in SUBSET Regions
    BY <1>7, <2>1 DEF RedoAction, SessionTypeOK, Model, Own
  <2> QED
    BY <1>7, <2>1, <2>2, <2>3 DEF RedoAction, SessionTypeOK, MarkEdited, AllStale
<1>8. ASSUME NEW new \in Settings, ChangeSettings(new) PROVE SessionTypeOK'
  BY <1>8 DEF ChangeSettings, SessionTypeOK
<1>9. ASSUME NEW o \in {"ok", "err", "lost"}, WorkerEnds(o) PROVE SessionTypeOK'
  <2>1. job' \in Job
    BY <1>9 DEF WorkerEnds, SessionTypeOK, Job
  <2> QED
    BY <1>9, <2>1 DEF WorkerEnds, SessionTypeOK
<1>10. CASE PollJob
  <2>1. job \in Job /\ job.st \in {"ok", "err", "lost"}
    BY <1>10 DEF PollJob, SessionTypeOK, Job
  <2>2. results' \in Bundle \union {None} /\ stale' \in Stale
    <3>1. CASE job.st = "ok"
      BY <1>10, <2>1, <3>1, ApplyTyped DEF PollJob
    <3>2. CASE job.st = "err"
      BY <1>10, <2>1, <3>2, DropTargetsTyped DEF PollJob, SessionTypeOK, Stale
    <3>3. CASE job.st = "lost"
      BY <1>10, <2>1, <3>3 DEF PollJob, SessionTypeOK, Stale
    <3> QED
      BY <2>1, <3>1, <3>2, <3>3
  <2> QED
    BY <1>10, <2>2 DEF PollJob, SessionTypeOK, Stale
<1>11. ASSUME NEW ok \in BOOLEAN, NEW large \in BOOLEAN, SaveProject(ok, large)
       PROVE  SessionTypeOK'
  <2>1. CASE SaveResults /\ large
    BY <1>11, <2>1 DEF SaveProject, SessionTypeOK, Model, Own
  <2>2. CASE ~(SaveResults /\ large)
    <3>1. WriteFile(ok) /\ pendingSave' = pendingSave
      BY <1>11, <2>2 DEF SaveProject
    <3> QED
      BY <3>1, WriteFileTyped DEF WriteFile, SessionTypeOK, Stale
  <2> QED
    BY <2>1, <2>2
<1>12. ASSUME NEW save \in BOOLEAN, NEW ok \in BOOLEAN, ResolveSave(save, ok)
       PROVE  SessionTypeOK'
  <2>1. CASE save
    <3>1. WriteFile(ok) /\ pendingSave' = None
      BY <1>12, <2>1 DEF ResolveSave
    <3> QED
      BY <3>1, WriteFileTyped DEF WriteFile, SessionTypeOK, Stale
  <2>2. CASE ~save
    BY <1>12, <2>2 DEF ResolveSave, SessionTypeOK
  <2> QED
    BY <2>1, <2>2
<1>13. CASE OpenProject
  <2>1. disk \in File
    BY <1>13 DEF OpenProject, SessionTypeOK
  <2>2. stale' \in Stale
    BY <1>13 DEF OpenProject, FreshScope, Stale
  <2>3. undo' \in Undo
    BY <1>13 DEF OpenProject, ResetScoped, EmptyUndo, Undo
  <2> QED
    BY <1>13, <2>1, <2>2, <2>3
    DEF OpenProject, ResetScoped, SessionTypeOK, File, Stale, Undo
<1>14. CASE NewProject
  <2>1. model' \in Model
    BY <1>14 DEF NewProject, NewOwn, NoLoads, Model, Own, AutoLoads, SessionTypeOK
  <2>2. undo' \in Undo
    BY <1>14 DEF NewProject, ResetScoped, EmptyUndo, Undo
  <2>3. stale' \in Stale
    BY <1>14 DEF NewProject, FreshScope, Stale
  <2>4. nextId' \in Nat
    BY <1>14 DEF NewProject, SessionTypeOK
  <2>5. /\ live' \subseteq Regions /\ pendingSave' = None /\ path' \in BOOLEAN
        /\ syncHash' = None /\ prep' = None /\ results' = None /\ job' = None
        /\ ack' = None /\ pendingRun' = None /\ cfg' = cfg /\ disk' = disk
    BY <1>14 DEF NewProject, ResetScoped
  <2> QED
    BY <2>1, <2>2, <2>3, <2>4, <2>5 DEF SessionTypeOK, Stale, Undo
<1>15. CASE UNCHANGED vars
  BY <1>15 DEF vars, SessionTypeOK
<1> QED
  BY <1>1, <1>2, <1>3, <1>4, <1>5, <1>6, <1>7, <1>8, <1>9, <1>10, <1>11,
     <1>12, <1>13, <1>14, <1>15 DEF Next

\* The session keeps its types in every reachable state.
THEOREM SessionTypeCorrect == Spec => []SessionTypeOK
BY InitTyped, NextTyped, PTL DEF Spec

----------------------------------------------------------------------------
(* Nothing of a replaced project survives *)

OfProject(s, project) == \A i \in 1 .. Len(s) : s[i].own.project = project

\* One more model of the project at the end of a history.
LEMMA AppendOfProject ==
  ASSUME NEW s \in Seq(Model), NEW m \in Model, NEW project,
         OfProject(s, project), m.own.project = project
  PROVE  OfProject(Append(s, m), project)
BY AppendProperties DEF OfProject

\* A history without its last model, and that model.
LEMMA FrontOfProject ==
  ASSUME NEW s \in Seq(Model), s # <<>>, NEW project, OfProject(s, project)
  PROVE  /\ OfProject(Front(s), project)
         /\ Last(s).own.project = project
<1>1. PICK n \in Nat : Len(s) = n + 1
  <2>1. Len(s) \in Nat /\ Len(s) # 0
    BY EmptySeq, LenProperties
  <2> WITNESS Len(s) - 1 \in Nat
  <2> QED
    BY <2>1
<1>2. Len(s) - 1 = n
  BY <1>1
<1>3. \A i \in 1 .. n : s[i] \in Model
  BY <1>1, ElementOfSeq
<1>4. PICK t : t = SubSeq(s, 1, n)
  OBVIOUS
<1>5. /\ Len(t) = IF 1 <= n THEN n - 1 + 1 ELSE 0
      /\ \A i \in 1 .. n - 1 + 1 : t[i] = s[1 + i - 1]
  BY <1>3, <1>4, SubSeqProperties
<1>6. Len(t) = n /\ \A i \in 1 .. n : t[i] = s[i]
  BY <1>5
<1>7. Front(s) = t /\ Last(s) = s[n + 1]
  BY <1>1, <1>2, <1>4 DEF Front, Last
<1> QED
  BY <1>1, <1>6, <1>7 DEF OfProject

\* Recording a command keeps the history in the project.
LEMMA RunCommandOfProject ==
  ASSUME NEW u \in Undo, NEW from \in Model, NEW to \in Model, NEW project,
         HistoryOf(u, project), from.own.project = project
  PROVE  HistoryOf(RunCommand(u, from, to), project)
<1>1. OfProject(u.past, project) /\ u.past \in Seq(Model)
  BY DEF HistoryOf, OfProject, Undo
<1>2. OfProject(Append(u.past, from), project)
  BY <1>1, AppendOfProject
<1>3. OfProject(<<>>, project)
  BY DEF OfProject
<1> QED
  BY <1>2, <1>3 DEF RunCommand, HistoryOf, OfProject

\* Dropping results keeps the bundle in the project.
LEMMA DropOfProject ==
  ASSUME NEW b \in Bundle \union {None}, NEW k, NEW project, BundleOf(b, project)
  PROVE  /\ BundleOf(DropTargets(k, b), project)
         /\ BundleOf(Invalidate(b, "static"), project)
BY DEF DropTargets, Invalidate, BundleOf, Bundle, Slots

\* The preparation keeps the user's data, and so the project.
LEMMA PrepareOfProject ==
  ASSUME SessionTypeOK, NothingForeign, NEW o \in Outcomes, NEW k, Prepare(o, k)
  PROVE  /\ model'.own = model.own
         /\ BundleOf(results', model.own.project)
         /\ HistoryOf(undo', model.own.project)
         /\ prep' # None => prep'.of.own.project = model.own.project
<1> DEFINE project == model.own.project
<1>1. SyncLoads(o)
  BY DEF Prepare
<1>2. model \in Model /\ undo \in Undo /\ model' \in Model
  BY PrepareTyped DEF SessionTypeOK, Undo
<1>3. model'.own = model.own
  <2>1. /\ Synced(model, cfg.zone).own = model.own
        /\ [model EXCEPT !.auto = NoLoads].own = model.own
    BY <1>2 DEF Synced, Model
  <2> QED
    BY <1>1, <2>1 DEF SyncLoads, Outcomes
<1>4. HistoryOf(undo', project)
  BY <1>1, <1>2, RunCommandOfProject DEF SyncLoads, NothingForeign
<1>5. BundleOf(results', project)
  <2>1. results \in Bundle \union {None} /\ BundleOf(results, project)
    BY DEF SessionTypeOK, NothingForeign
  <2> DEFINE kept == IF o = "removed" THEN Invalidate(results, "static") ELSE results
  <2>2. kept \in Bundle \union {None} /\ BundleOf(kept, project)
    BY <2>1, InvalidateTyped, DropOfProject
  <2>3. BundleOf(DropTargets(k, kept), project)
    BY <2>2, DropOfProject
  <2> QED
    BY <2>1, <2>3 DEF Prepare
<1>6. prep' # None => prep'.of.own.project = project
  BY <1>3 DEF Prepare, NothingForeign
<1> QED
  BY <1>3, <1>4, <1>5, <1>6

\* Storing a result of the project keeps the bundle in the project.
LEMMA StoreOfProject ==
  ASSUME NEW b \in Bundle \union {None}, NEW slot, NEW r \in Result, NEW project,
         BundleOf(b, project), r.of.own.project = project
  PROVE  BundleOf(Store(b, slot, r), project)
BY DEF Store, BundleOf, Bundle, EmptyBundle, Slots

\* Every step keeps everything of one project.
LEMMA ForeignStep ==
  SessionTypeOK /\ NothingForeign /\ [Next]_vars => NothingForeign'
<1> SUFFICES ASSUME SessionTypeOK, NothingForeign, [Next]_vars
             PROVE  NothingForeign'
  OBVIOUS
<1> USE DEF scopedRest
<1>p. ASSUME NEW k, NEW o \in Outcomes, Prepare(o, k), disk' = disk,
             job' # None => (job' = job \/ (job'.of = model')),
             pendingRun' \in {pendingRun, None} \/ pendingRun'.project = model'.own.project,
             pendingSave' = pendingSave,
             ack' = ack \/ ack'.project = model'.own.project
      PROVE  NothingForeign'
  <2>1. /\ model'.own = model.own
        /\ BundleOf(results', model.own.project)
        /\ HistoryOf(undo', model.own.project)
        /\ prep' # None => prep'.of.own.project = model.own.project
    BY <1>p, PrepareOfProject
  <2>2. job' # None => job'.of.own.project = model.own.project
    BY <1>p, <2>1 DEF NothingForeign
  <2> QED
    BY <1>p, <2>1, <2>2 DEF NothingForeign
<1>1. ASSUME NEW k \in Kinds, NEW o \in Outcomes, RequestAnalysis(k, o)
      PROVE  NothingForeign'
  BY <1>1, <1>p DEF RequestAnalysis, Spawn
<1>2. ASSUME NEW o \in Outcomes, ResumePending(o) PROVE NothingForeign'
  <2>1. CASE job # None
    BY <1>2, <2>1 DEF ResumePending, StartJob, NothingForeign
  <2>2. CASE job = None
    <3>1. Prepare(o, pendingRun.kind) /\ disk' = disk
          /\ (job' = job \/ Spawn(pendingRun.kind))
      BY <1>2, <2>2 DEF ResumePending, StartJob
    <3>2. ack'.project = model'.own.project /\ pendingRun' = None /\ pendingSave' = pendingSave
      BY <1>2, <3>1, PrepareOfProject DEF ResumePending
    <3> QED
      BY <3>1, <3>2, <1>p DEF Spawn
  <2> QED
    BY <2>1, <2>2
<1>3. CASE CancelPending
  BY <1>3 DEF CancelPending, NothingForeign
<1>4. ASSUME NEW o \in Outcomes, RunPreparation(o) PROVE NothingForeign'
  BY <1>4, <1>p DEF RunPreparation
<1>5. ASSUME NEW u \in SUBSET Regions, NEW atOnce \in BOOLEAN, Edit(u, atOnce)
      PROVE  NothingForeign'
  <2>1. [model EXCEPT !.own = EditedOwn(u)] \in Model
        /\ model \in Model /\ undo \in Undo
    BY DEF SessionTypeOK, EditedOwn, Model, Own, Undo
  <2>2. model'.own.project = model.own.project
    BY <1>5, <2>1 DEF Edit, EditedOwn, Model
  <2>3. HistoryOf(undo', model.own.project)
    BY <1>5, <2>1, RunCommandOfProject DEF Edit, NothingForeign
  <2> QED
    BY <1>5, <2>2, <2>3 DEF Edit, NothingForeign
<1>6. CASE UndoAction
  <2>1. undo.past \in Seq(Model) /\ undo.future \in Seq(Model) /\ model \in Model
        /\ undo.past # <<>>
    BY <1>6 DEF SessionTypeOK, UndoAction
  <2>2. OfProject(undo.past, model.own.project) /\ OfProject(undo.future, model.own.project)
    BY DEF NothingForeign, HistoryOf, OfProject
  <2>3. OfProject(Front(undo.past), model.own.project)
        /\ Last(undo.past).own.project = model.own.project
    BY <2>1, <2>2, FrontOfProject
  <2>4. OfProject(Append(undo.future, model), model.own.project)
    BY <2>1, <2>2, AppendOfProject
  <2>5. HistoryOf(undo', model.own.project)
    BY <1>6, <2>3, <2>4 DEF UndoAction, HistoryOf, OfProject
  <2> QED
    BY <1>6, <2>3, <2>5 DEF UndoAction, NothingForeign
<1>7. CASE RedoAction
  <2>1. undo.past \in Seq(Model) /\ undo.future \in Seq(Model) /\ model \in Model
        /\ undo.future # <<>>
    BY <1>7 DEF SessionTypeOK, RedoAction
  <2>2. OfProject(undo.past, model.own.project) /\ OfProject(undo.future, model.own.project)
    BY DEF NothingForeign, HistoryOf, OfProject
  <2>3. OfProject(Front(undo.future), model.own.project)
        /\ Last(undo.future).own.project = model.own.project
    BY <2>1, <2>2, FrontOfProject
  <2>4. OfProject(Append(undo.past, model), model.own.project)
    BY <2>1, <2>2, AppendOfProject
  <2>5. HistoryOf(undo', model.own.project)
    BY <1>7, <2>3, <2>4 DEF RedoAction, HistoryOf, OfProject
  <2> QED
    BY <1>7, <2>3, <2>5 DEF RedoAction, NothingForeign
<1>8. ASSUME NEW new \in Settings, ChangeSettings(new) PROVE NothingForeign'
  BY <1>8 DEF ChangeSettings, NothingForeign
<1>9. ASSUME NEW o \in {"ok", "err", "lost"}, WorkerEnds(o) PROVE NothingForeign'
  <2>1. job \in Job /\ job'.of = job.of
    BY <1>9 DEF WorkerEnds, SessionTypeOK, Job
  <2> QED
    BY <1>9, <2>1 DEF WorkerEnds, NothingForeign
<1>10. CASE PollJob
  <2>1. job \in Job /\ job.st \in {"ok", "err", "lost"}
        /\ job.of.own.project = model.own.project
    BY <1>10 DEF PollJob, SessionTypeOK, Job, NothingForeign
  <2>2. results \in Bundle \union {None} /\ BundleOf(results, model.own.project)
    BY DEF SessionTypeOK, NothingForeign
  <2>3. BundleOf(results', model.own.project)
    <3>1. CASE job.st = "ok"
      <4> DEFINE r == [of |-> job.of, dir |-> job.cfg.dir]
      <4>1. r \in Result /\ r.of.own.project = model.own.project
            /\ job.kind \in JobKinds
        BY <2>1, KindsAssumption DEF Result, Job, Settings
      <4>2. \A slot : BundleOf(Store(results, slot, r), model.own.project)
        BY <2>2, <4>1, StoreOfProject
      <4>3. ApplyResult
        BY <1>10, <3>1 DEF PollJob
      <4> QED
        BY <4>1, <4>2, <4>3 DEF ApplyResult, JobKinds
    <3>2. CASE job.st = "err"
      BY <1>10, <2>2, <3>2, DropOfProject DEF PollJob
    <3>3. CASE job.st = "lost"
      BY <1>10, <2>2, <3>3 DEF PollJob
    <3> QED
      BY <2>1, <3>1, <3>2, <3>3
  <2> QED
    BY <1>10, <2>3 DEF PollJob, NothingForeign
<1>w. ASSUME NEW ok, WriteFile(ok), pendingSave' \in {pendingSave, None} PROVE NothingForeign'
  <2>1. /\ BundleOf(Saved.results, Saved.model.own.project)
        /\ Saved.prep # None => Saved.prep.of.own.project = Saved.model.own.project
    BY DEF Saved, NothingForeign, BundleOf
  <2> QED
    BY <1>w, <2>1 DEF WriteFile, NothingForeign
<1>11. ASSUME NEW ok \in BOOLEAN, NEW large \in BOOLEAN, SaveProject(ok, large)
       PROVE  NothingForeign'
  <2>1. CASE SaveResults /\ large
    BY <1>11, <2>1 DEF SaveProject, NothingForeign
  <2>2. CASE ~(SaveResults /\ large)
    BY <1>11, <1>w, <2>2 DEF SaveProject
  <2> QED
    BY <2>1, <2>2
<1>12. ASSUME NEW save \in BOOLEAN, NEW ok \in BOOLEAN, ResolveSave(save, ok)
       PROVE  NothingForeign'
  <2>1. CASE save
    BY <1>12, <1>w, <2>1 DEF ResolveSave
  <2>2. CASE ~save
    BY <1>12, <2>2 DEF ResolveSave, NothingForeign
  <2> QED
    BY <2>1, <2>2
<1>e. HistoryOf(EmptyUndo, model'.own.project)
  BY DEF HistoryOf, EmptyUndo
<1>13. CASE OpenProject
  BY <1>13, <1>e DEF OpenProject, ResetScoped, NothingForeign
<1>14. CASE NewProject
  BY <1>14, <1>e DEF NewProject, ResetScoped, NothingForeign, BundleOf
<1>15. CASE UNCHANGED vars
  BY <1>15 DEF vars, NothingForeign
<1> QED
  BY <1>1, <1>2, <1>3, <1>4, <1>5, <1>6, <1>7, <1>8, <1>9, <1>10, <1>11,
     <1>12, <1>13, <1>14, <1>15 DEF Next

\* Nothing of a replaced project ever reaches the one that replaced it.
THEOREM SwapLeavesNothing == Spec => []NothingForeign
<1>1. Init => NothingForeign
  BY DEF Init, NothingForeign, BundleOf, HistoryOf, EmptyUndo
<1> QED
  BY <1>1, ForeignStep, SessionTypeCorrect, PTL DEF Spec

----------------------------------------------------------------------------
(* The preparation, the unsaved marker and the confirmation *)

\* What the file and the flags claim, together: the parts support each other,
\* because opening a file trusts what saving promised.
Claims ==
  /\ PreparationIsCurrent
  /\ SavedPreparationIsCurrent
  /\ NothingUnsavedUnmarked
  /\ UnsetRunsWereConfirmed

\* The preparation: it either describes the new model or is stale, and changing
\* the model sets the unsaved marker.
LEMMA PrepareClaims ==
  ASSUME SessionTypeOK, Claims, NEW o \in Outcomes, NEW k, Prepare(o, k)
  PROVE  /\ PreparationIsCurrent'
         /\ \/ model' = model /\ stale'.unsaved = stale.unsaved
            \/ stale'.unsaved = TRUE
<1>1. model' \in Model /\ stale \in Stale /\ cfg.zone \in Zones
  BY PrepareTyped DEF SessionTypeOK, Settings, Stale
<1>2. CASE o = "ok"
  <2>1. prep' = [of |-> model', zone |-> cfg.zone] /\ prep' \in Prep
    BY <1>1, <1>2 DEF Prepare, Prep
  <2>2. PreparationIsCurrent'
    BY <2>1, NoneAssumption DEF PreparationIsCurrent
  <2>3. CASE model' = model
    BY <1>1, <1>2, <2>2, <2>3 DEF Prepare, Stale
  <2>4. CASE model' # model
    BY <1>2, <2>2, <2>4 DEF Prepare, MarkEdited, AllStale
  <2> QED
    BY <2>3, <2>4
<1>3. CASE o # "ok"
  <2>1. CASE model' = model
    BY <1>3, <2>1 DEF Prepare, PreparationIsCurrent, Claims
  <2>2. CASE model' # model
    BY <1>3, <2>2 DEF Prepare, MarkEdited, AllStale, PreparationIsCurrent
  <2> QED
    BY <2>1, <2>2
<1> QED
  BY <1>2, <1>3

\* Writing the file saves a current preparation and the model on display.
LEMMA WriteFileClaims ==
  ASSUME SessionTypeOK, Claims, NEW ok, WriteFile(ok)
  PROVE  Claims'
<1>1. Saved \in File
  BY DEF Saved, SaveResults, File, SessionTypeOK
<1>2. CASE ok
  <2>1. disk' = Saved /\ disk' # None /\ path' = TRUE
    BY <1>1, <1>2, NoneAssumption DEF WriteFile
  <2>2. stale'.prep = stale.prep
    BY <1>2 DEF WriteFile, SessionTypeOK
  <2>3. SavedPreparationIsCurrent'
    BY <2>1 DEF Saved, SavedPreparationIsCurrent, Claims, PreparationIsCurrent
  <2>4. NothingUnsavedUnmarked'
    BY <1>2, <2>1 DEF WriteFile, Saved, NothingUnsavedUnmarked
  <2> QED
    BY <1>2, <2>2, <2>3, <2>4
    DEF WriteFile, Claims, PreparationIsCurrent, UnsetRunsWereConfirmed
<1>3. CASE ~ok
  BY <1>3 DEF WriteFile, Claims, PreparationIsCurrent, SavedPreparationIsCurrent,
     NothingUnsavedUnmarked, UnsetRunsWereConfirmed
<1> QED
  BY <1>2, <1>3

\* Every step keeps the claims.
LEMMA ClaimsStep == SessionTypeOK /\ Claims /\ [Next]_vars => Claims'
<1> SUFFICES ASSUME SessionTypeOK, Claims, [Next]_vars PROVE Claims'
  OBVIOUS
<1> USE DEF scopedRest
<1>s. ASSUME model' = model, stale' = stale, prep' = prep, path' = path, disk' = disk,
             job' = job, ack' = ack
      PROVE  Claims'
  BY <1>s DEF Claims, PreparationIsCurrent, SavedPreparationIsCurrent,
     NothingUnsavedUnmarked, UnsetRunsWereConfirmed
<1>p. ASSUME NEW k, NEW o \in Outcomes, Prepare(o, k), disk' = disk, path' = path,
             job' # None /\ job'.live # {} => ack' # None
      PROVE  Claims'
  <2>1. SavedPreparationIsCurrent' /\ UnsetRunsWereConfirmed'
    BY <1>p DEF Claims, SavedPreparationIsCurrent, UnsetRunsWereConfirmed
  <2>2. PreparationIsCurrent' /\ NothingUnsavedUnmarked'
    BY <1>p, PrepareClaims DEF Claims, NothingUnsavedUnmarked
  <2> QED
    BY <2>1, <2>2 DEF Claims
<1>m. ASSUME stale' = AllStale, prep' = prep, path' = path, disk' = disk,
             job' = job, ack' = ack
      PROVE  Claims'
  BY <1>m DEF Claims, PreparationIsCurrent, SavedPreparationIsCurrent,
     NothingUnsavedUnmarked, UnsetRunsWereConfirmed, AllStale
<1>1. ASSUME NEW k \in Kinds, NEW o \in Outcomes, RequestAnalysis(k, o)
      PROVE  Claims'
  <2>1. Prepare(o, k) /\ live' \in SUBSET Regions
    BY <1>1, PrepareTyped DEF RequestAnalysis
  <2>2. job' # None /\ job'.live # {} => ack' # None
    BY <1>1, <2>1, NoneAssumption DEF RequestAnalysis, ConfirmRequired, Spawn
  <2> QED
    BY <1>1, <1>p, <2>1, <2>2 DEF RequestAnalysis
<1>2. ASSUME NEW o \in Outcomes, ResumePending(o) PROVE Claims'
  <2>1. ack' # None
    <3>1. ack' \in Acknowledged
      BY <1>2 DEF ResumePending, SessionTypeOK, Model, Own, Acknowledged
    <3> QED
      BY <3>1, NoneAssumption
  <2>2. CASE job # None
    BY <1>2, <2>1, <2>2 DEF ResumePending, StartJob, Claims, PreparationIsCurrent,
       SavedPreparationIsCurrent, NothingUnsavedUnmarked, UnsetRunsWereConfirmed
  <2>3. CASE job = None
    BY <1>2, <1>p, <2>1, <2>3 DEF ResumePending, StartJob
  <2> QED
    BY <2>2, <2>3
<1>3. CASE CancelPending
  BY <1>3, <1>s DEF CancelPending
<1>4. ASSUME NEW o \in Outcomes, RunPreparation(o) PROVE Claims'
  BY <1>4, <1>p DEF RunPreparation, Claims, UnsetRunsWereConfirmed
<1>5. ASSUME NEW u \in SUBSET Regions, NEW atOnce \in BOOLEAN, Edit(u, atOnce)
      PROVE  Claims'
  BY <1>5, <1>m DEF Edit, MarkEdited
<1>6. CASE UndoAction
  BY <1>6, <1>m DEF UndoAction, MarkEdited
<1>7. CASE RedoAction
  BY <1>7, <1>m DEF RedoAction, MarkEdited
<1>8. ASSUME NEW new \in Settings, ChangeSettings(new) PROVE Claims'
  BY <1>8, <1>s DEF ChangeSettings
<1>9. ASSUME NEW o \in {"ok", "err", "lost"}, WorkerEnds(o) PROVE Claims'
  <2>1. job \in Job /\ job'.live = job.live
    BY <1>9 DEF WorkerEnds, SessionTypeOK, Job
  <2> QED
    BY <1>9, <2>1 DEF WorkerEnds, Claims, PreparationIsCurrent,
       SavedPreparationIsCurrent, NothingUnsavedUnmarked, UnsetRunsWereConfirmed
<1>10. CASE PollJob
  <2>1. job \in Job /\ job.kind \in JobKinds /\ job.st \in {"ok", "err", "lost"}
    BY <1>10, KindsAssumption DEF PollJob, SessionTypeOK, Job
  <2>2. stale \in Stale
    BY DEF SessionTypeOK, Stale
  <2>3. MarkFresh(stale).prep = stale.prep /\ MarkFresh(stale).unsaved = stale.unsaved
    BY <2>2 DEF MarkFresh, Stale
  <2>4. stale' = stale \/ stale' = MarkFresh(stale)
    BY <1>10, <2>1 DEF PollJob, ApplyResult, JobKinds
  <2>5. stale'.prep = stale.prep /\ stale'.unsaved = stale.unsaved
    BY <2>3, <2>4
  <2> QED
    BY <1>10, <2>5 DEF PollJob, Claims, PreparationIsCurrent,
       SavedPreparationIsCurrent, NothingUnsavedUnmarked, UnsetRunsWereConfirmed
<1>11. ASSUME NEW ok \in BOOLEAN, NEW large \in BOOLEAN, SaveProject(ok, large)
       PROVE  Claims'
  BY <1>11, <1>s, WriteFileClaims DEF SaveProject
<1>12. ASSUME NEW save \in BOOLEAN, NEW ok \in BOOLEAN, ResolveSave(save, ok)
       PROVE  Claims'
  BY <1>12, <1>s, WriteFileClaims DEF ResolveSave
<1>13. CASE OpenProject
  <2>1. stale'.prep = (disk.prep = None)
    BY <1>13 DEF OpenProject, FreshScope
  <2> QED
    BY <1>13, <2>1 DEF OpenProject, ResetScoped, Claims, PreparationIsCurrent,
       SavedPreparationIsCurrent, NothingUnsavedUnmarked, UnsetRunsWereConfirmed
<1>14. CASE NewProject
  BY <1>14 DEF NewProject, ResetScoped, FreshScope, Claims, PreparationIsCurrent,
     SavedPreparationIsCurrent, NothingUnsavedUnmarked, UnsetRunsWereConfirmed
<1>15. CASE UNCHANGED vars
  BY <1>15, <1>s DEF vars
<1> QED
  BY <1>1, <1>2, <1>3, <1>4, <1>5, <1>6, <1>7, <1>8, <1>9, <1>10, <1>11,
     <1>12, <1>13, <1>14, <1>15 DEF Next

\* The claims hold in every reachable state.
LEMMA ClaimsHold == Spec => []Claims
<1>1. Init => Claims
  BY DEF Init, Claims, PreparationIsCurrent, SavedPreparationIsCurrent,
     NothingUnsavedUnmarked, UnsetRunsWereConfirmed, FreshScope
<1> QED
  BY <1>1, ClaimsStep, SessionTypeCorrect, PTL DEF Spec

\* A preparation that is not marked stale is that of the model on display.
THEOREM PreparationNeverLies == Spec => []PreparationIsCurrent
BY ClaimsHold, PTL DEF Claims

\* A preparation in the file is that of the model in the file.
THEOREM SavedPreparationSound == Spec => []SavedPreparationIsCurrent
BY ClaimsHold, PTL DEF Claims

\* Without the unsaved marker the file holds the model on display.
THEOREM UnsavedMarkerSound == Spec => []NothingUnsavedUnmarked
BY ClaimsHold, PTL DEF Claims

\* No job runs over unset regions in a session that was never asked.
THEOREM UnsetRunsConfirmed == Spec => []UnsetRunsWereConfirmed
BY ClaimsHold, PTL DEF Claims

----------------------------------------------------------------------------
(* The load synchronisation *)

\* The hash is only ever that of a synchronised model.
HashIsSynced ==
  syncHash # None => syncHash.of.auto = LoadsFor(syncHash.of.own, syncHash.zone)

\* After a successful preparation the model's loads are its own.
LEMMA PrepareSynchronises ==
  ASSUME SessionTypeOK, HashIsSynced, NEW o \in Outcomes, NEW k, Prepare(o, k)
  PROVE  /\ HashIsSynced'
         /\ o = "ok" => model'.auto = LoadsFor(model'.own, cfg.zone)
<1> DEFINE current == [of |-> model, zone |-> cfg.zone]
           synced == Synced(model, cfg.zone)
<1>1. SyncLoads(o)
  BY DEF Prepare
<1>2. model \in Model /\ cfg.zone \in Zones
  BY DEF SessionTypeOK, Settings
<1>3. synced.auto = LoadsFor(synced.own, cfg.zone) /\ synced \in Model
  BY <1>2, SyncedTyped DEF Synced, LoadsFor, Model
<1>4. CASE syncHash = current
  <2>1. current \in Prep
    BY <1>2 DEF Prep
  <2>2. model.auto = LoadsFor(model.own, cfg.zone)
    BY <1>4, <2>1, NoneAssumption DEF HashIsSynced
  <2> QED
    BY <1>1, <1>4, <2>2 DEF SyncLoads, HashIsSynced
<1>5. CASE syncHash # current
  <2>1. CASE o = "ok"
    <3>1. model' = synced /\ syncHash' = [of |-> synced, zone |-> cfg.zone]
      BY <1>1, <1>5, <2>1 DEF SyncLoads, HashAfterSync
    <3> QED
      BY <1>3, <3>1 DEF HashIsSynced
  <2>2. CASE o # "ok"
    BY <1>1, <1>5, <2>2 DEF SyncLoads, HashIsSynced
  <2> QED
    BY <2>1, <2>2
<1> QED
  BY <1>4, <1>5

\* Every step keeps the hash and the running job synchronised.
LEMMA SyncStep ==
  SessionTypeOK /\ HashIsSynced /\ JobsRunOnSyncedModels /\ [Next]_vars
    => HashIsSynced' /\ JobsRunOnSyncedModels'
<1> SUFFICES ASSUME SessionTypeOK, HashIsSynced, JobsRunOnSyncedModels, [Next]_vars
             PROVE  HashIsSynced' /\ JobsRunOnSyncedModels'
  OBVIOUS
<1> USE DEF scopedRest
<1>s. ASSUME syncHash' = syncHash, job' = job
      PROVE  HashIsSynced' /\ JobsRunOnSyncedModels'
  BY <1>s DEF HashIsSynced, JobsRunOnSyncedModels
<1>p. ASSUME NEW k, NEW o \in Outcomes, Prepare(o, k), cfg' = cfg,
             job' = job \/ (o = "ok" /\ Spawn(k))
      PROVE  HashIsSynced' /\ JobsRunOnSyncedModels'
  BY <1>p, PrepareSynchronises DEF Spawn, JobsRunOnSyncedModels
<1>1. ASSUME NEW k \in Kinds, NEW o \in Outcomes, RequestAnalysis(k, o)
      PROVE  HashIsSynced' /\ JobsRunOnSyncedModels'
  BY <1>1, <1>p DEF RequestAnalysis
<1>2. ASSUME NEW o \in Outcomes, ResumePending(o)
      PROVE  HashIsSynced' /\ JobsRunOnSyncedModels'
  BY <1>2, <1>p, <1>s DEF ResumePending, StartJob
<1>3. CASE CancelPending
  BY <1>3, <1>s DEF CancelPending
<1>4. ASSUME NEW o \in Outcomes, RunPreparation(o)
      PROVE  HashIsSynced' /\ JobsRunOnSyncedModels'
  BY <1>4, <1>p DEF RunPreparation
<1>5. ASSUME NEW u \in SUBSET Regions, NEW atOnce \in BOOLEAN, Edit(u, atOnce)
      PROVE  HashIsSynced' /\ JobsRunOnSyncedModels'
  BY <1>5, <1>s DEF Edit
<1>6. CASE UndoAction \/ RedoAction
  BY <1>6, <1>s DEF UndoAction, RedoAction
<1>8. ASSUME NEW new \in Settings, ChangeSettings(new)
      PROVE  HashIsSynced' /\ JobsRunOnSyncedModels'
  BY <1>8, <1>s DEF ChangeSettings
<1>9. ASSUME NEW o \in {"ok", "err", "lost"}, WorkerEnds(o)
      PROVE  HashIsSynced' /\ JobsRunOnSyncedModels'
  <2>1. job \in Job /\ job'.of = job.of /\ job'.cfg = job.cfg
    BY <1>9 DEF WorkerEnds, SessionTypeOK, Job
  <2> QED
    BY <1>9, <2>1 DEF WorkerEnds, HashIsSynced, JobsRunOnSyncedModels
<1>10. CASE PollJob
  BY <1>10 DEF PollJob, HashIsSynced, JobsRunOnSyncedModels
<1>11. ASSUME NEW ok \in BOOLEAN, NEW large \in BOOLEAN, SaveProject(ok, large)
       PROVE  HashIsSynced' /\ JobsRunOnSyncedModels'
  BY <1>11, <1>s DEF SaveProject, WriteFile
<1>12. ASSUME NEW save \in BOOLEAN, NEW ok \in BOOLEAN, ResolveSave(save, ok)
       PROVE  HashIsSynced' /\ JobsRunOnSyncedModels'
  BY <1>12, <1>s DEF ResolveSave, WriteFile
<1>13. CASE OpenProject \/ NewProject
  BY <1>13 DEF OpenProject, NewProject, ResetScoped, HashIsSynced, JobsRunOnSyncedModels
<1>15. CASE UNCHANGED vars
  BY <1>15, <1>s DEF vars
<1> QED
  BY <1>1, <1>2, <1>3, <1>4, <1>5, <1>6, <1>8, <1>9, <1>10, <1>11,
     <1>12, <1>13, <1>15 DEF Next

\* Every job was given loads generated from its own data and settings.
THEOREM JobsAreSynchronised == Spec => []JobsRunOnSyncedModels
<1>1. Init => HashIsSynced /\ JobsRunOnSyncedModels
  BY DEF Init, HashIsSynced, JobsRunOnSyncedModels
<1> QED
  BY <1>1, SyncStep, SessionTypeCorrect, PTL DEF Spec
=============================================================================
