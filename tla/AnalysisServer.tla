--------------------------- MODULE AnalysisServer ---------------------------
(***************************************************************************)
(* SepikaServer (sepika-mcp): the tool handlers share one ServerState      *)
(* behind an async mutex.  analysis_run registers a job and clones the     *)
(* model under the lock, computes on the clone without it, and takes the   *)
(* lock again to persist the outcome and set the final status.  While one  *)
(* job persists, no other handler runs; everything else interleaves.       *)
(*                                                                         *)
(* The process may be killed at any point.  Jobs, model and undo history   *)
(* live in memory only; the result directory survives.                     *)
(***************************************************************************)
EXTENDS ResultStore

CONSTANTS
  MaxJobs,    \* bound: jobs registered in one life of the process
  MaxEvents,  \* bound: kills, and applied model edits of one life
  Free        \* nobody holds the state lock

ASSUME BoundsAssumption ==
  /\ MaxJobs \in Nat \ {0}
  /\ MaxEvents \in Nat
  /\ Free \notin Nat

JobKind == {"LinearStatic", "DesignCheck", "Eigen", "Summary"}
Status  == {"Queued", "Running", "Done", "Failed"}
JobId   == 0 .. MaxJobs - 1
Terminal == {"Done", "Failed"}

(* A batch carries who computed it: the life of the process, the job of    *)
(* that life and the revision of the model clone it was computed from.     *)
ServerBatch == [life: 0 .. MaxEvents, job: JobId, model: 0 .. MaxEvents]

ASSUME BatchAssumption == Batch = ServerBatch

VARIABLES
  up,       \* the process runs
  life,     \* restarts so far (only distinguishes batches of different lives)
  revision, \* UndoStack revision of the served model
  nextId,   \* JobRegistry::next_id
  jobs,     \* job id -> registered job
  task,     \* job id -> the spawned task working for it
  lock,     \* holder of the state mutex across several steps
  todo      \* keys the lock holder still has to write, then the sync

serverVars == <<up, life, revision, nextId, jobs, task, lock, todo>>
vars == <<storeVars, serverVars>>

Registered == 0 .. nextId - 1

(* Stages of a spawned task: computing in spawn_blocking, then holding an  *)
(* outcome (rows, an error, or the JoinError of a panic) it waits to store. *)
Stage   == {"none", "computing", "rows", "error", "writing", "rewriting",
            "syncing", "synced", "unsaved"}
TaskRec == [stage: Stage, model: 0 .. MaxEvents, forces: BOOLEAN]
NoTask  == [stage |-> "none", model |-> 0, forces |-> FALSE]
NoJob   == [kind |-> "Summary", case |-> 0, status |-> "Queued"]

ServerTypeOK ==
  /\ StoreTypeOK
  /\ up \in BOOLEAN
  /\ life \in 0 .. MaxEvents
  /\ revision \in 0 .. MaxEvents
  /\ nextId \in 0 .. MaxJobs
  /\ jobs \in [JobId -> [kind: JobKind, case: Cases \union {0}, status: Status]]
  /\ task \in [JobId -> TaskRec]
  /\ lock \in JobId \union {Free}
  /\ todo \in Seq(Key)

(* The keys persist_job_outcome writes, in order.  Eigen results go to case *)
(* 0; Summary stands for Pushover, TimeHistory and UltimateCheck, which     *)
(* write nothing and do not sync.                                           *)
KeysWritten(kind, case, forces) ==
  CASE kind = "LinearStatic" ->
         IF forces THEN <<<<case, "NodalDisp">>, <<case, "MemberForce">>>>
                   ELSE <<<<case, "NodalDisp">>>>
    [] kind = "DesignCheck"  ->
         IF forces THEN <<<<case, "MemberForce">>>> ELSE <<>>
    [] kind = "Eigen"        -> <<<<0, "Modal">>>>
    [] OTHER                 -> <<>>

RowsOf(j) == [life |-> life, job |-> j, model |-> task[j].model]

\* What the task of job j writes, once it is computed.
KeysOf(j)    == KeysWritten(jobs[j].kind, jobs[j].case, task[j].forces)
Announced(j) == {KeysOf(j)[i] : i \in DOMAIN KeysOf(j)}

Init ==
  /\ StoreInit
  /\ up = TRUE
  /\ life = 0
  /\ revision = 0
  /\ nextId = 0
  /\ jobs = [j \in JobId |-> NoJob]
  /\ task = [j \in JobId |-> NoTask]
  /\ lock = Free
  /\ todo = <<>>

-----------------------------------------------------------------------------
(* Tool handlers that finish within one hold of the lock. *)

(* analysis_run: register (Queued), update to Running, clone the model and  *)
(* spawn.  A malformed parameter is refused before anything is registered.  *)
AnalysisRun(kind, case) ==
  /\ up /\ lock = Free
  /\ nextId < MaxJobs
  /\ jobs' = [jobs EXCEPT ![nextId] =
                [kind |-> kind, case |-> case, status |-> "Running"]]
  /\ task' = [task EXCEPT ![nextId] =
                [stage |-> "computing", model |-> revision, forces |-> FALSE]]
  /\ nextId' = nextId + 1
  /\ UNCHANGED <<storeVars, up, life, revision, lock, todo>>

(* model_edit with a command that applied; a refused one (Noop, parse       *)
(* error) changes nothing.                                                  *)
ModelEdit ==
  /\ up /\ lock = Free
  /\ life + revision < MaxEvents
  /\ revision' = revision + 1
  /\ UNCHANGED <<storeVars, up, life, nextId, jobs, task, lock, todo>>

-----------------------------------------------------------------------------
(* The spawned task of job j. *)

SetStage(j, s)  == task' = [task EXCEPT ![j].stage = s]
SetStatus(j, s) == jobs' = [jobs EXCEPT ![j].status = s]

(* compute_job returns rows (with or without member forces) on its clone.   *)
ComputeOk(j) ==
  /\ up /\ task[j].stage = "computing"
  /\ \E f \in BOOLEAN :
       task' = [task EXCEPT ![j].stage = "rows", ![j].forces = f]
  /\ UNCHANGED <<storeVars, up, life, revision, nextId, jobs, lock, todo>>

(* compute_job returns a JobError, or panics and spawn_blocking reports it. *)
ComputeErr(j) ==
  /\ up /\ task[j].stage = "computing"
  /\ SetStage(j, "error")
  /\ UNCHANGED <<storeVars, up, life, revision, nextId, jobs, lock, todo>>

ReportError(j) ==
  /\ up /\ lock = Free /\ task[j].stage = "error"
  /\ SetStage(j, "none")
  /\ SetStatus(j, "Failed")
  /\ UNCHANGED <<storeVars, up, life, revision, nextId, lock, todo>>

(* The task gets the lock and keeps it until it has set the final status.   *)
(* A kind without store rows skips the store altogether.                    *)
BeginPersist(j) ==
  /\ up /\ lock = Free /\ task[j].stage = "rows"
  /\ lock' = j
  /\ todo' = KeysOf(j)
  /\ SetStage(j, IF jobs[j].kind = "Summary" THEN "synced"
                 ELSE IF todo' = <<>> THEN "syncing" ELSE "writing")
  /\ UNCHANGED <<storeVars, up, life, revision, nextId, jobs>>

OpenWriter(j) ==
  /\ up /\ lock = j /\ task[j].stage = "writing" /\ todo # <<>>
  /\ CreateWriter(Head(todo))
  /\ SetStage(j, "rewriting")
  /\ UNCHANGED <<up, life, revision, nextId, jobs, lock, todo>>

CloseWriter(j) ==
  /\ up /\ lock = j /\ task[j].stage = "rewriting" /\ todo # <<>>
  /\ FinishWriter(Head(todo), RowsOf(j))
  /\ todo' = Tail(todo)
  /\ SetStage(j, IF Tail(todo) = <<>> THEN "syncing" ELSE "writing")
  /\ UNCHANGED <<up, life, revision, nextId, jobs, lock>>

(* writer(), write_rows() or finish() failed: the error goes straight to    *)
(* persist_job_outcome, which drops the entries left by earlier writers.    *)
WriteFails(j) ==
  /\ up /\ lock = j /\ task[j].stage \in {"writing", "rewriting"}
  /\ DiscardPending
  /\ todo' = <<>>
  /\ SetStage(j, "unsaved")
  /\ UNCHANGED <<up, life, revision, nextId, jobs, lock>>

StartSync(j) ==
  /\ up /\ lock = j /\ task[j].stage = "syncing" /\ diskManifest # Torn
  /\ SyncBegin
  /\ UNCHANGED serverVars

FinishSync(j) ==
  /\ up /\ lock = j /\ task[j].stage = "syncing"
  /\ IF pending = <<>> THEN UNCHANGED storeVars
                       ELSE diskManifest = Torn /\ SyncCommit
  /\ SetStage(j, "synced")
  /\ UNCHANGED <<up, life, revision, nextId, jobs, lock, todo>>

(* fs::write failed, before or after it truncated the manifest: sync() puts *)
(* the entries back and persist_job_outcome drops them.                     *)
SyncFails(j) ==
  /\ up /\ lock = j /\ task[j].stage = "syncing" /\ pending # <<>>
  /\ DiscardPending
  /\ SetStage(j, "unsaved")
  /\ UNCHANGED <<up, life, revision, nextId, jobs, lock, todo>>

(* Faulty variant: a failed write leaves the job Running, as the panic of an *)
(* earlier version did.                                                      *)
ReportOnlySuccess(j) ==
  /\ up /\ lock = j /\ task[j].stage \in {"synced", "unsaved"}
  /\ IF task[j].stage = "synced" THEN SetStatus(j, "Done") ELSE UNCHANGED jobs
  /\ SetStage(j, "none")
  /\ lock' = Free
  /\ UNCHANGED <<storeVars, up, life, revision, nextId, todo>>

ReportDone(j) ==
  /\ up /\ lock = j /\ task[j].stage \in {"synced", "unsaved"}
  /\ SetStatus(j, IF task[j].stage = "synced" THEN "Done" ELSE "Failed")
  /\ SetStage(j, "none")
  /\ lock' = Free
  /\ UNCHANGED <<storeVars, up, life, revision, nextId, todo>>

Persist(j) ==
  \/ ReportError(j) \/ BeginPersist(j) \/ OpenWriter(j) \/ CloseWriter(j)
  \/ WriteFails(j) \/ StartSync(j) \/ FinishSync(j) \/ SyncFails(j)
  \/ ReportDone(j)

Task(j) == ComputeOk(j) \/ ComputeErr(j) \/ Persist(j)

-----------------------------------------------------------------------------
(* The process is killed; everything but the result directory is gone.      *)
Crash ==
  /\ up /\ life + revision < MaxEvents
  /\ up' = FALSE
  /\ life' = life + 1
  /\ manifest' = NoEntries
  /\ pending' = <<>>
  /\ revision' = 0
  /\ nextId' = 0
  /\ jobs' = [j \in JobId |-> NoJob]
  /\ task' = [j \in JobId |-> NoTask]
  /\ lock' = Free
  /\ todo' = <<>>
  /\ UNCHANGED <<files, diskManifest>>

(* main(): load the model given on the command line and open the store.     *)
Restart ==
  /\ ~up
  /\ OpenStore
  /\ up' = TRUE
  /\ UNCHANGED <<life, revision, nextId, jobs, task, lock, todo>>

Next ==
  \/ \E kind \in JobKind, case \in Cases : AnalysisRun(kind, case)
  \/ ModelEdit
  \/ \E j \in JobId : Task(j)
  \/ Crash
  \/ Restart

(* The client is free to do nothing, and nobody is bound to restart a       *)
(* killed server; but the runtime keeps polling a spawned task and the      *)
(* mutex is fair (tokio queues its waiters).                                *)
Fairness ==
  \A j \in JobId : /\ WF_vars(ComputeOk(j) \/ ComputeErr(j))
                   /\ SF_vars(ReportError(j) \/ BeginPersist(j))
                   /\ WF_vars(lock = j /\ Persist(j))

SafetySpec == Init /\ [][Next]_vars

Spec == SafetySpec /\ Fairness
-----------------------------------------------------------------------------
(* No entry of a failed job waits to be swept into the next job's sync():   *)
(* while nobody persists nothing is pending, and the pending entries are    *)
(* the rows of the job that holds the lock.                                 *)
PendingBelongsToHolder ==
  \A i \in DOMAIN pending : lock # Free /\ pending[i].rows = RowsOf(lock)

(* Every entry of the manifest that this life added names rows of a job     *)
(* whose sync() returned: it is reported Done, or is about to be.           *)
CommittedByFinishedJobs ==
  \A k \in Key :
    (manifest[k] # None /\ manifest[k].life = life) =>
      LET j == manifest[k].job
      IN  \/ jobs[j].status = "Done"
          \/ lock = j /\ task[j].stage = "synced"

(* The manifest on disk never runs ahead of the one in memory: when the     *)
(* lock is free it is the same, or a failed sync() left it torn.            *)
DiskManifestTracksMemory ==
  up /\ lock = Free => diskManifest \in {manifest, Torn}

(* When a job turns Done, each key it announces answers a query with the    *)
(* job's own rows, and will still be announced after a restart.             *)
DonePublishesOwnRows ==
  [][\A j \in JobId :
       (jobs[j].status = "Running" /\ jobs'[j].status = "Done") =>
         \A k \in Announced(j) :
           /\ manifest'[k] = RowsOf(j)
           /\ files'[k] = RowsOf(j)
           /\ diskManifest'[k] = RowsOf(j)]_vars

(* A registered job never stays Running for ever: panics, errors and store  *)
(* failures included, it ends Done or Failed unless the process is killed.  *)
EveryJobEnds ==
  \A j \in JobId :
    jobs[j].status = "Running" ~> (jobs[j].status \in Terminal \/ ~up)

(* The server implements JobService: the manifest is what is published, the *)
(* files are the content, and the directory is exposed while manifest.json  *)
(* is truncated.  A job counts as Done from the moment its sync() returned, *)
(* while it still holds the lock; before that a job the client is told is   *)
(* Running computes, or holds the rows it has to store.                     *)
ServiceStatus(j) ==
  IF j >= nextId THEN "Absent"
  ELSE IF task[j].stage = "synced" THEN "Done"
  ELSE IF jobs[j].status # "Running" THEN jobs[j].status
  ELSE IF task[j].stage \in {"computing", "error"} THEN "Computing"
  ELSE "Storing"

ServiceOutcome(j) ==
  IF ServiceStatus(j) \in {"Storing", "Done"} THEN Announced(j) ELSE {}

Service == INSTANCE JobService WITH
  Revision  <- 0 .. MaxEvents,
  NoRows    <- None,
  Damaged   <- Torn,
  Lost      <- Torn,
  Row       <- LAMBDA l, j, m : [life |-> l, job |-> j, model |-> m],
  serving   <- up,
  era       <- life,
  status    <- [j \in JobId |-> ServiceStatus(j)],
  model     <- [j \in JobId |-> task[j].model],
  outcome   <- [j \in JobId |-> ServiceOutcome(j)],
  published <- IF up THEN manifest ELSE diskManifest,
  content   <- files,
  exposed   <- diskManifest = Torn

ImplementsJobService == Service!ServiceSpec

(* Stated by the test of discard_pending (sepika-io results/tests.rs: the   *)
(* partial results of a job that failed midway must not become queryable):  *)
(* rows a query returns are never those of a job reported Failed.           *)
FailedJobRowsNotQueryable ==
  \A k \in Key : Query(k) \notin {None, Torn} /\ Query(k).life = life =>
                   jobs[Query(k).job].status # "Failed"
=============================================================================
