------------------------ MODULE AnalysisServerProofs ------------------------
(***************************************************************************)
(* Facts about the analysis server for every set of load cases and every   *)
(* bound on jobs, edits and kills: types; the pending entries are those of *)
(* the job that holds the lock, the manifest names rows of jobs whose      *)
(* sync() returned, and the manifest on disk follows the one in memory;    *)
(* the step that reports a job Done publishes that job's own rows; no job  *)
(* writes a key but its own; and every step of the server is one of        *)
(* JobService or invisible to it.                                          *)
(***************************************************************************)
EXTENDS AnalysisServer, SequenceTheorems, WellFoundedInduction,
        TLAPS

USE DEF JobKind, Status, JobId

(* A nonempty set of positions of a sequence has a largest element.         *)
LEMMA LastPosition ==
  ASSUME NEW n \in Nat, NEW S, S \subseteq 1 .. n, S # {}
  PROVE  \E i \in S : \A j \in S : j <= i
<1> DEFINE T == {n - i : i \in S}
<1>1. T \subseteq Nat
  OBVIOUS
<1>0. T # {}
  <2>1. PICK i \in S : TRUE
    OBVIOUS
  <2>2. n - i \in T
    OBVIOUS
  <2> QED BY <2>2
<1> DEFINE R == OpToRel(<, Nat)
<1>2. PICK d \in T : \A e \in T : <<e, d>> \notin R
  <2> HIDE DEF T, R
  <2>1. IsWellFoundedOn(R, Nat)
    BY NatLessThanWellFounded DEF R
  <2> QED BY <1>0, <1>1, <2>1, WFMin
<1>3. PICK i \in S : d = n - i
  OBVIOUS
<1>4. ASSUME NEW j \in S PROVE j <= i
  <2>1. n - j \in T
    OBVIOUS
  <2>2. ~(n - j < n - i)
    BY <1>1, <1>2, <1>3, <2>1 DEF OpToRel
  <2> QED BY <2>2
<1> QED BY <1>4

(* sync() turns a manifest and a list of pending entries into a manifest.   *)
LEMMA AbsorbIsManifest ==
  ASSUME NEW m \in Manifest, NEW p \in Seq(Entry)
  PROVE  Absorb(m, p) \in Manifest
<1>1. ASSUME NEW k \in Key, EntriesFor(p, k) # {}
      PROVE  (CHOOSE i \in EntriesFor(p, k) :
                \A j \in EntriesFor(p, k) : j <= i) \in EntriesFor(p, k)
  <2> DEFINE S == EntriesFor(p, k)
  <2>1. S \subseteq 1 .. Len(p) /\ Len(p) \in Nat
    BY DEF EntriesFor
  <2>2. \E i \in S : \A j \in S : j <= i
    <3> HIDE DEF S
    <3> QED BY <1>1, <2>1, LastPosition DEF S
  <2> QED BY <2>2
<1>2. ASSUME NEW k \in Key, NEW i \in EntriesFor(p, k)
      PROVE  p[i].rows \in Batch
  <2>1. i \in 1 .. Len(p)
    BY DEF EntriesFor
  <2>2. p[i] \in Entry
    BY <2>1
  <2> QED BY <2>2 DEF Entry
<1>3. QED
  BY <1>1, <1>2 DEF Absorb, Manifest

(* A finished job's row batch is one of the batches.                        *)
LEMMA RowsAreBatch ==
  ASSUME ServerTypeOK, NEW j \in JobId
  PROVE  RowsOf(j) \in Batch
BY BatchAssumption DEF ServerTypeOK, RowsOf, ServerBatch, TaskRec

(* The keys a job writes are keys of the store.                             *)
LEMMA KeysWrittenAreKeys ==
  ASSUME NEW kind \in JobKind, NEW case \in Cases, NEW forces \in BOOLEAN
  PROVE  KeysWritten(kind, case, forces) \in Seq(Key)
<1>1. /\ <<case, "NodalDisp">> \in Key
      /\ <<case, "MemberForce">> \in Key
      /\ <<0, "Modal">> \in Key
  BY CasesAssumption DEF Key, ResultKind
<1> QED BY <1>1 DEF KeysWritten
-----------------------------------------------------------------------------
(* Types. *)

LEMMA InitTyped == Init => ServerTypeOK
<1> SUFFICES ASSUME Init PROVE ServerTypeOK
  OBVIOUS
<1> USE DEF Init, StoreInit
<1>1. StoreTypeOK
  <2>1. pending \in Seq(Entry)
    OBVIOUS
  <2> QED BY <2>1 DEF StoreTypeOK, NoEntries, Manifest
<1>2. todo \in Seq(Key)
  OBVIOUS
<1>3. NoTask \in TaskRec
  BY BoundsAssumption DEF NoTask, TaskRec, Stage
<1> QED
  BY <1>1, <1>2, <1>3, BoundsAssumption DEF ServerTypeOK, NoJob

(* Setting the stage or the status of one job keeps the types of all.       *)
LEMMA StageTyped ==
  ASSUME task \in [JobId -> TaskRec], NEW j \in JobId,
         \E s \in Stage : SetStage(j, s)
  PROVE  task' \in [JobId -> TaskRec]
BY DEF SetStage, TaskRec

LEMMA StatusTyped ==
  ASSUME jobs \in [JobId -> [kind: JobKind, case: Cases \union {0},
                              status: Status]],
         NEW j \in JobId, \E s \in Status : SetStatus(j, s)
  PROVE  jobs' \in [JobId -> [kind: JobKind, case: Cases \union {0},
                              status: Status]]
BY DEF SetStatus

(* Every step of the server keeps the types.                                *)
LEMMA NextTyped == ServerTypeOK /\ [Next]_vars => ServerTypeOK'
<1> SUFFICES ASSUME ServerTypeOK, [Next]_vars PROVE ServerTypeOK'
  OBVIOUS
<1> USE DEF ServerTypeOK, StoreTypeOK
<1>0. <<>> \in Seq(Entry) /\ <<>> \in Seq(Key)
  OBVIOUS
<1>1. ASSUME NEW kind \in JobKind, NEW case \in Cases, AnalysisRun(kind, case)
      PROVE  ServerTypeOK'
  BY <1>1, BoundsAssumption DEF AnalysisRun, storeVars, TaskRec, Stage
<1>2. CASE ModelEdit
  BY <1>2, BoundsAssumption DEF ModelEdit, storeVars
<1>3. ASSUME NEW j \in JobId, ComputeOk(j) PROVE ServerTypeOK'
  <2>1. PICK f \in BOOLEAN :
          task' = [task EXCEPT ![j].stage = "rows", ![j].forces = f]
    BY <1>3 DEF ComputeOk
  <2>2. ASSUME NEW i \in JobId PROVE task'[i] \in TaskRec
    BY <2>1, task[i] \in TaskRec DEF TaskRec, Stage
  <2>3. task' \in [JobId -> TaskRec]
    <3>1. task' = [i \in JobId |-> task'[i]]
      BY <2>1
    <3> QED BY <2>2, <3>1
  <2> QED BY <1>3, <2>3 DEF ComputeOk, storeVars
<1>4. ASSUME NEW j \in JobId, ComputeErr(j) PROVE ServerTypeOK'
  <2>1. \E s \in Stage : SetStage(j, s)
    BY <1>4 DEF ComputeErr, Stage
  <2> QED BY <1>4, <2>1, StageTyped DEF ComputeErr, storeVars
<1>5. ASSUME NEW j \in JobId, ReportError(j) PROVE ServerTypeOK'
  <2>1. \E s \in Stage : SetStage(j, s)
    BY <1>5 DEF ReportError, Stage
  <2>2. \E s \in Status : SetStatus(j, s)
    BY <1>5 DEF ReportError
  <2> QED BY <1>5, <2>1, <2>2, StageTyped, StatusTyped DEF ReportError, storeVars
<1>6. ASSUME NEW j \in JobId, BeginPersist(j) PROVE ServerTypeOK'
  <2>1. todo' \in Seq(Key)
    BY <1>6, CasesAssumption, KeysWrittenAreKeys DEF BeginPersist, KeysOf, TaskRec
  <2>2. \E s \in Stage : SetStage(j, s)
    BY <1>6 DEF BeginPersist, Stage
  <2> QED BY <1>6, <2>1, <2>2, StageTyped DEF BeginPersist, storeVars
<1>7. ASSUME NEW j \in JobId, OpenWriter(j) PROVE ServerTypeOK'
  <2>1. \E s \in Stage : SetStage(j, s)
    BY <1>7 DEF OpenWriter, Stage
  <2> QED BY <1>7, <2>1, StageTyped DEF OpenWriter, CreateWriter
<1>8. ASSUME NEW j \in JobId, CloseWriter(j) PROVE ServerTypeOK'
  <2>1. Head(todo) \in Key /\ Tail(todo) \in Seq(Key)
    BY <1>8, HeadTailProperties DEF CloseWriter
  <2>2. RowsOf(j) \in Batch
    BY RowsAreBatch
  <2>3. StoreTypeOK'
    BY <1>8, <2>1, <2>2 DEF CloseWriter, FinishWriter, Entry
  <2>4. \E s \in Stage : SetStage(j, s)
    BY <1>8 DEF CloseWriter, Stage
  <2> QED BY <1>8, <2>1, <2>3, <2>4, StageTyped DEF CloseWriter
<1>9. ASSUME NEW j \in JobId, WriteFails(j) PROVE ServerTypeOK'
  <2>1. \E s \in Stage : SetStage(j, s)
    BY <1>9 DEF WriteFails, Stage
  <2> QED BY <1>0, <1>9, <2>1, StageTyped DEF WriteFails, DiscardPending
<1>10. ASSUME NEW j \in JobId, StartSync(j) PROVE ServerTypeOK'
  BY <1>10 DEF StartSync, SyncBegin, serverVars
<1>11. ASSUME NEW j \in JobId, FinishSync(j) PROVE ServerTypeOK'
  <2>1. StoreTypeOK'
    <3>1. CASE pending = <<>>
      BY <1>11, <3>1 DEF FinishSync, storeVars
    <3>2. CASE pending # <<>>
      BY <1>11, <1>0, <3>2, AbsorbIsManifest DEF FinishSync, SyncCommit
    <3> QED BY <3>1, <3>2
  <2>2. \E s \in Stage : SetStage(j, s)
    BY <1>11 DEF FinishSync, Stage
  <2> QED BY <1>11, <2>1, <2>2, StageTyped DEF FinishSync
<1>12. ASSUME NEW j \in JobId, SyncFails(j) PROVE ServerTypeOK'
  <2>1. \E s \in Stage : SetStage(j, s)
    BY <1>12 DEF SyncFails, Stage
  <2> QED BY <1>0, <1>12, <2>1, StageTyped DEF SyncFails, DiscardPending
<1>13. ASSUME NEW j \in JobId, ReportDone(j) PROVE ServerTypeOK'
  <2>1. \E s \in Status : SetStatus(j, s)
    BY <1>13 DEF ReportDone
  <2>2. \E s \in Stage : SetStage(j, s)
    BY <1>13 DEF ReportDone, Stage
  <2> QED BY <1>13, <2>1, <2>2, StageTyped, StatusTyped DEF ReportDone, storeVars
<1>14. CASE Crash
  <2>1. NoTask \in TaskRec /\ NoEntries \in Manifest
    BY BoundsAssumption DEF NoTask, TaskRec, Stage, NoEntries, Manifest
  <2>2. StoreTypeOK'
    BY <1>0, <1>14, <2>1 DEF Crash
  <2>3. /\ life' \in 0 .. MaxEvents
        /\ nextId' \in 0 .. MaxJobs
        /\ revision' \in 0 .. MaxEvents
    BY <1>14, BoundsAssumption DEF Crash
  <2>4. /\ jobs' \in [JobId -> [kind: JobKind, case: Cases \union {0},
                                status: Status]]
        /\ task' \in [JobId -> TaskRec]
    BY <1>14, <2>1 DEF Crash, NoJob
  <2> QED BY <1>0, <1>14, <2>2, <2>3, <2>4 DEF Crash
<1>15. CASE Restart
  BY <1>0, <1>15 DEF Restart, OpenStore, Openable
<1>16. CASE UNCHANGED vars
  BY <1>16 DEF vars, storeVars, serverVars
<1> QED
  BY <1>1, <1>2, <1>3, <1>4, <1>5, <1>6, <1>7, <1>8, <1>9, <1>10, <1>11, <1>12,
     <1>13, <1>14, <1>15, <1>16 DEF Next, Task, Persist

(* Every variable keeps its type, in every reachable state of the server.   *)
THEOREM TypeCorrect == SafetySpec => []ServerTypeOK
<1>1. Init => ServerTypeOK
  BY InitTyped
<1>2. ServerTypeOK /\ [Next]_vars => ServerTypeOK'
  BY NextTyped
<1> QED BY <1>1, <1>2, PTL DEF SafetySpec

-----------------------------------------------------------------------------
(* The safety invariants. *)

(* The stages in which a task holds the lock. *)
Persisting == {"writing", "rewriting", "syncing", "synced", "unsaved"}

(* Exactly the persisting task holds the lock, a task at work belongs to a job
   reported Running, and ids not given out yet have neither. *)
LockInv ==
  \A j \in JobId :
    /\ lock = j <=> task[j].stage \in Persisting
    /\ task[j].stage # "none" => jobs[j].status = "Running"
    /\ j >= nextId => task[j].stage = "none" /\ jobs[j].status = "Queued"

(* The entries are those of the holder, and none is left when it reports. *)
PendingInv ==
  /\ PendingBelongsToHolder
  /\ \A j \in JobId : task[j].stage \in {"synced", "unsaved"} => pending = <<>>

(* No entry is of a life that has not come: a new life finds older ones only,
   whatever moment the last one was killed at. *)
NoneAfter(m, l) == \A k \in Key : m[k] # None => m[k].life <= l
DiskInv ==
  /\ up => diskManifest \in {manifest, Torn}
  /\ NoneAfter(manifest, life)
  /\ diskManifest # Torn => NoneAfter(diskManifest, IF up THEN life ELSE life - 1)

IInv == ServerTypeOK /\ LockInv /\ PendingInv /\ DiskInv /\ CommittedByFinishedJobs

-----------------------------------------------------------------------------
LEMMA StageSet ==
  ASSUME ServerTypeOK, NEW j \in JobId, NEW s, SetStage(j, s), NEW i \in JobId
  PROVE  /\ task'[i].stage = IF i = j THEN s ELSE task[i].stage
         /\ task'[i].model = task[i].model
         /\ i # j => task'[i] = task[i]
  BY DEF SetStage, ServerTypeOK, TaskRec

LEMMA StatusSet ==
  ASSUME ServerTypeOK, NEW j \in JobId, NEW s, SetStatus(j, s), NEW i \in JobId
  PROVE  jobs'[i].status = IF i = j THEN s ELSE jobs[i].status
  BY DEF SetStatus, ServerTypeOK

LEMMA ComputedSet ==
  ASSUME ServerTypeOK, NEW j \in JobId, ComputeOk(j), NEW i \in JobId
  PROVE  /\ task'[i].stage = IF i = j THEN "rows" ELSE task[i].stage
         /\ task'[i].model = task[i].model
  BY DEF ComputeOk, ServerTypeOK, TaskRec

LEMMA RunSet ==
  ASSUME ServerTypeOK, NEW kind, NEW case, AnalysisRun(kind, case)
  PROVE  /\ nextId \in JobId /\ nextId' = nextId + 1 /\ nextId \in Nat
         /\ \A i \in JobId :
              /\ task'[i].stage = IF i = nextId THEN "computing" ELSE task[i].stage
              /\ jobs'[i].status = IF i = nextId THEN "Running" ELSE jobs[i].status
              /\ i # nextId => task'[i] = task[i]
<1>1. nextId \in JobId /\ nextId' = nextId + 1 /\ nextId \in Nat
  BY BoundsAssumption DEF ServerTypeOK, AnalysisRun, JobId
<1>2. /\ task' = [task EXCEPT ![nextId] =
                    [stage |-> "computing", model |-> revision, forces |-> FALSE]]
      /\ jobs' = [jobs EXCEPT ![nextId] =
                    [kind |-> kind, case |-> case, status |-> "Running"]]
  BY DEF AnalysisRun
<1>3. task \in [JobId -> TaskRec]
      /\ jobs \in [JobId -> [kind: JobKind, case: Cases \union {0}, status: Status]]
  BY DEF ServerTypeOK
<1> QED BY <1>1, <1>2, <1>3

LEMMA FreeIsNoJob == Free \notin JobId
  BY BoundsAssumption DEF JobId

LEMMA InitIInv == Init => IInv
<1> SUFFICES ASSUME Init PROVE IInv
  OBVIOUS
<1>1. ServerTypeOK
  BY InitTyped
<1>2. LockInv
  BY FreeIsNoJob DEF Init, LockInv, NoTask, NoJob, Persisting, JobId
<1>3. PendingInv
  BY DEF Init, StoreInit, PendingInv, PendingBelongsToHolder, NoTask
<1>4. DiskInv
  BY DEF Init, StoreInit, DiskInv, NoneAfter, NoEntries
<1>5. CommittedByFinishedJobs
  BY DEF Init, StoreInit, CommittedByFinishedJobs, NoEntries
<1> QED BY <1>1, <1>2, <1>3, <1>4, <1>5 DEF IInv

-----------------------------------------------------------------------------
(* Every step keeps the lock with the persisting task. *)
LEMMA LockStep == IInv /\ [Next]_vars => LockInv'
<1> SUFFICES ASSUME IInv, [Next]_vars PROVE LockInv'
  OBVIOUS
<1>0. ServerTypeOK /\ LockInv
  BY DEF IInv
<1> USE <1>0 DEF LockInv
<1>1. ASSUME NEW kind \in JobKind, NEW case \in Cases, AnalysisRun(kind, case) PROVE LockInv'
  <2>1. /\ nextId' = nextId + 1 /\ nextId \in Nat
        /\ \A i \in JobId :
             /\ task'[i].stage = IF i = nextId THEN "computing" ELSE task[i].stage
             /\ jobs'[i].status = IF i = nextId THEN "Running" ELSE jobs[i].status
    BY <1>1, RunSet
  <2>2. lock = Free /\ lock' = Free /\ \A i \in JobId : i \in Nat /\ i # Free
    BY <1>1, FreeIsNoJob DEF AnalysisRun, JobId
  <2> QED BY <2>1, <2>2 DEF Persisting
<1>2. CASE ModelEdit
  BY <1>2 DEF ModelEdit
<1>3. ASSUME NEW j \in JobId, ComputeOk(j) PROVE LockInv'
  BY <1>3, ComputedSet DEF ComputeOk, Persisting
<1>4. ASSUME NEW j \in JobId, ComputeErr(j) PROVE LockInv'
  BY <1>4, StageSet DEF ComputeErr, Persisting
<1>5. ASSUME NEW j \in JobId, ReportError(j) PROVE LockInv'
  BY <1>5, StageSet, StatusSet DEF ReportError, Persisting
<1>6. ASSUME NEW j \in JobId, BeginPersist(j) PROVE LockInv'
  <2>1. PICK s \in Persisting : SetStage(j, s)
    BY <1>6 DEF BeginPersist, Persisting
  <2> QED BY <1>6, <2>1, StageSet, FreeIsNoJob DEF BeginPersist, Persisting
<1>7. ASSUME NEW j \in JobId,
             OpenWriter(j) \/ CloseWriter(j) \/ WriteFails(j) \/ StartSync(j)
               \/ FinishSync(j) \/ SyncFails(j)
      PROVE  LockInv'
  <2>1. /\ task[j].stage \in Persisting
        /\ lock = j
        /\ UNCHANGED <<jobs, nextId, lock>>
        /\ UNCHANGED task \/ \E s \in Persisting : SetStage(j, s)
    BY <1>7 DEF OpenWriter, CloseWriter, WriteFails, StartSync, FinishSync, SyncFails,
                serverVars, Persisting
  <2> QED BY <2>1, StageSet DEF Persisting
<1>8. ASSUME NEW j \in JobId, ReportDone(j) PROVE LockInv'
  <2>1. PICK s \in Status : SetStatus(j, s)
    BY <1>8 DEF ReportDone, Status
  <2> QED BY <1>8, <2>1, StageSet, StatusSet, FreeIsNoJob DEF ReportDone, Persisting
<1>9. CASE Crash
  BY <1>9, FreeIsNoJob DEF Crash, NoTask, NoJob, Persisting, JobId
<1>10. CASE Restart
  BY <1>10 DEF Restart
<1>11. CASE UNCHANGED vars
  BY <1>11 DEF vars, serverVars
<1> QED BY <1>1, <1>2, <1>3, <1>4, <1>5, <1>6, <1>7, <1>8, <1>9, <1>10, <1>11
        DEF Next, Task, Persist

-----------------------------------------------------------------------------
LEMMA NothingPendingWhenFree == ASSUME IInv, lock = Free PROVE pending = <<>>
<1>1. pending \in Seq(Entry) /\ \A i \in DOMAIN pending : FALSE
  BY DEF IInv, ServerTypeOK, StoreTypeOK, PendingInv, PendingBelongsToHolder
<1>2. Len(pending) \in Nat /\ DOMAIN pending = 1 .. Len(pending)
  BY <1>1
<1>3. Len(pending) = 0
  <2>1. CASE Len(pending) >= 1
    <3>1. 1 \in DOMAIN pending
      BY <1>2, <2>1
    <3> QED BY <1>1, <3>1
  <2> QED BY <1>2, <2>1
<1> QED BY <1>1, <1>3, EmptySeq

(* Every step leaves only entries of the holder pending. *)
LEMMA PendingStep == IInv /\ [Next]_vars => PendingInv'
<1> SUFFICES ASSUME IInv, [Next]_vars PROVE PendingInv'
  OBVIOUS
<1>0. /\ ServerTypeOK /\ LockInv /\ PendingInv
      /\ lock \in JobId \union {Free}
      /\ pending \in Seq(Entry)
  BY DEF IInv, ServerTypeOK, StoreTypeOK
<1>a. ASSUME pending' = <<>> PROVE PendingInv'
  BY <1>a DEF PendingInv, PendingBelongsToHolder
<1>b. ASSUME UNCHANGED <<pending, lock, life>>,
             \A i \in JobId : task'[i].model = task[i].model,
             \A i \in JobId : task'[i].stage \in {"synced", "unsaved"}
                              => task[i].stage \in {"synced", "unsaved"}
      PROVE  PendingInv'
  BY <1>0, <1>b DEF PendingInv, PendingBelongsToHolder, RowsOf
<1>1. ASSUME NEW kind \in JobKind, NEW case \in Cases, AnalysisRun(kind, case) PROVE PendingInv'
  <2>1. pending' = <<>>
    BY <1>1, NothingPendingWhenFree DEF AnalysisRun, storeVars
  <2> QED BY <1>a, <2>1
<1>2. CASE ModelEdit
  BY <1>2, <1>b DEF ModelEdit, storeVars
<1>3. ASSUME NEW j \in JobId, ComputeOk(j) PROVE PendingInv'
  <2>1. \A i \in JobId : /\ task'[i].stage = IF i = j THEN "rows" ELSE task[i].stage
                         /\ task'[i].model = task[i].model
    BY <1>0, <1>3, ComputedSet
  <2> QED BY <1>3, <1>b, <2>1 DEF ComputeOk, storeVars
<1>4. ASSUME NEW j \in JobId, ComputeErr(j) \/ OpenWriter(j) PROVE PendingInv'
  <2>1. PICK s \in {"error", "rewriting"} : SetStage(j, s)
    BY <1>4 DEF ComputeErr, OpenWriter
  <2>2. \A i \in JobId : /\ task'[i].stage = IF i = j THEN s ELSE task[i].stage
                         /\ task'[i].model = task[i].model
    BY <1>0, <2>1, StageSet
  <2> QED BY <1>4, <1>b, <2>1, <2>2 DEF ComputeErr, OpenWriter, storeVars, CreateWriter
<1>5. ASSUME NEW j \in JobId, ReportError(j) \/ BeginPersist(j) PROVE PendingInv'
  <2>1. pending' = <<>>
    BY <1>5, NothingPendingWhenFree DEF ReportError, BeginPersist, storeVars
  <2> QED BY <1>a, <2>1
<1>6. ASSUME NEW j \in JobId, CloseWriter(j) PROVE PendingInv'
  <2>1. PICK s \in {"writing", "syncing"} : SetStage(j, s)
    BY <1>6 DEF CloseWriter
  <2>2. \A i \in JobId : /\ task'[i].stage = IF i = j THEN s ELSE task[i].stage
                         /\ task'[i].model = task[i].model
    BY <1>0, <2>1, StageSet
  <2>3. PICK e : /\ pending' = Append(pending, e) /\ e.rows = RowsOf(j)
    BY <1>6 DEF CloseWriter, FinishWriter
  <2>4. lock = j /\ lock' = j /\ life' = life /\ j # Free
    BY <1>6, FreeIsNoJob DEF CloseWriter
  <2>5. RowsOf(j)' = RowsOf(j)
    BY <2>2, <2>4 DEF RowsOf
  <2>6. ASSUME NEW i \in DOMAIN pending' PROVE lock' # Free /\ pending'[i].rows = RowsOf(j)
    <3>1. CASE i \in DOMAIN pending
      <4>1. pending'[i] = pending[i] /\ pending[i].rows = RowsOf(lock)
        BY <1>0, <2>3, <3>1 DEF PendingInv, PendingBelongsToHolder
      <4> QED BY <2>4, <4>1
    <3>2. CASE i \notin DOMAIN pending
      <4>1. pending'[i] = e
        BY <1>0, <2>3, <2>6, <3>2
      <4> QED BY <2>3, <2>4, <4>1
    <3> QED BY <3>1, <3>2
  <2>7. ASSUME NEW i \in JobId PROVE task'[i].stage \notin {"synced", "unsaved"}
    BY <1>0, <2>1, <2>2, <2>4 DEF LockInv, Persisting
  <2> QED BY <2>4, <2>5, <2>6, <2>7 DEF PendingInv, PendingBelongsToHolder
<1>7. ASSUME NEW j \in JobId, WriteFails(j) \/ FinishSync(j) \/ SyncFails(j) PROVE PendingInv'
  <2>1. pending' = <<>>
    BY <1>7 DEF WriteFails, FinishSync, SyncFails, DiscardPending, SyncCommit, storeVars
  <2> QED BY <1>a, <2>1
<1>8. ASSUME NEW j \in JobId, StartSync(j) PROVE PendingInv'
  BY <1>8, <1>b DEF StartSync, SyncBegin, serverVars
<1>9. ASSUME NEW j \in JobId, ReportDone(j) PROVE PendingInv'
  <2>1. pending' = <<>>
    BY <1>0, <1>9 DEF ReportDone, storeVars, PendingInv
  <2> QED BY <1>a, <2>1
<1>10. CASE Crash \/ Restart
  <2>1. pending' = <<>>
    BY <1>10 DEF Crash, Restart, OpenStore
  <2> QED BY <1>a, <2>1
<1>11. CASE UNCHANGED vars
  BY <1>11, <1>b DEF vars, storeVars, serverVars
<1> QED BY <1>1, <1>2, <1>3, <1>4, <1>5, <1>6, <1>7, <1>8, <1>9, <1>10, <1>11
        DEF Next, Task, Persist

-----------------------------------------------------------------------------
(* What sync() makes of a manifest: old entries, and entries of the job. *)
LEMMA AbsorbedEntries ==
  ASSUME NEW m \in Manifest, NEW p \in Seq(Entry), NEW rows, NEW k \in Key,
         \A i \in DOMAIN p : p[i].rows = rows
  PROVE  Absorb(m, p)[k] = m[k] \/ Absorb(m, p)[k] = rows
<1> DEFINE S == EntriesFor(p, k)
<1>1. CASE S = {}
  BY <1>1 DEF Absorb
<1>2. CASE S # {}
  <2>1. S \subseteq 1 .. Len(p) /\ Len(p) \in Nat
    BY DEF EntriesFor
  <2>2. \E i \in S : \A j \in S : j <= i
    <3> HIDE DEF S
    <3> QED BY <1>2, <2>1, LastPosition
  <2>3. (CHOOSE i \in S : \A j \in S : j <= i) \in DOMAIN p
    BY <2>1, <2>2 DEF EntriesFor
  <2> QED BY <1>2, <2>3 DEF Absorb
<1> QED BY <1>1, <1>2

LEMMA SyncedEntries ==
  ASSUME IInv, NEW j \in JobId, lock = j, NEW k \in Key
  PROVE  Absorb(manifest, pending)[k] \in {manifest[k], RowsOf(j)}
<1>1. \A i \in DOMAIN pending : pending[i].rows = RowsOf(j)
  BY DEF IInv, PendingInv, PendingBelongsToHolder
<1>2. manifest \in Manifest /\ pending \in Seq(Entry)
  BY DEF IInv, ServerTypeOK, StoreTypeOK
<1>3. Absorb(manifest, pending)[k] = manifest[k] \/ Absorb(manifest, pending)[k] = RowsOf(j)
  BY <1>1, <1>2, AbsorbedEntries
<1> QED BY <1>3

(* Every step keeps the manifest on disk with the one in memory, or torn. *)
LEMMA DiskStep == IInv /\ [Next]_vars => DiskInv'
<1> SUFFICES ASSUME IInv, [Next]_vars PROVE DiskInv'
  OBVIOUS
<1>0. DiskInv /\ life \in Nat
  BY BoundsAssumption DEF IInv, ServerTypeOK
<1>a. ASSUME UNCHANGED <<up, manifest, life>>, diskManifest' \in {diskManifest, Torn}
      PROVE  DiskInv'
  BY <1>0, <1>a DEF DiskInv, NoneAfter
<1>1. ASSUME NEW kind \in JobKind, NEW case \in Cases, AnalysisRun(kind, case) PROVE DiskInv'
  BY <1>1, <1>a DEF AnalysisRun, storeVars
<1>2. CASE ModelEdit
  BY <1>2, <1>a DEF ModelEdit, storeVars
<1>3. ASSUME NEW j \in JobId,
             ComputeOk(j) \/ ComputeErr(j) \/ ReportError(j) \/ BeginPersist(j)
               \/ OpenWriter(j) \/ CloseWriter(j) \/ WriteFails(j) \/ StartSync(j)
               \/ SyncFails(j) \/ ReportDone(j)
      PROVE  DiskInv'
  BY <1>3, <1>a DEF ComputeOk, ComputeErr, ReportError, BeginPersist, OpenWriter, CloseWriter,
                    WriteFails, StartSync, SyncFails, ReportDone, storeVars, serverVars,
                    CreateWriter, FinishWriter, DiscardPending, SyncBegin
<1>4. ASSUME NEW j \in JobId, FinishSync(j) PROVE DiskInv'
  <2>1. CASE pending = <<>>
    BY <1>4, <1>a, <2>1 DEF FinishSync, storeVars
  <2>2. CASE pending # <<>>
    <3>1. /\ lock = j /\ up /\ up' = up /\ life' = life
          /\ manifest' = Absorb(manifest, pending)
          /\ diskManifest' = manifest'
      BY <1>4, <2>2 DEF FinishSync, SyncCommit
    <3>2. NoneAfter(manifest', life)
      <4> SUFFICES ASSUME NEW k \in Key, manifest'[k] # None PROVE manifest'[k].life <= life
        BY DEF NoneAfter
      <4>1. manifest'[k] \in {manifest[k], RowsOf(j)}
        BY <3>1, SyncedEntries
      <4>2. RowsOf(j).life = life
        BY DEF RowsOf
      <4>3. manifest[k] # None => manifest[k].life <= life
        BY <1>0 DEF DiskInv, NoneAfter
      <4> QED BY <1>0, <4>1, <4>2, <4>3
    <3> QED BY <3>1, <3>2 DEF DiskInv, NoneAfter
  <2> QED BY <2>1, <2>2
<1>5. CASE Crash
  <2>1. /\ up /\ ~up' /\ life' = life + 1 /\ diskManifest' = diskManifest
        /\ manifest' = NoEntries
    BY <1>5 DEF Crash
  <2>2. life' - 1 = life
    BY <1>0, <2>1
  <2>3. NoneAfter(manifest', life')
    BY <2>1 DEF NoneAfter, NoEntries
  <2> QED BY <1>0, <2>1, <2>2, <2>3 DEF DiskInv, NoneAfter
<1>6. CASE Restart
  <2>1. /\ ~up /\ up' /\ life' = life /\ diskManifest' = diskManifest
        /\ manifest' = diskManifest /\ diskManifest # Torn
    BY <1>6 DEF Restart, OpenStore, Openable
  <2>2. diskManifest \in Manifest
    BY <2>1 DEF IInv, ServerTypeOK, StoreTypeOK
  <2>3. ASSUME NEW k \in Key, diskManifest[k] # None PROVE diskManifest[k].life <= life
    <3>1. diskManifest[k] \in ServerBatch
      BY <2>2, <2>3, BatchAssumption DEF Manifest
    <3>2. diskManifest[k].life \in Nat /\ diskManifest[k].life <= life - 1
      BY <1>0, <2>1, <2>3, <3>1, BoundsAssumption DEF DiskInv, NoneAfter, ServerBatch
    <3> QED BY <1>0, <3>2
  <2> QED BY <2>1, <2>3 DEF DiskInv, NoneAfter
<1>7. CASE UNCHANGED vars
  BY <1>7, <1>a DEF vars, storeVars, serverVars
<1> QED BY <1>1, <1>2, <1>3, <1>4, <1>5, <1>6, <1>7 DEF Next, Task, Persist

-----------------------------------------------------------------------------
(* An entry of this life: of a job reported Done, or of the synced holder. *)
Committed(j) == jobs[j].status = "Done" \/ (lock = j /\ task[j].stage = "synced")

(* Every step keeps the entries of this life with jobs whose sync() returned. *)
LEMMA CommittedStep == IInv /\ [Next]_vars => CommittedByFinishedJobs'
<1> SUFFICES ASSUME IInv, [Next]_vars PROVE CommittedByFinishedJobs'
  OBVIOUS
<1>0. /\ ServerTypeOK /\ LockInv /\ life \in Nat
      /\ \A k \in Key : manifest[k] \in ServerBatch \union {None}
  BY BoundsAssumption, BatchAssumption DEF IInv, ServerTypeOK, StoreTypeOK, Manifest
<1>c. ASSUME NEW k \in Key, manifest[k] # None, manifest[k].life = life
      PROVE  manifest[k].job \in JobId /\ Committed(manifest[k].job)
  BY <1>0, <1>c DEF IInv, CommittedByFinishedJobs, Committed, ServerBatch
<1>a. ASSUME UNCHANGED <<manifest, life>>, \A i \in JobId : Committed(i) => Committed(i)'
      PROVE  CommittedByFinishedJobs'
  BY <1>a, <1>c DEF CommittedByFinishedJobs, Committed
<1>1. ASSUME NEW kind \in JobKind, NEW case \in Cases, AnalysisRun(kind, case)
      PROVE  CommittedByFinishedJobs'
  <2>1. /\ nextId \in Nat /\ nextId \in JobId
        /\ \A i \in JobId :
             jobs'[i].status = IF i = nextId THEN "Running" ELSE jobs[i].status
    BY <1>0, <1>1, RunSet
  <2>2. lock = Free /\ UNCHANGED <<manifest, life>>
    BY <1>1 DEF AnalysisRun, storeVars
  <2>3. jobs[nextId].status = "Queued"
    BY <1>0, <2>1 DEF LockInv
  <2>4. ASSUME NEW i \in JobId, Committed(i) PROVE Committed(i)'
    BY <2>1, <2>2, <2>3, <2>4, FreeIsNoJob DEF Committed
  <2> QED BY <1>a, <2>2, <2>4
<1>2. CASE ModelEdit
  BY <1>2, <1>a DEF ModelEdit, storeVars, Committed
<1>3. ASSUME NEW j \in JobId, ComputeOk(j) PROVE CommittedByFinishedJobs'
  <2>1. /\ task[j].stage = "computing" /\ UNCHANGED <<manifest, life, jobs, lock>>
        /\ \A i \in JobId : task'[i].stage = IF i = j THEN "rows" ELSE task[i].stage
    BY <1>0, <1>3, ComputedSet DEF ComputeOk, storeVars
  <2> QED BY <1>a, <2>1 DEF Committed
<1>4. ASSUME NEW j \in JobId,
             ComputeErr(j) \/ BeginPersist(j) \/ OpenWriter(j) \/ CloseWriter(j)
               \/ WriteFails(j) \/ SyncFails(j)
      PROVE  CommittedByFinishedJobs'
  <2>1. PICK s \in Stage : SetStage(j, s)
    BY <1>4 DEF ComputeErr, BeginPersist, OpenWriter, CloseWriter, WriteFails, SyncFails, Stage
  <2>2. /\ task[j].stage # "synced"
        /\ UNCHANGED <<manifest, life, jobs>>
        /\ lock' = lock \/ lock = Free
    BY <1>4 DEF ComputeErr, BeginPersist, OpenWriter, CloseWriter, WriteFails, SyncFails,
                storeVars, CreateWriter, FinishWriter, DiscardPending
  <2>3. \A i \in JobId : task'[i].stage = IF i = j THEN s ELSE task[i].stage
    BY <1>0, <2>1, StageSet
  <2> QED BY <1>a, <2>2, <2>3, FreeIsNoJob DEF Committed
<1>5. ASSUME NEW j \in JobId, ReportError(j) PROVE CommittedByFinishedJobs'
  <2>1. /\ task[j].stage = "error" /\ UNCHANGED <<manifest, life, lock>>
        /\ \A i \in JobId : /\ task'[i].stage = IF i = j THEN "none" ELSE task[i].stage
                            /\ jobs'[i].status = IF i = j THEN "Failed" ELSE jobs[i].status
    BY <1>0, <1>5, StageSet, StatusSet DEF ReportError, storeVars
  <2>2. jobs[j].status = "Running"
    BY <1>0, <2>1 DEF LockInv
  <2> QED BY <1>a, <2>1, <2>2 DEF Committed
<1>6. ASSUME NEW j \in JobId, StartSync(j) PROVE CommittedByFinishedJobs'
  BY <1>6, <1>a DEF StartSync, SyncBegin, serverVars, Committed
<1>7. ASSUME NEW j \in JobId, FinishSync(j) PROVE CommittedByFinishedJobs'
  <2>1. /\ lock = j /\ lock' = j /\ task[j].stage = "syncing" /\ UNCHANGED <<life, jobs>>
        /\ \A i \in JobId : task'[i].stage = IF i = j THEN "synced" ELSE task[i].stage
    BY <1>0, <1>7, StageSet DEF FinishSync
  <2>2. ASSUME NEW i \in JobId, Committed(i) PROVE Committed(i)'
    BY <2>1, <2>2 DEF Committed
  <2>3. Committed(j)'
    BY <2>1 DEF Committed
  <2>4. CASE pending = <<>>
    BY <1>7, <1>a, <2>1, <2>2, <2>4 DEF FinishSync, storeVars
  <2>5. CASE pending # <<>>
    <3>1. manifest' = Absorb(manifest, pending)
      BY <1>7, <2>5 DEF FinishSync, SyncCommit
    <3>2. ASSUME NEW k \in Key, manifest'[k] # None, manifest'[k].life = life
          PROVE  \E i \in JobId : manifest'[k].job = i /\ Committed(i)'
      <4>1. manifest'[k] = manifest[k] \/ manifest'[k] = RowsOf(j)
        BY <2>1, <3>1, SyncedEntries
      <4>2. CASE manifest'[k] = manifest[k]
        <5>1. manifest[k].job \in JobId /\ Committed(manifest[k].job)
          BY <1>c, <3>2, <4>2
        <5>2. PICK i \in JobId : i = manifest[k].job /\ Committed(i)
          BY <5>1
        <5> QED BY <2>2, <4>2, <5>2
      <4>3. CASE manifest'[k] = RowsOf(j)
        <5>1. manifest'[k].job = j
          BY <4>3 DEF RowsOf
        <5> QED BY <2>3, <5>1
      <4> QED BY <4>1, <4>2, <4>3
    <3> QED BY <2>1, <3>2 DEF CommittedByFinishedJobs, Committed
  <2> QED BY <2>4, <2>5
<1>8. ASSUME NEW j \in JobId, ReportDone(j) PROVE CommittedByFinishedJobs'
  <2>1. PICK s : /\ SetStatus(j, s)
                 /\ s = IF task[j].stage = "synced" THEN "Done" ELSE "Failed"
    BY <1>8 DEF ReportDone
  <2>2. /\ lock = j /\ UNCHANGED <<manifest, life>>
        /\ task[j].stage \in {"synced", "unsaved"}
        /\ \A i \in JobId : jobs'[i].status = IF i = j THEN s ELSE jobs[i].status
    BY <1>0, <1>8, <2>1, StatusSet DEF ReportDone, storeVars
  <2>3. jobs[j].status = "Running"
    BY <1>0, <2>2 DEF LockInv
  <2>4. ASSUME NEW i \in JobId, Committed(i) PROVE Committed(i)'
    BY <2>1, <2>2, <2>3, <2>4 DEF Committed
  <2> QED BY <1>a, <2>2, <2>4
<1>9. CASE Crash
  BY <1>9 DEF Crash, CommittedByFinishedJobs, NoEntries
<1>10. CASE Restart
  <2>1. /\ ~up /\ life' = life /\ manifest' = diskManifest /\ diskManifest # Torn
    BY <1>10 DEF Restart, OpenStore, Openable
  <2>2. ASSUME NEW k \in Key, diskManifest[k] # None PROVE diskManifest[k].life # life
    <3>1. diskManifest[k].life <= life - 1
      BY <2>1, <2>2 DEF IInv, DiskInv, NoneAfter
    <3> QED BY <1>0, <3>1
  <2> QED BY <2>1, <2>2 DEF CommittedByFinishedJobs
<1>11. CASE UNCHANGED vars
  BY <1>11, <1>a DEF vars, storeVars, serverVars, Committed
<1> QED BY <1>1, <1>2, <1>3, <1>4, <1>5, <1>6, <1>7, <1>8, <1>9, <1>10, <1>11
        DEF Next, Task, Persist

-----------------------------------------------------------------------------
(* The strengthened invariant of the server holds in every reachable state. *)
THEOREM ServerInvariant == SafetySpec => []IInv
<1>1. Init => IInv
  BY InitIInv
<1>2. IInv /\ [Next]_vars => IInv'
  BY NextTyped, LockStep, PendingStep, DiskStep, CommittedStep DEF IInv
<1> QED BY <1>1, <1>2, PTL DEF SafetySpec

(* sync() can never sweep up entries of a job that failed: what is pending belongs
   to the job that holds the lock (persist_job_outcome). *)
THEOREM PendingIsHolders == SafetySpec => []PendingBelongsToHolder
<1>1. IInv => PendingBelongsToHolder
  BY DEF IInv, PendingInv
<1> QED BY <1>1, ServerInvariant, PTL

(* The manifest of this life announces rows of finished jobs only. *)
THEOREM ManifestOfFinishedJobs == SafetySpec => []CommittedByFinishedJobs
<1>1. IInv => CommittedByFinishedJobs
  BY DEF IInv
<1> QED BY <1>1, ServerInvariant, PTL

(* A query answered from memory would be answered the same after a restart, or the
   store would not open at all. *)
THEOREM DiskFollowsMemory == SafetySpec => []DiskManifestTracksMemory
<1>1. IInv => DiskManifestTracksMemory
  BY DEF IInv, DiskInv, DiskManifestTracksMemory
<1> QED BY <1>1, ServerInvariant, PTL

-----------------------------------------------------------------------------
(* What a job has written while it persists, and publishes in the end. *)

(* A key the task of job j has written: the file holds its rows and an entry waits
   for the sync. *)
Stored(k, j) == files[k] = RowsOf(j) /\ EntriesFor(pending, k) # {}
Published(k, j) == manifest[k] = RowsOf(j) /\ files[k] = RowsOf(j) /\ diskManifest[k] = RowsOf(j)

(* Each key is still to be written or is stored, none is left when the sync begins,
   and after it all of them are published. *)
WrittenBy(j) ==
  LET ks == KeysOf(j)
  IN /\ task[j].stage \in {"writing", "rewriting", "syncing"} =>
          \A i \in DOMAIN ks : Stored(ks[i], j) \/ \E d \in DOMAIN todo : todo[d] = ks[i]
     /\ task[j].stage = "syncing" => todo = <<>>
     /\ task[j].stage = "synced" => \A i \in DOMAIN ks : Published(ks[i], j)
WriteInv ==
  /\ lock # Free => up
  /\ \A j \in JobId : WrittenBy(j)

LEMMA KeysOfAreKeys ==
  ASSUME ServerTypeOK, NEW j \in JobId
  PROVE  /\ KeysOf(j) \in Seq(Key)
         /\ jobs[j].kind = "Summary" => KeysOf(j) = <<>>
<1>1. jobs[j].kind \in JobKind /\ jobs[j].case \in Cases /\ task[j].forces \in BOOLEAN
  BY CasesAssumption DEF ServerTypeOK, TaskRec
<1>2. KeysOf(j) \in Seq(Key)
  BY <1>1, KeysWrittenAreKeys DEF KeysOf
<1> QED BY <1>2 DEF KeysOf, KeysWritten

(* A step that leaves the store and the keys of a job alone. *)
LEMMA WrittenKept ==
  ASSUME NEW j \in JobId, WrittenBy(j),
         UNCHANGED <<files, diskManifest, manifest, pending, todo, life>>,
         KeysOf(j)' = KeysOf(j), task'[j].model = task[j].model,
         task'[j].stage = task[j].stage
  PROVE  WrittenBy(j)'
<1>1. RowsOf(j)' = RowsOf(j)
  BY DEF RowsOf
<1> QED BY <1>1 DEF WrittenBy, Stored, Published, EntriesFor

(* Nothing is claimed of a task that does not hold the lock. *)
LEMMA WrittenIdle ==
  ASSUME NEW j \in JobId,
         task'[j].stage \notin {"writing", "rewriting", "syncing", "synced"}
  PROVE  WrittenBy(j)'
  BY DEF WrittenBy

LEMMA OthersIdle ==
  ASSUME LockInv', NEW j \in JobId, lock' # j
  PROVE  WrittenBy(j)'
<1>1. task'[j].stage \notin {"writing", "rewriting", "syncing", "synced"}
  BY DEF LockInv, Persisting
<1> QED BY <1>1, WrittenIdle

(* A step of the holder that moves only its stage keeps its keys and rows. *)
LEMMA SameKeys ==
  ASSUME ServerTypeOK, NEW j \in JobId, NEW s, SetStage(j, s), jobs' = jobs, life' = life
  PROVE  KeysOf(j)' = KeysOf(j) /\ RowsOf(j)' = RowsOf(j)
  BY DEF SetStage, KeysOf, RowsOf, ServerTypeOK, TaskRec

(* The sync answers a stored key with the rows of the job. *)
LEMMA StoredIsAbsorbed ==
  ASSUME IInv, NEW j \in JobId, lock = j, NEW k \in Key, Stored(k, j)
  PROVE  Absorb(manifest, pending)[k] = RowsOf(j)
<1> DEFINE S == EntriesFor(pending, k)
<1>1. /\ S # {} /\ S \subseteq 1 .. Len(pending) /\ Len(pending) \in Nat
      /\ \A i \in DOMAIN pending : pending[i].rows = RowsOf(j)
  BY DEF Stored, EntriesFor, IInv, ServerTypeOK, StoreTypeOK, PendingInv, PendingBelongsToHolder
<1>2. \E i \in S : \A n \in S : n <= i
  <2> HIDE DEF S
  <2> QED BY <1>1, LastPosition
<1>3. (CHOOSE i \in S : \A n \in S : n <= i) \in DOMAIN pending
  BY <1>2 DEF EntriesFor
<1> QED BY <1>1, <1>3 DEF Absorb

LEMMA OtherComputed ==
  ASSUME ServerTypeOK, NEW i \in JobId, ComputeOk(i), NEW j \in JobId, j # i
  PROVE  task'[j] = task[j]
  BY DEF ComputeOk, ServerTypeOK

LEMMA WriteStep == IInv /\ WriteInv /\ [Next]_vars => WriteInv'
<1>u. IInv /\ WriteInv /\ [Next]_vars => (lock' # Free => up')
  BY DEF WriteInv, Next, Task, Persist, AnalysisRun, ModelEdit, ComputeOk, ComputeErr,
     ReportError, BeginPersist, OpenWriter, CloseWriter, WriteFails, StartSync, FinishSync,
     SyncFails, ReportDone, Crash, Restart, vars, serverVars
<1> SUFFICES ASSUME IInv, WriteInv, [Next]_vars, NEW j \in JobId PROVE WrittenBy(j)'
  BY <1>u DEF WriteInv
<1>0. /\ ServerTypeOK /\ LockInv /\ LockInv' /\ WrittenBy(j)
      /\ KeysOf(j) \in Seq(Key)
      /\ files \in [Key -> Batch \union {None, Torn}]
      /\ pending \in Seq(Entry) /\ todo \in Seq(Key)
  BY LockStep, KeysOfAreKeys DEF IInv, WriteInv, ServerTypeOK, StoreTypeOK
<1>1. CASE lock' # j
  BY <1>0, <1>1, OthersIdle
<1>2. CASE lock' = j /\ lock # j
  <2>1. BeginPersist(j)
    BY <1>2, FreeIsNoJob DEF Next, Task, Persist, AnalysisRun, ModelEdit, ComputeOk, ComputeErr,
       ReportError, BeginPersist, OpenWriter, CloseWriter, WriteFails, StartSync, FinishSync,
       SyncFails, ReportDone, Crash, Restart, vars, serverVars
  <2>2. PICK s \in {"synced", "syncing", "writing"} :
          /\ SetStage(j, s)
          /\ s = IF jobs[j].kind = "Summary" THEN "synced"
                 ELSE IF todo' = <<>> THEN "syncing" ELSE "writing"
    BY <2>1 DEF BeginPersist
  <2>3. /\ todo' = KeysOf(j) /\ KeysOf(j)' = KeysOf(j)
        /\ task'[j].stage = s
    BY <1>0, <2>1, <2>2, SameKeys, StageSet DEF BeginPersist, KeysOf
  <2>4. s = "synced" => KeysOf(j) = <<>>
    BY <1>0, <2>2, KeysOfAreKeys
  <2>5. s = "syncing" => todo' = <<>>
    BY <2>2
  <2> QED BY <2>3, <2>4, <2>5 DEF WrittenBy
<1>3. CASE lock' = j /\ lock = j
  <2>0. lock # Free
    BY <1>3, FreeIsNoJob
  <2>1. ASSUME NEW i \in JobId, ComputeOk(i) \/ ComputeErr(i) PROVE WrittenBy(j)'
    <3>1. i # j
      BY <1>0, <1>3, <2>1 DEF LockInv, Persisting, ComputeOk, ComputeErr
    <3>2. task'[j] = task[j]
      BY <1>0, <2>1, <3>1, StageSet, OtherComputed DEF ComputeErr
    <3> QED BY <1>0, <2>1, <3>2, WrittenKept DEF ComputeOk, ComputeErr, storeVars, KeysOf
  <2>2. CASE OpenWriter(j)
    <3>1. /\ files' = [files EXCEPT ![Head(todo)] = Torn] /\ todo # <<>>
          /\ UNCHANGED <<pending, todo>>
          /\ task'[j].stage = "rewriting" /\ task[j].stage = "writing"
          /\ KeysOf(j)' = KeysOf(j) /\ RowsOf(j)' = RowsOf(j)
      BY <1>0, <2>2, StageSet, SameKeys DEF OpenWriter, CreateWriter
    <3>2. 1 \in DOMAIN todo /\ todo[1] = Head(todo)
      BY <1>0, <3>1
    <3>3. ASSUME NEW i \in DOMAIN KeysOf(j)
          PROVE  Stored(KeysOf(j)[i], j)' \/ \E d \in DOMAIN todo : todo[d] = KeysOf(j)[i]
      <4>1. KeysOf(j)[i] \in Key
        BY <1>0
      <4>2. CASE KeysOf(j)[i] = Head(todo)
        BY <3>2, <4>2
      <4>3. CASE KeysOf(j)[i] # Head(todo)
        BY <1>0, <3>1, <4>1, <4>3 DEF WrittenBy, Stored, EntriesFor
      <4> QED BY <4>2, <4>3
    <3> QED BY <3>1, <3>3 DEF WrittenBy
  <2>3. CASE CloseWriter(j)
    <3> DEFINE e == [key |-> Head(todo), rows |-> RowsOf(j)]
    <3>1. /\ files' = [files EXCEPT ![Head(todo)] = RowsOf(j)] /\ todo # <<>>
          /\ pending' = Append(pending, e)
          /\ todo' = Tail(todo)
          /\ task'[j].stage \in {"writing", "syncing"} /\ task[j].stage = "rewriting"
          /\ task'[j].stage = "syncing" => todo' = <<>>
          /\ KeysOf(j)' = KeysOf(j) /\ RowsOf(j)' = RowsOf(j)
      <4>1. PICK s \in {"writing", "syncing"} :
              SetStage(j, s) /\ s = IF Tail(todo) = <<>> THEN "syncing" ELSE "writing"
        BY <2>3 DEF CloseWriter
      <4> QED BY <1>0, <2>3, <4>1, StageSet, SameKeys DEF CloseWriter, FinishWriter
    <3>2. ASSUME NEW i \in DOMAIN KeysOf(j)
          PROVE  Stored(KeysOf(j)[i], j)' \/ \E d \in DOMAIN todo' : todo'[d] = KeysOf(j)[i]
      <4>1. KeysOf(j)[i] \in Key
        BY <1>0
      <4>2. CASE KeysOf(j)[i] = Head(todo)
        <5>1. pending'[Len(pending) + 1] = e /\ Len(pending) + 1 \in DOMAIN pending'
          BY <1>0, <3>1
        <5>2. Len(pending) + 1 \in EntriesFor(pending', KeysOf(j)[i])
          BY <4>2, <5>1 DEF EntriesFor
        <5> QED BY <1>0, <3>1, <4>1, <4>2, <5>2 DEF Stored
      <4>3. CASE KeysOf(j)[i] # Head(todo) /\ Stored(KeysOf(j)[i], j)
        <5>1. PICK d \in DOMAIN pending : pending[d].key = KeysOf(j)[i]
          BY <4>3 DEF Stored, EntriesFor
        <5>2. d \in DOMAIN pending' /\ pending'[d] = pending[d]
          BY <1>0, <3>1
        <5>3. d \in EntriesFor(pending', KeysOf(j)[i])
          BY <5>1, <5>2 DEF EntriesFor
        <5> QED BY <1>0, <3>1, <4>1, <4>3, <5>3 DEF Stored
      <4>4. CASE KeysOf(j)[i] # Head(todo) /\ ~Stored(KeysOf(j)[i], j)
        <5>1. PICK d \in DOMAIN todo : todo[d] = KeysOf(j)[i]
          BY <1>0, <3>1, <4>4 DEF WrittenBy
        <5>2. d \in Nat /\ d > 1 /\ d <= Len(todo)
          BY <1>0, <4>4, <5>1
        <5>3. d - 1 \in DOMAIN Tail(todo) /\ Tail(todo)[d - 1] = todo[d]
          BY <1>0, <3>1, <5>2
        <5> QED BY <3>1, <5>1, <5>3
      <4> QED BY <4>2, <4>3, <4>4
    <3> QED BY <3>1, <3>2 DEF WrittenBy
  <2>4. CASE WriteFails(j) \/ SyncFails(j)
    <3>1. SetStage(j, "unsaved")
      BY <2>4 DEF WriteFails, SyncFails
    <3> QED BY <1>0, <3>1, StageSet, WrittenIdle
  <2>5. CASE StartSync(j)
    <3>1. /\ UNCHANGED <<files, pending, todo, life, jobs, task>>
          /\ task[j].stage = "syncing"
      BY <2>5 DEF StartSync, SyncBegin, serverVars
    <3> QED BY <1>0, <3>1 DEF WrittenBy, Stored, EntriesFor, KeysOf, RowsOf
  <2>6. CASE FinishSync(j)
    <3>1. /\ task[j].stage = "syncing" /\ task'[j].stage = "synced"
          /\ todo = <<>>
          /\ KeysOf(j)' = KeysOf(j) /\ RowsOf(j)' = RowsOf(j)
      BY <1>0, <2>6, StageSet, SameKeys DEF FinishSync, WrittenBy
    <3>2. ASSUME NEW i \in DOMAIN KeysOf(j) PROVE Published(KeysOf(j)[i], j)'
      <4>1. KeysOf(j)[i] \in Key /\ Stored(KeysOf(j)[i], j)
        BY <1>0, <3>1 DEF WrittenBy
      <4>2. pending # <<>>
        BY <4>1 DEF Stored, EntriesFor
      <4>3. /\ manifest' = Absorb(manifest, pending) /\ diskManifest' = Absorb(manifest, pending)
            /\ files' = files
        BY <2>6, <4>2 DEF FinishSync, SyncCommit
      <4>4. Absorb(manifest, pending)[KeysOf(j)[i]] = RowsOf(j)
        BY <1>3, <4>1, StoredIsAbsorbed
      <4> QED BY <3>1, <4>1, <4>3, <4>4 DEF Published, Stored
    <3> QED BY <3>1, <3>2 DEF WrittenBy
  <2>7. CASE UNCHANGED vars
    BY <1>0, <2>7, WrittenKept DEF vars, storeVars, serverVars, KeysOf
  <2>8. ASSUME NEW i \in JobId, Persist(i) PROVE i = j /\ ~ReportDone(i)
    BY <1>3, <2>0, <2>8
       DEF Persist, ReportError, BeginPersist, OpenWriter, CloseWriter, WriteFails, StartSync,
           FinishSync, SyncFails, ReportDone
  <2>9. ASSUME NEW i \in JobId, Persist(i) PROVE WrittenBy(j)'
    <3>1. Persist(j) /\ ~ReportDone(j) /\ ~ReportError(j) /\ ~BeginPersist(j)
      BY <1>3, <2>0, <2>8, <2>9 DEF ReportError, BeginPersist
    <3> QED BY <2>2, <2>3, <2>4, <2>5, <2>6, <3>1 DEF Persist
  <2>10. lock' # Free /\ lock # Free /\ up
    BY <1>3, <2>0 DEF WriteInv
  <2> QED
    BY <2>1, <2>7, <2>9, <2>10 DEF Next, Task, AnalysisRun, ModelEdit, Crash, Restart
<1> QED BY <1>1, <1>2, <1>3

LEMMA InitWriteInv == Init => WriteInv
  BY DEF Init, WriteInv, WrittenBy, NoTask

(* The step that reports a job Done is the holder's last one. *)
LEMMA DoneStep ==
  ASSUME IInv, WriteInv, [Next]_vars, NEW j \in JobId,
         jobs[j].status = "Running", jobs'[j].status = "Done"
  PROVE  ReportDone(j) /\ task[j].stage = "synced"
<1>0. ServerTypeOK
  BY DEF IInv
<1>1. ASSUME NEW kind \in JobKind, NEW case \in Cases, AnalysisRun(kind, case) PROVE FALSE
  BY <1>0, <1>1, RunSet
<1>2. ASSUME NEW i \in JobId, ReportError(i) PROVE FALSE
  BY <1>0, <1>2, StatusSet DEF ReportError
<1>3. ASSUME NEW i \in JobId, ReportDone(i)
      PROVE  ReportDone(j) /\ task[j].stage = "synced"
  <2>1. PICK s : SetStatus(i, s) /\ s = IF task[i].stage = "synced" THEN "Done" ELSE "Failed"
    BY <1>3 DEF ReportDone
  <2>2. jobs'[j].status = IF j = i THEN s ELSE jobs[j].status
    BY <1>0, <2>1, StatusSet
  <2> QED BY <1>3, <2>1, <2>2
<1>4. ASSUME UNCHANGED jobs PROVE FALSE
  BY <1>4
<1>5. CASE Crash
  BY <1>5 DEF Crash, NoJob
<1> QED BY <1>1, <1>2, <1>3, <1>4, <1>5
    DEF Next, Task, Persist, ModelEdit, ComputeOk, ComputeErr, BeginPersist, OpenWriter,
        CloseWriter, WriteFails, StartSync, FinishSync, SyncFails, Restart, vars, serverVars

(* When a job turns Done, every key it announces is answered with the job's own rows, by
   the manifest in memory, by the file and by the manifest a restart reads
   (persist_job_outcome: write, sync, then set the final status). *)
THEOREM DonePublishes == SafetySpec => DonePublishesOwnRows
<1>1. Init => IInv /\ WriteInv
  BY InitIInv, InitWriteInv
<1>2. IInv /\ WriteInv /\ [Next]_vars => (IInv /\ WriteInv)'
  BY NextTyped, LockStep, PendingStep, DiskStep, CommittedStep, WriteStep DEF IInv
<1>3. IInv /\ WriteInv /\ [Next]_vars =>
        [\A j \in JobId :
           (jobs[j].status = "Running" /\ jobs'[j].status = "Done") =>
             \A k \in Announced(j) :
               /\ manifest'[k] = RowsOf(j)
               /\ files'[k] = RowsOf(j)
               /\ diskManifest'[k] = RowsOf(j)]_vars
  <2> SUFFICES ASSUME IInv, WriteInv, [Next]_vars, NEW j \in JobId,
                      jobs[j].status = "Running", jobs'[j].status = "Done",
                      NEW k \in Announced(j)
               PROVE  /\ manifest'[k] = RowsOf(j)
                      /\ files'[k] = RowsOf(j)
                      /\ diskManifest'[k] = RowsOf(j)
    OBVIOUS
  <2>1. ReportDone(j) /\ task[j].stage = "synced"
    BY DoneStep
  <2>2. Published(k, j)
    BY <2>1 DEF WriteInv, WrittenBy, Announced
  <2> QED BY <2>1, <2>2 DEF Published, ReportDone, storeVars
<1> QED BY <1>1, <1>2, <1>3, PTL DEF SafetySpec, DonePublishesOwnRows

-----------------------------------------------------------------------------
(* A job writes no key but its own: what it has still to write and what waits for the
   sync are keys it announces. *)
OwnKeys(j) ==
  task[j].stage \in {"writing", "rewriting", "syncing"} =>
    /\ \A d \in DOMAIN todo : todo[d] \in Announced(j)
    /\ \A i \in DOMAIN pending : pending[i].key \in Announced(j)
OwnInv == \A j \in JobId : OwnKeys(j)

LEMMA AnnouncedAreKeys ==
  ASSUME ServerTypeOK, NEW j \in JobId
  PROVE  /\ Announced(j) \subseteq Key
         /\ jobs[j].kind = "Summary" => Announced(j) = {}
  BY KeysOfAreKeys DEF Announced

LEMMA InitOwnInv == Init => OwnInv
  BY DEF Init, OwnInv, OwnKeys, NoTask

(* A step that gives the holder nothing new to write or to announce. *)
LEMMA OwnKept ==
  ASSUME NEW j \in JobId, OwnKeys(j), task[j].stage \in {"writing", "rewriting", "syncing"},
         KeysOf(j)' = KeysOf(j), UNCHANGED <<todo, pending>>
  PROVE  OwnKeys(j)'
  BY DEF OwnKeys, Announced

LEMMA OwnStep == IInv /\ OwnInv /\ [Next]_vars => OwnInv'
<1> SUFFICES ASSUME IInv, OwnInv, [Next]_vars, NEW j \in JobId,
                    task'[j].stage \in {"writing", "rewriting", "syncing"}
             PROVE  OwnKeys(j)'
  BY DEF OwnInv, OwnKeys
<1>0. /\ ServerTypeOK /\ LockInv /\ LockInv' /\ OwnKeys(j)
      /\ pending \in Seq(Entry) /\ todo \in Seq(Key)
      /\ lock' = j /\ j # Free
  BY LockStep, FreeIsNoJob DEF IInv, OwnInv, ServerTypeOK, StoreTypeOK, LockInv, Persisting
<1>1. ASSUME task'[j].stage = task[j].stage, KeysOf(j)' = KeysOf(j), UNCHANGED <<todo, pending>>
      PROVE  OwnKeys(j)'
  BY <1>0, <1>1, OwnKept
<1>2. ASSUME NEW kind \in JobKind, NEW case \in Cases, AnalysisRun(kind, case) PROVE FALSE
  BY <1>0, <1>2 DEF AnalysisRun
<1>3. ASSUME NEW i \in JobId, ComputeOk(i) \/ ComputeErr(i) PROVE OwnKeys(j)'
  <2>1. lock = j /\ i # j
    BY <1>0, <1>3 DEF LockInv, Persisting, ComputeOk, ComputeErr
  <2>2. task'[j] = task[j]
    BY <1>0, <1>3, <2>1, StageSet, OtherComputed DEF ComputeErr
  <2> QED BY <1>1, <1>3, <2>2 DEF ComputeOk, ComputeErr, storeVars, KeysOf
<1>4. ASSUME NEW i \in JobId, ReportError(i) PROVE FALSE
  BY <1>0, <1>4 DEF ReportError
<1>5. ASSUME NEW i \in JobId, BeginPersist(i) PROVE OwnKeys(j)'
  <2>1. i = j /\ pending = <<>> /\ pending' = <<>> /\ todo' = KeysOf(j)
    BY <1>0, <1>5, NothingPendingWhenFree DEF BeginPersist, storeVars
  <2>2. PICK s : SetStage(j, s)
    BY <1>5, <2>1 DEF BeginPersist
  <2>3. KeysOf(j)' = KeysOf(j)
    BY <1>0, <1>5, <2>1, <2>2, SameKeys DEF BeginPersist
  <2> QED BY <2>1, <2>3 DEF OwnKeys, Announced
<1>6. ASSUME NEW i \in JobId, OpenWriter(i) PROVE OwnKeys(j)'
  <2>1. i = j /\ SetStage(j, "rewriting") /\ task[j].stage = "writing"
        /\ UNCHANGED <<todo, pending, jobs, life>>
    BY <1>0, <1>6 DEF OpenWriter, CreateWriter
  <2> QED BY <1>0, <2>1, SameKeys, OwnKept
<1>7. ASSUME NEW i \in JobId, CloseWriter(i) PROVE OwnKeys(j)'
  <2> DEFINE e == [key |-> Head(todo), rows |-> RowsOf(j)]
  <2>1. i = j /\ task[j].stage = "rewriting" /\ todo # <<>>
        /\ pending' = Append(pending, e) /\ todo' = Tail(todo)
    BY <1>0, <1>7 DEF CloseWriter, FinishWriter
  <2>2. PICK s : SetStage(j, s)
    BY <1>7, <2>1 DEF CloseWriter
  <2>3. KeysOf(j)' = KeysOf(j)
    BY <1>0, <1>7, <2>1, <2>2, SameKeys DEF CloseWriter
  <2>4. /\ \A d \in DOMAIN todo : todo[d] \in Announced(j)
        /\ \A d \in DOMAIN pending : pending[d].key \in Announced(j)
    BY <1>0, <2>1 DEF OwnKeys
  <2>5. Head(todo) \in Announced(j)
    BY <1>0, <2>1, <2>4
  <2>6. \A d \in DOMAIN Tail(todo) : Tail(todo)[d] \in Announced(j)
    BY <1>0, <2>1, <2>4
  <2>7. ASSUME NEW d \in DOMAIN pending' PROVE pending'[d].key \in Announced(j)
    <3>1. CASE d = Len(pending) + 1
      BY <1>0, <2>1, <2>5, <3>1
    <3>2. CASE d # Len(pending) + 1
      <4>1. d \in DOMAIN pending /\ pending'[d] = pending[d]
        BY <1>0, <2>1, <3>2
      <4> QED BY <2>4, <4>1
    <3> QED BY <3>1, <3>2
  <2> QED BY <2>1, <2>3, <2>6, <2>7 DEF OwnKeys, Announced
<1>8. ASSUME NEW i \in JobId,
             WriteFails(i) \/ FinishSync(i) \/ SyncFails(i) \/ ReportDone(i)
      PROVE  FALSE
  <2>1. PICK s \in {"unsaved", "synced", "none"} : SetStage(i, s) /\ lock = i
    BY <1>8 DEF WriteFails, FinishSync, SyncFails, ReportDone
  <2>2. i = j
    BY <1>0, <1>8 DEF WriteFails, FinishSync, SyncFails, ReportDone
  <2> QED BY <1>0, <2>1, <2>2, StageSet
<1>9. ASSUME NEW i \in JobId, StartSync(i) PROVE OwnKeys(j)'
  BY <1>1, <1>9 DEF StartSync, SyncBegin, serverVars, KeysOf
<1>10. CASE ModelEdit
  BY <1>1, <1>10 DEF ModelEdit, storeVars, KeysOf
<1>11. CASE Crash
  BY <1>0, <1>11 DEF Crash
<1>12. CASE Restart
  <2>1. task'[j] = task[j] /\ UNCHANGED <<jobs, todo>> /\ pending' = <<>>
    BY <1>12 DEF Restart, OpenStore
  <2> QED BY <1>0, <2>1 DEF OwnKeys, Announced, KeysOf
<1>13. CASE UNCHANGED vars
  BY <1>1, <1>13 DEF vars, storeVars, serverVars, KeysOf
<1> QED BY <1>2, <1>3, <1>4, <1>5, <1>6, <1>7, <1>8, <1>9, <1>10, <1>11, <1>12, <1>13
        DEF Next, Task, Persist

-----------------------------------------------------------------------------
(* The server implements JobService, without the lock, the writers and the pending
   entries: a job that ends Done announces exactly the keys it fills and has its own rows
   in each, a job that fails announces nothing and reaches no key but its own, and a kill
   costs the directory exactly while the manifest on disk is torn. *)

LEMMA InitRefines == Init => Service!ServiceInit
<1> SUFFICES ASSUME Init PROVE Service!ServiceInit
  OBVIOUS
<1>1. \A i \in JobId : i >= 0
  BY DEF JobId
<1>2. \A i \in JobId : ServiceStatus(i) = "Absent"
  BY <1>1 DEF Init, ServiceStatus
<1>3. \A i \in JobId : ServiceOutcome(i) = {}
  BY <1>2 DEF ServiceOutcome
<1>4. NoEntries # Torn
  BY StoreMarksAssumption DEF NoEntries, Key, ResultKind
<1> QED BY <1>2, <1>3, <1>4 DEF Init, StoreInit, Service!ServiceInit, NoEntries, NoTask

(* What the client sees of the jobs. *)
JobsSeen(i) == <<ServiceStatus(i), task[i].model, ServiceOutcome(i)>>

(* A step that keeps the jobs the client sees, the manifest and the files. *)
LEMMA Stutters ==
  ASSUME UNCHANGED <<up, life, files, manifest, diskManifest>>,
         \A i \in JobId : JobsSeen(i)' = JobsSeen(i)
  PROVE  UNCHANGED Service!serviceVars
  BY DEF Service!serviceVars, JobsSeen

(* A step of the job j of a running server moves the reported state of j alone, and
   keeps the clones. *)
OnlyReports(j, s, ks) ==
  /\ up /\ up' /\ life' = life
  /\ \A i \in JobId :
       /\ task'[i].model = task[i].model
       /\ ServiceStatus(i)' = IF i = j THEN s ELSE ServiceStatus(i)
       /\ ServiceOutcome(i)' = IF i = j THEN ks ELSE ServiceOutcome(i)

(* The reported state of a job that is not given a new id depends on its stage, its
   status and its keys. *)
LEMMA SeenKept ==
  ASSUME UNCHANGED nextId, NEW i \in JobId,
         task'[i].stage = task[i].stage, jobs'[i].status = jobs[i].status,
         KeysOf(i)' = KeysOf(i)
  PROVE  ServiceStatus(i)' = ServiceStatus(i) /\ ServiceOutcome(i)' = ServiceOutcome(i)
<1>1. ServiceStatus(i)' = ServiceStatus(i)
  BY DEF ServiceStatus
<1>2. Announced(i)' = Announced(i)
  BY DEF Announced
<1> QED BY <1>1, <1>2 DEF ServiceOutcome

(* The job of a working task is reported Running: it computes or stores. *)
LEMMA WorkingIsRunning ==
  ASSUME IInv, NEW j \in JobId, task[j].stage # "none"
  PROVE  /\ ~(j >= nextId)
         /\ jobs[j].status = "Running"
         /\ ServiceStatus(j) = IF task[j].stage = "synced" THEN "Done"
                               ELSE IF task[j].stage \in {"computing", "error"}
                                    THEN "Computing" ELSE "Storing"
<1>1. j \in Nat /\ nextId \in Nat
  BY BoundsAssumption DEF JobId, IInv, ServerTypeOK
<1>2. ~(j >= nextId) /\ jobs[j].status = "Running"
  BY <1>1 DEF IInv, LockInv
<1> QED BY <1>2 DEF ServiceStatus

(* Moving the stage of a task that works, its status kept. *)
LEMMA StageReports ==
  ASSUME IInv, up, UNCHANGED <<up, life, nextId, jobs>>, NEW j \in JobId,
         task[j].stage # "none", NEW s \in Stage, SetStage(j, s)
  PROVE  OnlyReports(j, IF s = "synced" THEN "Done"
                        ELSE IF s \in {"computing", "error"} THEN "Computing" ELSE "Storing",
                     IF s \in {"computing", "error"} THEN {} ELSE Announced(j))
<1>0. ServerTypeOK
  BY DEF IInv
<1>1. \A i \in JobId : /\ task'[i].stage = IF i = j THEN s ELSE task[i].stage
                       /\ task'[i].model = task[i].model
                       /\ i # j => task'[i] = task[i]
  BY <1>0, StageSet
<1>2. ASSUME NEW i \in JobId, i # j
      PROVE  ServiceStatus(i)' = ServiceStatus(i) /\ ServiceOutcome(i)' = ServiceOutcome(i)
  BY <1>1, <1>2, SeenKept DEF KeysOf
<1>3. ~(j >= nextId') /\ jobs'[j].status = "Running"
  BY WorkingIsRunning
<1>4. Announced(j)' = Announced(j)
  BY <1>0, SameKeys DEF Announced
<1>5. task'[j].stage = s
  BY <1>1
<1>6. /\ ServiceStatus(j)' = IF s = "synced" THEN "Done"
                             ELSE IF s \in {"computing", "error"} THEN "Computing" ELSE "Storing"
      /\ ServiceOutcome(j)' = IF s \in {"computing", "error"} THEN {} ELSE Announced(j)
  BY <1>3, <1>4, <1>5 DEF ServiceStatus, ServiceOutcome
<1> QED BY <1>1, <1>2, <1>6 DEF OnlyReports

(* The report of the final status. *)
LEMMA StatusReports ==
  ASSUME IInv, up, UNCHANGED <<up, life, nextId>>, NEW j \in JobId,
         task[j].stage # "none", NEW s \in {"Done", "Failed"},
         SetStage(j, "none"), SetStatus(j, s)
  PROVE  OnlyReports(j, s, IF s = "Done" THEN Announced(j) ELSE {})
<1>0. ServerTypeOK
  BY DEF IInv
<1>1. \A i \in JobId : /\ task'[i].stage = IF i = j THEN "none" ELSE task[i].stage
                       /\ task'[i].model = task[i].model
                       /\ i # j => task'[i] = task[i]
                       /\ jobs'[i].status = IF i = j THEN s ELSE jobs[i].status
                       /\ i # j => jobs'[i] = jobs[i]
  BY <1>0, StageSet, StatusSet DEF SetStatus, ServerTypeOK
<1>2. ASSUME NEW i \in JobId, i # j
      PROVE  ServiceStatus(i)' = ServiceStatus(i) /\ ServiceOutcome(i)' = ServiceOutcome(i)
  BY <1>1, <1>2, SeenKept DEF KeysOf
<1>3. ~(j >= nextId') /\ jobs'[j].status = s /\ task'[j].stage = "none"
  BY <1>1, WorkingIsRunning
<1>4. ServiceStatus(j)' = s
  BY <1>3 DEF ServiceStatus
<1>5. Announced(j)' = Announced(j)
  BY <1>0 DEF Announced, KeysOf, SetStage, SetStatus, ServerTypeOK, TaskRec
<1> QED BY <1>1, <1>2, <1>4, <1>5 DEF OnlyReports, ServiceOutcome

-----------------------------------------------------------------------------
(* Registering a job submits it with the revision of the cloned model. *)
LEMMA RunRefines ==
  ASSUME IInv, NEW kind \in JobKind, NEW case \in Cases, AnalysisRun(kind, case)
  PROVE  Service!Submit(nextId, revision)
<1>0. ServerTypeOK /\ task \in [JobId -> TaskRec] /\ revision \in 0 .. MaxEvents
      /\ jobs \in [JobId -> [kind: JobKind, case: Cases \union {0}, status: Status]]
  BY DEF IInv, ServerTypeOK
<1>1. /\ nextId \in JobId /\ nextId' = nextId + 1 /\ nextId \in Nat
      /\ \A i \in JobId :
           /\ task'[i].stage = IF i = nextId THEN "computing" ELSE task[i].stage
           /\ jobs'[i].status = IF i = nextId THEN "Running" ELSE jobs[i].status
           /\ i # nextId => task'[i] = task[i]
  BY <1>0, RunSet
<1>2. task'[nextId].model = revision
  BY <1>0, <1>1 DEF AnalysisRun
<1>3. \A i \in JobId : i \in Nat /\ (i # nextId => jobs'[i] = jobs[i])
  BY <1>0 DEF JobId, AnalysisRun
<1>4. ServiceStatus(nextId) = "Absent" /\ ServiceOutcome(nextId) = {}
  BY <1>1 DEF ServiceStatus, ServiceOutcome
<1>5. PICK j \in JobId : j = nextId
  BY <1>1
<1>9. ServiceStatus(j)' = "Computing" /\ ServiceOutcome(j)' = {}
  <2>1. ~(j >= nextId')
    BY <1>1, <1>5
  <2>2. ServiceStatus(j)' = "Computing"
    BY <1>1, <1>5, <2>1 DEF ServiceStatus
  <2> QED BY <2>2 DEF ServiceOutcome
<1>6. ASSUME NEW i \in JobId, i # nextId
      PROVE  /\ ServiceStatus(i)' = ServiceStatus(i)
             /\ ServiceOutcome(i)' = ServiceOutcome(i)
             /\ task'[i].model = task[i].model
  <2>1. (i >= nextId') <=> (i >= nextId)
    BY <1>1, <1>3, <1>6
  <2>2. task'[i] = task[i] /\ jobs'[i] = jobs[i]
    BY <1>1, <1>3, <1>6
  <2>3. ServiceStatus(i)' = ServiceStatus(i) /\ Announced(i)' = Announced(i)
    BY <2>1, <2>2 DEF ServiceStatus, Announced, KeysOf
  <2> QED BY <2>2, <2>3 DEF ServiceOutcome
<1>7. up /\ UNCHANGED <<up, life, files, manifest, diskManifest>>
  BY DEF AnalysisRun, storeVars
<1>8. /\ [i \in JobId |-> ServiceStatus(i)]'
           = [[i \in JobId |-> ServiceStatus(i)] EXCEPT ![nextId] = "Computing"]
      /\ [i \in JobId |-> task[i].model]'
           = [[i \in JobId |-> task[i].model] EXCEPT ![nextId] = revision]
      /\ [i \in JobId |-> ServiceOutcome(i)]' = [i \in JobId |-> ServiceOutcome(i)]
  BY <1>1, <1>2, <1>4, <1>5, <1>6, <1>9
<1> QED BY <1>1, <1>4, <1>7, <1>8 DEF Service!Submit

(* The end of the computation decides the keys of the job. *)
LEMMA ComputeRefines ==
  ASSUME IInv, NEW j \in JobId, ComputeOk(j)
  PROVE  \E ks \in SUBSET Key : Service!Compute(j, ks)
<1>0. ServerTypeOK /\ task[j].stage = "computing"
  BY DEF IInv, ComputeOk
<1>1. PICK f \in BOOLEAN : task' = [task EXCEPT ![j].stage = "rows", ![j].forces = f]
  BY DEF ComputeOk
<1>2. \A i \in JobId : /\ task'[i].stage = IF i = j THEN "rows" ELSE task[i].stage
                       /\ task'[i].model = task[i].model
                       /\ i # j => task'[i] = task[i]
  BY <1>0, ComputedSet, OtherComputed
<1>3. up /\ UNCHANGED <<up, life, files, manifest, diskManifest, jobs, nextId>>
  BY DEF ComputeOk, storeVars
<1>4. ~(j >= nextId) /\ jobs[j].status = "Running" /\ ServiceStatus(j) = "Computing"
  BY <1>0, WorkingIsRunning
<1>5. ServiceStatus(j)' = "Storing" /\ ServiceOutcome(j)' = Announced(j)'
  <2>1. ServiceStatus(j)' = "Storing"
    BY <1>2, <1>3, <1>4 DEF ServiceStatus
  <2> QED BY <2>1 DEF ServiceOutcome
<1>6. ASSUME NEW i \in JobId, i # j
      PROVE  ServiceStatus(i)' = ServiceStatus(i) /\ ServiceOutcome(i)' = ServiceOutcome(i)
  BY <1>2, <1>3, <1>6, SeenKept DEF KeysOf
<1>7. Announced(j)' \in SUBSET Key
  <2>1. ServerTypeOK'
    BY <1>0, NextTyped DEF Next, Task
  <2>2. jobs'[j].kind \in JobKind /\ jobs'[j].case \in Cases /\ task'[j].forces \in BOOLEAN
    BY <2>1, CasesAssumption DEF ServerTypeOK, TaskRec
  <2> QED BY <2>2, KeysWrittenAreKeys DEF Announced, KeysOf
<1>8. /\ [i \in JobId |-> ServiceStatus(i)]'
           = [[i \in JobId |-> ServiceStatus(i)] EXCEPT ![j] = "Storing"]
      /\ [i \in JobId |-> ServiceOutcome(i)]'
           = [[i \in JobId |-> ServiceOutcome(i)] EXCEPT ![j] = Announced(j)']
      /\ [i \in JobId |-> task[i].model]' = [i \in JobId |-> task[i].model]
  BY <1>2, <1>5, <1>6
<1>9. Service!Compute(j, Announced(j)')
  BY <1>3, <1>4, <1>8 DEF Service!Compute
<1> QED BY <1>7, <1>9

(* The mapped functions after a step that moves one job. *)
LEMMA OneMoves ==
  ASSUME NEW j \in JobId, NEW s, NEW ks, OnlyReports(j, s, ks)
  PROVE  /\ [i \in JobId |-> ServiceStatus(i)]'
              = [[i \in JobId |-> ServiceStatus(i)] EXCEPT ![j] = s]
         /\ [i \in JobId |-> ServiceOutcome(i)]'
              = [[i \in JobId |-> ServiceOutcome(i)] EXCEPT ![j] = ks]
         /\ [i \in JobId |-> task[i].model]' = [i \in JobId |-> task[i].model]
  BY DEF OnlyReports

(* A step that leaves the holder in a stage the client sees as storing. *)
LEMMA StoringKept ==
  ASSUME IInv, up, UNCHANGED <<up, life, nextId, jobs>>, NEW j \in JobId,
         task[j].stage \in Stage \ {"none", "computing", "error", "synced"},
         NEW s \in Stage \ {"none", "computing", "error", "synced"}, SetStage(j, s)
  PROVE  /\ \A i \in JobId : JobsSeen(i)' = JobsSeen(i)
         /\ ServiceStatus(j) = "Storing" /\ ServiceOutcome(j) = Announced(j)
<1>1. OnlyReports(j, "Storing", Announced(j))
  BY StageReports
<1>2. ServiceStatus(j) = "Storing" /\ ServiceOutcome(j) = Announced(j)
  BY WorkingIsRunning DEF ServiceOutcome
<1> QED BY <1>1, <1>2 DEF OnlyReports, JobsSeen

(* Steps of a task the client cannot see. *)
LEMMA QuietTaskRefines ==
  ASSUME IInv, NEW j \in JobId,
         ComputeErr(j) \/ WriteFails(j) \/ SyncFails(j)
           \/ (BeginPersist(j) /\ jobs[j].kind # "Summary")
  PROVE  UNCHANGED Service!serviceVars
<1>1. up /\ UNCHANGED <<up, life, files, manifest, diskManifest, jobs, nextId>>
  BY DEF ComputeErr, WriteFails, SyncFails, BeginPersist, storeVars, DiscardPending
<1>2. CASE ComputeErr(j)
  <2>1. task[j].stage = "computing" /\ SetStage(j, "error")
    BY <1>2 DEF ComputeErr
  <2>2. OnlyReports(j, "Computing", {})
    BY <1>1, <2>1, StageReports DEF Stage
  <2>3. ServiceStatus(j) = "Computing" /\ ServiceOutcome(j) = {}
    BY <2>1, WorkingIsRunning DEF ServiceOutcome
  <2>4. \A i \in JobId : JobsSeen(i)' = JobsSeen(i)
    BY <2>2, <2>3 DEF OnlyReports, JobsSeen
  <2> QED BY <1>1, <2>4, Stutters
<1>3. CASE ~ComputeErr(j)
  <2>1. PICK s \in {"unsaved", "syncing", "writing"} : SetStage(j, s)
    BY <1>3 DEF WriteFails, SyncFails, BeginPersist
  <2>2. task[j].stage \in {"rows", "writing", "rewriting", "syncing"}
    BY <1>3 DEF WriteFails, SyncFails, BeginPersist
  <2>3. \A i \in JobId : JobsSeen(i)' = JobsSeen(i)
    BY <1>1, <2>1, <2>2, StoringKept DEF Stage
  <2> QED BY <1>1, <2>3, Stutters
<1> QED BY <1>2, <1>3

(* A writer reaches a key of its own job, truncates it or fills it with the job's rows. *)
LEMMA WriterRefines ==
  ASSUME IInv, OwnInv, NEW j \in JobId, OpenWriter(j) \/ CloseWriter(j)
  PROVE  \E k \in Key : Service!Store(j, k)
<1> DEFINE k == Head(todo)
           c == IF OpenWriter(j) THEN Torn ELSE RowsOf(j)
<1>0. ServerTypeOK /\ todo \in Seq(Key) /\ todo # <<>>
  BY DEF IInv, ServerTypeOK, OpenWriter, CloseWriter
<1>1. /\ up /\ UNCHANGED <<up, life, manifest, diskManifest, jobs, nextId>>
      /\ task[j].stage \in {"writing", "rewriting"}
      /\ files' = [files EXCEPT ![k] = c]
  BY DEF OpenWriter, CloseWriter, CreateWriter, FinishWriter
<1>2. PICK s \in {"rewriting", "syncing", "writing"} : SetStage(j, s)
  BY DEF OpenWriter, CloseWriter
<1>3. /\ \A i \in JobId : JobsSeen(i)' = JobsSeen(i)
      /\ ServiceStatus(j) = "Storing" /\ ServiceOutcome(j) = Announced(j)
  BY <1>1, <1>2, StoringKept DEF Stage
<1>4. k \in Announced(j) /\ k \in Key
  <2>1. 1 \in DOMAIN todo /\ todo[1] = k
    BY <1>0
  <2> QED BY <1>0, <1>1, <2>1 DEF OwnInv, OwnKeys
<1>5. /\ [i \in JobId |-> ServiceStatus(i)]' = [i \in JobId |-> ServiceStatus(i)]
      /\ [i \in JobId |-> ServiceOutcome(i)]' = [i \in JobId |-> ServiceOutcome(i)]
      /\ [i \in JobId |-> task[i].model]' = [i \in JobId |-> task[i].model]
  BY <1>3 DEF JobsSeen
<1>6. c \in {Torn, [life |-> life, job |-> j, model |-> [i \in JobId |-> task[i].model][j]]}
  BY DEF RowsOf
<1>7. Service!Store(j, k)
  <2> HIDE DEF k, c
  <2> QED BY <1>1, <1>3, <1>4, <1>5, <1>6 DEF Service!Store
<1> QED BY <1>4, <1>7

(* The truncation of manifest.json exposes the directory. *)
LEMMA StartSyncRefines ==
  ASSUME IInv, OwnInv, NEW j \in JobId, StartSync(j)
  PROVE  Service!Endanger(j)
<1>1. /\ up /\ UNCHANGED <<up, life, files, manifest, jobs, nextId, task>>
      /\ task[j].stage = "syncing" /\ pending # <<>> /\ diskManifest' = Torn
  BY DEF StartSync, SyncBegin, serverVars
<1>2. ServiceStatus(j) = "Storing" /\ ServiceOutcome(j) = Announced(j)
  BY <1>1, WorkingIsRunning DEF ServiceOutcome
<1>3. Announced(j) # {}
  <2>1. pending \in Seq(Entry)
    BY DEF IInv, ServerTypeOK, StoreTypeOK
  <2>2. 1 \in DOMAIN pending
    BY <1>1, <2>1
  <2> QED BY <1>1, <2>2 DEF OwnInv, OwnKeys
<1>4. \A i \in JobId : /\ ServiceStatus(i)' = ServiceStatus(i)
                       /\ ServiceOutcome(i)' = ServiceOutcome(i)
  BY <1>1, SeenKept DEF KeysOf
<1>5. /\ [i \in JobId |-> ServiceStatus(i)]' = [i \in JobId |-> ServiceStatus(i)]
      /\ [i \in JobId |-> ServiceOutcome(i)]' = [i \in JobId |-> ServiceOutcome(i)]
      /\ [i \in JobId |-> task[i].model]' = [i \in JobId |-> task[i].model]
  BY <1>1, <1>4
<1> QED BY <1>1, <1>2, <1>3, <1>5 DEF Service!Endanger

(* A job turns Done: its keys, and no others, get its own rows in the manifest, which the
   files already hold. *)
LEMMA Publishes ==
  ASSUME IInv, IInv', NEW j \in JobId,
         OnlyReports(j, "Done", Announced(j)), ServiceStatus(j) = "Storing",
         ServiceOutcome(j) = Announced(j), files' = files,
         \A k \in Key : manifest'[k] = IF k \in Announced(j) THEN RowsOf(j) ELSE manifest[k],
         \A k \in Announced(j) : files[k] = RowsOf(j),
         (diskManifest' = Torn) <=> (diskManifest = Torn /\ Announced(j) = {})
  PROVE  Service!Succeed(j)
<1>1. manifest \in Manifest /\ manifest' \in Manifest
  BY DEF IInv, ServerTypeOK, StoreTypeOK
<1>2. manifest' = [k \in Key |-> IF k \in Announced(j)
                                THEN [life |-> life, job |-> j,
                                      model |-> [i \in JobId |-> task[i].model][j]]
                                ELSE manifest[k]]
  BY <1>1 DEF Manifest, RowsOf
<1>3. /\ [i \in JobId |-> ServiceStatus(i)]'
           = [[i \in JobId |-> ServiceStatus(i)] EXCEPT ![j] = "Done"]
      /\ [i \in JobId |-> ServiceOutcome(i)]' = [i \in JobId |-> ServiceOutcome(i)]
      /\ [i \in JobId |-> task[i].model]' = [i \in JobId |-> task[i].model]
  <2>1. \A i \in JobId : ServiceOutcome(i)' = ServiceOutcome(i)
    BY DEF OnlyReports
  <2> QED BY <2>1, OneMoves
<1>4. \A k \in Announced(j) :
        files[k] = [life |-> life, job |-> j, model |-> [i \in JobId |-> task[i].model][j]]
  BY DEF RowsOf
<1>5. (diskManifest' = Torn) = (diskManifest = Torn /\ Announced(j) = {})
  OBVIOUS
<1>6. up /\ up' /\ life' = life
  BY DEF OnlyReports
<1> QED BY <1>2, <1>3, <1>4, <1>5, <1>6 DEF Service!Succeed

(* A job without rows turns Done when it takes the lock. *)
LEMMA SummaryRefines ==
  ASSUME IInv, IInv', NEW j \in JobId, BeginPersist(j), jobs[j].kind = "Summary"
  PROVE  Service!Succeed(j)
<1>0. Announced(j) = {}
  BY AnnouncedAreKeys DEF IInv
<1>1. /\ up /\ UNCHANGED <<up, life, files, manifest, diskManifest, jobs, nextId>>
      /\ SetStage(j, "synced") /\ task[j].stage = "rows"
  BY DEF BeginPersist, storeVars
<1>2. OnlyReports(j, "Done", Announced(j))
  BY <1>1, StageReports DEF Stage
<1>3. ServiceStatus(j) = "Storing" /\ ServiceOutcome(j) = Announced(j)
  BY <1>1, WorkingIsRunning DEF ServiceOutcome
<1> QED BY <1>0, <1>1, <1>2, <1>3, Publishes

(* A job with rows turns Done, and publishes them, when its sync() returns. *)
LEMMA SyncRefines ==
  ASSUME IInv, IInv', WriteInv, OwnInv, NEW j \in JobId, FinishSync(j)
  PROVE  Service!Succeed(j)
<1>1. /\ up /\ UNCHANGED <<up, life, files, jobs, nextId>> /\ SetStage(j, "synced")
      /\ task[j].stage = "syncing" /\ lock = j
  BY DEF FinishSync, SyncCommit, storeVars
<1>2. OnlyReports(j, "Done", Announced(j))
  BY <1>1, StageReports DEF Stage
<1>3. ServiceStatus(j) = "Storing" /\ ServiceOutcome(j) = Announced(j)
  BY <1>1, WorkingIsRunning DEF ServiceOutcome
<1>4. \A k \in Announced(j) : k \in Key /\ Stored(k, j)
  <2>1. Announced(j) \subseteq Key
    BY AnnouncedAreKeys DEF IInv
  <2>2. ASSUME NEW i \in DOMAIN KeysOf(j) PROVE Stored(KeysOf(j)[i], j)
    BY <1>1 DEF WriteInv, WrittenBy
  <2> QED BY <2>1, <2>2 DEF Announced
<1>5. CASE pending = <<>>
  <2>1. Announced(j) = {}
    BY <1>4, <1>5 DEF Stored, EntriesFor
  <2>2. UNCHANGED <<manifest, diskManifest>>
    BY <1>5 DEF FinishSync, storeVars
  <2> QED BY <1>1, <1>2, <1>3, <2>1, <2>2, Publishes
<1>6. CASE pending # <<>>
  <2>1. manifest' = Absorb(manifest, pending) /\ diskManifest' = manifest'
    BY <1>6 DEF FinishSync, SyncCommit
  <2>2. ASSUME NEW k \in Key
        PROVE  manifest'[k] = IF k \in Announced(j) THEN RowsOf(j) ELSE manifest[k]
    <3>1. CASE k \in Announced(j)
      BY <1>1, <1>4, <2>1, <3>1, StoredIsAbsorbed
    <3>2. CASE k \notin Announced(j)
      <4>1. EntriesFor(pending, k) = {}
        BY <1>1, <3>2 DEF OwnInv, OwnKeys, EntriesFor
      <4> QED BY <2>1, <3>2, <4>1 DEF Absorb
    <3> QED BY <3>1, <3>2
  <2>3. \A k \in Announced(j) : files[k] = RowsOf(j)
    BY <1>4 DEF Stored
  <2>4. diskManifest' # Torn
    BY <2>1, StoreMarksAssumption
       DEF IInv, ServerTypeOK, StoreTypeOK, Manifest, Key, ResultKind
  <2>5. Announced(j) # {}
    <3>1. pending \in Seq(Entry)
      BY DEF IInv, ServerTypeOK, StoreTypeOK
    <3>2. 1 \in DOMAIN pending
      BY <1>6, <3>1
    <3> QED BY <1>1, <3>2 DEF OwnInv, OwnKeys
  <2> QED BY <1>1, <1>2, <1>3, <2>2, <2>3, <2>4, <2>5, Publishes
<1> QED BY <1>5, <1>6

(* An error, or a job whose rows could not be saved, is reported Failed. *)
LEMMA ErrorRefines ==
  ASSUME IInv, NEW j \in JobId,
         ReportError(j) \/ (ReportDone(j) /\ task[j].stage = "unsaved")
  PROVE  Service!Fail(j)
<1>1. /\ up /\ UNCHANGED <<up, life, files, manifest, diskManifest, nextId>>
      /\ SetStage(j, "none") /\ SetStatus(j, "Failed")
      /\ task[j].stage \in {"error", "unsaved"}
  BY DEF ReportError, ReportDone, storeVars
<1>2. OnlyReports(j, "Failed", {})
  BY <1>1, StatusReports
<1>3. ServiceStatus(j) \in {"Computing", "Storing"}
  BY <1>1, WorkingIsRunning
<1> QED BY <1>1, <1>2, <1>3, OneMoves DEF Service!Fail

(* A synced job is Done already when the lock is released. *)
LEMMA ReleaseRefines ==
  ASSUME IInv, NEW j \in JobId, ReportDone(j), task[j].stage = "synced"
  PROVE  UNCHANGED Service!serviceVars
<1>1. /\ up /\ UNCHANGED <<up, life, files, manifest, diskManifest, nextId>>
      /\ SetStage(j, "none") /\ SetStatus(j, "Done")
  BY DEF ReportDone, storeVars
<1>2. OnlyReports(j, "Done", Announced(j))
  BY <1>1, StatusReports
<1>3. ServiceStatus(j) = "Done" /\ ServiceOutcome(j) = Announced(j)
  BY WorkingIsRunning DEF ServiceOutcome
<1>4. \A i \in JobId : JobsSeen(i)' = JobsSeen(i)
  BY <1>2, <1>3 DEF OnlyReports, JobsSeen
<1> QED BY <1>1, <1>4, Stutters

(* A kill stops the service: the directory keeps its entries, or is lost if the manifest
   on disk is torn at that moment. *)
LEMMA CrashRefines == ASSUME IInv, Crash PROVE Service!Stop
<1>1. /\ up /\ ~up' /\ life' = life + 1 /\ nextId' = 0
      /\ task' = [i \in JobId |-> NoTask] /\ UNCHANGED <<diskManifest, files>>
  BY DEF Crash
<1>2. diskManifest = IF diskManifest = Torn THEN Torn ELSE manifest
  BY <1>1 DEF IInv, DiskInv
<1>3. \A i \in JobId : i >= 0
  BY DEF JobId
<1>4. \A i \in JobId : ServiceStatus(i)' = "Absent" /\ ServiceOutcome(i)' = {}
  BY <1>1, <1>3 DEF ServiceStatus, ServiceOutcome
<1>5. \A i \in JobId : task'[i].model = 0
  BY <1>1 DEF NoTask
<1> QED BY <1>1, <1>2, <1>4, <1>5 DEF Service!Stop

LEMMA RestartRefines == ASSUME IInv, Restart PROVE Service!Resume
<1>1. /\ ~up /\ up' /\ UNCHANGED <<life, nextId, jobs, task, files, diskManifest>>
      /\ manifest' = diskManifest /\ diskManifest # Torn
  BY DEF Restart, OpenStore, Openable
<1>2. \A i \in JobId : /\ ServiceStatus(i)' = ServiceStatus(i)
                       /\ ServiceOutcome(i)' = ServiceOutcome(i)
  BY <1>1, SeenKept DEF KeysOf
<1> QED BY <1>1, <1>2 DEF Service!Resume

-----------------------------------------------------------------------------
(* The detailed server implements the abstract service (SepikaServer::analysis_run,
   persist_job_outcome, FsResultStore): a job that ends Done announces exactly the keys
   its computation filled, each with its own rows in the file; a job that ends Failed
   announces nothing and has touched no key but its own; a kill costs the result directory
   exactly while a sync of a job with rows has truncated manifest.json and none has
   returned since. *)
THEOREM ServerImplementsService == SafetySpec => ImplementsJobService
<1> DEFINE Inv == IInv /\ WriteInv /\ OwnInv
<1>1. Init => Inv /\ Service!ServiceInit
  BY InitRefines, InitIInv, InitWriteInv, InitOwnInv
<1>2. Inv /\ [Next]_vars => Inv'
  BY NextTyped, LockStep, PendingStep, DiskStep, CommittedStep, WriteStep, OwnStep DEF IInv
<1>3. Inv /\ Inv' /\ [Next]_vars => [Service!ServiceNext]_(Service!serviceVars)
  <2> SUFFICES ASSUME Inv, Inv', [Next]_vars
               PROVE  Service!ServiceNext \/ UNCHANGED Service!serviceVars
    OBVIOUS
  <2>1. ASSUME NEW kind \in JobKind, NEW case \in Cases, AnalysisRun(kind, case)
        PROVE  Service!ServiceNext
    <3>1. nextId \in JobId /\ revision \in 0 .. MaxEvents
      BY <2>1, RunSet DEF IInv, ServerTypeOK
    <3>2. Service!Submit(nextId, revision)
      BY <2>1, RunRefines
    <3>3. \E j \in JobId, m \in 0 .. MaxEvents : Service!Submit(j, m)
      BY <3>1, <3>2 DEF Service!Submit
    <3> QED BY <3>3 DEF Service!ServiceNext
  <2>2. CASE ModelEdit
    <3>1. UNCHANGED <<up, life, files, manifest, diskManifest, nextId, jobs, task>>
      BY <2>2 DEF ModelEdit, storeVars
    <3> QED BY <3>1, SeenKept, Stutters DEF JobsSeen, KeysOf
  <2>3. ASSUME NEW j \in JobId, Task(j)
        PROVE  Service!ServiceNext \/ UNCHANGED Service!serviceVars
    <3>1. CASE ReportError(j)
      BY <3>1, ErrorRefines DEF Service!ServiceNext
    <3>2. CASE ReportDone(j)
      <4>1. task[j].stage \in {"synced", "unsaved"}
        BY <3>2 DEF ReportDone
      <4> QED BY <3>2, <4>1, ErrorRefines, ReleaseRefines DEF Service!ServiceNext
    <3>3. CASE BeginPersist(j)
      BY <3>3, SummaryRefines, QuietTaskRefines DEF Service!ServiceNext
    <3>4. CASE FinishSync(j)
      BY <3>4, SyncRefines DEF Service!ServiceNext
    <3>5. CASE ComputeOk(j)
      BY <3>5, ComputeRefines DEF Service!ServiceNext
    <3>6. CASE OpenWriter(j) \/ CloseWriter(j)
      BY <3>6, WriterRefines DEF Service!ServiceNext
    <3>7. CASE StartSync(j)
      BY <3>7, StartSyncRefines DEF Service!ServiceNext
    <3> QED BY <2>3, <3>1, <3>2, <3>3, <3>4, <3>5, <3>6, <3>7, QuietTaskRefines
            DEF Task, Persist
  <2>4. CASE Crash
    BY <2>4, CrashRefines DEF Service!ServiceNext
  <2>5. CASE Restart
    BY <2>5, RestartRefines DEF Service!ServiceNext
  <2>6. CASE UNCHANGED vars
    <3>1. UNCHANGED <<up, life, files, manifest, diskManifest, nextId, jobs, task>>
      BY <2>6 DEF vars, storeVars, serverVars
    <3> QED BY <3>1, SeenKept, Stutters DEF JobsSeen, KeysOf
  <2> QED BY <2>1, <2>2, <2>3, <2>4, <2>5, <2>6 DEF Next
<1> QED BY <1>1, <1>2, <1>3, PTL
        DEF SafetySpec, ImplementsJobService, Service!ServiceSpec
=============================================================================
