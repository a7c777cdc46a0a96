---------------------------- MODULE ResultStore ----------------------------
(***************************************************************************)
(* FsResultStore (sepika-io): one Parquet file per (case, kind) and one    *)
(* manifest.json that says which files may be queried.  A writer fills its *)
(* file in place and leaves a pending entry; sync() folds the pending      *)
(* entries into the manifest, first on disk and then in memory;            *)
(* discard_pending() forgets them.                                         *)
(*                                                                         *)
(* Every system call that can fail, or that a killed process may not       *)
(* reach, is an action of its own, so that failures and crashes fall       *)
(* between them.  Rows are abstract: a batch names the job that wrote it.  *)
(***************************************************************************)
EXTENDS Integers, Sequences

CONSTANTS
  Cases,      \* load case numbers used as the first half of a key
  Batch,      \* the row batches that can be written
  None,       \* no such manifest entry / no such file
  Torn        \* a file that was truncated and not completed

ASSUME CasesAssumption == 0 \in Cases /\ Cases \subseteq Nat
ASSUME StoreMarksAssumption ==
  /\ None \notin Batch
  /\ Torn \notin Batch
  /\ None # Torn
  /\ Torn \notin [Cases \X {"NodalDisp", "MemberForce", "Modal"}
                    -> Batch \union {None}]

VARIABLES
  files,        \* content of each case{c}-{kind}.parquet
  diskManifest, \* manifest.json
  manifest,     \* ResultManifest held in memory
  pending       \* entries of finished writers that no sync() absorbed yet

storeVars == <<files, diskManifest, manifest, pending>>

\* Kinds the analysis server writes (Story and TimeHistory have no writer there).
ResultKind == {"NodalDisp", "MemberForce", "Modal"}
Key        == Cases \X ResultKind
Entry      == [key: Key, rows: Batch]
Manifest   == [Key -> Batch \union {None}]
NoEntries  == [k \in Key |-> None]

StoreTypeOK ==
  /\ files \in [Key -> Batch \union {None, Torn}]
  /\ diskManifest \in Manifest \union {Torn}
  /\ manifest \in Manifest
  /\ pending \in Seq(Entry)

StoreInit ==
  /\ files = NoEntries
  /\ diskManifest = NoEntries
  /\ manifest = NoEntries
  /\ pending = <<>>

-----------------------------------------------------------------------------
(* open(): a missing manifest.json reads as empty, an unparsable one is an  *)
(* error and no store is built.                                             *)
Openable == diskManifest # Torn

OpenStore ==
  /\ Openable
  /\ manifest' = diskManifest
  /\ pending' = <<>>
  /\ UNCHANGED <<files, diskManifest>>

(* Faulty variant: asking for a writer syncs what earlier writers left.      *)
CreateWriterAutoSync(k) ==
  /\ files' = [files EXCEPT ![k] = Torn]
  /\ IF pending = <<>> THEN UNCHANGED <<diskManifest, manifest, pending>>
     ELSE LET last == pending[Len(pending)]
          IN  /\ manifest' = [manifest EXCEPT ![last.key] = last.rows]
              /\ diskManifest' = manifest'
              /\ pending' = <<>>

(* writer(): File::create truncates whatever the key's file held before.    *)
CreateWriter(k) ==
  /\ files' = [files EXCEPT ![k] = Torn]
  /\ UNCHANGED <<diskManifest, manifest, pending>>

(* write_rows() and finish(): the footer makes the file readable, and the   *)
(* entry is left for the next sync().                                       *)
FinishWriter(k, rows) ==
  /\ files' = [files EXCEPT ![k] = rows]
  /\ pending' = Append(pending, [key |-> k, rows |-> rows])
  /\ UNCHANGED <<diskManifest, manifest>>

(* Faulty variant: the entries of a failed job stay.                         *)
KeepPending == UNCHANGED storeVars

DiscardPending ==
  /\ pending' = <<>>
  /\ UNCHANGED <<files, diskManifest, manifest>>

-----------------------------------------------------------------------------
(* The manifest sync() wants to persist: a pending entry replaces the one   *)
(* of the same case and kind, a later one replaces an earlier one.          *)
EntriesFor(p, k) == {i \in DOMAIN p : p[i].key = k}

(* Faulty variant: an existing entry wins over a new one.                    *)
AbsorbKeepingOld(m, p) ==
  [k \in Key |->
     IF m[k] # None \/ EntriesFor(p, k) = {} THEN m[k]
     ELSE p[CHOOSE i \in EntriesFor(p, k) : TRUE].rows]

Absorb(m, p) ==
  [k \in Key |->
     IF EntriesFor(p, k) = {} THEN m[k]
     ELSE p[CHOOSE i \in EntriesFor(p, k) :
              \A j \in EntriesFor(p, k) : j <= i].rows]

(* fs::write truncates manifest.json before it writes it.                   *)
SyncBegin ==
  /\ pending # <<>>
  /\ diskManifest' = Torn
  /\ UNCHANGED <<files, manifest, pending>>

(* Faulty variant: only the new entries reach the disk.                      *)
SyncOnlyNewEntries ==
  /\ diskManifest' = Absorb(NoEntries, pending)
  /\ manifest' = Absorb(manifest, pending)
  /\ pending' = <<>>
  /\ UNCHANGED files

(* The write succeeded: only now does the memory follow the disk.           *)
SyncCommit ==
  /\ diskManifest' = Absorb(manifest, pending)
  /\ manifest' = Absorb(manifest, pending)
  /\ pending' = <<>>
  /\ UNCHANGED files

(* What result_get can be told about a key: a key without an entry is       *)
(* refused, otherwise the file is read whatever the entry recorded.         *)
Query(k) == IF manifest[k] = None THEN None ELSE files[k]
=============================================================================
