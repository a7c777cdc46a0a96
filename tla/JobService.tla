----------------------------- MODULE JobService -----------------------------
(***************************************************************************)
(* What the analysis server keeps of its jobs and of the result directory, *)
(* without the lock, the writers and the pending entries.  published is    *)
(* the manifest: which keys are answered, and who announced them; content  *)
(* is what the files hold, and a query is answered from both.              *)
(*                                                                         *)
(* A submitted job ends Done or Failed.  The step in which it turns Done   *)
(* announces exactly the keys its computation filled, and each of them     *)
(* then answers with the job's own rows.  A job that fails announces       *)
(* nothing; but it may already have overwritten or damaged the content of  *)
(* its own keys, and what others announced under them then answers with    *)
(* that.  No job touches a key it does not fill.                           *)
(*                                                                         *)
(* A stop of the process forgets the jobs and keeps what is published,     *)
(* unless the directory is exposed: from the moment a job with something   *)
(* to announce begins to replace the catalogue until some job has replaced *)
(* it, a stop costs the whole directory, and only then.                    *)
(***************************************************************************)
EXTENDS Integers

CONSTANTS JobId, Revision, Key, NoRows, Damaged, Lost, Row(_, _, _)

VARIABLES serving, era, status, model, outcome, published, content, exposed

serviceVars ==
  <<serving, era, status, model, outcome, published, content, exposed>>

ServiceInit ==
  /\ serving = TRUE
  /\ era = 0
  /\ status = [j \in JobId |-> "Absent"]
  /\ model = [j \in JobId |-> 0]
  /\ outcome = [j \in JobId |-> {}]
  /\ published = [k \in Key |-> NoRows]
  /\ content = [k \in Key |-> NoRows]
  /\ exposed = FALSE

(* The job remembers the state of the model at the moment it was submitted. *)
Submit(j, m) ==
  /\ serving /\ status[j] = "Absent"
  /\ status' = [status EXCEPT ![j] = "Computing"]
  /\ model' = [model EXCEPT ![j] = m]
  /\ UNCHANGED <<serving, era, outcome, published, content, exposed>>

(* The computation decides which keys the job fills; nothing is stored yet.  *)
Compute(j, ks) ==
  /\ serving /\ status[j] = "Computing"
  /\ status' = [status EXCEPT ![j] = "Storing"]
  /\ outcome' = [outcome EXCEPT ![j] = ks]
  /\ UNCHANGED <<serving, era, model, published, content, exposed>>

Store(j, k) ==
  /\ serving /\ status[j] = "Storing" /\ k \in outcome[j]
  /\ \E c \in {Damaged, Row(era, j, model[j])} :
       content' = [content EXCEPT ![k] = c]
  /\ UNCHANGED <<serving, era, status, model, outcome, published, exposed>>

Endanger(j) ==
  /\ serving /\ status[j] = "Storing" /\ outcome[j] # {}
  /\ exposed' = TRUE
  /\ UNCHANGED <<serving, era, status, model, outcome, published, content>>

(* A job that fills no key ends well without replacing the catalogue.        *)
Succeed(j) ==
  /\ serving /\ status[j] = "Storing"
  /\ status' = [status EXCEPT ![j] = "Done"]
  /\ published' = [k \in Key |-> IF k \in outcome[j] THEN Row(era, j, model[j])
                                 ELSE published[k]]
  /\ \A k \in outcome[j] : content[k] = Row(era, j, model[j])
  /\ exposed' = (exposed /\ outcome[j] = {})
  /\ UNCHANGED <<serving, era, model, outcome, content>>

Fail(j) ==
  /\ serving /\ status[j] \in {"Computing", "Storing"}
  /\ status' = [status EXCEPT ![j] = "Failed"]
  /\ outcome' = [outcome EXCEPT ![j] = {}]
  /\ UNCHANGED <<serving, era, model, published, content, exposed>>

Stop ==
  /\ serving
  /\ serving' = FALSE
  /\ era' = era + 1
  /\ status' = [j \in JobId |-> "Absent"]
  /\ model' = [j \in JobId |-> 0]
  /\ outcome' = [j \in JobId |-> {}]
  /\ published' = IF exposed THEN Lost ELSE published
  /\ UNCHANGED <<content, exposed>>

Resume ==
  /\ ~serving /\ published # Lost
  /\ serving' = TRUE
  /\ UNCHANGED <<era, status, model, outcome, published, content, exposed>>

ServiceNext ==
  \/ \E j \in JobId :
       \/ \E m \in Revision : Submit(j, m)
       \/ \E ks \in SUBSET Key : Compute(j, ks)
       \/ \E k \in Key : Store(j, k)
       \/ Endanger(j) \/ Succeed(j) \/ Fail(j)
  \/ Stop
  \/ Resume

ServiceSpec == ServiceInit /\ [][ServiceNext]_serviceVars
=============================================================================
