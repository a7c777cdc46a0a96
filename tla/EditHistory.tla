----------------------------- MODULE EditHistory -----------------------------
(***************************************************************************)
(* What an undo history promises its user, with no command in sight: the   *)
(* document has a line of earlier states and a line of undone states, an   *)
(* edit forgets the undone ones, and undo and redo walk the line without   *)
(* ever producing a state that was not on it.                              *)
(***************************************************************************)
EXTENDS Integers, Sequences

CONSTANTS Models,       \* the documents
          InitModels,   \* those a session can start from
          MaxUndo       \* how many earlier states are kept

VARIABLES past,         \* earlier documents, the latest last
          present,      \* the document
          future        \* undone documents, the next to redo last

historyVars == <<past, present, future>>

HistoryInit == /\ past = <<>>
               /\ present \in InitModels
               /\ future = <<>>

(* The oldest state is forgotten when the line grows past MaxUndo. *)
Record == /\ LET longer == Append(past, present)
             IN  past' = IF Len(longer) > MaxUndo THEN Tail(longer) ELSE longer
          /\ present' \in Models
          /\ future' = <<>>

StepBack == /\ past # <<>>
            /\ past' = SubSeq(past, 1, Len(past) - 1)
            /\ present' = past[Len(past)]
            /\ future' = Append(future, present)

StepForward == /\ future # <<>>
               /\ past' = Append(past, present)
               /\ present' = future[Len(future)]
               /\ future' = SubSeq(future, 1, Len(future) - 1)

HistoryNext == Record \/ StepBack \/ StepForward

HistorySpec == HistoryInit /\ [][HistoryNext]_historyVars
==============================================================================
