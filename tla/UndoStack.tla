------------------------------ MODULE UndoStack ------------------------------
(***************************************************************************)
(* sepika-edit's UndoStack.  A command, executed on a model, changes it    *)
(* and answers with the command that takes the change back; the stack      *)
(* keeps those answers.  Which commands there are, and what they do, is a  *)
(* constant operator: UndoStackProofs reasons about every command set that *)
(* obeys the round-trip law.                                               *)
(***************************************************************************)
EXTENDS Integers, Sequences, RoundTrip

CONSTANTS Models,          \* every model the commands can produce
          Commands,        \* every command, the inverses included
          Requests(_),     \* the commands a user can issue on a model
          InitModels,      \* the models a session can start from
          MaxUndo,         \* UndoStack::max_undo
          MaxRevision      \* bound on the number of steps explored

VARIABLES model,      \* the edited model
          done,       \* inverses of the applied commands, the latest last
          undone,     \* inverses of the undone commands, the latest last
          revision,   \* the serial number of the change
          past,       \* history variable: the model before each done command
          future      \* history variable: the model each undone command left

vars == <<model, done, undone, revision, past, future>>

Last(s)  == s[Len(s)]
Front(s) == SubSeq(s, 1, Len(s) - 1)
Tailed(s) == IF Len(s) > MaxUndo THEN Tail(s) ELSE s

Init == /\ model \in InitModels
        /\ done = <<>> /\ undone = <<>>
        /\ revision = 0
        /\ past = <<>> /\ future = <<>>

(* Faulty variant: a new edit leaves the redo line in place. *)
RunKeepingRedo(c) ==
    /\ model' = After(model, c)
    /\ IF InverseOf(model, c) = Noop
       THEN UNCHANGED <<done, undone, revision, past, future>>
       ELSE /\ done' = Tailed(Append(done, InverseOf(model, c)))
            /\ past' = Tailed(Append(past, model))
            /\ revision' = revision + 1
            /\ UNCHANGED <<undone, future>>

(* UndoStack::run.  The command has been executed before its answer is looked
   at.  Refused (the answer is Noop): no entry, no revision, and the redo line
   survives. *)
Run(c) ==
    /\ model' = After(model, c)
    /\ IF InverseOf(model, c) = Noop
       THEN UNCHANGED <<done, undone, revision, past, future>>
       ELSE /\ done' = Tailed(Append(done, InverseOf(model, c)))
            /\ past' = Tailed(Append(past, model))
            /\ undone' = <<>> /\ future' = <<>>
            /\ revision' = revision + 1

(* Faulty variant: undo does not count as a change. *)
UndoUncounted ==
    /\ done # <<>>
    /\ model' = After(model, Last(done))
    /\ done' = Front(done)
    /\ past' = Front(past)
    /\ undone' = Append(undone, InverseOf(model, Last(done)))
    /\ future' = Append(future, model)
    /\ UNCHANGED revision

(* UndoStack::undo pushes whatever the command answers, Noop included. *)
Undo ==
    /\ done # <<>>
    /\ model' = After(model, Last(done))
    /\ done' = Front(done)
    /\ past' = Front(past)
    /\ undone' = Append(undone, InverseOf(model, Last(done)))
    /\ future' = Append(future, model)
    /\ revision' = revision + 1

(* UndoStack::redo does not look at max_undo. *)
Redo ==
    /\ undone # <<>>
    /\ model' = After(model, Last(undone))
    /\ undone' = Front(undone)
    /\ future' = Front(future)
    /\ done' = Append(done, InverseOf(model, Last(undone)))
    /\ past' = Append(past, model)
    /\ revision' = revision + 1

Next == /\ revision < MaxRevision
        /\ \/ \E c \in Requests(model) : Run(c)
           \/ Undo
           \/ Redo

Spec == Init /\ [][Next]_vars

(***************************************************************************)
(* Properties                                                              *)
(***************************************************************************)

(* The stacks hold commands, the document is a model. *)
TypeOK == /\ model \in Models
          /\ done \in Seq(Commands) /\ undone \in Seq(Commands)
          /\ revision \in Nat
          /\ past \in Seq(Models) /\ future \in Seq(Models)

(* Each stack has one model to go back to per entry, and together they never
   exceed max_undo, although redo pushes without looking at it. *)
HistoryBounded ==
    /\ Len(past) = Len(done)
    /\ Len(future) = Len(undone)
    /\ Len(done) + Len(undone) <= MaxUndo

(* No entry is the Noop a user would see as an undo step that does nothing:
   run keeps it out, undo and redo push their answers unseen. *)
NoNoopEntries == \A s \in {done, undone} : \A k \in DOMAIN s : s[k] # Noop

(* Taking back the latest edit gives exactly the model it was made on, and
   redoing gives exactly the model that was undone, whatever lies between. *)
UndoRestores == done # <<>> => After(model, Last(done)) = Last(past)
RedoRestores == undone # <<>> => After(model, Last(undone)) = Last(future)

(* The doc of UndoStack::revision: along one stack the number only grows, and
   the same number means the same model, so that it can key a cache. *)
RevisionNamesModel ==
    [][ /\ revision' >= revision
        /\ revision' = revision => model' = model ]_vars

(* Every command the user can issue obeys the round-trip law. *)
CommandsReversible == \A c \in Requests(model) : Reversible(model, c)

(* The stack of commands implements the line of states. *)
History == INSTANCE EditHistory
             WITH present <- model
HistoryRefined == History!HistorySpec
==============================================================================
