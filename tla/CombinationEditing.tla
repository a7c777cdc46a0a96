-------------------------- MODULE CombinationEditing --------------------------
(***************************************************************************)
(* The commands on the list of load combinations, the plainest of          *)
(* sepika-edit: the list is addressed by position and nothing refers into  *)
(* it.  A command is a record whose "op" is the name of its struct.        *)
(***************************************************************************)
EXTENDS Integers, Sequences, SequencesExt

CONSTANTS Combos,       \* the combinations a user may add
          MaxCombos     \* bound on the length of the list

NoopCmd == [op |-> "Noop"]
AddCombination(x)       == [op |-> "AddCombination", combo |-> x]
DeleteCombination(i)    == [op |-> "DeleteCombination", index |-> i]
InsertCombination(i, x) == [op |-> "InsertCombination", index |-> i, combo |-> x]

(* Positions count from 1 here, from 0 in the code. *)
ExecuteCombination(m, c) ==
    CASE c.op = "AddCombination" ->
            <<Append(m, c.combo), DeleteCombination(Len(m) + 1)>>
      [] c.op = "DeleteCombination" /\ c.index <= Len(m) ->
            <<RemoveAt(m, c.index), InsertCombination(c.index, m[c.index])>>
      [] c.op = "InsertCombination" /\ c.index <= Len(m) + 1 ->
            <<InsertAt(m, c.index, c.combo), DeleteCombination(c.index)>>
      [] OTHER -> <<m, NoopCmd>>

CombinationLists == UNION { [1 .. n -> Combos] : n \in 0 .. MaxCombos }

(* A stale position may be requested: the table row may be gone. *)
CombinationRequests(m) ==
    { DeleteCombination(i) : i \in 1 .. MaxCombos }
      \union { AddCombination(x) : x \in IF Len(m) < MaxCombos THEN Combos ELSE {} }

CombinationCommands ==
    { DeleteCombination(i) : i \in 1 .. MaxCombos } \union {NoopCmd}
      \union { AddCombination(x) : x \in Combos }
      \union { InsertCombination(i, x) : i \in 1 .. MaxCombos, x \in Combos }
==============================================================================
