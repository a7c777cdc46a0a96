------------------------------ MODULE RoundTrip ------------------------------
(***************************************************************************)
(* A command of sepika-edit, executed on a model, changes it and answers   *)
(* with the command that takes the change back; a refused command answers  *)
(* with Noop.  The law the undo stack lives on is stated here for any set  *)
(* of commands; FrameEditing checks it for those of the editor.            *)
(***************************************************************************)
CONSTANTS Execute(_, _),   \* Execute(m, c) = <<model after c, inverse of c>>
          Noop             \* the answer of a refused command

After(m, c)     == Execute(m, c)[1]
InverseOf(m, c) == Execute(m, c)[2]

(* The round-trip law: a refused command changes nothing; the inverse of an
   accepted one restores the model, and so do, for as often as the user goes back
   and forth, the commands the two answer with in turn.  (A variable bound to the
   one element of a set is evaluated once, a LET at each of its uses.) *)
Reversible(m, c) ==
    \A there \in {Execute(m, c)} :
        IF there[2] = Noop THEN there[1] = m
        ELSE \A back \in {Execute(there[1], there[2])} :
                /\ back[1] = m
                /\ back[2] # Noop
                /\ \A again \in {Execute(m, back[2])} :
                      /\ again[1] = there[1]
                      /\ again[2] # Noop
                      /\ \A last \in {Execute(there[1], again[2])} :
                            last[1] = m /\ last[2] = back[2]
==============================================================================
