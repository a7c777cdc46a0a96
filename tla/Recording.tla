----------------------------- MODULE Recording -----------------------------
(***************************************************************************)
(* ThRecorder and the peaks that the time history loops keep beside it     *)
(* (dynamic/timehistory/recording.rs): every committed step enters the     *)
(* peaks, but only some steps become frames.  A step's response is the one *)
(* whole number that stands for the displacements, forces and story        *)
(* responses taken from the same state.                                    *)
(***************************************************************************)
EXTENDS Integers, Sequences

Magnitude(x) == IF x < 0 THEN -x ELSE x

NewRecorder(nSteps, every) ==
  [nSteps |-> nSteps, every |-> every, frames |-> <<>>, peak |-> 0]

IsFrame(r, n) == n % r.every = 0 \/ n = r.nSteps

\* Faulty variant: peaks are taken from the frames
RecordPeakOfFrames(r, n, x) ==
  IF IsFrame(r, n)
  THEN [r EXCEPT !.peak = IF @ < Magnitude(x) THEN Magnitude(x) ELSE @,
                 !.frames = Append(@, [step |-> n, at |-> x])]
  ELSE r
RecordStep(r, n, x) ==
  [r EXCEPT !.peak = IF @ < Magnitude(x) THEN Magnitude(x) ELSE @,
            !.frames = IF IsFrame(r, n) THEN Append(@, [step |-> n, at |-> x]) ELSE @]
=============================================================================
