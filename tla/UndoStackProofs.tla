--------------------------- MODULE UndoStackProofs ---------------------------
(***************************************************************************)
(* For every set of commands that obeys the round-trip law: undo and redo  *)
(* restore exactly what they promise, the two stacks together stay within  *)
(* the limit, no Noop is ever stacked, equal revisions mean equal models,  *)
(* and the stack of commands implements the line of states of EditHistory. *)
(* At the end: the commands on load combinations obey that law.            *)
(***************************************************************************)
EXTENDS UndoStackLaw, SequenceTheorems, TLAPS

(* Command i leads from model b back to model a; its inverse redo leads forward
   again, and from then on redo and the inverse of redo answer with each other. *)
Linked(a, i, b) ==
    LET redo == InverseOf(b, i)
        again == InverseOf(a, redo)
    IN  /\ {i, redo, again} \subseteq Commands \ {Noop}
        /\ After(b, i) = a
        /\ After(a, redo) = b
        /\ After(b, again) = a
        /\ InverseOf(b, again) = redo

(* Every entry of a stack leads from the state above it to the model recorded
   with it; m is the state above the last entry. *)
Chain(states, cmds, m) ==
    /\ Len(states) = Len(cmds)
    /\ \A k \in 1 .. Len(cmds) :
          Linked(states[k], cmds[k], IF k = Len(cmds) THEN m ELSE states[k + 1])

(* The inductive invariant: the restore properties speak of the last entries
   only, and the entries below become last ones later. *)
IInv == /\ TypeOK
        /\ Chain(past, done, model)
        /\ Chain(future, undone, model)
        /\ Len(done) + Len(undone) <= MaxUndo

(* The inverse of a link is a link the other way round. *)
LEMMA LinkSymmetric ==
    ASSUME NEW a, NEW i, NEW b, Linked(a, i, b)
    PROVE  Linked(b, InverseOf(b, i), a)
  BY DEF Linked

(* The round-trip law in terms of models and inverses. *)
LEMMA ReversibleMeans ==
    ASSUME NEW m, NEW c, Reversible(m, c)
    PROVE  LET n == After(m, c)
               undo == InverseOf(m, c)
               redo == InverseOf(n, undo)
               undoAgain == InverseOf(m, redo)
           IN  IF undo = Noop THEN n = m
               ELSE /\ After(n, undo) = m
                    /\ redo # Noop
                    /\ After(m, redo) = n
                    /\ undoAgain # Noop
                    /\ After(n, undoAgain) = m
                    /\ InverseOf(n, undoAgain) = redo
  BY DEF Reversible, After, InverseOf

(* An accepted request links the old model with the new one. *)
LEMMA RequestLinks ==
    ASSUME NEW m \in Models, NEW c \in Requests(m), InverseOf(m, c) # Noop
    PROVE  /\ Linked(m, InverseOf(m, c), After(m, c))
           /\ After(m, c) \in Models
<1> DEFINE n == After(m, c)
           undo == InverseOf(m, c)
           redo == InverseOf(n, undo)
<1>1. n \in Models /\ {undo, redo, InverseOf(m, redo)} \subseteq Commands
  BY CommandsClosed
<1>2. Reversible(m, c)
  BY RoundTripLaw
<1> QED BY <1>1, <1>2, ReversibleMeans DEF Linked

(* A link pushed on a chain whose last state it starts from. *)
LEMMA ChainPush ==
    ASSUME NEW states \in Seq(Models), NEW cmds \in Seq(Commands), NEW m \in Models,
           NEW i \in Commands, NEW n, Chain(states, cmds, m), Linked(m, i, n)
    PROVE  Chain(Append(states, m), Append(cmds, i), n)
<1> DEFINE S == Append(states, m)
           D == Append(cmds, i)
<1>1. /\ Len(S) = Len(D) /\ Len(D) = Len(cmds) + 1
      /\ Len(cmds) \in Nat
      /\ Len(states) = Len(cmds)
  BY DEF Chain
<1>2. ASSUME NEW k \in 1 .. Len(D)
      PROVE  Linked(S[k], D[k], IF k = Len(D) THEN n ELSE S[k + 1])
  <2>1. CASE k = Len(D)
    <3>1. S[k] = m /\ D[k] = i
      BY <1>1, <2>1
    <3> QED BY <3>1, <2>1
  <2>2. CASE k # Len(D)
    <3>1. k \in 1 .. Len(cmds)
      BY <1>1, <2>2
    <3>2. S[k] = states[k] /\ D[k] = cmds[k]
      BY <1>1, <3>1
    <3>3. S[k + 1] = IF k = Len(cmds) THEN m ELSE states[k + 1]
      BY <1>1, <3>1
    <3>4. Linked(states[k], cmds[k], IF k = Len(cmds) THEN m ELSE states[k + 1])
      BY <3>1 DEF Chain
    <3> QED BY <3>2, <3>3, <3>4, <2>2
  <2> QED BY <2>1, <2>2
<1> QED BY <1>1, <1>2 DEF Chain

(* The chain below the last link. *)
LEMMA ChainPop ==
    ASSUME NEW states \in Seq(Models), NEW cmds \in Seq(Commands), NEW m,
           Chain(states, cmds, m), cmds # <<>>
    PROVE  /\ Chain(Front(states), Front(cmds), Last(states))
           /\ Linked(Last(states), Last(cmds), m)
           /\ Front(states) \in Seq(Models) /\ Front(cmds) \in Seq(Commands)
           /\ Len(Front(cmds)) = Len(cmds) - 1
           /\ Last(states) \in Models /\ Last(cmds) \in Commands
<1> DEFINE n == Len(cmds)
           S == Front(states)
           D == Front(cmds)
<1>1. n \in Nat /\ n >= 1 /\ Len(states) = n
  BY DEF Chain
<1>2. /\ S \in Seq(Models) /\ D \in Seq(Commands)
      /\ Len(S) = n - 1 /\ Len(D) = n - 1
      /\ \A k \in 1 .. n - 1 : S[k] = states[k] /\ D[k] = cmds[k]
  BY <1>1, SubSeqProperties DEF Front
<1>3. Last(states) = states[n] /\ Last(cmds) = cmds[n]
      /\ states[n] \in Models /\ cmds[n] \in Commands
  BY <1>1 DEF Last
<1>4. Linked(states[n], cmds[n], m)
  BY <1>1 DEF Chain
<1>5. ASSUME NEW k \in 1 .. Len(D)
      PROVE  Linked(S[k], D[k], IF k = Len(D) THEN Last(states) ELSE S[k + 1])
  <2>1. k \in 1 .. n /\ k # n
    BY <1>1, <1>2
  <2>2. Linked(states[k], cmds[k], states[k + 1])
    BY <2>1 DEF Chain
  <2>3. S[k] = states[k] /\ D[k] = cmds[k]
    BY <1>1, <1>2, <2>1
  <2>4. states[k + 1] = IF k = Len(D) THEN Last(states) ELSE S[k + 1]
    BY <1>1, <1>2, <1>3, <2>1
  <2> QED BY <2>2, <2>3, <2>4
<1>6. Chain(S, D, Last(states))
  BY <1>2, <1>5 DEF Chain
<1> QED BY <1>2, <1>3, <1>4, <1>6

(* Forgetting the oldest link. *)
LEMMA ChainTail ==
    ASSUME NEW states \in Seq(Models), NEW cmds \in Seq(Commands), NEW m,
           Chain(states, cmds, m), cmds # <<>>
    PROVE  /\ Chain(Tail(states), Tail(cmds), m)
           /\ Tail(states) \in Seq(Models) /\ Tail(cmds) \in Seq(Commands)
           /\ Len(Tail(cmds)) = Len(cmds) - 1
<1> DEFINE n == Len(cmds)
           S == Tail(states)
           D == Tail(cmds)
<1>1. n \in Nat /\ n >= 1 /\ Len(states) = n
  BY DEF Chain
<1>2. /\ S \in Seq(Models) /\ D \in Seq(Commands)
      /\ Len(S) = n - 1 /\ Len(D) = n - 1
      /\ \A k \in 1 .. n - 1 : S[k] = states[k + 1] /\ D[k] = cmds[k + 1]
  BY <1>1
<1>3. ASSUME NEW k \in 1 .. Len(D)
      PROVE  Linked(S[k], D[k], IF k = Len(D) THEN m ELSE S[k + 1])
  <2>1. k + 1 \in 1 .. n
    BY <1>1, <1>2
  <2>2. Linked(states[k + 1], cmds[k + 1], IF k + 1 = n THEN m ELSE states[k + 2])
    BY <2>1 DEF Chain
  <2>3. S[k] = states[k + 1] /\ D[k] = cmds[k + 1]
    BY <1>1, <1>2
  <2>4. k # Len(D) => S[k + 1] = states[k + 2]
    BY <1>1, <1>2
  <2> QED BY <1>1, <1>2, <2>2, <2>3, <2>4
<1> QED BY <1>2, <1>3 DEF Chain

(* The initial state. *)
LEMMA InitIInv == Init => IInv
<1> SUFFICES ASSUME Init PROVE IInv
  OBVIOUS
<1>1. TypeOK
  <2>1. <<>> \in Seq(Commands) /\ <<>> \in Seq(Models)
    OBVIOUS
  <2> QED BY <2>1, StartsAreModels DEF Init, TypeOK
<1>2. Chain(past, done, model) /\ Chain(future, undone, model)
  BY DEF Init, Chain
<1>3. Len(done) + Len(undone) <= MaxUndo
  BY BoundsAreNaturals DEF Init
<1> QED BY <1>1, <1>2, <1>3 DEF IInv

(* A request: accepted, it becomes the last link and may push out the first;
   refused, nothing moves. *)
LEMMA RunIInv == ASSUME IInv, NEW c \in Requests(model), Run(c) PROVE IInv'
<1> DEFINE i == InverseOf(model, c)
           n == After(model, c)
<1>t. TypeOK /\ Chain(past, done, model) /\ Chain(future, undone, model)
      /\ Len(done) + Len(undone) <= MaxUndo
  BY DEF IInv
<1>0. model \in Models
  BY <1>t DEF TypeOK
<1>1. CASE i = Noop
  <2>1. Reversible(model, c)
    BY <1>0, RoundTripLaw
  <2>2. n = model
    BY <2>1, <1>1, ReversibleMeans
  <2>3. UNCHANGED <<model, done, undone, revision, past, future>>
    BY <1>1, <2>2 DEF Run
  <2> QED BY <1>t, <2>3 DEF IInv, TypeOK, Chain, Linked
<1>2. CASE i # Noop
  <2> DEFINE P == Append(past, model)
             D == Append(done, i)
  <2>1. Linked(model, i, n) /\ n \in Models
    BY <1>0, <1>2, RequestLinks
  <2>2. i \in Commands
    BY <2>1 DEF Linked
  <2>3. past \in Seq(Models) /\ done \in Seq(Commands)
    BY <1>t DEF TypeOK
  <2>4. Chain(P, D, n)
    BY <1>0, <1>t, <2>1, <2>2, <2>3, ChainPush
  <2>5. P \in Seq(Models) /\ D \in Seq(Commands) /\ D # <<>>
        /\ Len(D) = Len(done) + 1 /\ Len(P) = Len(D)
    BY <1>0, <1>t, <2>2, <2>3 DEF Chain
  <2>6. /\ model' = n /\ done' = Tailed(D) /\ past' = Tailed(P)
        /\ undone' = <<>> /\ future' = <<>> /\ revision' = revision + 1
    BY <1>2 DEF Run
  <2>7. /\ Chain(Tailed(P), Tailed(D), n)
        /\ Tailed(P) \in Seq(Models) /\ Tailed(D) \in Seq(Commands)
        /\ Len(Tailed(D)) <= MaxUndo
    <3>1. CASE Len(D) > MaxUndo
      <4>1. Tailed(P) = Tail(P) /\ Tailed(D) = Tail(D)
        BY <2>5, <3>1 DEF Tailed
      <4>2. /\ Chain(Tail(P), Tail(D), n)
            /\ Tail(P) \in Seq(Models) /\ Tail(D) \in Seq(Commands)
            /\ Len(Tail(D)) = Len(D) - 1
        BY <2>4, <2>5, ChainTail
      <4>3. Len(done) <= MaxUndo /\ Len(done) \in Nat
        <5>1. Len(done) \in Nat /\ Len(undone) \in Nat
          BY <1>t DEF TypeOK
        <5> QED BY <5>1, <1>t, BoundsAreNaturals
      <4> QED BY <4>1, <4>2, <4>3, <2>5
    <3>2. CASE ~(Len(D) > MaxUndo)
      <4>1. Tailed(P) = P /\ Tailed(D) = D
        BY <2>5, <3>2 DEF Tailed
      <4>2. Len(D) \in Nat
        BY <2>5
      <4> QED BY <4>1, <4>2, <2>4, <2>5, <3>2, BoundsAreNaturals
    <3> QED BY <3>1, <3>2
  <2>8. <<>> \in Seq(Models) /\ <<>> \in Seq(Commands)
    OBVIOUS
  <2>9. TypeOK'
    BY <1>t, <2>1, <2>6, <2>7, <2>8 DEF TypeOK
  <2>10. Chain(past, done, model)'
    BY <2>6, <2>7 DEF Chain
  <2>11. Chain(future, undone, model)'
    BY <2>6 DEF Chain
  <2>12. (Len(done) + Len(undone) <= MaxUndo)'
    <3>1. done' = Tailed(D) /\ Len(undone') = 0
      BY <2>6
    <3>2. Len(done') \in Nat
      BY <2>9 DEF TypeOK
    <3>3. Len(done') <= MaxUndo
      BY <3>1, <2>7
    <3> QED BY <3>1, <3>2, <3>3
  <2> QED BY <2>9, <2>10, <2>11, <2>12 DEF IInv
<1> QED BY <1>1, <1>2

(* Undo moves the last link over to the redo line, the other way round. *)
LEMMA UndoIInv == ASSUME IInv, Undo PROVE IInv'
<1> DEFINE i == Last(done)
           n == After(model, i)
           r == InverseOf(model, i)
<1>t. TypeOK /\ Chain(past, done, model) /\ Chain(future, undone, model)
      /\ Len(done) + Len(undone) <= MaxUndo
  BY DEF IInv
<1>0. /\ model \in Models /\ revision \in Nat
      /\ past \in Seq(Models) /\ done \in Seq(Commands)
      /\ future \in Seq(Models) /\ undone \in Seq(Commands)
  BY <1>t DEF TypeOK
<1>1. /\ done # <<>>
      /\ model' = n /\ done' = Front(done) /\ past' = Front(past)
      /\ undone' = Append(undone, r) /\ future' = Append(future, model)
      /\ revision' = revision + 1
  BY DEF Undo
<1>2. /\ Chain(Front(past), Front(done), Last(past))
      /\ Linked(Last(past), i, model)
      /\ Front(past) \in Seq(Models) /\ Front(done) \in Seq(Commands)
      /\ Len(Front(done)) = Len(done) - 1
      /\ Last(past) \in Models
  BY <1>0, <1>1, <1>t, ChainPop
<1>3. n = Last(past) /\ r \in Commands
  BY <1>2 DEF Linked
<1>4. Linked(model, r, n)
  BY <1>2, <1>3, LinkSymmetric
<1>5. Chain(Append(future, model), Append(undone, r), n)
  BY <1>0, <1>t, <1>3, <1>4, ChainPush
<1>6. TypeOK'
  BY <1>0, <1>1, <1>2, <1>3 DEF TypeOK
<1>7. Chain(past, done, model)'
  BY <1>1, <1>2, <1>3 DEF Chain
<1>8. Chain(future, undone, model)'
  BY <1>1, <1>5 DEF Chain
<1>9. (Len(done) + Len(undone) <= MaxUndo)'
  <2>1. /\ Len(done') = Len(done) - 1 /\ Len(undone') = Len(undone) + 1
        /\ Len(done) \in Nat /\ Len(undone) \in Nat
    BY <1>0, <1>1, <1>2, <1>3
  <2> QED BY <2>1, <1>t, BoundsAreNaturals
<1> QED BY <1>6, <1>7, <1>8, <1>9 DEF IInv

(* Redo moves it back. *)
LEMMA RedoIInv == ASSUME IInv, Redo PROVE IInv'
<1> DEFINE i == Last(undone)
           n == After(model, i)
           r == InverseOf(model, i)
<1>t. TypeOK /\ Chain(past, done, model) /\ Chain(future, undone, model)
      /\ Len(done) + Len(undone) <= MaxUndo
  BY DEF IInv
<1>0. /\ model \in Models /\ revision \in Nat
      /\ past \in Seq(Models) /\ done \in Seq(Commands)
      /\ future \in Seq(Models) /\ undone \in Seq(Commands)
  BY <1>t DEF TypeOK
<1>1. /\ undone # <<>>
      /\ model' = n /\ undone' = Front(undone) /\ future' = Front(future)
      /\ done' = Append(done, r) /\ past' = Append(past, model)
      /\ revision' = revision + 1
  BY DEF Redo
<1>2. /\ Chain(Front(future), Front(undone), Last(future))
      /\ Linked(Last(future), i, model)
      /\ Front(future) \in Seq(Models) /\ Front(undone) \in Seq(Commands)
      /\ Len(Front(undone)) = Len(undone) - 1
      /\ Last(future) \in Models
  BY <1>0, <1>1, <1>t, ChainPop
<1>3. n = Last(future) /\ r \in Commands
  BY <1>2 DEF Linked
<1>4. Linked(model, r, n)
  BY <1>2, <1>3, LinkSymmetric
<1>5. Chain(Append(past, model), Append(done, r), n)
  BY <1>0, <1>t, <1>3, <1>4, ChainPush
<1>6. TypeOK'
  BY <1>0, <1>1, <1>2, <1>3 DEF TypeOK
<1>7. Chain(future, undone, model)'
  BY <1>1, <1>2, <1>3 DEF Chain
<1>8. Chain(past, done, model)'
  BY <1>1, <1>5 DEF Chain
<1>9. (Len(done) + Len(undone) <= MaxUndo)'
  <2>1. /\ Len(undone') = Len(undone) - 1 /\ Len(done') = Len(done) + 1
        /\ Len(done) \in Nat /\ Len(undone) \in Nat
    BY <1>0, <1>1, <1>2, <1>3
  <2> QED BY <2>1, <1>t, BoundsAreNaturals
<1> QED BY <1>6, <1>7, <1>8, <1>9 DEF IInv

(* The invariant is inductive. *)
LEMMA NextIInv == IInv /\ [Next]_vars => IInv'
<1> SUFFICES ASSUME IInv, [Next]_vars PROVE IInv'
  OBVIOUS
<1>1. ASSUME NEW c \in Requests(model), Run(c) PROVE IInv'
  BY <1>1, RunIInv
<1>2. CASE Undo
  BY <1>2, UndoIInv
<1>3. CASE Redo
  BY <1>3, RedoIInv
<1>4. CASE UNCHANGED vars
  BY <1>4 DEF vars, IInv, TypeOK, Chain, Linked
<1> QED BY <1>1, <1>2, <1>3, <1>4 DEF Next

(* Every reachable stack is a chain of links on both sides of the model. *)
THEOREM StackIsAChain == Spec => []IInv
<1> QED BY InitIInv, NextIInv, PTL DEF Spec

(* The stacks hold commands and the document stays a model. *)
THEOREM TypeCorrect == Spec => []TypeOK
<1>1. IInv => TypeOK
  BY DEF IInv
<1> QED BY <1>1, StackIsAChain, PTL

(* The two stacks together never exceed max_undo, although redo does not look
   at it: redo takes from one what it gives to the other. *)
THEOREM BoundedHistory == Spec => []HistoryBounded
<1>1. IInv => HistoryBounded
  BY DEF IInv, Chain, HistoryBounded
<1> QED BY <1>1, StackIsAChain, PTL

(* No entry is a Noop, although undo and redo push their answers unseen. *)
THEOREM NoNoopStacked == Spec => []NoNoopEntries
<1>1. IInv => NoNoopEntries
  <2> SUFFICES ASSUME IInv PROVE NoNoopEntries
    OBVIOUS
  <2>1. /\ done \in Seq(Commands) /\ undone \in Seq(Commands)
        /\ Chain(past, done, model) /\ Chain(future, undone, model)
    BY DEF IInv, TypeOK
  <2>2. /\ \A k \in DOMAIN done : done[k] # Noop
        /\ \A k \in DOMAIN undone : undone[k] # Noop
    BY <2>1 DEF Chain, Linked
  <2> QED BY <2>2 DEF NoNoopEntries
<1> QED BY <1>1, StackIsAChain, PTL

(* What the last entry of a chain leads to. *)
LEMMA ChainRestores ==
    ASSUME NEW states \in Seq(Models), NEW cmds \in Seq(Commands), NEW m,
           Chain(states, cmds, m), cmds # <<>>
    PROVE  After(m, Last(cmds)) = Last(states)
<1>1. Linked(Last(states), Last(cmds), m)
  BY ChainPop
<1> QED BY <1>1 DEF Linked

(* Undo gives back exactly the model the latest edit was made on. *)
THEOREM UndoIsExact == Spec => []UndoRestores
<1>1. IInv => UndoRestores
  BY ChainRestores DEF IInv, TypeOK, UndoRestores
<1> QED BY <1>1, StackIsAChain, PTL

(* Redo gives back exactly the model that was undone. *)
THEOREM RedoIsExact == Spec => []RedoRestores
<1>1. IInv => RedoRestores
  BY ChainRestores DEF IInv, TypeOK, RedoRestores
<1> QED BY <1>1, StackIsAChain, PTL

(* Along one stack the revision never falls, and while it stands still so does
   the model: the promise the preview caches rely on. *)
THEOREM RevisionIdentifiesModel == Spec => RevisionNamesModel
<1>1. IInv /\ [Next]_vars => [ /\ revision' >= revision
                               /\ revision' = revision => model' = model ]_vars
  <2> SUFFICES ASSUME IInv, Next
               PROVE  revision' >= revision /\ (revision' = revision => model' = model)
    OBVIOUS
  <2>0. revision \in Nat /\ model \in Models
    BY DEF IInv, TypeOK
  <2>1. ASSUME NEW c \in Requests(model), Run(c)
        PROVE  revision' >= revision /\ (revision' = revision => model' = model)
    <3>1. CASE InverseOf(model, c) = Noop
      <4>1. After(model, c) = model
        BY <2>0, <3>1, RoundTripLaw, ReversibleMeans
      <4> QED BY <2>0, <2>1, <3>1, <4>1 DEF Run
    <3>2. CASE InverseOf(model, c) # Noop
      <4>1. revision' = revision + 1
        BY <2>1, <3>2 DEF Run
      <4> QED BY <2>0, <4>1
    <3> QED BY <3>1, <3>2
  <2>2. CASE Undo \/ Redo
    <3>1. revision' = revision + 1
      BY <2>2 DEF Undo, Redo
    <3> QED BY <2>0, <3>1
  <2> QED BY <2>1, <2>2 DEF Next
<1> QED BY <1>1, StackIsAChain, PTL DEF Spec, RevisionNamesModel

(* The stack of commands implements the line of states: an accepted command
   records the present, undo and redo walk the line. *)
THEOREM StackImplementsHistory == Spec => HistoryRefined
<1>1. Init => History!HistoryInit
  BY DEF Init, History!HistoryInit
<1>2. IInv /\ IInv' /\ [Next]_vars => [History!HistoryNext]_(History!historyVars)
  <2> SUFFICES ASSUME IInv, IInv', [Next]_vars
               PROVE  History!HistoryNext \/ UNCHANGED History!historyVars
    BY DEF History!historyVars
  <2>0. /\ model \in Models /\ model' \in Models
        /\ past \in Seq(Models) /\ done \in Seq(Commands)
        /\ future \in Seq(Models) /\ undone \in Seq(Commands)
        /\ Chain(past, done, model) /\ Chain(future, undone, model)
    BY DEF IInv, TypeOK
  <2>1. Len(past) = Len(done) /\ Len(future) = Len(undone)
    BY <2>0 DEF Chain
  <2>2. ASSUME NEW c \in Requests(model), Run(c)
        PROVE  History!HistoryNext \/ UNCHANGED History!historyVars
    <3>1. CASE InverseOf(model, c) = Noop
      <4>1. After(model, c) = model
        BY <2>0, <3>1, RoundTripLaw, ReversibleMeans
      <4> QED BY <2>2, <3>1, <4>1 DEF Run, History!historyVars
    <3>2. CASE InverseOf(model, c) # Noop
      <4>1. past' = Tailed(Append(past, model)) /\ future' = <<>>
        BY <2>2, <3>2 DEF Run
      <4>2. History!Record
        BY <2>0, <4>1 DEF Tailed, History!Record
      <4> QED BY <4>2 DEF History!HistoryNext
    <3> QED BY <3>1, <3>2
  <2>3. CASE Undo
    <3>1. /\ done # <<>> /\ past' = Front(past)
          /\ model' = After(model, Last(done)) /\ future' = Append(future, model)
      BY <2>3 DEF Undo
    <3>2. After(model, Last(done)) = Last(past) /\ past # <<>>
      BY <2>0, <2>1, <3>1, ChainRestores
    <3>3. History!StepBack
      BY <3>1, <3>2 DEF Front, Last, History!StepBack
    <3> QED BY <3>3 DEF History!HistoryNext
  <2>4. CASE Redo
    <3>1. /\ undone # <<>> /\ future' = Front(future)
          /\ model' = After(model, Last(undone)) /\ past' = Append(past, model)
      BY <2>4 DEF Redo
    <3>2. After(model, Last(undone)) = Last(future) /\ future # <<>>
      BY <2>0, <2>1, <3>1, ChainRestores
    <3>3. History!StepForward
      BY <3>1, <3>2 DEF Front, Last, History!StepForward
    <3> QED BY <3>3 DEF History!HistoryNext
  <2>5. CASE UNCHANGED vars
    BY <2>5 DEF vars, History!historyVars
  <2> QED BY <2>2, <2>3, <2>4, <2>5 DEF Next
<1> QED BY <1>1, <1>2, StackIsAChain, PTL DEF Spec, HistoryRefined, History!HistorySpec

-----------------------------------------------------------------------------
(* Assumptions about commands are worth what some commands keep: those on the list
   of load combinations keep them for every set of combinations and every bound. *)

CONSTANTS Combos, MaxCombos

C == INSTANCE CombinationEditing

Law == INSTANCE RoundTrip WITH Execute <- C!ExecuteCombination, Noop <- C!NoopCmd

(* A list without its entry at i: what was behind it moves up by one. *)
LEMMA RemovedAt ==
    ASSUME NEW m \in Seq(Combos), NEW i \in 1 .. Len(m)
    PROVE  /\ C!RemoveAt(m, i) \in Seq(Combos)
           /\ Len(C!RemoveAt(m, i)) = Len(m) - 1
           /\ \A k \in 1 .. i - 1 : C!RemoveAt(m, i)[k] = m[k]
           /\ \A k \in i .. Len(m) - 1 : C!RemoveAt(m, i)[k] = m[k + 1]
<1> DEFINE a == SubSeq(m, 1, i - 1)
           b == SubSeq(m, i + 1, Len(m))
<1>0. Len(m) \in Nat
  OBVIOUS
<1>1. /\ a \in Seq(Combos) /\ Len(a) = i - 1
      /\ \A k \in 1 .. i - 1 : a[k] = m[k]
  <2>1. \A k \in 1 .. i - 1 : m[k] \in Combos
    BY <1>0, ElementOfSeq
  <2>2. i - 1 \in Int /\ (IF 1 <= i - 1 THEN (i - 1) - 1 + 1 ELSE 0) = i - 1
    BY <1>0
  <2>3. /\ a \in Seq(Combos)
        /\ Len(a) = IF 1 <= i - 1 THEN (i - 1) - 1 + 1 ELSE 0
        /\ \A k \in 1 .. (i - 1) - 1 + 1 : a[k] = m[1 + k - 1]
    BY <2>1, <2>2, SubSeqProperties
  <2> QED BY <1>0, <2>2, <2>3
<1>2. /\ b \in Seq(Combos) /\ Len(b) = Len(m) - i
      /\ \A k \in 1 .. Len(m) - i : b[k] = m[i + k]
  <2>1. \A k \in i + 1 .. Len(m) : m[k] \in Combos
    BY <1>0, ElementOfSeq
  <2>2. i + 1 \in Int /\ (IF i + 1 <= Len(m) THEN Len(m) - (i + 1) + 1 ELSE 0) = Len(m) - i
    BY <1>0
  <2>3. /\ b \in Seq(Combos)
        /\ Len(b) = IF i + 1 <= Len(m) THEN Len(m) - (i + 1) + 1 ELSE 0
        /\ \A k \in 1 .. Len(m) - (i + 1) + 1 : b[k] = m[(i + 1) + k - 1]
    BY <1>0, <2>1, <2>2, SubSeqProperties
  <2> QED BY <1>0, <2>2, <2>3
<1>3. C!RemoveAt(m, i) = a \o b
  BY DEF C!RemoveAt
<1> HIDE DEF a, b
<1>4. /\ a \o b \in Seq(Combos) /\ Len(a \o b) = Len(a) + Len(b)
      /\ \A k \in 1 .. Len(a) + Len(b) :
            (a \o b)[k] = IF k <= Len(a) THEN a[k] ELSE b[k - Len(a)]
  BY <1>1, <1>2, ConcatProperties
<1>5. ASSUME NEW k \in 1 .. i - 1
      PROVE  (a \o b)[k] = m[k]
  BY <1>0, <1>1, <1>2, <1>4
<1>6. ASSUME NEW k \in i .. Len(m) - 1
      PROVE  (a \o b)[k] = m[k + 1]
  <2>1. (a \o b)[k] = b[k - (i - 1)]
    BY <1>0, <1>1, <1>2, <1>4
  <2>2. k - (i - 1) \in 1 .. Len(m) - i /\ i + (k - (i - 1)) = k + 1
    BY <1>0
  <2>3. b[k - (i - 1)] = m[i + (k - (i - 1))]
    BY <1>2, <2>2
  <2> QED BY <2>1, <2>2, <2>3
<1>7. Len(a \o b) = Len(m) - 1
  BY <1>0, <1>1, <1>2, <1>4
<1> QED BY <1>3, <1>4, <1>5, <1>6, <1>7

(* A list with x put in at i: what was at i and behind it moves down by one. *)
LEMMA InsertedAt ==
    ASSUME NEW m \in Seq(Combos), NEW i \in 1 .. Len(m) + 1, NEW x \in Combos
    PROVE  /\ C!InsertAt(m, i, x) \in Seq(Combos)
           /\ Len(C!InsertAt(m, i, x)) = Len(m) + 1
           /\ \A k \in 1 .. i - 1 : C!InsertAt(m, i, x)[k] = m[k]
           /\ C!InsertAt(m, i, x)[i] = x
           /\ \A k \in i + 1 .. Len(m) + 1 : C!InsertAt(m, i, x)[k] = m[k - 1]
<1> DEFINE a == SubSeq(m, 1, i - 1)
           b == SubSeq(m, i, Len(m))
           e == <<x>>
<1>0. Len(m) \in Nat
  OBVIOUS
<1>1. /\ a \in Seq(Combos) /\ Len(a) = i - 1
      /\ \A k \in 1 .. i - 1 : a[k] = m[k]
  <2>1. \A k \in 1 .. i - 1 : m[k] \in Combos
    BY <1>0, ElementOfSeq
  <2>2. i - 1 \in Int /\ (IF 1 <= i - 1 THEN (i - 1) - 1 + 1 ELSE 0) = i - 1
    BY <1>0
  <2>3. /\ a \in Seq(Combos)
        /\ Len(a) = IF 1 <= i - 1 THEN (i - 1) - 1 + 1 ELSE 0
        /\ \A k \in 1 .. (i - 1) - 1 + 1 : a[k] = m[1 + k - 1]
    BY <2>1, <2>2, SubSeqProperties
  <2> QED BY <1>0, <2>2, <2>3
<1>2. /\ b \in Seq(Combos) /\ Len(b) = Len(m) + 1 - i
      /\ \A k \in 1 .. Len(m) + 1 - i : b[k] = m[i + k - 1]
  <2>1. \A k \in i .. Len(m) : m[k] \in Combos
    BY <1>0, ElementOfSeq
  <2>2. i \in Int /\ (IF i <= Len(m) THEN Len(m) - i + 1 ELSE 0) = Len(m) + 1 - i
    BY <1>0
  <2>3. /\ b \in Seq(Combos)
        /\ Len(b) = IF i <= Len(m) THEN Len(m) - i + 1 ELSE 0
        /\ \A k \in 1 .. Len(m) - i + 1 : b[k] = m[i + k - 1]
    BY <1>0, <2>1, <2>2, SubSeqProperties
  <2> QED BY <1>0, <2>2, <2>3
<1>3. C!InsertAt(m, i, x) = (a \o e) \o b
  BY DEF C!InsertAt
<1>4. e \in Seq(Combos) /\ Len(e) = 1 /\ e[1] = x
  OBVIOUS
<1> HIDE DEF a, b, e
<1>5. /\ a \o e \in Seq(Combos) /\ Len(a \o e) = i
      /\ \A k \in 1 .. i - 1 : (a \o e)[k] = m[k]
      /\ (a \o e)[i] = x
  <2>1. /\ a \o e \in Seq(Combos) /\ Len(a \o e) = Len(a) + Len(e)
        /\ \A k \in 1 .. Len(a) + Len(e) :
              (a \o e)[k] = IF k <= Len(a) THEN a[k] ELSE e[k - Len(a)]
    BY <1>1, <1>4, ConcatProperties
  <2>2. Len(a) + Len(e) = i /\ i - Len(a) = 1
    BY <1>0, <1>1, <1>4
  <2>3. (a \o e)[i] = e[1]
    BY <1>0, <1>1, <2>1, <2>2
  <2>4. \A k \in 1 .. i - 1 : (a \o e)[k] = m[k]
    BY <1>0, <1>1, <2>1, <2>2
  <2> QED BY <1>4, <2>1, <2>2, <2>3, <2>4
<1> DEFINE c == a \o e
<1>6. c \in Seq(Combos) /\ Len(c) = i /\ c[i] = x /\ \A k \in 1 .. i - 1 : c[k] = m[k]
  BY <1>5
<1>7. C!InsertAt(m, i, x) = c \o b
  BY <1>3
<1> HIDE DEF c
<1>8. /\ c \o b \in Seq(Combos) /\ Len(c \o b) = Len(c) + Len(b)
      /\ \A k \in 1 .. Len(c) + Len(b) :
            (c \o b)[k] = IF k <= Len(c) THEN c[k] ELSE b[k - Len(c)]
  BY <1>2, <1>6, ConcatProperties
<1>9. \A k \in 1 .. i - 1 : (c \o b)[k] = m[k]
  BY <1>0, <1>2, <1>6, <1>8
<1>10. (c \o b)[i] = x
  BY <1>0, <1>2, <1>6, <1>8
<1>11. ASSUME NEW k \in i + 1 .. Len(m) + 1
       PROVE  (c \o b)[k] = m[k - 1]
  <2>1. (c \o b)[k] = b[k - i]
    BY <1>0, <1>2, <1>6, <1>8
  <2>2. k - i \in 1 .. Len(m) + 1 - i /\ i + (k - i) - 1 = k - 1
    BY <1>0
  <2>3. b[k - i] = m[i + (k - i) - 1]
    BY <1>2, <2>2
  <2> QED BY <2>1, <2>2, <2>3
<1>12. Len(c \o b) = Len(m) + 1
  BY <1>0, <1>2, <1>6, <1>8
<1> QED BY <1>7, <1>8, <1>9, <1>10, <1>11, <1>12

(* An entry taken out and put in again at its place. *)
LEMMA RemoveThenInsert ==
    ASSUME NEW m \in Seq(Combos), NEW i \in 1 .. Len(m)
    PROVE  C!InsertAt(C!RemoveAt(m, i), i, m[i]) = m
<1>0. Len(m) \in Nat /\ m[i] \in Combos
  BY ElementOfSeq
<1> DEFINE r == C!RemoveAt(m, i)
<1>1. /\ r \in Seq(Combos) /\ Len(r) = Len(m) - 1
      /\ \A k \in 1 .. i - 1 : r[k] = m[k]
      /\ \A k \in i .. Len(m) - 1 : r[k] = m[k + 1]
  BY RemovedAt
<1> HIDE DEF r
<1>2. i \in 1 .. Len(r) + 1 /\ Len(r) + 1 = Len(m)
  BY <1>0, <1>1
<1> DEFINE x == m[i]
           b == C!InsertAt(r, i, x)
<1>3. x \in Combos
  BY <1>0
<1> HIDE DEF x
<1>4. /\ b \in Seq(Combos) /\ Len(b) = Len(r) + 1
      /\ \A k \in 1 .. i - 1 : b[k] = r[k]
      /\ b[i] = x
      /\ \A k \in i + 1 .. Len(r) + 1 : b[k] = r[k - 1]
  BY <1>1, <1>2, <1>3, InsertedAt
<1> HIDE DEF b
<1>5. ASSUME NEW k \in 1 .. Len(m)  PROVE b[k] = m[k]
  <2>1. CASE k \in 1 .. i - 1
    BY <1>1, <1>4, <2>1
  <2>2. CASE k = i
    BY <1>4, <2>2 DEF x
  <2>3. CASE k \in i + 1 .. Len(m)
    <3>1. k - 1 \in i .. Len(m) - 1 /\ (k - 1) + 1 = k
      BY <1>0, <2>3
    <3>2. r[k - 1] = m[(k - 1) + 1]
      BY <1>1, <3>1
    <3>3. b[k] = r[k - 1]
      BY <1>2, <1>4, <2>3
    <3> QED BY <3>1, <3>2, <3>3
  <2>4. k \in 1 .. i - 1 \/ k = i \/ k \in i + 1 .. Len(m)
    BY <1>0
  <2> QED BY <2>1, <2>2, <2>3, <2>4
<1>6. b = m
  BY <1>2, <1>4, <1>5, SeqEqual
<1> QED BY <1>6 DEF b, r, x

(* An entry put in and taken out again. *)
LEMMA InsertThenRemove ==
    ASSUME NEW m \in Seq(Combos), NEW i \in 1 .. Len(m) + 1, NEW x \in Combos
    PROVE  C!RemoveAt(C!InsertAt(m, i, x), i) = m
<1>0. Len(m) \in Nat
  OBVIOUS
<1> DEFINE r == C!InsertAt(m, i, x)
<1>1. /\ r \in Seq(Combos) /\ Len(r) = Len(m) + 1
      /\ \A k \in 1 .. i - 1 : r[k] = m[k]
      /\ r[i] = x
      /\ \A k \in i + 1 .. Len(m) + 1 : r[k] = m[k - 1]
  BY InsertedAt
<1> HIDE DEF r
<1>2. i \in 1 .. Len(r) /\ Len(r) - 1 = Len(m)
  BY <1>0, <1>1
<1> DEFINE b == C!RemoveAt(r, i)
<1>3. /\ b \in Seq(Combos) /\ Len(b) = Len(r) - 1
      /\ \A k \in 1 .. i - 1 : b[k] = r[k]
      /\ \A k \in i .. Len(r) - 1 : b[k] = r[k + 1]
  BY <1>1, <1>2, RemovedAt
<1> HIDE DEF b
<1>4. ASSUME NEW k \in 1 .. Len(m)  PROVE b[k] = m[k]
  <2>1. CASE k \in 1 .. i - 1
    BY <1>1, <1>3, <2>1
  <2>2. CASE k \in i .. Len(m)
    <3>1. k + 1 \in i + 1 .. Len(m) + 1 /\ (k + 1) - 1 = k
      BY <1>0, <2>2
    <3>2. r[k + 1] = m[(k + 1) - 1]
      BY <1>1, <3>1
    <3>3. b[k] = r[k + 1]
      BY <1>2, <1>3, <2>2
    <3> QED BY <3>1, <3>2, <3>3
  <2>3. k \in 1 .. i - 1 \/ k \in i .. Len(m)
    BY <1>0
  <2> QED BY <2>1, <2>2, <2>3
<1>5. b = m
  BY <1>2, <1>3, <1>4, SeqEqual
<1> QED BY <1>5 DEF b, r

(* An entry at the end is one put in behind the last. *)
LEMMA AppendInserts ==
    ASSUME NEW m \in Seq(Combos), NEW x \in Combos
    PROVE  Append(m, x) = C!InsertAt(m, Len(m) + 1, x)
<1>0. Len(m) \in Nat
  OBVIOUS
<1> DEFINE i == Len(m) + 1
           r == C!InsertAt(m, i, x)
           a == Append(m, x)
<1>1. i \in 1 .. Len(m) + 1
  BY <1>0
<1>2. /\ r \in Seq(Combos) /\ Len(r) = Len(m) + 1
      /\ \A k \in 1 .. i - 1 : r[k] = m[k]
      /\ r[i] = x
      /\ \A k \in i + 1 .. Len(m) + 1 : r[k] = m[k - 1]
  BY <1>1, InsertedAt
<1>3. /\ a \in Seq(Combos) /\ Len(a) = Len(m) + 1
      /\ \A k \in 1 .. Len(m) : a[k] = m[k]
      /\ a[Len(m) + 1] = x
  BY AppendProperties
<1> HIDE DEF r, a
<1>4. ASSUME NEW k \in 1 .. Len(a)  PROVE a[k] = r[k]
  BY <1>0, <1>2, <1>3
<1>5. a = r
  BY <1>2, <1>3, <1>4, SeqEqual
<1> QED BY <1>5 DEF a, r

(* The lists of at most MaxCombos combinations, as sequences. *)
LEMMA ListsAreShort ==
    ASSUME MaxCombos \in Nat, NEW m
    PROVE  m \in C!CombinationLists <=> m \in Seq(Combos) /\ Len(m) <= MaxCombos
<1>1. ASSUME m \in C!CombinationLists
      PROVE  m \in Seq(Combos) /\ Len(m) <= MaxCombos
  <2>1. PICK n \in 0 .. MaxCombos : m \in [1 .. n -> Combos]
    BY <1>1 DEF C!CombinationLists
  <2>2. n \in Nat
    BY <2>1
  <2>3. m \in Seq(Combos) /\ Len(m) = n
    BY <2>1, <2>2
  <2> QED BY <2>1, <2>3
<1>2. ASSUME m \in Seq(Combos), Len(m) <= MaxCombos
      PROVE  m \in C!CombinationLists
  <2>1. Len(m) \in 0 .. MaxCombos /\ m \in [1 .. Len(m) -> Combos]
    BY <1>2
  <2> QED BY <2>1 DEF C!CombinationLists
<1> QED BY <1>1, <1>2

(* The commands that others answer with, none of which is Noop. *)
LEMMA InversesAreCommands ==
    ASSUME NEW i \in 1 .. MaxCombos, NEW x \in Combos
    PROVE  {C!DeleteCombination(i), C!InsertCombination(i, x)}
             \subseteq C!CombinationCommands \ {C!NoopCmd}
<1>1. /\ C!DeleteCombination(i) # C!NoopCmd
      /\ C!InsertCombination(i, x) # C!NoopCmd
  BY DEF C!DeleteCombination, C!InsertCombination, C!NoopCmd
<1>2. /\ C!DeleteCombination(i) \in C!CombinationCommands
      /\ C!InsertCombination(i, x) \in C!CombinationCommands
  BY DEF C!CombinationCommands
<1> QED BY <1>1, <1>2

(* What two commands on the list answer with: a refused one leaves the list, an
   accepted one has an inverse that restores it, and the two answer with each other. *)
LEMMA Answers ==
    ASSUME MaxCombos \in Nat,
           NEW m \in C!CombinationLists, NEW c \in C!CombinationRequests(m)
    PROVE  \/ C!ExecuteCombination(m, c) = <<m, C!NoopCmd>>
           \/ \E n \in C!CombinationLists, undo, redo \in C!CombinationCommands \ {C!NoopCmd} :
                 /\ C!ExecuteCombination(m, c) = <<n, undo>>
                 /\ C!ExecuteCombination(n, undo) = <<m, redo>>
                 /\ C!ExecuteCombination(m, redo) = <<n, undo>>
<1>1. m \in Seq(Combos) /\ Len(m) \in 0 .. MaxCombos
  BY ListsAreShort
<1>2. CASE \E x \in IF Len(m) < MaxCombos THEN Combos ELSE {} : c = C!AddCombination(x)
  <2>1. PICK x \in Combos : c = C!AddCombination(x) /\ Len(m) < MaxCombos
    BY <1>2
  <2> DEFINE i == Len(m) + 1
             n == Append(m, x)
  <2>2. n = C!InsertAt(m, i, x)
    BY <1>1, AppendInserts
  <2>3. /\ n \in Seq(Combos) /\ Len(n) = i /\ n[i] = x
        /\ C!RemoveAt(n, i) = m
    BY <1>1, <2>2, InsertThenRemove
  <2>4. C!ExecuteCombination(m, c) = <<n, C!DeleteCombination(i)>>
    BY <2>1 DEF C!ExecuteCombination, C!AddCombination
  <2>5. C!ExecuteCombination(n, C!DeleteCombination(i)) = <<m, C!InsertCombination(i, x)>>
    BY <1>1, <2>3 DEF C!ExecuteCombination, C!DeleteCombination
  <2>6. C!ExecuteCombination(m, C!InsertCombination(i, x)) = <<n, C!DeleteCombination(i)>>
    BY <1>1, <2>2 DEF C!ExecuteCombination, C!InsertCombination
  <2>7. i \in 1 .. MaxCombos
    BY <1>1, <2>1
  <2> HIDE DEF i, n
  <2>8. n \in C!CombinationLists
    <3>1. Len(n) <= MaxCombos
      BY <2>3, <2>7
    <3> QED BY <2>3, <3>1, ListsAreShort
  <2>9. {C!DeleteCombination(i), C!InsertCombination(i, x)} \subseteq C!CombinationCommands \ {C!NoopCmd}
    BY <2>7, InversesAreCommands
  <2> QED BY <2>4, <2>5, <2>6, <2>8, <2>9
<1>3. CASE \E i \in 1 .. MaxCombos : c = C!DeleteCombination(i)
  <2>1. PICK i \in 1 .. MaxCombos : c = C!DeleteCombination(i)
    BY <1>3
  <2>2. CASE i <= Len(m)
    <3> DEFINE x == m[i]
               n == C!RemoveAt(m, i)
    <3>1. i \in 1 .. Len(m) /\ n \in Seq(Combos) /\ Len(n) + 1 = Len(m) /\ x \in Combos
      BY <1>1, <2>2, RemovedAt
    <3>2. C!InsertAt(n, i, x) = m
      BY <1>1, <3>1, RemoveThenInsert
    <3>3. C!ExecuteCombination(m, c) = <<n, C!InsertCombination(i, x)>>
      BY <2>1, <2>2 DEF C!ExecuteCombination, C!DeleteCombination
    <3>4. C!ExecuteCombination(n, C!InsertCombination(i, x)) = <<m, C!DeleteCombination(i)>>
      BY <2>2, <3>1, <3>2 DEF C!ExecuteCombination, C!InsertCombination
    <3>5. n \in C!CombinationLists
      BY <1>1, <3>1, ListsAreShort
    <3> HIDE DEF x, n
    <3>6. {C!DeleteCombination(i), C!InsertCombination(i, x)} \subseteq C!CombinationCommands \ {C!NoopCmd}
      BY <3>1, InversesAreCommands
    <3> QED BY <2>1, <3>3, <3>4, <3>5, <3>6
  <2>3. CASE ~(i <= Len(m))
    <3>1. C!ExecuteCombination(m, c) = <<m, C!NoopCmd>>
      BY <2>1, <2>3 DEF C!ExecuteCombination, C!DeleteCombination
    <3> QED BY <3>1
  <2> QED BY <2>2, <2>3
<1> QED BY <1>2, <1>3 DEF C!CombinationRequests

(* Whatever combinations there are and however many a list may hold, the commands on the
   list (load_case.rs) are as UndoStackLaw wants them: they lead from lists to lists,
   answer with commands, and obey the round-trip law.  So the theorems above hold of the
   undo stack on the list of combinations. *)
THEOREM CombinationsObeyLaw ==
    ASSUME MaxCombos \in Nat,
           NEW m \in C!CombinationLists, NEW c \in C!CombinationRequests(m)
    PROVE  /\ Law!Reversible(m, c)
           /\ Law!After(m, c) \in C!CombinationLists
           /\ LET undo == Law!InverseOf(m, c)
                  redo == Law!InverseOf(Law!After(m, c), undo)
              IN  {undo, redo, Law!InverseOf(m, redo)} \subseteq C!CombinationCommands
<1>1. CASE C!ExecuteCombination(m, c) = <<m, C!NoopCmd>>
  <2>1. C!ExecuteCombination(m, C!NoopCmd) = <<m, C!NoopCmd>>
    BY DEF C!ExecuteCombination, C!NoopCmd
  <2>2. C!NoopCmd \in C!CombinationCommands
    BY DEF C!CombinationCommands
  <2> QED BY <1>1, <2>1, <2>2 DEF Law!Reversible, Law!After, Law!InverseOf
<1>2. CASE \E n \in C!CombinationLists, undo, redo \in C!CombinationCommands \ {C!NoopCmd} :
              /\ C!ExecuteCombination(m, c) = <<n, undo>>
              /\ C!ExecuteCombination(n, undo) = <<m, redo>>
              /\ C!ExecuteCombination(m, redo) = <<n, undo>>
  <2>1. PICK n \in C!CombinationLists, undo, redo \in C!CombinationCommands \ {C!NoopCmd} :
              /\ C!ExecuteCombination(m, c) = <<n, undo>>
              /\ C!ExecuteCombination(n, undo) = <<m, redo>>
              /\ C!ExecuteCombination(m, redo) = <<n, undo>>
    BY <1>2
  <2>2. Law!Reversible(m, c)
    BY <2>1 DEF Law!Reversible
  <2>3. /\ Law!After(m, c) = n /\ Law!InverseOf(m, c) = undo
        /\ Law!InverseOf(n, undo) = redo /\ Law!InverseOf(m, redo) = undo
    BY <2>1 DEF Law!After, Law!InverseOf
  <2> QED BY <2>2, <2>3
<1> QED BY <1>1, <1>2, Answers
==============================================================================
