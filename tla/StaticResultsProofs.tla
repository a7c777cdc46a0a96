------------------------ MODULE StaticResultsProofs ------------------------
(****************************************************************************)
(* The static results for every set of load cases and combinations and      *)
(* every bound on runs and edits: the selection, the forces and the checks  *)
(* on display belong together, and a load case that could not be solved     *)
(* leaves no older result behind.                                           *)
(****************************************************************************)
EXTENDS StaticResults, FiniteSetTheorems, SequenceTheorems, WellFoundedInduction, TLAPS

----------------------------------------------------------------------------
(* Recursion along a sequence.  The sets S and V stand where an induction   *)
(* schema would have a predicate, so that the provers can instantiate them. *)

LEMMA SetInduction ==
  ASSUME NEW S, 0 \in S, \A n \in Nat : n \in S => n + 1 \in S
  PROVE  \A n \in Nat : n \in S
<1> DEFINE T == Nat \ S
<1> DEFINE R == OpToRel(<, Nat)
<1>1. ASSUME T # {} PROVE FALSE
  <2>1. PICK d \in T : \A e \in T : <<e, d>> \notin R
    <3> HIDE DEF R
    <3>1. IsWellFoundedOn(R, Nat)
      BY NatLessThanWellFounded DEF R
    <3> QED BY <1>1, <3>1, WFMin
  <2>2. d - 1 \in T
    OBVIOUS
  <2>3. ~(d - 1 < d)
    BY <2>1, <2>2 DEF OpToRel
  <2> QED BY <2>3
<1> QED BY <1>1

(* The same up to the length of a sequence. *)
LEMMA BoundedInduction ==
  ASSUME NEW n \in Nat, NEW S, 0 \in S, \A m \in 0..(n - 1) : m \in S => m + 1 \in S
  PROVE  \A m \in 0..n : m \in S
<1> DEFINE T == {m \in Nat : m <= n => m \in S}
<1>1. 0 \in T
  OBVIOUS
<1>2. ASSUME NEW m \in Nat, m \in T PROVE m + 1 \in T
  BY <1>2
<1>3. \A m \in Nat : m \in T
  <2> HIDE DEF T
  <2> QED BY <1>1, <1>2, SetInduction
<1> QED BY <1>3

(* f records n steps with H from base, all of them within V. *)
Stepping(H, V, n) == n \in Nat /\ H \in [V \X (1..n) -> V]
Iterates(f, H, V, n, base) ==
  /\ f \in [0..n -> V] /\ f[0] = base
  /\ \A i \in 1..n : f[i] = H[<<f[i - 1], i>>]

(* A step that stays in V can be repeated n times. *)
LEMMA RecursionExists ==
  ASSUME NEW V, NEW n, NEW base \in V, NEW H, Stepping(H, V, n)
  PROVE  \E f : Iterates(f, H, V, n, base)
<1>0. n \in Nat /\ H \in [V \X (1..n) -> V]
  BY DEF Stepping
<1> DEFINE Upto(f, m) == f[0] = base /\ \A i \in 1..m : f[i] = H[<<f[i - 1], i>>]
<1> DEFINE S == {m \in 0..n : \E f \in [0..m -> V] : Upto(f, m)}
<1> USE <1>0
<1>1. 0 \in S
  <2>1. [i \in 0..0 |-> base] \in [0..0 -> V] /\ Upto([i \in 0..0 |-> base], 0)
    OBVIOUS
  <2>2. \E f \in [0..0 -> V] : Upto(f, 0)
    BY <2>1
  <2> HIDE DEF Upto
  <2> QED BY <2>2
<1>2. ASSUME NEW m \in 0..(n - 1), m \in S PROVE m + 1 \in S
  <2>1. PICK f \in [0..m -> V] : Upto(f, m)
    BY <1>2
  <2> DEFINE g == [i \in 0..(m + 1) |-> IF i <= m THEN f[i] ELSE H[<<f[m], m + 1>>]]
  <2>2. g \in [0..(m + 1) -> V]
    <3>1. ASSUME NEW i \in 0..(m + 1) PROVE g[i] \in V
      <4>1. CASE i <= m
        BY <4>1
      <4>2. CASE ~(i <= m)
        <5>1. <<f[m], m + 1>> \in V \X (1..n)
          OBVIOUS
        <5>2. H[<<f[m], m + 1>>] \in V
          BY <5>1
        <5> QED BY <4>2, <5>2
      <4> QED BY <4>1, <4>2
    <3> QED BY <3>1
  <2>3. Upto(g, m + 1)
    <3>1. g[0] = base
      BY <2>1
    <3>2. ASSUME NEW i \in 1..(m + 1) PROVE g[i] = H[<<g[i - 1], i>>]
      <4>1. CASE i <= m
        <5>1. g[i] = f[i] /\ g[i - 1] = f[i - 1] /\ i \in 1..m
          BY <4>1
        <5> HIDE DEF g
        <5> QED BY <2>1, <5>1
      <4>2. CASE ~(i <= m)
        <5>1. i = m + 1 /\ g[i - 1] = f[m] /\ g[i] = H[<<f[m], m + 1>>]
          BY <4>2
        <5> HIDE DEF g
        <5> QED BY <5>1
      <4> QED BY <4>1, <4>2
    <3> QED BY <3>1, <3>2
  <2> HIDE DEF g
  <2> QED BY <2>2, <2>3
<1>3. \A m \in 0..n : m \in S
  <2> HIDE DEF S
  <2> QED BY <1>1, <1>2, BoundedInduction
<1>4. n \in S
  BY <1>0, <1>3
<1> QED BY <1>4 DEF Iterates

(* And in one way only. *)
SameSteps(f, g, n) ==
  /\ n \in Nat /\ f = [i \in 0..n |-> f[i]] /\ g = [i \in 0..n |-> g[i]]
  /\ f[0] = g[0] /\ \A i \in 1..n : f[i - 1] = g[i - 1] => f[i] = g[i]
LEMMA RecursionUnique ==
  ASSUME NEW f, NEW g, NEW n, SameSteps(f, g, n)
  PROVE  f = g
<1> USE DEF SameSteps
<1> DEFINE S == {m \in 0..n : f[m] = g[m]}
<1>1. 0 \in S
  OBVIOUS
<1>2. ASSUME NEW m \in 0..(n - 1), m \in S PROVE m + 1 \in S
  <2>1. m + 1 \in 1..n /\ (m + 1) - 1 = m
    OBVIOUS
  <2>2. f[(m + 1) - 1] = g[(m + 1) - 1]
    BY <1>2, <2>1
  <2>3. f[m + 1] = g[m + 1]
    BY <2>1, <2>2, Zenon
  <2> QED BY <2>3
<1>3. \A m \in 0..n : m \in S
  <2> HIDE DEF S
  <2> QED BY <1>1, <1>2, BoundedInduction
<1> QED BY <1>3

----------------------------------------------------------------------------
(* Only(s, P): the entries at the positions in P. *)

(* f records how Only(s, P) comes about, entry by entry. *)
Keeps(f, s, P, T) ==
  /\ f \in [0..Len(s) -> Seq(T)] /\ f[0] = <<>>
  /\ \A i \in 1..Len(s) : f[i] = IF i \in P THEN Append(f[i - 1], s[i]) ELSE f[i - 1]
  /\ Only(s, P) = f[Len(s)]

LEMMA OnlySteps ==
  ASSUME NEW T, NEW s \in Seq(T), NEW P
  PROVE  \E f : Keeps(f, s, P, T)
<1> DEFINE n == Len(s)
           H == [p \in Seq(T) \X (1..n) |->
                   IF p[2] \in P THEN Append(p[1], s[p[2]]) ELSE p[1]]
           Rec(f) == [i \in 0..n |->
                        IF i = 0 THEN <<>>
                        ELSE IF i \in P THEN Append(f[i - 1], s[i]) ELSE f[i - 1]]
<1>1. n \in Nat /\ <<>> \in Seq(T)
  OBVIOUS
<1>2. H \in [Seq(T) \X (1..n) -> Seq(T)]
  OBVIOUS
<1>3. PICK f \in [0..n -> Seq(T)] :
        f[0] = <<>> /\ \A i \in 1..n : f[i] = H[<<f[i - 1], i>>]
  <2>1. Stepping(H, Seq(T), n)
    BY <1>1, <1>2 DEF Stepping
  <2> HIDE DEF H, n
  <2>2. \E f : Iterates(f, H, Seq(T), n, <<>>)
    BY <1>1, <2>1, RecursionExists
  <2> QED BY <2>2 DEF Iterates
<1>4. ASSUME NEW i \in 1..n
      PROVE  f[i] = IF i \in P THEN Append(f[i - 1], s[i]) ELSE f[i - 1]
  <2>0. i - 1 \in 0..n
    BY <1>1
  <2>1. <<f[i - 1], i>> \in Seq(T) \X (1..n)
    BY <1>3, <2>0
  <2>2. H[<<f[i - 1], i>>] = IF i \in P THEN Append(f[i - 1], s[i]) ELSE f[i - 1]
    BY <2>1
  <2> QED BY <1>3, <2>2
<1>5. f = Rec(f)
  <2>1. f = [i \in 0..n |-> f[i]]
    BY <1>3
  <2>2. ASSUME NEW i \in 0..n PROVE f[i] = Rec(f)[i]
    <3>1. CASE i = 0
      BY <1>3, <3>1
    <3>2. CASE i # 0
      <4>1. i \in 1..n
        BY <1>1, <3>2
      <4> QED BY <1>4, <3>2, <4>1
    <3> QED BY <3>1, <3>2
  <2> QED BY <2>1, <2>2
<1> DEFINE c == CHOOSE g : g = Rec(g)
<1>6. c = Rec(c)
  BY <1>5
<1>7. c = f
  <2>1. c = [i \in 0..n |-> c[i]] /\ f = [i \in 0..n |-> f[i]] /\ c[0] = f[0]
    <3> HIDE DEF c
    <3> QED BY <1>1, <1>3, <1>6
  <2>2. ASSUME NEW i \in 1..n, c[i - 1] = f[i - 1] PROVE c[i] = f[i]
    <3>1. c[i] = IF i \in P THEN Append(c[i - 1], s[i]) ELSE c[i - 1]
      <4>1. i \in 0..n /\ i # 0
        BY <1>1
      <4> HIDE DEF c, n
      <4> QED BY <1>6, <4>1
    <3> QED BY <1>4, <2>2, <3>1
  <2> HIDE DEF c, n
  <2>3. SameSteps(c, f, n)
    BY <1>1, <2>1, <2>2 DEF SameSteps
  <2> QED BY <2>3, RecursionUnique
<1>8. Only(s, P) = c[n]
  BY DEF Only
<1>9. Keeps(f, s, P, T)
  <2> HIDE DEF c, H, Rec
  <2> QED BY <1>3, <1>4, <1>7, <1>8 DEF Keeps
<1> QED BY <1>9

(* How many positions up to m are in P. *)
Rank(P, m) == Cardinality({j \in 1..m : j \in P})

LEMMA RankSteps ==
  ASSUME NEW P, NEW m \in Nat
  PROVE  /\ Rank(P, m) \in Nat
         /\ Rank(P, 0) = 0
         /\ Rank(P, m + 1) = IF m + 1 \in P THEN Rank(P, m) + 1 ELSE Rank(P, m)
<1> DEFINE A == {j \in 1..m : j \in P}
<1>1. IsFiniteSet(A) /\ Cardinality(A) \in Nat
  <2>1. IsFiniteSet(1..m)
    BY FS_Interval
  <2> QED BY <2>1, FS_Subset, FS_CardinalityType
<1>2. {j \in 1..0 : j \in P} = {}
  OBVIOUS
<1>3. Rank(P, 0) = 0
  BY <1>2, FS_EmptySet DEF Rank
<1>4. CASE m + 1 \in P
  <2>1. {j \in 1..(m + 1) : j \in P} = A \union {m + 1} /\ m + 1 \notin A
    BY <1>4
  <2>2. Cardinality(A \union {m + 1}) = Cardinality(A) + 1
    <3> HIDE DEF A
    <3> QED BY <1>1, <2>1, FS_AddElement
  <2> QED BY <1>1, <1>3, <1>4, <2>1, <2>2 DEF Rank
<1>5. CASE m + 1 \notin P
  <2>1. {j \in 1..(m + 1) : j \in P} = A
    BY <1>5
  <2> QED BY <1>1, <1>3, <1>5, <2>1 DEF Rank
<1> QED BY <1>4, <1>5

(* An entry moves to its rank among the kept ones, and nothing else is kept. *)
LEMMA OnlyPositions ==
  ASSUME NEW T, NEW s \in Seq(T), NEW P
  PROVE  /\ Only(s, P) \in Seq(T)
         /\ Len(Only(s, P)) = Rank(P, Len(s))
         /\ \A i \in DOMAIN s : i \in P =>
              Rank(P, i) \in DOMAIN Only(s, P) /\ Only(s, P)[Rank(P, i)] = s[i]
         /\ \A d \in DOMAIN Only(s, P) : \E i \in DOMAIN s : i \in P /\ d = Rank(P, i)
<1>0. PICK f : Keeps(f, s, P, T)
  BY OnlySteps
<1>1. /\ f \in [0..Len(s) -> Seq(T)] /\ f[0] = <<>>
      /\ \A i \in 1..Len(s) :
           f[i] = IF i \in P THEN Append(f[i - 1], s[i]) ELSE f[i - 1]
      /\ Only(s, P) = f[Len(s)]
  BY <1>0 DEF Keeps
<1> DEFINE Good(m) ==
             /\ Len(f[m]) = Rank(P, m)
             /\ \A i \in 1..m : i \in P =>
                  Rank(P, i) \in 1..Len(f[m]) /\ f[m][Rank(P, i)] = s[i]
             /\ \A d \in 1..Len(f[m]) : \E i \in 1..m : i \in P /\ d = Rank(P, i)
           S == {m \in 0..Len(s) : Good(m)}
<1>2. Len(s) \in Nat
  OBVIOUS
<1>3. 0 \in S
  <2>1. Len(f[0]) = 0 /\ Rank(P, 0) = 0
    BY <1>1, RankSteps
  <2> QED BY <1>2, <2>1
<1>4. ASSUME NEW m \in 0..(Len(s) - 1), m \in S PROVE m + 1 \in S
  <2>1. /\ Rank(P, m) \in Nat
        /\ Rank(P, m + 1) = IF m + 1 \in P THEN Rank(P, m) + 1 ELSE Rank(P, m)
    BY RankSteps
  <2>2. f[m + 1] = IF m + 1 \in P THEN Append(f[m], s[m + 1]) ELSE f[m]
    <3>1. m + 1 \in 1..Len(s) /\ (m + 1) - 1 = m
      BY <1>2
    <3>2. f[m + 1] = IF m + 1 \in P THEN Append(f[(m + 1) - 1], s[m + 1])
                     ELSE f[(m + 1) - 1]
      BY <1>1, <3>1, Zenon
    <3> QED BY <3>1, <3>2
  <2>3. f[m] \in Seq(T) /\ s[m + 1] \in T /\ m + 1 \in 0..Len(s) /\ Good(m)
    BY <1>1, <1>2, <1>4
  <2>4. CASE m + 1 \in P
    <3>1. /\ Len(f[m + 1]) = Len(f[m]) + 1 /\ f[m + 1][Len(f[m]) + 1] = s[m + 1]
          /\ \A d \in 1..Len(f[m]) : f[m + 1][d] = f[m][d]
      BY <2>2, <2>3, <2>4
    <3>2. \A i \in 1..(m + 1) : i \in P =>
            Rank(P, i) \in 1..Len(f[m + 1]) /\ f[m + 1][Rank(P, i)] = s[i]
      <4> SUFFICES ASSUME NEW i \in 1..(m + 1), i \in P
                   PROVE  Rank(P, i) \in 1..Len(f[m + 1]) /\ f[m + 1][Rank(P, i)] = s[i]
        OBVIOUS
      <4>1. CASE i = m + 1
        BY <2>1, <2>3, <2>4, <3>1, <4>1
      <4>2. CASE i # m + 1
        <5>1. i \in 1..m
          BY <4>2
        <5>2. Rank(P, i) \in 1..Len(f[m]) /\ f[m][Rank(P, i)] = s[i]
          BY <2>3, <5>1
        <5> QED BY <2>3, <3>1, <5>2
      <4> QED BY <4>1, <4>2
    <3>3. \A d \in 1..Len(f[m + 1]) : \E i \in 1..(m + 1) : i \in P /\ d = Rank(P, i)
      <4> SUFFICES ASSUME NEW d \in 1..Len(f[m + 1])
                   PROVE  \E i \in 1..(m + 1) : i \in P /\ d = Rank(P, i)
        OBVIOUS
      <4>1. CASE d \in 1..Len(f[m])
        BY <2>3, <4>1
      <4>2. CASE d \notin 1..Len(f[m])
        <5>1. d = Rank(P, m + 1)
          BY <2>1, <2>3, <2>4, <3>1, <4>2
        <5> QED BY <2>4, <5>1
      <4> QED BY <4>1, <4>2
    <3> QED BY <2>1, <2>3, <2>4, <3>1, <3>2, <3>3
  <2>5. CASE m + 1 \notin P
    <3>1. f[m + 1] = f[m] /\ Rank(P, m + 1) = Rank(P, m)
      BY <2>1, <2>2, <2>5
    <3>2. \A i \in 1..(m + 1) : i \in P => i \in 1..m
      BY <2>5
    <3> QED BY <2>3, <3>1, <3>2
  <2> QED BY <2>4, <2>5
<1>5. \A m \in 0..Len(s) : m \in S
  <2> HIDE DEF S
  <2> QED BY <1>2, <1>3, <1>4, BoundedInduction
<1>6. Good(Len(s)) /\ f[Len(s)] \in Seq(T)
  BY <1>1, <1>2, <1>5
<1>7. DOMAIN s = 1..Len(s) /\ DOMAIN f[Len(s)] = 1..Len(f[Len(s)])
  BY <1>6
<1>8. Only(s, P) = f[Len(s)]
  BY <1>1
<1> QED BY <1>6, <1>7, <1>8

LEMMA OnlyEntries ==
  ASSUME NEW T, NEW s \in Seq(T), NEW P, NEW e \in ToSet(Only(s, P))
  PROVE  \E i \in DOMAIN s : i \in P /\ e = s[i]
<1>1. PICK d \in DOMAIN Only(s, P) : e = Only(s, P)[d]
  BY DEF ToSet
<1>2. PICK i \in DOMAIN s : i \in P /\ d = Rank(P, i)
  BY OnlyPositions
<1> QED BY <1>1, <1>2, OnlyPositions

(* The ranks of two kept entries differ as their positions do. *)
LEMMA OnlyInjective ==
  ASSUME NEW T, NEW s \in Seq(T), NEW P,
         NEW c \in DOMAIN Only(s, P), NEW d \in DOMAIN Only(s, P)
  PROVE  \E i, j \in DOMAIN s : /\ i \in P /\ j \in P
                                /\ Only(s, P)[c] = s[i] /\ Only(s, P)[d] = s[j]
                                /\ i = j => c = d
<1>1. PICK i \in DOMAIN s : i \in P /\ c = Rank(P, i)
  BY OnlyPositions
<1>2. PICK j \in DOMAIN s : j \in P /\ d = Rank(P, j)
  BY OnlyPositions
<1> QED BY <1>1, <1>2, OnlyPositions

(* Positions kept and positions left out add up. *)
LEMMA RankSplit ==
  ASSUME NEW n \in Nat, NEW P, NEW Q, \A i \in 1..n : i \in P <=> i \notin Q,
         NEW m \in 0..n
  PROVE  Rank(P, m) = m - Rank(Q, m)
<1> DEFINE S == {k \in 0..n : Rank(P, k) = k - Rank(Q, k)}
<1>1. 0 \in S
  BY RankSteps
<1>2. ASSUME NEW k \in 0..(n - 1), k \in S PROVE k + 1 \in S
  <2>1. k + 1 \in P <=> k + 1 \notin Q
    OBVIOUS
  <2>2. /\ Rank(P, k) \in Nat /\ Rank(Q, k) \in Nat
        /\ Rank(P, k + 1) = IF k + 1 \in P THEN Rank(P, k) + 1 ELSE Rank(P, k)
        /\ Rank(Q, k + 1) = IF k + 1 \in Q THEN Rank(Q, k) + 1 ELSE Rank(Q, k)
    BY RankSteps
  <2> QED BY <1>2, <2>1, <2>2
<1>3. \A k \in 0..n : k \in S
  <2> HIDE DEF S
  <2> QED BY <1>1, <1>2, BoundedInduction
<1> QED BY <1>3
----------------------------------------------------------------------------
(* The inductive invariant *)

\* A combination has one result at most.
Unique(v) == \A i, j \in DOMAIN v.combos : v.combos[i].name = v.combos[j].name => i = j

\* What is selected is there and on display; the two selections agree.
Shows(v) ==
  /\ \A sel \in {v.last, v.focus} \ {None} : Resolve(v, sel) # None /\ v.forces = Resolve(v, sel)
  /\ v.last # None /\ v.focus # None => v.last = v.focus

ChecksFit(v, r) == v.checks # None /\ v.checks.forces # v.forces => r

\* The bundles that can be on display when r says whether a refused check was reported.
GoodView(r) == {v \in ViewRec : Unique(v) /\ Shows(v) /\ ChecksFit(v, r)}

JobInv ==
  job # None => /\ job.run = runs
                /\ job.kind = "case" => job.solves # <<>>
                /\ job.kind = "combo" => job.names # <<>>

FileInv ==
  file # None => /\ file.view \in GoodView(file.reported)
                 /\ IsInjective(file.cases)
                 /\ file.empty => EX \in ToSet(file.cases)

IInv == TypeOK /\ view \in GoodView(reported) /\ JobInv /\ FileInv /\ FailureTakesDependents

----------------------------------------------------------------------------
(* Positions fit into the sets of keys and selections. *)

LEMMA ConstantsFinite ==
  Cardinality(Cases) \in Nat /\ Cardinality(Names) \in Nat
BY FiniteAssumption, FS_CardinalityType

LEMMA InjectiveBound ==
  ASSUME NEW S, IsFiniteSet(S), NEW q \in Seq(S), IsInjective(q)
  PROVE  Len(q) <= Cardinality(S)
<1>1. q \in Injection(1..Len(q), S)
  BY DEF IsInjective, Injection
<1>2. Cardinality(1..Len(q)) <= Cardinality(S)
  BY <1>1, FS_Injection
<1>3. Len(q) \in Nat /\ Cardinality(1..Len(q)) = Len(q)
  <2>1. Len(q) \in Nat
    OBVIOUS
  <2> HIDE DEF Injection
  <2> QED BY <2>1, FS_Interval
<1> QED BY <1>2, <1>3

LEMMA CombosTyped ==
  ASSUME NEW v \in ViewRec
  PROVE  /\ v.combos \in Seq([name : Names, res : Res])
         /\ Len(v.combos) \in Nat /\ DOMAIN v.combos = 1..Len(v.combos)
         /\ \A i \in DOMAIN v.combos :
              v.combos[i] \in [name : Names, res : Res]
              /\ v.combos[i].name \in Names /\ v.combos[i].res \in Res
<1>1. v.combos \in Seq([name : Names, res : Res])
  BY DEF ViewRec
<1>2. Len(v.combos) \in Nat /\ DOMAIN v.combos = 1..Len(v.combos)
  BY <1>1
<1>3. \A i \in DOMAIN v.combos : v.combos[i] \in [name : Names, res : Res]
  <2> DEFINE R == [name : Names, res : Res]
  <2>1. v.combos \in Seq(R)
    BY <1>1
  <2> HIDE DEF R
  <2>2. \A i \in 1..Len(v.combos) : v.combos[i] \in R
    BY <2>1, ElementOfSeq
  <2> QED BY <1>2, <2>2 DEF R
<1> QED BY <1>1, <1>2, <1>3

LEMMA UniqueBound ==
  ASSUME NEW v \in ViewRec, Unique(v)
  PROVE  Len(v.combos) <= Cardinality(Names)
<1> DEFINE q == [i \in 1..Len(v.combos) |-> v.combos[i].name]
<1>2. Len(v.combos) \in Nat /\ DOMAIN v.combos = 1..Len(v.combos)
  BY CombosTyped
<1>3. \A i \in 1..Len(v.combos) : v.combos[i].name \in Names
  BY <1>2, CombosTyped
<1>4. q \in Seq(Names) /\ Len(q) = Len(v.combos)
  BY <1>2, <1>3
<1>5. IsInjective(q)
  BY <1>2 DEF IsInjective, Unique
<1> QED
  <2> HIDE DEF q
  <2> QED BY <1>4, <1>5, InjectiveBound, FiniteAssumption

LEMMA KeysFit ==
  ASSUME NEW cs \in Seq(Cases), IsInjective(cs), NEW i \in DOMAIN cs
  PROVE  User(i) \in StaticCaseKey /\ KeyAt(cs, i) \in StaticCaseKey
<1>1. Len(cs) <= Cardinality(Cases)
  BY InjectiveBound, FiniteAssumption
<1>2. i \in 1..Cardinality(Cases)
  BY <1>1, ConstantsFinite
<1> QED BY <1>2 DEF StaticCaseKey, KeyAt

(* The two kinds of keys and of selections are told apart. *)
LEMMA Kinds ==
  /\ \A k : CaseSel(k)[1] = "case" /\ CaseSel(k)[2] = k
  /\ \A i : ComboSel(i)[1] = "combo" /\ ComboSel(i)[2] = i
  /\ \A i : User(i)[1] = "user" /\ User(i)[2] = i
  /\ Seismic[1] = "seismic"
BY DEF CaseSel, ComboSel, User, Seismic

----------------------------------------------------------------------------
(* Taking results out of a bundle *)

(* The positions of the combinations that stay. *)
Staying(v, names) == {i \in DOMAIN v.combos : v.combos[i].name \notin names}

LEMMA NewPositionRank ==
  ASSUME NEW v \in ViewRec, NEW names, NEW i \in Staying(v, names)
  PROVE  NewPosition(v, i, names) = Rank(Staying(v, names), i)
<1> DEFINE n == Len(v.combos)
           P == Staying(v, names)
           Q == {j \in DOMAIN v.combos : v.combos[j].name \in names}
<1>1. n \in Nat /\ DOMAIN v.combos = 1..n
  BY CombosTyped
<1>2. i \in 1..n /\ i \in P /\ i - 1 \in Nat /\ i - 1 \in 0..n
  BY <1>1 DEF Staying
<1>3. \A j \in 1..n : j \in P <=> j \notin Q
  BY <1>1 DEF Staying
<1>4. {j \in 1..(i - 1) : v.combos[j].name \in names} = {j \in 1..(i - 1) : j \in Q}
  BY <1>1, <1>2
<1>5. NewPosition(v, i, names) = i - Rank(Q, i - 1)
  BY <1>4 DEF NewPosition, Rank
<1> HIDE DEF P, Q, n
<1>6. Rank(P, i - 1) = (i - 1) - Rank(Q, i - 1)
  BY <1>1, <1>2, <1>3, RankSplit
<1>7. Rank(P, (i - 1) + 1) = Rank(P, i - 1) + 1 /\ Rank(Q, i - 1) \in Nat
  <2>1. (i - 1) + 1 \in P
    BY <1>2, <1>1
  <2> QED BY <1>2, <2>1, RankSteps
<1>8. (i - 1) + 1 = i
  BY <1>1, <1>2
<1>9. Rank(P, i) = i - Rank(Q, i - 1)
  BY <1>1, <1>2, <1>6, <1>7, <1>8
<1> QED BY <1>5, <1>9 DEF P

LEMMA RemapStays ==
  ASSUME NEW v \in ViewRec, NEW keys, NEW names, NEW sel \in Sel \union {None}
  PROVE  /\ Remap(v, sel, keys, names) \in Sel \union {None}
         /\ Remap(v, sel, keys, names) # None =>
              \/ \E k \in StaticCaseKey :
                   /\ k \notin keys /\ sel = CaseSel(k)
                   /\ Remap(v, sel, keys, names) = CaseSel(k)
              \/ \E i \in Staying(v, names) :
                   /\ sel = ComboSel(i)
                   /\ Remap(v, sel, keys, names) = ComboSel(Rank(Staying(v, names), i))
<1>1. CASE sel = None
  BY <1>1 DEF Remap
<1>2. ASSUME NEW k \in StaticCaseKey, sel = CaseSel(k), sel # None
      PROVE  Remap(v, sel, keys, names) = IF k \in keys THEN None ELSE sel
  BY <1>2 DEF Remap, CaseSel
<1>3. ASSUME NEW i \in 1..Cardinality(Names), sel = ComboSel(i), sel # None
      PROVE  Remap(v, sel, keys, names) =
               IF i \in Staying(v, names) THEN ComboSel(Rank(Staying(v, names), i)) ELSE None
  <2>1. sel[1] = "combo" /\ sel[2] = i
    BY <1>3 DEF ComboSel
  <2>2. Remap(v, sel, keys, names) =
          IF i \notin DOMAIN v.combos \/ v.combos[i].name \in names THEN None
          ELSE ComboSel(NewPosition(v, i, names))
    BY <1>3, <2>1 DEF Remap
  <2> QED BY <2>2, NewPositionRank DEF Staying
<1>4. ASSUME NEW i \in 1..Cardinality(Names), i \in Staying(v, names)
      PROVE  ComboSel(Rank(Staying(v, names), i)) \in Sel
  <2> DEFINE P == Staying(v, names)
  <2>1. v.combos \in Seq([name : Names, res : Res]) /\ Len(v.combos) \in Nat
        /\ DOMAIN v.combos = 1..Len(v.combos)
    BY CombosTyped
  <2>2. i \in DOMAIN v.combos /\ i \in P
    BY <1>4 DEF Staying
  <2>3. Rank(P, i) \in DOMAIN Only(v.combos, P) /\ Only(v.combos, P) \in Seq([name : Names, res : Res])
    <3> HIDE DEF P
    <3> QED BY <2>1, <2>2, OnlyPositions
  <2>4. Rank(P, i) >= 1 /\ Rank(P, i) \in Nat
    BY <2>3
  <2>5. Rank(P, i) <= i
    <3>1. IsFiniteSet(1..i) /\ Cardinality(1..i) = i
      BY <2>1, <2>2, FS_Interval
    <3>2. {j \in 1..i : j \in P} \in SUBSET (1..i)
      OBVIOUS
    <3> QED BY <3>1, <3>2, FS_Subset DEF Rank
  <2>6. Rank(P, i) \in 1..Cardinality(Names)
    BY <2>4, <2>5, ConstantsFinite
  <2> QED BY <2>6 DEF Sel
<1>5. CASE sel # None
  <2>1. \/ \E k \in StaticCaseKey : sel = CaseSel(k)
        \/ \E i \in 1..Cardinality(Names) : sel = ComboSel(i)
    BY <1>5 DEF Sel
  <2>2. CASE \E k \in StaticCaseKey : sel = CaseSel(k)
    BY <1>2, <1>5, <2>2
  <2>3. CASE \E i \in 1..Cardinality(Names) : sel = ComboSel(i)
    BY <1>3, <1>4, <1>5, <2>3
  <2> QED BY <2>1, <2>2, <2>3
<1> QED BY <1>1, <1>5

(* Whether a selection of v left with the results. *)
Lost(v, keys, names) ==
  \/ v.last # None /\ Remap(v, v.last, keys, names) = None
  \/ v.focus # None /\ Remap(v, v.focus, keys, names) = None

(* What is left of each field. *)
LeftOf(w, v, keys, names) ==
  /\ w.statics = [k \in DOMAIN v.statics \ keys |-> v.statics[k]]
  /\ w.combos = Only(v.combos, Staying(v, names))
  /\ w.last = Remap(v, v.last, keys, names)
  /\ w.focus = Remap(v, v.focus, keys, names)
  /\ w.forces = IF Lost(v, keys, names) THEN None ELSE v.forces
  /\ w.checks = IF Lost(v, keys, names) THEN None ELSE v.checks

LEMMA RemovedFields ==
  ASSUME NEW v \in ViewRec, NEW keys, NEW names
  PROVE  /\ Removed(v, keys, names) \in ViewRec
         /\ LeftOf(Removed(v, keys, names), v, keys, names)
<1> DEFINE w == Removed(v, keys, names)
           last == Remap(v, v.last, keys, names)
           focus == Remap(v, v.focus, keys, names)
           st == [k \in DOMAIN v.statics \ keys |-> v.statics[k]]
           cb == Only(v.combos, Staying(v, names))
           gone == Lost(v, keys, names)
<1>1. v = [statics |-> v.statics, combos |-> v.combos, forces |-> v.forces,
           checks |-> v.checks, last |-> v.last, focus |-> v.focus]
  BY DEF ViewRec
<1>2. w = [statics |-> st, combos |-> cb,
           forces |-> IF gone THEN None ELSE v.forces,
           checks |-> IF gone THEN None ELSE v.checks,
           last |-> last, focus |-> focus]
  <2>1. Staying(v, names) = {i \in DOMAIN v.combos : v.combos[i].name \notin names}
    BY DEF Staying
  <2>2. w = [(IF gone THEN Cleared(v) ELSE v) EXCEPT
               !.statics = st, !.combos = cb, !.last = last, !.focus = focus]
    BY <2>1 DEF Removed, Lost
  <2> HIDE DEF st, cb, last, focus, w, gone
  <2>3. CASE gone
    BY <1>1, <2>2, <2>3 DEF Cleared
  <2>4. CASE ~gone
    BY <1>1, <2>2, <2>4
  <2> QED BY <2>3, <2>4
<1>3. st \in Statics
  <2>1. PICK K \in SUBSET StaticCaseKey : v.statics \in [K -> Res]
    BY DEF ViewRec, Statics
  <2>2. st \in [K \ keys -> Res] /\ K \ keys \in SUBSET StaticCaseKey
    BY <2>1
  <2> QED BY <2>2 DEF Statics
<1>4. cb \in Seq([name : Names, res : Res])
  <2> DEFINE R == [name : Names, res : Res]
             P == Staying(v, names)
  <2>1. v.combos \in Seq(R)
    BY CombosTyped
  <2> HIDE DEF R, P
  <2>2. Only(v.combos, P) \in Seq(R)
    BY <2>1, OnlyPositions
  <2> QED BY <2>2 DEF R, P
<1>5. last \in Sel \union {None} /\ focus \in Sel \union {None}
  <2>1. v.last \in Sel \union {None} /\ v.focus \in Sel \union {None}
    BY DEF ViewRec
  <2> QED BY <2>1, RemapStays
<1>6. w \in ViewRec
  <2>1. /\ (IF gone THEN None ELSE v.forces) \in Res \union {None}
        /\ (IF gone THEN None ELSE v.checks)
             \in [forces : Res, term : {"long", "short"}] \union {None}
    BY DEF ViewRec
  <2> HIDE DEF st, cb, last, focus, w, gone
  <2> QED BY <1>2, <1>3, <1>4, <1>5, <2>1 DEF ViewRec
<1> QED
  <2> HIDE DEF st, cb, last, focus, w, gone
  <2>1. /\ w.statics = st /\ w.combos = cb /\ w.last = last /\ w.focus = focus
        /\ w.forces = IF gone THEN None ELSE v.forces
        /\ w.checks = IF gone THEN None ELSE v.checks
    BY <1>2
  <2>2. LeftOf(w, v, keys, names)
    BY <2>1 DEF st, cb, last, focus, gone, LeftOf
  <2> QED BY <1>6, <2>2 DEF w

LEMMA RemovedEntries ==
  ASSUME NEW v \in ViewRec, NEW keys, NEW names
  PROVE  /\ DOMAIN Removed(v, keys, names).statics = DOMAIN v.statics \ keys
         /\ \A k \in DOMAIN v.statics \ keys :
              Removed(v, keys, names).statics[k] = v.statics[k]
         /\ \A e \in ToSet(Removed(v, keys, names).combos) :
              e \in ToSet(v.combos) /\ e.name \notin names
<1>1. /\ DOMAIN Removed(v, keys, names).statics = DOMAIN v.statics \ keys
      /\ \A k \in DOMAIN v.statics \ keys :
           Removed(v, keys, names).statics[k] = v.statics[k]
  <2>1. LeftOf(Removed(v, keys, names), v, keys, names)
    BY RemovedFields, Zenon
  <2> QED BY <2>1 DEF LeftOf
<1>2. ASSUME NEW e \in ToSet(Removed(v, keys, names).combos)
      PROVE  e \in ToSet(v.combos) /\ e.name \notin names
  <2> DEFINE P == Staying(v, names)
  <2>1. e \in ToSet(Only(v.combos, P))
    <3>1. LeftOf(Removed(v, keys, names), v, keys, names)
      BY <1>2, RemovedFields, Zenon
    <3> QED BY <1>2, <3>1 DEF LeftOf
  <2>2. v.combos \in Seq([name : Names, res : Res])
    BY CombosTyped
  <2>3. \E i \in DOMAIN v.combos : i \in P /\ e = v.combos[i]
    <3> HIDE DEF P
    <3> QED BY <2>1, <2>2, OnlyEntries
  <2> QED BY <2>3 DEF Staying, ToSet
<1> QED BY <1>1, <1>2

LEMMA RemovedUnique ==
  ASSUME NEW v \in ViewRec, Unique(v), NEW keys, NEW names
  PROVE  Unique(Removed(v, keys, names))
<1> DEFINE P == Staying(v, names)
           q == Only(v.combos, P)
<1>1. v.combos \in Seq([name : Names, res : Res])
  BY CombosTyped
<1>2. ASSUME NEW c \in DOMAIN q, NEW d \in DOMAIN q, q[c].name = q[d].name
      PROVE  c = d
  <2>1. \E i, j \in DOMAIN v.combos : /\ i \in P /\ j \in P
                                      /\ q[c] = v.combos[i] /\ q[d] = v.combos[j]
                                      /\ i = j => c = d
    <3> HIDE DEF P
    <3> QED BY <1>1, OnlyInjective
  <2> HIDE DEF q
  <2> QED BY <1>2, <2>1 DEF Unique
<1>3. Removed(v, keys, names).combos = q
  <2>1. LeftOf(Removed(v, keys, names), v, keys, names)
    BY RemovedFields, Zenon
  <2> QED BY <2>1 DEF LeftOf
<1> HIDE DEF q
<1> QED BY <1>2, <1>3 DEF Unique

(* A selection that stays shows what it showed. *)
LEMMA RemapResolves ==
  ASSUME NEW v \in ViewRec, NEW keys, NEW names, NEW sel \in Sel \union {None},
         Remap(v, sel, keys, names) # None
  PROVE  /\ sel # None
         /\ Resolve(Removed(v, keys, names), Remap(v, sel, keys, names)) = Resolve(v, sel)
<1> DEFINE w == Removed(v, keys, names)
           to == Remap(v, sel, keys, names)
<1>0. sel # None
  BY DEF Remap
<1>1. CASE \E k \in StaticCaseKey : k \notin keys /\ sel = CaseSel(k) /\ to = CaseSel(k)
  <2>1. PICK k \in StaticCaseKey : k \notin keys /\ sel = CaseSel(k) /\ to = CaseSel(k)
    BY <1>1
  <2>2. sel[1] = "case" /\ sel[2] = k /\ to = sel
    BY <2>1 DEF CaseSel
  <2>3. /\ k \in DOMAIN w.statics <=> k \in DOMAIN v.statics
        /\ k \in DOMAIN v.statics => w.statics[k] = v.statics[k]
    BY <2>1, RemovedEntries
  <2> HIDE DEF w, to
  <2> QED BY <1>0, <2>2, <2>3 DEF Resolve, w, to
<1>2. CASE \E i \in Staying(v, names) :
             sel = ComboSel(i) /\ to = ComboSel(Rank(Staying(v, names), i))
  <2> DEFINE P == Staying(v, names)
  <2>1. PICK i \in P : sel = ComboSel(i) /\ to = ComboSel(Rank(P, i))
    BY <1>2
  <2>2. v.combos \in Seq([name : Names, res : Res]) /\ i \in DOMAIN v.combos
    BY <2>1, CombosTyped DEF Staying
  <2>3. w.combos = Only(v.combos, P)
    <3>1. LeftOf(Removed(v, keys, names), v, keys, names)
      BY RemovedFields, Zenon
    <3> QED BY <3>1 DEF LeftOf
  <2>4. Rank(P, i) \in DOMAIN w.combos /\ w.combos[Rank(P, i)] = v.combos[i]
    <3> HIDE DEF P, w
    <3> QED BY <2>1, <2>2, <2>3, OnlyPositions
  <2> HIDE DEF P
  <2>5. Resolve(v, ComboSel(i)) = v.combos[i].res
    BY <1>0, <2>1, <2>2 DEF Resolve, ComboSel
  <2>6. Resolve(w, ComboSel(Rank(P, i))) = w.combos[Rank(P, i)].res
    <3> HIDE DEF w
    <3> QED BY <2>1, <2>4 DEF Resolve, ComboSel
  <2> HIDE DEF w, to
  <2>7. Resolve(w, to) = Resolve(v, sel)
    BY <2>1, <2>4, <2>5, <2>6
  <2> QED BY <1>0, <2>7 DEF w, to
<1> QED BY <1>1, <1>2, RemapStays

LEMMA RemovedGood ==
  ASSUME NEW r, NEW v \in GoodView(r), NEW keys, NEW names
  PROVE  Removed(v, keys, names) \in GoodView(r)
<1> DEFINE w == Removed(v, keys, names)
<1>0. v \in ViewRec /\ Unique(v) /\ Shows(v) /\ ChecksFit(v, r)
  BY DEF GoodView
<1>1. w \in ViewRec /\ Unique(w)
  BY <1>0, RemovedFields, RemovedUnique
<1>2. /\ w.last = Remap(v, v.last, keys, names)
      /\ w.focus = Remap(v, v.focus, keys, names)
      /\ w.forces = IF Lost(v, keys, names) THEN None ELSE v.forces
      /\ w.checks = IF Lost(v, keys, names) THEN None ELSE v.checks
  <2>1. LeftOf(Removed(v, keys, names), v, keys, names)
    BY <1>0, RemovedFields, Zenon
  <2> QED BY <1>0, <2>1 DEF LeftOf
<1>3. v.last \in Sel \union {None} /\ v.focus \in Sel \union {None}
  BY <1>0 DEF ViewRec
<1>4. /\ w.last # None => v.last # None /\ Resolve(w, w.last) = Resolve(v, v.last)
      /\ w.focus # None => v.focus # None /\ Resolve(w, w.focus) = Resolve(v, v.focus)
  BY <1>0, <1>2, <1>3, RemapResolves
<1> HIDE DEF w
<1>5. CASE Lost(v, keys, names)
  <2>1. w.last = None /\ w.focus = None
    BY <1>0, <1>2, <1>4, <1>5 DEF Lost, Shows
  <2> QED BY <1>1, <1>2, <1>5, <2>1 DEF GoodView, Shows, ChecksFit, w
<1>6. CASE ~Lost(v, keys, names)
  <2>1. w.forces = v.forces /\ w.checks = v.checks
    BY <1>2, <1>6
  <2>2. w.last # None /\ w.focus # None => w.last = w.focus
    BY <1>0, <1>2, <1>4 DEF Shows
  <2>3. \A sel \in {w.last, w.focus} \ {None} : Resolve(w, sel) # None /\ w.forces = Resolve(w, sel)
    BY <1>0, <1>4, <2>1 DEF Shows
  <2> QED BY <1>0, <1>1, <2>1, <2>2, <2>3 DEF GoodView, Shows, ChecksFit, w
<1> QED BY <1>5, <1>6

----------------------------------------------------------------------------
(* Taking out what depends on a load case *)

\* No result of the case at position i of cs is in w, nor one of a combination
\* of the model that sums it.
Cut(w, cs, i) ==
  /\ KeyAt(cs, i) \notin DOMAIN w.statics /\ User(i) \notin DOMAIN w.statics
  /\ \A e \in ToSet(w.combos) : ~(e.name \in ToSet(combos) /\ cs[i] \in Terms[e.name])

LEMMA RemovedCut ==
  ASSUME NEW v \in ViewRec, NEW keys, NEW names, NEW cs, NEW i, Cut(v, cs, i)
  PROVE  Cut(Removed(v, keys, names), cs, i)
BY RemovedEntries DEF Cut

LEMMA InvalidatedGood ==
  ASSUME NEW r, NEW v \in GoodView(r), NEW cs, NEW ids
  PROVE  InvalidateCases(v, cs, ids) \in GoodView(r)
BY RemovedGood DEF InvalidateCases

LEMMA InvalidatedKeepsCut ==
  ASSUME NEW v \in ViewRec, NEW cs, NEW ids, NEW i, Cut(v, cs, i)
  PROVE  Cut(InvalidateCases(v, cs, ids), cs, i)
BY RemovedCut DEF InvalidateCases

LEMMA InvalidatedCut ==
  ASSUME NEW v \in ViewRec, NEW cs, NEW ids, NEW i \in ids \intersect DOMAIN cs
  PROVE  Cut(InvalidateCases(v, cs, ids), cs, i)
<1> DEFINE keys == {KeyAt(cs, j) : j \in ids} \union {User(j) : j \in ids}
           names == Dependents(cs, ids)
           w == Removed(v, keys, names)
<1>1. KeyAt(cs, i) \in keys /\ User(i) \in keys
  OBVIOUS
<1>2. \A n \in ToSet(combos) : cs[i] \in Terms[n] => n \in names
  BY DEF Dependents
<1>3. /\ DOMAIN w.statics = DOMAIN v.statics \ keys
      /\ \A e \in ToSet(w.combos) : e.name \notin names
  <2> HIDE DEF keys, names
  <2> QED BY RemovedEntries
<1>4. Cut(w, cs, i)
  <2> HIDE DEF keys, names, w
  <2> QED BY <1>1, <1>2, <1>3 DEF Cut
<1> QED BY <1>4 DEF InvalidateCases

LEMMA KeyInvalidatedGood ==
  ASSUME NEW r, NEW v \in GoodView(r), NEW cs, NEW key
  PROVE  InvalidateKey(v, cs, key) \in GoodView(r)
BY InvalidatedGood, RemovedGood DEF InvalidateKey

LEMMA KeyInvalidatedKeepsCut ==
  ASSUME NEW v \in ViewRec, NEW cs, NEW key, NEW i, Cut(v, cs, i)
  PROVE  Cut(InvalidateKey(v, cs, key), cs, i)
BY InvalidatedKeepsCut, RemovedCut DEF InvalidateKey

LEMMA KeyInvalidatedCut ==
  ASSUME NEW v \in ViewRec, NEW cs, NEW i \in DOMAIN cs
  PROVE  Cut(InvalidateKey(v, cs, KeyAt(cs, i)), cs, i)
<1>1. CASE cs[i] = EX
  <2>1. KeyAt(cs, i) = Seismic /\ Seismic[1] # "user"
    BY <1>1 DEF KeyAt, Seismic
  <2>2. EX \in ToSet(cs) /\ i \in PosIn(cs, EX)
    BY <1>1 DEF ToSet, PosIn
  <2>3. InvalidateKey(v, cs, KeyAt(cs, i)) = InvalidateCases(v, cs, PosIn(cs, EX))
    BY <2>1, <2>2 DEF InvalidateKey
  <2> QED BY <2>2, <2>3, InvalidatedCut
<1>2. CASE cs[i] # EX
  <2>1. KeyAt(cs, i) = User(i) /\ User(i)[1] = "user" /\ User(i)[2] = i
    BY <1>2 DEF KeyAt, User
  <2>2. InvalidateKey(v, cs, KeyAt(cs, i)) = InvalidateCases(v, cs, {i})
    BY <2>1 DEF InvalidateKey
  <2> QED BY <2>2, InvalidatedCut
<1> QED BY <1>1, <1>2

LEMMA AllInvalidated ==
  ASSUME NEW r, NEW v \in GoodView(r), NEW cs
  PROVE  /\ InvalidateAll(v, cs) \in GoodView(r)
         /\ \A i \in DOMAIN cs : Cut(InvalidateAll(v, cs), cs, i)
<1> DEFINE w == InvalidateCases(v, cs, DOMAIN cs)
<1>1. w \in GoodView(r) /\ v \in ViewRec /\ w \in ViewRec
  BY InvalidatedGood DEF GoodView
<1>2. \A i \in DOMAIN cs : Cut(w, cs, i)
  BY <1>1, InvalidatedCut
<1> HIDE DEF w
<1>3. Removed(w, {}, ToSet(combos)) \in GoodView(r)
  BY <1>1, RemovedGood
<1>4. \A i \in DOMAIN cs : Cut(Removed(w, {}, ToSet(combos)), cs, i)
  BY <1>1, <1>2, RemovedCut
<1> QED BY <1>3, <1>4 DEF InvalidateAll, w

----------------------------------------------------------------------------
(* Storing results *)

\* What is left of the case at position i of cs is of this run.
Current(w, cs, i) ==
  /\ \A k \in {KeyAt(cs, i), User(i)} \intersect DOMAIN w.statics : w.statics[k].run = runs
  /\ \A e \in ToSet(w.combos) :
       e.name \in ToSet(combos) /\ cs[i] \in Terms[e.name] => e.res.run = runs

LEMMA CutIsCurrent ==
  ASSUME NEW w, NEW cs, NEW i, Cut(w, cs, i)
  PROVE  Current(w, cs, i)
BY DEF Cut, Current

\* The bundles a batch can have while it stores the results of this run.
Storing(cs, F) == {w \in ViewRec : Unique(w) /\ \A i \in F : Current(w, cs, i)}

LEMMA CaseStored ==
  ASSUME NEW cs, NEW F, NEW v \in Storing(cs, F), NEW key \in StaticCaseKey,
         NEW res \in Res, res.run = runs
  PROVE  /\ StoreCase(v, key, res) \in Storing(cs, F)
         /\ Resolve(StoreCase(v, key, res), CaseSel(key)) = res
<1> DEFINE st == [k \in DOMAIN v.statics \union {key} |-> IF k = key THEN res ELSE v.statics[k]]
           w == [v EXCEPT !.statics = st]
<1>1. v \in ViewRec /\ Unique(v) /\ \A i \in F : Current(v, cs, i)
  BY DEF Storing
<1>2. st \in Statics
  <2>1. PICK K \in SUBSET StaticCaseKey : v.statics \in [K -> Res]
    BY <1>1 DEF ViewRec, Statics
  <2>2. st \in [K \union {key} -> Res] /\ K \union {key} \in SUBSET StaticCaseKey
    BY <2>1
  <2> QED BY <2>2 DEF Statics
<1>3. StoreCase(v, key, res) = w
  BY DEF StoreCase
<1>4. w \in ViewRec /\ w.statics = st /\ w.combos = v.combos
  <2> HIDE DEF st
  <2> QED BY <1>1, <1>2 DEF ViewRec
<1>5. Unique(w)
  <2> HIDE DEF w
  <2> QED BY <1>1, <1>4 DEF Unique
<1>6. ASSUME NEW i \in F PROVE Current(w, cs, i)
  <2>1. \A k \in DOMAIN st : k # key => k \in DOMAIN v.statics /\ st[k] = v.statics[k]
    OBVIOUS
  <2>2. st[key].run = runs
    OBVIOUS
  <2> HIDE DEF w, st
  <2> QED BY <1>1, <1>4, <2>1, <2>2 DEF Current
<1>7. Resolve(w, CaseSel(key)) = res
  <2>1. CaseSel(key) # None
    BY NoneAssumption DEF Sel
  <2>2. key \in DOMAIN st /\ st[key] = res
    OBVIOUS
  <2> HIDE DEF w, st
  <2> QED BY <1>4, <2>1, <2>2 DEF Resolve, CaseSel
<1> QED
  <2> HIDE DEF w
  <2> QED BY <1>3, <1>4, <1>5, <1>6, <1>7 DEF Storing

LEMMA ComboPosition ==
  ASSUME NEW v \in ViewRec, NEW name
  PROVE  \/ /\ ComboPos(v, name) \in DOMAIN v.combos
            /\ v.combos[ComboPos(v, name)].name = name
         \/ /\ ComboPos(v, name) = Len(v.combos) + 1
            /\ \A j \in DOMAIN v.combos : v.combos[j].name # name
<1> DEFINE Is(i) == \/ i \in DOMAIN v.combos /\ v.combos[i].name = name
                    \/ i = Len(v.combos) + 1 /\ \A j \in DOMAIN v.combos : v.combos[j].name # name
<1>1. Len(v.combos) \in Nat /\ DOMAIN v.combos = 1..Len(v.combos)
  BY CombosTyped
<1>2. \E i \in 1..(Len(v.combos) + 1) : Is(i)
  <2>1. CASE \E j \in DOMAIN v.combos : v.combos[j].name = name
    BY <1>1, <2>1
  <2>2. CASE \A j \in DOMAIN v.combos : v.combos[j].name # name
    <3>1. Len(v.combos) + 1 \in 1..(Len(v.combos) + 1)
      BY <1>1
    <3> QED BY <2>2, <3>1
  <2> QED BY <2>1, <2>2
<1>3. Is(ComboPos(v, name))
  BY <1>2 DEF ComboPos
<1> QED BY <1>3

LEMMA ComboStored ==
  ASSUME NEW cs, NEW F, NEW v \in Storing(cs, F), NEW name \in Names,
         NEW res \in Res, res.run = runs
  PROVE  /\ StoreCombo(v, name, res) \in Storing(cs, F)
         /\ Resolve(StoreCombo(v, name, res),
                    ComboSel(ComboPos(StoreCombo(v, name, res), name))) # None
         /\ ComboSel(ComboPos(StoreCombo(v, name, res), name)) \in Sel
         /\ ComboPos(StoreCombo(v, name, res), name) = ComboPos(v, name)
<1> DEFINE at == ComboPos(v, name)
           entry == [name |-> name, res |-> res]
           R == [name : Names, res : Res]
           cb == IF at \in DOMAIN v.combos THEN [v.combos EXCEPT ![at] = entry]
                 ELSE Append(v.combos, entry)
           w == [v EXCEPT !.combos = cb]
<1>1. v \in ViewRec /\ Unique(v) /\ \A i \in F : Current(v, cs, i)
  BY DEF Storing
<1>2. StoreCombo(v, name, res) = w
  BY DEF StoreCombo
<1>3. v.combos \in Seq(R) /\ Len(v.combos) \in Nat /\ DOMAIN v.combos = 1..Len(v.combos)
  BY <1>1, CombosTyped
<1>4. entry \in R /\ entry.name = name /\ entry.res = res
  OBVIOUS
<1>5. \/ /\ at \in DOMAIN v.combos /\ v.combos[at].name = name
      \/ /\ at = Len(v.combos) + 1 /\ \A j \in DOMAIN v.combos : v.combos[j].name # name
  BY <1>1, ComboPosition
<1> HIDE DEF at, entry, R
<1>6. /\ cb \in Seq(R) /\ at \in DOMAIN cb /\ cb[at] = entry
      /\ \A i \in DOMAIN cb : i # at => i \in DOMAIN v.combos /\ cb[i] = v.combos[i]
  BY <1>3, <1>4, <1>5
<1>7. \A i \in DOMAIN v.combos : i # at => v.combos[i].name # name
  BY <1>1, <1>5 DEF Unique
<1>8. w \in ViewRec /\ w.combos = cb /\ w.statics = v.statics
  <2> HIDE DEF cb
  <2> QED BY <1>1, <1>6 DEF ViewRec, R
<1> HIDE DEF cb, w
<1>9. Unique(w)
  BY <1>1, <1>4, <1>6, <1>7, <1>8 DEF Unique
<1>10. ASSUME NEW i \in F PROVE Current(w, cs, i)
  <2>1. \A e \in ToSet(cb) : e = entry \/ e \in ToSet(v.combos)
    BY <1>6 DEF ToSet
  <2> QED BY <1>1, <1>4, <1>8, <2>1 DEF Current
<1>11. w \in Storing(cs, F)
  BY <1>8, <1>9, <1>10 DEF Storing
<1>12. ComboPos(w, name) \in DOMAIN w.combos
  BY <1>4, <1>6, <1>8, ComboPosition
<1>13. ComboSel(ComboPos(w, name)) \in Sel
  <2>1. Len(w.combos) <= Cardinality(Names)
    BY <1>8, <1>9, UniqueBound
  <2>2. Len(w.combos) \in Nat /\ DOMAIN w.combos = 1..Len(w.combos)
    BY <1>8, CombosTyped
  <2>3. ComboPos(w, name) \in 1..Cardinality(Names)
    BY <1>12, <2>1, <2>2, ConstantsFinite
  <2> QED BY <2>3 DEF Sel
<1>14. Resolve(w, ComboSel(ComboPos(w, name))) # None
  <2>1. ComboSel(ComboPos(w, name)) # None
    BY <1>13, NoneAssumption
  <2>2. w.combos[ComboPos(w, name)].res \in Res
    BY <1>8, <1>12, CombosTyped
  <2>3. Resolve(w, ComboSel(ComboPos(w, name))) = w.combos[ComboPos(w, name)].res
    BY <1>12, <2>1 DEF Resolve, ComboSel
  <2> QED BY <2>2, <2>3, NoneAssumption
<1>15. ComboPos(w, name) = at
  <2>1. w.combos[ComboPos(w, name)].name = name
    BY <1>8, <1>12, ComboPosition, CombosTyped
  <2> QED BY <1>4, <1>6, <1>8, <1>9, <1>12, <2>1 DEF Unique
<1> QED BY <1>2, <1>11, <1>13, <1>14, <1>15 DEF at

(* A job's results are of its run, which is the latest. *)
LEMMA ResultTyped ==
  ASSUME job.run = runs, runs \in 1..MaxRuns, NEW of \in Cases \union Names
  PROVE  Result(of) \in Res /\ Result(of).run = runs
BY DEF Result, Res

LEMMA CasesStoredGood ==
  ASSUME job.run = runs, runs \in 1..MaxRuns, NEW cs, NEW F, NEW v \in Storing(cs, F),
         NEW solves \in Seq([key : StaticCaseKey, of : Cases])
  PROVE  /\ CasesStored(v, solves) \in Storing(cs, F)
         /\ solves # <<>> => Resolve(CasesStored(v, solves), CaseSel(Last(solves).key)) # None
         /\ solves = <<>> => CasesStored(v, solves) = v
<1> DEFINE n == Len(solves)
           V == Storing(cs, F)
           Put(w, i) == StoreCase(w, solves[i].key, Result(solves[i].of))
           H == [p \in V \X (1..n) |-> Put(p[1], p[2])]
           Rec(g) == [i \in 0..n |-> IF i = 0 THEN v ELSE Put(g[i - 1], i)]
<1>1. n \in Nat /\ (solves = <<>> => n = 0) /\ (solves # <<>> => n # 0)
  BY EmptySeq
<1>2. \A i \in 1..n : solves[i].key \in StaticCaseKey /\ solves[i].of \in Cases
  <2> DEFINE R == [key : StaticCaseKey, of : Cases]
  <2>1. \A i \in 1..n : solves[i] \in R
    <3>1. solves \in Seq(R)
      OBVIOUS
    <3> HIDE DEF R
    <3> QED BY <3>1, ElementOfSeq
  <2> QED BY <2>1
<1>3. ASSUME NEW w \in V, NEW i \in 1..n
      PROVE  /\ Put(w, i) \in V
             /\ Resolve(Put(w, i), CaseSel(solves[i].key)) # None
  <2>1. Result(solves[i].of) \in Res /\ Result(solves[i].of).run = runs
    BY <1>2, ResultTyped
  <2>2. /\ StoreCase(w, solves[i].key, Result(solves[i].of)) \in V
        /\ Resolve(StoreCase(w, solves[i].key, Result(solves[i].of)), CaseSel(solves[i].key))
             = Result(solves[i].of)
    BY <1>2, <2>1, CaseStored
  <2> QED BY <2>1, <2>2, NoneAssumption
<1> HIDE DEF V, n, Put
<1>4. H \in [V \X (1..n) -> V]
  BY <1>3
<1>5. PICK f : f \in [0..n -> V] /\ f[0] = v /\ \A i \in 1..n : f[i] = H[<<f[i - 1], i>>]
  <2>1. Stepping(H, V, n)
    BY <1>1, <1>4 DEF Stepping
  <2> HIDE DEF H
  <2>2. v \in V
    BY DEF V
  <2>3. \E f : Iterates(f, H, V, n, v)
    BY <2>1, <2>2, RecursionExists
  <2> QED BY <2>3 DEF Iterates
<1>6. f = Rec(f)
  <2>1. ASSUME NEW i \in 0..n, i # 0 PROVE f[i] = Put(f[i - 1], i)
    <3>1. i \in 1..n /\ i - 1 \in 0..n
      BY <1>1, <2>1
    <3>2. H[<<f[i - 1], i>>] = Put(f[i - 1], i)
      BY <1>5, <3>1
    <3> QED BY <1>5, <3>1, <3>2
  <2> QED BY <1>5, <2>1
<1> DEFINE c == CHOOSE g : g = Rec(g)
<1>7. c = Rec(c)
  BY <1>6
<1>8. CasesStored(v, solves) = c[n]
  BY DEF CasesStored, n, Put
<1> HIDE DEF c
<1>9. \A m \in 0..n : m \in {k \in 0..n : c[k] \in V}
  <2> DEFINE S == {k \in 0..n : c[k] \in V}
  <2>1. 0 \in S
    BY <1>1, <1>7 DEF V
  <2>2. ASSUME NEW m \in 0..(n - 1), m \in S PROVE m + 1 \in S
    <3>1. m + 1 \in 0..n /\ m + 1 # 0 /\ (m + 1) - 1 = m /\ m + 1 \in 1..n
      BY <1>1
    <3>2. c[m + 1] = Put(c[m], m + 1)
      BY <1>7, <3>1
    <3> QED BY <1>3, <2>2, <3>1, <3>2
  <2> HIDE DEF S
  <2>3. \A m \in 0..n : m \in S
    BY <1>1, <2>1, <2>2, BoundedInduction
  <2> QED BY <2>3 DEF S
<1>10. c[n] \in V
  BY <1>1, <1>9
<1>11. ASSUME solves # <<>> PROVE Resolve(c[n], CaseSel(Last(solves).key)) # None
  <2>1. n \in 1..n /\ n - 1 \in 0..n
    BY <1>11, <1>1
  <2>2. c[n] = Put(c[n - 1], n)
    BY <1>7, <2>1
  <2>3. Last(solves) = solves[n]
    BY DEF Last, n
  <2> QED BY <1>3, <1>9, <2>1, <2>2, <2>3
<1>12. solves = <<>> => c[n] = v
  BY <1>1, <1>7
<1> QED BY <1>8, <1>10, <1>11, <1>12 DEF V

LEMMA CombosStoredGood ==
  ASSUME job.run = runs, runs \in 1..MaxRuns, NEW cs, NEW F, NEW v \in Storing(cs, F),
         NEW names \in Seq(Names)
  PROVE  /\ CombosStored(v, names) \in Storing(cs, F)
         /\ names # <<>> =>
              LET sel == ComboSel(ComboPos(CombosStored(v, names), Last(names)))
              IN sel \in Sel /\ Resolve(CombosStored(v, names), sel) # None
         /\ names = <<>> => CombosStored(v, names) = v
<1> DEFINE n == Len(names)
           V == Storing(cs, F)
           Put(w, i) == StoreCombo(w, names[i], Result(names[i]))
           H == [p \in V \X (1..n) |-> Put(p[1], p[2])]
           Rec(g) == [i \in 0..n |-> IF i = 0 THEN v ELSE Put(g[i - 1], i)]
           sel(w, i) == ComboSel(ComboPos(w, names[i]))
<1>1. n \in Nat /\ (names = <<>> => n = 0) /\ (names # <<>> => n # 0)
  BY EmptySeq
<1>2. \A i \in 1..n : names[i] \in Names
  BY ElementOfSeq
<1>3. ASSUME NEW w \in V, NEW i \in 1..n
      PROVE  /\ Put(w, i) \in V
             /\ sel(Put(w, i), i) \in Sel
             /\ Resolve(Put(w, i), sel(Put(w, i), i)) # None
  <2>1. Result(names[i]) \in Res /\ Result(names[i]).run = runs
    BY <1>2, ResultTyped
  <2> QED BY <1>2, <2>1, ComboStored
<1> HIDE DEF V, n, Put
<1>4. H \in [V \X (1..n) -> V]
  BY <1>3
<1>5. PICK f : f \in [0..n -> V] /\ f[0] = v /\ \A i \in 1..n : f[i] = H[<<f[i - 1], i>>]
  <2>1. Stepping(H, V, n)
    BY <1>1, <1>4 DEF Stepping
  <2> HIDE DEF H
  <2>2. v \in V
    BY DEF V
  <2>3. \E f : Iterates(f, H, V, n, v)
    BY <2>1, <2>2, RecursionExists
  <2> QED BY <2>3 DEF Iterates
<1>6. f = Rec(f)
  <2>1. ASSUME NEW i \in 0..n, i # 0 PROVE f[i] = Put(f[i - 1], i)
    <3>1. i \in 1..n /\ i - 1 \in 0..n
      BY <1>1, <2>1
    <3>2. H[<<f[i - 1], i>>] = Put(f[i - 1], i)
      BY <1>5, <3>1
    <3> QED BY <1>5, <3>1, <3>2
  <2> QED BY <1>5, <2>1
<1> DEFINE c == CHOOSE g : g = Rec(g)
<1>7. c = Rec(c)
  BY <1>6
<1>8. CombosStored(v, names) = c[n]
  BY DEF CombosStored, n, Put
<1> HIDE DEF c
<1>9. \A m \in 0..n : m \in {k \in 0..n : c[k] \in V}
  <2> DEFINE S == {k \in 0..n : c[k] \in V}
  <2>1. 0 \in S
    BY <1>1, <1>7 DEF V
  <2>2. ASSUME NEW m \in 0..(n - 1), m \in S PROVE m + 1 \in S
    <3>1. m + 1 \in 0..n /\ m + 1 # 0 /\ (m + 1) - 1 = m /\ m + 1 \in 1..n
      BY <1>1
    <3>2. c[m + 1] = Put(c[m], m + 1)
      BY <1>7, <3>1
    <3> QED BY <1>3, <2>2, <3>1, <3>2
  <2> HIDE DEF S
  <2>3. \A m \in 0..n : m \in S
    BY <1>1, <2>1, <2>2, BoundedInduction
  <2> QED BY <2>3 DEF S
<1>10. c[n] \in V
  BY <1>1, <1>9
<1>11. ASSUME names # <<>>
       PROVE  sel(c[n], n) \in Sel /\ Resolve(c[n], sel(c[n], n)) # None
  <2>1. n \in 1..n /\ n - 1 \in 0..n
    BY <1>11, <1>1
  <2>2. c[n] = Put(c[n - 1], n) /\ c[n - 1] \in V
    BY <1>7, <1>9, <2>1
  <2> QED BY <1>3, <2>1, <2>2
<1>12. names = <<>> => c[n] = v
  BY <1>1, <1>7
<1>13. Last(names) = names[n]
  BY DEF Last, n
<1> QED BY <1>8, <1>10, <1>11, <1>12, <1>13 DEF V

----------------------------------------------------------------------------
(* The answer of a batch *)

(* Its failures are taken out, and none of them leaves a result. *)
LEMMA SparedGood ==
  ASSUME NEW r, view \in GoodView(r), NEW solved, Len(job.solves) \in Nat
  PROVE  /\ Spared(solved) \in GoodView(r)
         /\ \A m \in 1..Len(job.solves), i \in DOMAIN cases :
              job.solves[m].of \notin solved /\ job.solves[m] = Solve(cases, i) =>
                Cut(Spared(solved), cases, i)
<1> DEFINE n == Len(job.solves)
           V == GoodView(r)
           base == Removed(view, job.exKeys, job.exNames)
           Take(w, i) == IF job.solves[i].of \in solved THEN w
                         ELSE InvalidateKey(w, cases, job.solves[i].key)
           H == [p \in V \X (1..n) |-> Take(p[1], p[2])]
           Rec(g) == [i \in 0..n |-> IF i = 0 THEN base ELSE Take(g[i - 1], i)]
           Failed(m, i) == job.solves[m].of \notin solved /\ job.solves[m] = Solve(cases, i)
<1>1. n \in Nat /\ base \in V
  BY RemovedGood
<1>2. ASSUME NEW w \in V, NEW i \in 1..n PROVE Take(w, i) \in V
  BY KeyInvalidatedGood
<1>3. ASSUME NEW w \in V, NEW m \in 1..n, NEW i \in DOMAIN cases
      PROVE  /\ Failed(m, i) => Cut(Take(w, m), cases, i)
             /\ Cut(w, cases, i) => Cut(Take(w, m), cases, i)
  <2>1. w \in ViewRec
    BY DEF GoodView
  <2>2. Failed(m, i) => job.solves[m].key = KeyAt(cases, i)
    BY DEF Solve
  <2> QED BY <2>1, <2>2, KeyInvalidatedCut, KeyInvalidatedKeepsCut
<1> HIDE DEF V, n, Take, base, Failed
<1>4. H \in [V \X (1..n) -> V]
  BY <1>2
<1>5. PICK f : f \in [0..n -> V] /\ f[0] = base /\ \A i \in 1..n : f[i] = H[<<f[i - 1], i>>]
  <2>1. Stepping(H, V, n)
    BY <1>1, <1>4 DEF Stepping
  <2> HIDE DEF H
  <2>2. \E f : Iterates(f, H, V, n, base)
    BY <1>1, <2>1, RecursionExists
  <2> QED BY <2>2 DEF Iterates
<1>6. f = Rec(f)
  <2>1. ASSUME NEW i \in 0..n, i # 0 PROVE f[i] = Take(f[i - 1], i)
    <3>1. i \in 1..n /\ i - 1 \in 0..n
      BY <1>1, <2>1
    <3>2. H[<<f[i - 1], i>>] = Take(f[i - 1], i)
      BY <1>5, <3>1
    <3> QED BY <1>5, <3>1, <3>2
  <2> QED BY <1>5, <2>1
<1> DEFINE c == CHOOSE g : g = Rec(g)
<1>7. c = Rec(c)
  BY <1>6
<1>8. Spared(solved) = c[n]
  BY DEF Spared, n, Take, base
<1> HIDE DEF c
<1>9. \A m \in 0..n : m \in {k \in 0..n : c[k] \in V}
  <2> DEFINE S == {k \in 0..n : c[k] \in V}
  <2>1. 0 \in S
    BY <1>1, <1>7
  <2>2. ASSUME NEW m \in 0..(n - 1), m \in S PROVE m + 1 \in S
    <3>1. m + 1 \in 0..n /\ m + 1 # 0 /\ (m + 1) - 1 = m /\ m + 1 \in 1..n
      BY <1>1
    <3>2. c[m + 1] = Take(c[m], m + 1)
      BY <1>7, <3>1
    <3> QED BY <1>2, <2>2, <3>1, <3>2
  <2> HIDE DEF S
  <2>3. \A m \in 0..n : m \in S
    BY <1>1, <2>1, <2>2, BoundedInduction
  <2> QED BY <2>3 DEF S
<1> DEFINE Done(k) == \A m \in 1..k, i \in DOMAIN cases : Failed(m, i) => Cut(c[k], cases, i)
           D == {k \in 0..n : Done(k)}
<1>10. \A m \in 0..n : m \in D
  <2>1. 0 \in D
    BY <1>1
  <2>2. ASSUME NEW k \in 0..(n - 1), k \in D PROVE k + 1 \in D
    <3>1. k + 1 \in 0..n /\ k + 1 # 0 /\ (k + 1) - 1 = k /\ k + 1 \in 1..n
      BY <1>1
    <3>2. c[k + 1] = Take(c[k], k + 1) /\ c[k] \in V
      BY <1>1, <1>7, <1>9, <3>1
    <3>3. ASSUME NEW m \in 1..(k + 1), NEW i \in DOMAIN cases, Failed(m, i)
          PROVE  Cut(c[k + 1], cases, i)
      <4>1. CASE m = k + 1
        BY <1>3, <3>1, <3>2, <3>3, <4>1
      <4>2. CASE m # k + 1
        <5>1. m \in 1..k
          BY <4>2
        <5>2. Cut(c[k], cases, i)
          BY <2>2, <3>3, <5>1
        <5> QED BY <1>3, <3>1, <3>2, <5>2
      <4> QED BY <4>1, <4>2
    <3> QED BY <3>1, <3>3
  <2> HIDE DEF D
  <2> QED BY <1>1, <2>1, <2>2, BoundedInduction
<1>11. c[n] \in V /\ Done(n)
  BY <1>1, <1>9, <1>10
<1> QED BY <1>8, <1>11 DEF V, n, Failed

----------------------------------------------------------------------------
(* What is put on display *)

LEMMA ResolvedTyped ==
  ASSUME NEW v \in ViewRec, NEW sel, Resolve(v, sel) # None
  PROVE  Resolve(v, sel) \in Res
<1>1. PICK K \in SUBSET StaticCaseKey : v.statics \in [K -> Res]
  BY DEF ViewRec, Statics
<1>2. \A k \in DOMAIN v.statics : v.statics[k] \in Res
  BY <1>1
<1>3. \A i \in DOMAIN v.combos : v.combos[i].res \in Res
  BY CombosTyped
<1> QED BY <1>2, <1>3 DEF Resolve

LEMMA DesignChecked ==
  ASSUME NEW v \in ViewRec, Unique(v), Shows(v), floorsOk \in BOOLEAN,
         NEW t \in {"long", "short"}, DesignCheck(v, t)
  PROVE  /\ view' \in GoodView(reported') /\ reported' \in BOOLEAN
         /\ term' \in {"long", "short"}
         /\ view'.statics = v.statics /\ view'.combos = v.combos
<1>1. view' = Checked(v, t) /\ reported' = ~floorsOk /\ term' = t
  BY DEF DesignCheck
<1>2. CASE ~floorsOk
  <2>1. view' = v /\ reported' = TRUE
    BY <1>1, <1>2 DEF Checked
  <2> QED BY <1>1, <2>1 DEF GoodView, ChecksFit
<1>3. CASE floorsOk
  <2> DEFINE ch == IF v.forces = None THEN None ELSE [forces |-> v.forces, term |-> t]
  <2>1. view' = [v EXCEPT !.checks = ch]
    BY <1>1, <1>3 DEF Checked
  <2>2. ch \in [forces : Res, term : {"long", "short"}] \union {None}
    BY DEF ViewRec
  <2>3. ch # None => ch.forces = v.forces
    OBVIOUS
  <2> HIDE DEF ch
  <2>4. /\ view' \in ViewRec /\ view'.checks = ch /\ view'.forces = v.forces
        /\ view'.statics = v.statics /\ view'.combos = v.combos
        /\ view'.last = v.last /\ view'.focus = v.focus
    BY <2>1, <2>2 DEF ViewRec
  <2>5. Unique(view')
    BY <2>4 DEF Unique
  <2>6. Shows(view')
    BY <2>4 DEF Shows, Resolve
  <2>7. ChecksFit(view', reported')
    BY <2>3, <2>4 DEF ChecksFit
  <2> QED BY <1>1, <1>3, <2>4, <2>5, <2>6, <2>7 DEF GoodView
<1> QED BY <1>2, <1>3

LEMMA TermTyped ==
  ASSUME NEW v, NEW sel, term \in {"long", "short"}
  PROVE  TermOf(v, sel) \in {"long", "short"}
BY DEF TermOf

LEMMA Displayed ==
  ASSUME NEW v \in ViewRec, Unique(v), floorsOk \in BOOLEAN, term \in {"long", "short"},
         NEW sel \in Sel, Resolve(v, sel) # None, Display(v, sel)
  PROVE  /\ view' \in GoodView(reported') /\ reported' \in BOOLEAN
         /\ term' \in {"long", "short"}
         /\ view'.statics = v.statics /\ view'.combos = v.combos
<1> DEFINE w == Shown(v, sel)
<1>1. Resolve(v, sel) \in Res
  BY ResolvedTyped
<1>2. /\ w \in ViewRec /\ w.statics = v.statics /\ w.combos = v.combos
      /\ w.forces = Resolve(v, sel) /\ w.last = sel /\ w.focus = sel
  BY <1>1 DEF Shown, ViewRec
<1> HIDE DEF w
<1>3. Unique(w)
  BY <1>2 DEF Unique
<1>4. Shows(w)
  BY <1>2 DEF Shows, Resolve
<1>5. DesignCheck(w, TermOf(v, sel)) /\ TermOf(v, sel) \in {"long", "short"}
  BY TermTyped DEF Display, w
<1> QED BY <1>2, <1>3, <1>4, <1>5, DesignChecked

----------------------------------------------------------------------------
(* The cases of an edited model stay distinct. *)

LEMMA CaseAppended ==
  ASSUME NEW s \in Seq(Cases), IsInjective(s), NEW c \in Cases, c \notin ToSet(s)
  PROVE  /\ Append(s, c) \in Seq(Cases) /\ IsInjective(Append(s, c))
         /\ c \in ToSet(Append(s, c)) /\ ToSet(s) \subseteq ToSet(Append(s, c))
<1>1. /\ Append(s, c) \in Seq(Cases) /\ Len(Append(s, c)) = Len(s) + 1 /\ Len(s) \in Nat
      /\ DOMAIN s = 1..Len(s) /\ DOMAIN Append(s, c) = 1..(Len(s) + 1)
      /\ \A i \in 1..Len(s) : Append(s, c)[i] = s[i]
      /\ Append(s, c)[Len(s) + 1] = c
  OBVIOUS
<1> DEFINE t == Append(s, c)
<1> HIDE DEF t
<1>2. IsInjective(t)
  BY <1>1 DEF IsInjective, ToSet, t
<1>3. c \in ToSet(t) /\ ToSet(s) \subseteq ToSet(t)
  <2>1. Len(s) + 1 \in DOMAIN t /\ \A i \in DOMAIN s : i \in DOMAIN t
    BY <1>1 DEF t
  <2> QED BY <1>1, <2>1 DEF ToSet, t
<1> QED BY <1>1, <1>2, <1>3 DEF t

LEMMA CaseRemoved ==
  ASSUME NEW s \in Seq(Cases), IsInjective(s), NEW i \in DOMAIN s
  PROVE  /\ RemoveAt(s, i) \in Seq(Cases) /\ IsInjective(RemoveAt(s, i))
         /\ \A c \in ToSet(s) : c # s[i] => c \in ToSet(RemoveAt(s, i))
<1> DEFINE t == RemoveAt(s, i)
<1>1. DOMAIN s = 1..Len(s) /\ Len(s) \in Nat
  OBVIOUS
<1>2. /\ t \in Seq(Cases) /\ DOMAIN t = 1..(Len(s) - 1)
      /\ \A j \in 1..(Len(s) - 1) : t[j] = IF j < i THEN s[j] ELSE s[j + 1]
  <2> DEFINE a == SubSeq(s, 1, i - 1)
             b == SubSeq(s, i + 1, Len(s))
  <2>1. /\ a \in Seq(Cases) /\ Len(a) = i - 1
        /\ \A j \in 1..(i - 1) : a[j] = s[j]
    BY <1>1
  <2>2. /\ b \in Seq(Cases) /\ Len(b) = Len(s) - i
        /\ \A j \in 1..(Len(s) - i) : b[j] = s[i + j]
    BY <1>1
  <2>3. t = a \o b
    BY DEF RemoveAt
  <2> HIDE DEF a, b, t
  <2>4. /\ t \in Seq(Cases) /\ Len(t) = Len(a) + Len(b)
        /\ \A j \in 1..(Len(a) + Len(b)) :
             t[j] = IF j <= Len(a) THEN a[j] ELSE b[j - Len(a)]
    BY <2>1, <2>2, <2>3, ConcatProperties
  <2>5. ASSUME NEW j \in 1..(Len(s) - 1) PROVE t[j] = IF j < i THEN s[j] ELSE s[j + 1]
    <3>1. CASE j < i
      BY <1>1, <2>1, <2>2, <2>4, <3>1
    <3>2. CASE ~(j < i)
      <4>1. j - (i - 1) \in 1..(Len(s) - i) /\ i + (j - (i - 1)) = j + 1
        BY <1>1, <3>2
      <4>2. b[j - (i - 1)] = s[j + 1]
        BY <2>2, <4>1
      <4> QED BY <1>1, <2>1, <2>2, <2>4, <3>2, <4>2
    <3> QED BY <3>1, <3>2
  <2>6. Len(t) = Len(s) - 1 /\ DOMAIN t = 1..(Len(s) - 1)
    BY <1>1, <2>1, <2>2, <2>4
  <2> QED BY <2>4, <2>5, <2>6
<1> HIDE DEF t
<1>3. IsInjective(t)
  <2> SUFFICES ASSUME NEW j \in DOMAIN t, NEW k \in DOMAIN t, t[j] = t[k]
               PROVE  j = k
    BY DEF IsInjective
  <2> DEFINE at(m) == IF m < i THEN m ELSE m + 1
  <2>1. at(j) \in DOMAIN s /\ at(k) \in DOMAIN s /\ t[j] = s[at(j)] /\ t[k] = s[at(k)]
    BY <1>1, <1>2
  <2>2. at(j) = at(k)
    <3> HIDE DEF at
    <3> QED BY <2>1 DEF IsInjective
  <2> QED BY <1>1, <1>2, <2>2
<1>4. ASSUME NEW c \in ToSet(s), c # s[i] PROVE c \in ToSet(t)
  <2>1. PICK j \in DOMAIN s : c = s[j] /\ j # i
    BY <1>4 DEF ToSet
  <2>2. CASE j < i
    <3>1. j \in DOMAIN t /\ t[j] = c
      BY <1>1, <1>2, <2>1, <2>2
    <3> QED BY <3>1 DEF ToSet
  <2>3. CASE j > i
    <3>1. j - 1 \in DOMAIN t /\ t[j - 1] = c
      BY <1>1, <1>2, <2>1, <2>3
    <3> QED BY <3>1 DEF ToSet
  <2> QED BY <1>1, <2>1, <2>2, <2>3
<1> QED BY <1>2, <1>3, <1>4 DEF t

LEMMA CaseInserted ==
  ASSUME NEW s \in Seq(Cases), IsInjective(s), NEW i \in 1..(Len(s) + 1),
         NEW c \in Cases, c \notin ToSet(s)
  PROVE  /\ InsertAt(s, i, c) \in Seq(Cases) /\ IsInjective(InsertAt(s, i, c))
         /\ c \in ToSet(InsertAt(s, i, c)) /\ ToSet(s) \subseteq ToSet(InsertAt(s, i, c))
<1> DEFINE t == InsertAt(s, i, c)
<1>1. DOMAIN s = 1..Len(s) /\ Len(s) \in Nat
  OBVIOUS
<1>2. /\ t \in Seq(Cases) /\ DOMAIN t = 1..(Len(s) + 1)
      /\ \A j \in 1..(Len(s) + 1) :
           t[j] = IF j < i THEN s[j] ELSE IF j = i THEN c ELSE s[j - 1]
  <2> DEFINE a == SubSeq(s, 1, i - 1)
             b == SubSeq(s, i, Len(s))
             d == a \o <<c>>
  <2>1. /\ a \in Seq(Cases) /\ Len(a) = i - 1
        /\ \A j \in 1..(i - 1) : a[j] = s[j]
    BY <1>1
  <2>2. /\ b \in Seq(Cases) /\ Len(b) = Len(s) - i + 1
        /\ \A j \in 1..(Len(s) - i + 1) : b[j] = s[i + j - 1]
    BY <1>1
  <2>3. t = d \o b
    BY DEF InsertAt
  <2>4. /\ d \in Seq(Cases) /\ Len(d) = i /\ d[i] = c
        /\ \A j \in 1..(i - 1) : d[j] = s[j]
    <3>1. <<c>> \in Seq(Cases) /\ Len(<<c>>) = 1 /\ <<c>>[1] = c
      OBVIOUS
    <3> HIDE DEF a
    <3>2. /\ d \in Seq(Cases) /\ Len(d) = Len(a) + 1
          /\ \A j \in 1..(Len(a) + 1) : d[j] = IF j <= Len(a) THEN a[j] ELSE <<c>>[j - Len(a)]
      BY <2>1, <3>1
    <3>3. d[i] = c
      BY <1>1, <2>1, <3>2
    <3> HIDE DEF d
    <3> QED BY <1>1, <2>1, <3>2, <3>3
  <2> HIDE DEF a, b, d, t
  <2>5. /\ t \in Seq(Cases) /\ Len(t) = Len(d) + Len(b)
        /\ \A j \in 1..(Len(d) + Len(b)) :
             t[j] = IF j <= Len(d) THEN d[j] ELSE b[j - Len(d)]
    BY <2>2, <2>3, <2>4, ConcatProperties
  <2>6. ASSUME NEW j \in 1..(Len(s) + 1)
        PROVE  t[j] = IF j < i THEN s[j] ELSE IF j = i THEN c ELSE s[j - 1]
    <3>1. CASE j <= i
      BY <1>1, <2>2, <2>4, <2>5, <3>1
    <3>2. CASE ~(j <= i)
      <4>1. j - i \in 1..(Len(s) - i + 1) /\ i + (j - i) - 1 = j - 1
        BY <1>1, <3>2
      <4>2. b[j - i] = s[j - 1]
        BY <2>2, <4>1
      <4> QED BY <1>1, <2>2, <2>4, <2>5, <3>2, <4>2
    <3> QED BY <3>1, <3>2
  <2>7. Len(t) = Len(s) + 1 /\ DOMAIN t = 1..(Len(s) + 1)
    BY <1>1, <2>2, <2>4, <2>5
  <2> QED BY <2>5, <2>6, <2>7
<1> HIDE DEF t
<1>3. \A j \in DOMAIN s : s[j] # c
  BY DEF ToSet
<1>4. IsInjective(t)
  <2> SUFFICES ASSUME NEW j \in DOMAIN t, NEW k \in DOMAIN t, t[j] = t[k]
               PROVE  j = k
    BY DEF IsInjective
  <2> DEFINE at(m) == IF m < i THEN m ELSE m - 1
  <2>1. /\ j # i => at(j) \in DOMAIN s /\ t[j] = s[at(j)]
        /\ k # i => at(k) \in DOMAIN s /\ t[k] = s[at(k)]
        /\ j = i => t[j] = c
        /\ k = i => t[k] = c
    BY <1>1, <1>2
  <2>2. j = i <=> k = i
    <3> HIDE DEF at
    <3> QED BY <1>3, <2>1
  <2>3. j # i => at(j) = at(k)
    <3> HIDE DEF at
    <3> QED BY <2>1, <2>2 DEF IsInjective
  <2> QED BY <1>1, <1>2, <2>2, <2>3
<1>5. c \in ToSet(t)
  <2>1. i \in DOMAIN t /\ t[i] = c
    BY <1>1, <1>2
  <2> QED BY <2>1 DEF ToSet
<1>6. ASSUME NEW d \in ToSet(s) PROVE d \in ToSet(t)
  <2>1. PICK j \in DOMAIN s : d = s[j]
    BY DEF ToSet
  <2>2. CASE j < i
    <3>1. j \in DOMAIN t /\ t[j] = d
      BY <1>1, <1>2, <2>1, <2>2
    <3> QED BY <3>1 DEF ToSet
  <2>3. CASE ~(j < i)
    <3>1. j + 1 \in DOMAIN t /\ t[j + 1] = d
      BY <1>1, <1>2, <2>1, <2>3
    <3> QED BY <3>1 DEF ToSet
  <2> QED BY <2>2, <2>3
<1> QED BY <1>2, <1>4, <1>5, <1>6 DEF t

----------------------------------------------------------------------------
(* When the failures of a step leave nothing *)

LEMMA NothingFailing ==
  ASSUME failing' = {}
  PROVE  FailureTakesDependents'
BY DEF FailureTakesDependents

LEMMA FailuresCurrent ==
  ASSUME combos' = combos, runs' = runs,
         \A i \in DOMAIN cases' : cases'[i] \in failing' => Current(view', cases', i)
  PROVE  FailureTakesDependents'
BY DEF FailureTakesDependents, Current

LEMMA FailuresCut ==
  ASSUME combos' = combos,
         \A i \in DOMAIN cases' : cases'[i] \in failing' => Cut(view', cases', i)
  PROVE  FailureTakesDependents'
BY DEF FailureTakesDependents, Cut

----------------------------------------------------------------------------
(* Starting a job *)

LEMMA Prepared ==
  ASSUME IInv, NEW p \in Outcomes, NEW ready, Prepare(p, ready)
  PROVE  /\ cases' = CasesAfter(p) /\ CasesAfter(p) \in Seq(Cases) /\ IsInjective(CasesAfter(p))
         /\ empty' \in BOOLEAN
         /\ empty' => EX \in ToSet(cases')
         /\ stale' \in [results : BOOLEAN, design : BOOLEAN]
         /\ runs \in Nat /\ runs + 1 \in 1..MaxRuns /\ runs' = runs + 1
         /\ ViewAfter(p) \in GoodView(reported)
         /\ Emptied(p) \subseteq Cases
         /\ \A i \in DOMAIN CasesAfter(p) :
              CasesAfter(p)[i] \in Emptied(p) => Cut(ViewAfter(p), CasesAfter(p), i)
<1>0. TypeOK /\ view \in GoodView(reported)
  BY DEF IInv
<1>1. /\ cases \in Seq(Cases) /\ IsInjective(cases)
      /\ empty \in BOOLEAN
      /\ empty => EX \in ToSet(cases)
      /\ stale \in [results : BOOLEAN, design : BOOLEAN]
      /\ runs \in 0..MaxRuns /\ MaxRuns \in Nat /\ EX \in Cases
  BY <1>0, BoundsAssumption, CasesAssumption DEF TypeOK
<1>2. /\ cases' = CasesAfter(p) /\ CasesAfter(p) \in Seq(Cases) /\ IsInjective(CasesAfter(p))
      /\ EX \in ToSet(cases) => EX \in ToSet(CasesAfter(p))
  BY <1>1, CaseAppended DEF Prepare, CasesAfter
<1>3. empty' \in BOOLEAN /\ (empty' => EX \in ToSet(cases'))
  <2>1. p \in {"kept", "filled", "emptied"}
    BY DEF Outcomes
  <2>2. empty' = EmptyAfter(p)
    BY DEF Prepare
  <2>3. CASE p = "kept"
    <3>1. EmptyAfter(p) = empty
      BY <2>3 DEF EmptyAfter
    <3> QED BY <1>1, <1>2, <2>2, <3>1, Zenon
  <2>4. CASE p = "filled"
    <3>1. EmptyAfter(p) = FALSE
      BY <2>4 DEF EmptyAfter
    <3> QED BY <2>2, <3>1
  <2>5. CASE p = "emptied"
    <3>1. EmptyAfter(p) = (EX \in ToSet(cases))
      BY <2>5 DEF EmptyAfter
    <3>2. EmptyAfter(p) \in BOOLEAN
      BY <3>1
    <3> QED BY <1>2, <2>2, <3>1, <3>2, Zenon
  <2> QED BY <2>1, <2>3, <2>4, <2>5
<1>4. stale' \in [results : BOOLEAN, design : BOOLEAN]
  BY <1>1 DEF Prepare, AllStale
<1>5. runs \in Nat /\ runs + 1 \in 1..MaxRuns /\ runs' = runs + 1
  BY <1>1 DEF Prepare
<1>6. ViewAfter(p) \in GoodView(reported)
  BY <1>0, InvalidatedGood DEF ViewAfter
<1>7. Emptied(p) \subseteq Cases
  BY <1>1 DEF Emptied
<1>8. ASSUME NEW i \in DOMAIN CasesAfter(p), CasesAfter(p)[i] \in Emptied(p)
      PROVE  Cut(ViewAfter(p), CasesAfter(p), i)
  <2>1. p = "emptied" /\ CasesAfter(p)[i] = EX
    BY <1>8 DEF Emptied
  <2>2. CasesAfter(p) = cases /\ ViewAfter(p) = InvalidateCases(view, cases, PosIn(cases, EX))
    BY <2>1 DEF CasesAfter, ViewAfter
  <2>3. i \in DOMAIN cases /\ i \in PosIn(cases, EX)
    BY <1>8, <2>1, <2>2 DEF PosIn
  <2>4. view \in ViewRec
    BY <1>0 DEF GoodView
  <2> QED BY <2>2, <2>3, <2>4, InvalidatedCut
<1> QED BY <1>2, <1>3, <1>4, <1>5, <1>6, <1>7, <1>8

(* A job of the run that starts, with something to do. *)
Startable(j) ==
  /\ j \in JobRec /\ j.run = runs + 1
  /\ j.kind = "case" => j.solves # <<>>
  /\ j.kind = "combo" => j.names # <<>>

LEMMA StartKeeps ==
  ASSUME IInv, NEW p \in Outcomes, NEW ready, Prepare(p, ready),
         job' # None => Startable(job'),
         view' \in GoodView(reported), failing' \subseteq Cases,
         \A i \in DOMAIN CasesAfter(p) :
           CasesAfter(p)[i] \in failing' => Cut(view', CasesAfter(p), i)
  PROVE  IInv'
<1>1. /\ cases' = CasesAfter(p) /\ CasesAfter(p) \in Seq(Cases) /\ IsInjective(CasesAfter(p))
      /\ empty' \in BOOLEAN
      /\ empty' => EX \in ToSet(cases')
      /\ stale' \in [results : BOOLEAN, design : BOOLEAN]
      /\ runs' = runs + 1 /\ runs + 1 \in 1..MaxRuns
  BY Prepared
<1>2. UNCHANGED <<combos, floorsOk, term, file, reported, edits>>
  BY DEF Prepare
<1>3. view' \in ViewRec /\ view' \in GoodView(reported')
  BY <1>2 DEF GoodView
<1>4. TypeOK'
  <2>1. TypeOK
    BY DEF IInv
  <2>2. runs' \in 0..MaxRuns
    BY <1>1
  <2>3. job' \in JobRec \union {None}
    BY DEF Startable
  <2>4. /\ combos' \in Seq(Names) /\ floorsOk' \in BOOLEAN /\ term' \in {"long", "short"}
        /\ file' \in FileRec \union {None} /\ reported' \in BOOLEAN
        /\ edits' \in 0..MaxEdits
    BY <1>2, <2>1 DEF TypeOK
  <2>5. /\ cases' \in Seq(Cases) /\ IsInjective(cases')
        /\ empty' \in BOOLEAN
        /\ empty' => EX \in ToSet(cases')
        /\ stale' \in [results : BOOLEAN, design : BOOLEAN]
    BY <1>1
  <2> QED BY <1>3, <2>2, <2>3, <2>4, <2>5, Zenon DEF TypeOK
<1>5. JobInv'
  BY <1>1 DEF JobInv, Startable
<1>6. FileInv'
  BY <1>2 DEF IInv, FileInv
<1>7. FailureTakesDependents'
  BY <1>1, <1>2, FailuresCut
<1> QED BY <1>3, <1>4, <1>5, <1>6, <1>7 DEF IInv

LEMMA JobStartable ==
  ASSUME runs + 1 \in 1..MaxRuns, NEW kind \in {"case", "combo", "all", "other"},
         NEW solves \in Seq([key : StaticCaseKey, of : Cases]), NEW names \in Seq(Names),
         NEW exKeys \in SUBSET StaticCaseKey, NEW exNames \in SUBSET Names,
         kind = "case" => solves # <<>>, kind = "combo" => names # <<>>
  PROVE  Startable(Job(kind, solves, names, exKeys, exNames))
BY DEF Job, JobRec, Startable

LEMMA StartCaseKeeps ==
  ASSUME IInv, NEW p \in Outcomes, NEW ready \in BOOLEAN, NEW i \in DOMAIN cases,
         StartCase(p, ready, i)
  PROVE  IInv'
<1> DEFINE cs == CasesAfter(p)
           v == IF IsEmpty(p, cs[i]) THEN InvalidateCases(ViewAfter(p), cs, {i}) ELSE ViewAfter(p)
<1>1. /\ Prepare(p, ready)
      /\ job' = IF ready THEN Job("case", <<Solve(cs, i)>>, <<>>, {}, {}) ELSE None
      /\ view' = IF ready THEN v ELSE InvalidateCases(v, cs, {i})
      /\ failing' = Emptied(p) \union IF ready /\ ~IsEmpty(p, cs[i]) THEN {} ELSE {cs[i]}
  BY DEF StartCase
<1>2. /\ cs \in Seq(Cases) /\ IsInjective(cs) /\ Emptied(p) \subseteq Cases
      /\ runs + 1 \in 1..MaxRuns /\ ViewAfter(p) \in GoodView(reported)
      /\ \A j \in DOMAIN cs : cs[j] \in Emptied(p) => Cut(ViewAfter(p), cs, j)
  BY <1>1, Prepared
<1>3. i \in DOMAIN cs /\ cs[i] \in Cases
  <2>1. cases \in Seq(Cases)
    BY DEF IInv, TypeOK
  <2>2. cs = cases \/ cs = Append(cases, EX)
    BY DEF CasesAfter
  <2>3. i \in DOMAIN cs
    <3> HIDE DEF cs
    <3> QED BY <2>1, <2>2
  <2> HIDE DEF cs
  <2> QED BY <1>2, <2>3
<1> HIDE DEF cs
<1>4. job' # None => Startable(job')
  <2> DEFINE R == [key : StaticCaseKey, of : Cases]
  <2>1. Solve(cs, i) \in R
    BY <1>2, <1>3, KeysFit DEF Solve
  <2> HIDE DEF R
  <2>2. <<Solve(cs, i)>> \in Seq(R) /\ <<Solve(cs, i)>> # <<>>
    BY <2>1
  <2>3. <<>> \in Seq(Names)
    OBVIOUS
  <2> DEFINE j == Job("case", <<Solve(cs, i)>>, <<>>, {}, {})
  <2>4. Startable(j)
    BY <1>2, <2>2, <2>3, JobStartable DEF R
  <2> HIDE DEF j
  <2> QED BY <1>1, <2>4 DEF j
<1>5. v \in GoodView(reported) /\ InvalidateCases(v, cs, {i}) \in GoodView(reported)
  BY <1>2, InvalidatedGood
<1>6. view' \in GoodView(reported)
  BY <1>1, <1>5
<1>7. failing' \subseteq Cases
  BY <1>1, <1>2, <1>3
<1>8. ASSUME NEW j \in DOMAIN cs, cs[j] \in failing' PROVE Cut(view', cs, j)
  <2>1. ViewAfter(p) \in ViewRec /\ v \in ViewRec
    BY <1>2, <1>5 DEF GoodView
  <2>2. ASSUME NEW k, Cut(ViewAfter(p), cs, k) PROVE Cut(v, cs, k)
    BY <2>1, <2>2, InvalidatedKeepsCut
  <2> HIDE DEF v
  <2>3. CASE cs[j] \in Emptied(p)
    BY <1>1, <1>2, <2>1, <2>2, <2>3, InvalidatedKeepsCut
  <2>4. CASE cs[j] = cs[i] /\ ~(ready /\ ~IsEmpty(p, cs[i]))
    <3>1. j = i
      BY <1>2, <1>3, <2>4 DEF IsInjective
    <3>2. CASE ready
      <4>1. v = InvalidateCases(ViewAfter(p), cs, {i})
        BY <2>4, <3>2 DEF v
      <4> QED BY <1>1, <1>3, <2>1, <3>1, <3>2, <4>1, InvalidatedCut
    <3>3. CASE ~ready
      BY <1>1, <1>3, <2>1, <3>1, <3>3, InvalidatedCut
    <3> QED BY <3>2, <3>3
  <2> QED BY <1>1, <1>8, <2>3, <2>4
<1> QED BY <1>1, <1>4, <1>6, <1>7, <1>8, StartKeeps DEF cs

LEMMA StartComboKeeps ==
  ASSUME IInv, NEW p \in Outcomes, NEW ready \in BOOLEAN, NEW i \in DOMAIN combos,
         StartCombo(p, ready, i)
  PROVE  IInv'
<1> DEFINE cs == CasesAfter(p)
           solvable == ready /\ \A c \in Terms[combos[i]] : ~IsEmpty(p, c)
<1>1. /\ Prepare(p, ready)
      /\ job' = IF solvable THEN Job("combo", <<>>, <<combos[i]>>, {}, {}) ELSE None
      /\ view' = IF solvable THEN ViewAfter(p) ELSE Removed(ViewAfter(p), {}, {combos[i]})
      /\ failing' = Emptied(p)
  BY DEF StartCombo
<1> HIDE DEF cs, solvable
<1>2. /\ Emptied(p) \subseteq Cases
      /\ runs + 1 \in 1..MaxRuns /\ ViewAfter(p) \in GoodView(reported)
      /\ \A j \in DOMAIN cs : cs[j] \in Emptied(p) => Cut(ViewAfter(p), cs, j)
  BY <1>1, Prepared DEF cs
<1>3. job' # None => Startable(job')
  <2>1. combos[i] \in Names
    BY DEF IInv, TypeOK
  <2>2. <<combos[i]>> \in Seq(Names) /\ <<combos[i]>> # <<>>
    BY <2>1
  <2>3. <<>> \in Seq([key : StaticCaseKey, of : Cases])
    OBVIOUS
  <2> DEFINE j == Job("combo", <<>>, <<combos[i]>>, {}, {})
  <2>4. Startable(j)
    BY <1>2, <2>2, <2>3, JobStartable
  <2> HIDE DEF j
  <2> QED BY <1>1, <2>4 DEF j
<1>4. view' \in GoodView(reported)
  BY <1>1, <1>2, RemovedGood
<1>5. ASSUME NEW j \in DOMAIN cs, cs[j] \in failing' PROVE Cut(view', cs, j)
  <2>1. ViewAfter(p) \in ViewRec /\ Cut(ViewAfter(p), cs, j)
    BY <1>1, <1>2, <1>5 DEF GoodView
  <2> QED BY <1>1, <2>1, RemovedCut
<1> QED BY <1>1, <1>2, <1>3, <1>4, <1>5, StartKeeps DEF cs

LEMMA StartAllKeeps ==
  ASSUME IInv, NEW p \in Outcomes, NEW ready \in BOOLEAN, StartAll(p, ready)
  PROVE  IInv'
<1> DEFINE cs == CasesAfter(p)
           left == {i \in DOMAIN cs : IsEmpty(p, cs[i])}
           all == [i \in DOMAIN cs |-> Solve(cs, i)]
           exKeys == {KeyAt(cs, i) : i \in left} \union {User(i) : i \in left}
           exNames == Dependents(cs, left)
           go == ready /\ cs # <<>>
           solves == Only(all, DOMAIN cs \ left)
           names == Only(combos, {i \in DOMAIN combos : combos[i] \notin exNames})
<1>1. /\ Prepare(p, ready)
      /\ job' = IF go THEN Job("all", solves, names, exKeys, exNames) ELSE None
      /\ view' = IF go THEN ViewAfter(p) ELSE InvalidateAll(ViewAfter(p), cs)
      /\ failing' = Emptied(p) \union IF go THEN {} ELSE ToSet(cs)
  BY DEF StartAll
<1>2. /\ cs \in Seq(Cases) /\ IsInjective(cs) /\ Emptied(p) \subseteq Cases
      /\ runs + 1 \in 1..MaxRuns /\ ViewAfter(p) \in GoodView(reported)
      /\ \A j \in DOMAIN cs : cs[j] \in Emptied(p) => Cut(ViewAfter(p), cs, j)
  BY <1>1, Prepared
<1> HIDE DEF cs
<1>3. \A i \in DOMAIN cs : /\ cs[i] \in Cases
                           /\ KeyAt(cs, i) \in StaticCaseKey /\ User(i) \in StaticCaseKey
  <2>1. \A i \in DOMAIN cs : cs[i] \in Cases
    BY <1>2
  <2> QED BY <1>2, <2>1, KeysFit
<1>4. solves \in Seq([key : StaticCaseKey, of : Cases])
  <2> DEFINE R == [key : StaticCaseKey, of : Cases]
  <2>1. \A i \in DOMAIN cs : all[i] \in R
    BY <1>3 DEF Solve
  <2> HIDE DEF R
  <2>2. all \in Seq(R)
    <3>1. DOMAIN cs = 1..Len(cs) /\ Len(cs) \in Nat
      BY <1>2
    <3>2. \A i \in 1..Len(cs) : Solve(cs, i) \in R
      BY <2>1, <3>1
    <3>3. [i \in 1..Len(cs) |-> Solve(cs, i)] \in Seq(R)
      BY <3>1, <3>2
    <3> QED BY <3>1, <3>3
  <2> HIDE DEF all, left
  <2>3. Only(all, DOMAIN cs \ left) \in Seq(R)
    BY <2>2, OnlyPositions
  <2> QED BY <2>3 DEF R
<1>5. names \in Seq(Names)
  <2>1. combos \in Seq(Names)
    BY DEF IInv, TypeOK
  <2> DEFINE P == {i \in DOMAIN combos : combos[i] \notin exNames}
  <2> HIDE DEF P
  <2>2. Only(combos, P) \in Seq(Names)
    BY <2>1, OnlyPositions
  <2> QED BY <2>2 DEF P
<1>6. exKeys \in SUBSET StaticCaseKey /\ exNames \in SUBSET Names
  <2>1. ToSet(combos) \subseteq Names
    <3>1. combos \in Seq(Names)
      BY DEF IInv, TypeOK
    <3> QED BY <3>1 DEF ToSet
  <2> QED BY <1>3, <2>1 DEF Dependents
<1> HIDE DEF solves, names, exKeys, exNames, go
<1>7. job' # None => Startable(job')
  <2> DEFINE j == Job("all", solves, names, exKeys, exNames)
  <2>1. Startable(j)
    BY <1>2, <1>4, <1>5, <1>6, JobStartable
  <2> HIDE DEF j
  <2> QED BY <1>1, <2>1 DEF j
<1>8. /\ InvalidateAll(ViewAfter(p), cs) \in GoodView(reported)
      /\ \A j \in DOMAIN cs : Cut(InvalidateAll(ViewAfter(p), cs), cs, j)
  BY <1>2, AllInvalidated
<1>9. view' \in GoodView(reported)
  BY <1>1, <1>2, <1>8
<1>10. failing' \subseteq Cases
  <2>1. ToSet(cs) \subseteq Cases
    BY <1>3 DEF ToSet
  <2> QED BY <1>1, <1>2, <2>1
<1>11. ASSUME NEW j \in DOMAIN cs, cs[j] \in failing' PROVE Cut(view', cs, j)
  BY <1>1, <1>2, <1>8, <1>11
<1> QED BY <1>1, <1>7, <1>9, <1>10, <1>11, StartKeeps DEF cs

LEMMA StartOtherKeeps ==
  ASSUME IInv, NEW p \in Outcomes, NEW ready \in BOOLEAN, StartOther(p, ready)
  PROVE  IInv'
<1> DEFINE cs == CasesAfter(p)
<1> HIDE DEF cs
<1>1. /\ Prepare(p, ready) /\ view' = ViewAfter(p) /\ failing' = Emptied(p)
      /\ job' = IF ready THEN Job("other", <<>>, <<>>, {}, {}) ELSE None
  BY DEF StartOther
<1>2. /\ Emptied(p) \subseteq Cases
      /\ runs + 1 \in 1..MaxRuns /\ ViewAfter(p) \in GoodView(reported)
      /\ \A j \in DOMAIN cs : cs[j] \in Emptied(p) => Cut(ViewAfter(p), cs, j)
  BY <1>1, Prepared DEF cs
<1>3. job' # None => Startable(job')
  <2>1. <<>> \in Seq([key : StaticCaseKey, of : Cases]) /\ <<>> \in Seq(Names)
    OBVIOUS
  <2> DEFINE j == Job("other", <<>>, <<>>, {}, {})
  <2>2. Startable(j)
    BY <1>2, <2>1, JobStartable
  <2> HIDE DEF j
  <2> QED BY <1>1, <2>2 DEF j
<1> QED BY <1>1, <1>2, <1>3, StartKeeps DEF cs

----------------------------------------------------------------------------
(* The answer of a job *)

LEMMA AnswerKeeps ==
  ASSUME IInv, NEW kind, Answered(kind),
         view' \in GoodView(reported'), reported' \in BOOLEAN, term' \in {"long", "short"},
         stale' \in [results : BOOLEAN, design : BOOLEAN],
         failing' \subseteq Cases, FailureTakesDependents'
  PROVE  IInv'
<1>1. TypeOK /\ FileInv
  BY DEF IInv
<1>2. job' = None /\ UNCHANGED <<cases, combos, empty, floorsOk, file, runs, edits>>
  BY DEF Answered
<1>3. TypeOK'
  <2>1. view' \in ViewRec
    BY DEF GoodView
  <2>2. /\ cases' \in Seq(Cases) /\ IsInjective(cases')
        /\ combos' \in Seq(Names) /\ floorsOk' \in BOOLEAN
        /\ job' \in JobRec \union {None} /\ file' \in FileRec \union {None}
        /\ runs' \in 0..MaxRuns /\ edits' \in 0..MaxEdits
    BY <1>1, <1>2 DEF TypeOK
  <2>3. empty' \in BOOLEAN /\ (empty' => EX \in ToSet(cases'))
    BY <1>1, <1>2, Zenon DEF TypeOK
  <2> QED BY <2>1, <2>2, <2>3, Zenon DEF TypeOK
<1>4. JobInv'
  BY <1>2 DEF JobInv
<1>5. FileInv'
  BY <1>1, <1>2 DEF FileInv
<1> QED BY <1>3, <1>4, <1>5 DEF IInv

LEMMA AnswerFacts ==
  ASSUME IInv, NEW kind, Answered(kind)
  PROVE  /\ job \in JobRec /\ job.kind = kind /\ job.run = runs /\ runs \in 1..MaxRuns
         /\ kind = "case" => job.solves # <<>>
         /\ kind = "combo" => job.names # <<>>
         /\ job.solves \in Seq([key : StaticCaseKey, of : Cases])
         /\ job.names \in Seq(Names)
         /\ cases \in Seq(Cases) /\ IsInjective(cases)
         /\ floorsOk \in BOOLEAN /\ term \in {"long", "short"} /\ reported \in BOOLEAN
         /\ stale \in [results : BOOLEAN, design : BOOLEAN]
         /\ view \in GoodView(reported) /\ view \in ViewRec /\ Unique(view)
         /\ cases' = cases /\ combos' = combos /\ runs' = runs
<1>1. TypeOK /\ view \in GoodView(reported) /\ JobInv
  BY DEF IInv
<1>2. job # None /\ job.kind = kind /\ cases' = cases /\ combos' = combos /\ runs' = runs
  BY DEF Answered
<1>3. job \in JobRec /\ runs \in 0..MaxRuns
  BY <1>1, <1>2 DEF TypeOK
<1>4. /\ job.run = runs /\ job.run \in 1..MaxRuns
      /\ kind = "case" => job.solves # <<>>
      /\ kind = "combo" => job.names # <<>>
      /\ job.solves \in Seq([key : StaticCaseKey, of : Cases])
      /\ job.names \in Seq(Names)
  BY <1>1, <1>2, <1>3 DEF JobInv, JobRec
<1>5. /\ cases \in Seq(Cases) /\ IsInjective(cases)
      /\ floorsOk \in BOOLEAN /\ term \in {"long", "short"} /\ reported \in BOOLEAN
      /\ stale \in [results : BOOLEAN, design : BOOLEAN]
  BY <1>1, Zenon DEF TypeOK
<1>6. view \in ViewRec /\ Unique(view)
  BY <1>1 DEF GoodView
<1> QED BY <1>1, <1>2, <1>3, <1>4, <1>5, <1>6

LEMMA FreshTyped ==
  /\ Fresh \in [results : BOOLEAN, design : BOOLEAN]
  /\ AllStale \in [results : BOOLEAN, design : BOOLEAN]
BY DEF Fresh, AllStale

LEMMA SolveTyped ==
  ASSUME NEW solves \in Seq([key : StaticCaseKey, of : Cases]), NEW m \in 1..Len(solves)
  PROVE  solves[m].key \in StaticCaseKey /\ solves[m].of \in Cases
<1> DEFINE R == [key : StaticCaseKey, of : Cases]
<1>1. solves[m] \in R
  <2>1. solves \in Seq(R)
    OBVIOUS
  <2> HIDE DEF R
  <2> QED BY <2>1, ElementOfSeq
<1> QED BY <1>1

LEMMA CaseSolvedKeeps ==
  ASSUME IInv, CaseSolved
  PROVE  IInv'
<1> DEFINE e == job.solves[1]
           w == StoreCase(view, e.key, Result(e.of))
<1>1. /\ Answered("case") /\ Display(w, CaseSel(e.key))
      /\ stale' = Fresh /\ failing' = {}
  BY DEF CaseSolved
<1>2. /\ job.run = runs /\ runs \in 1..MaxRuns /\ job.solves # <<>>
      /\ job.solves \in Seq([key : StaticCaseKey, of : Cases])
      /\ floorsOk \in BOOLEAN /\ term \in {"long", "short"}
      /\ view \in ViewRec /\ Unique(view)
  BY <1>1, AnswerFacts
<1>3. e.key \in StaticCaseKey /\ e.of \in Cases
  <2>1. 1 \in 1..Len(job.solves)
    BY <1>2, EmptySeq
  <2> QED BY <1>2, <2>1, SolveTyped
<1> HIDE DEF e
<1>4. Result(e.of) \in Res /\ Result(e.of).run = runs
  BY <1>2, <1>3, ResultTyped
<1>5. view \in Storing(cases, {})
  BY <1>2 DEF Storing
<1>6. w \in Storing(cases, {}) /\ Resolve(w, CaseSel(e.key)) = Result(e.of)
  BY <1>3, <1>4, <1>5, CaseStored
<1> HIDE DEF w
<1>7. w \in ViewRec /\ Unique(w) /\ Resolve(w, CaseSel(e.key)) # None
  BY <1>4, <1>6, NoneAssumption DEF Storing
<1>8. CaseSel(e.key) \in Sel
  BY <1>3 DEF Sel
<1>9. view' \in GoodView(reported') /\ reported' \in BOOLEAN /\ term' \in {"long", "short"}
  BY <1>1, <1>2, <1>7, <1>8, Displayed
<1> QED BY <1>1, <1>9, FreshTyped, NothingFailing, AnswerKeeps

(* A case that failed under the key it has now is among those that failed. *)
LEMMA UnsolvedAt ==
  ASSUME IsInjective(cases), NEW L, NEW i \in DOMAIN cases, cases[i] \in Unsolved(L)
  PROVE  Solve(cases, i) \in L
<1>1. PICK e \in L : cases[i] = e.of /\ \E k \in DOMAIN cases : e = Solve(cases, k)
  BY DEF Unsolved
<1>2. PICK k \in DOMAIN cases : e = Solve(cases, k)
  BY <1>1
<1>3. cases[k] = cases[i]
  BY <1>1, <1>2 DEF Solve
<1> QED BY <1>1, <1>2, <1>3 DEF IsInjective

LEMMA UnsolvedTyped ==
  ASSUME NEW L, cases \in Seq(Cases)
  PROVE  Unsolved(L) \subseteq Cases
<1>1. ASSUME NEW e \in L, NEW k \in DOMAIN cases, e = Solve(cases, k) PROVE e.of \in Cases
  <2>1. cases[k] \in Cases
    OBVIOUS
  <2> QED BY <1>1, <2>1 DEF Solve
<1> QED BY <1>1 DEF Unsolved

LEMMA CaseFailedKeeps ==
  ASSUME IInv, CaseFailed
  PROVE  IInv'
<1> DEFINE e == job.solves[1]
<1> HIDE DEF e
<1>1. /\ Answered("case") /\ view' = InvalidateKey(view, cases, e.key)
      /\ failing' = Unsolved({e}) /\ UNCHANGED <<term, stale, reported>>
  BY DEF CaseFailed, e
<1>2. /\ cases \in Seq(Cases) /\ IsInjective(cases) /\ term \in {"long", "short"}
      /\ stale \in [results : BOOLEAN, design : BOOLEAN] /\ reported \in BOOLEAN
      /\ view \in GoodView(reported) /\ view \in ViewRec
      /\ cases' = cases /\ combos' = combos
  BY <1>1, AnswerFacts
<1>3. view' \in GoodView(reported')
  BY <1>1, <1>2, KeyInvalidatedGood
<1>4. ASSUME NEW i \in DOMAIN cases, cases[i] \in failing' PROVE Cut(view', cases, i)
  <2>1. Solve(cases, i) = e
    BY <1>1, <1>2, <1>4, UnsolvedAt
  <2>2. e.key = KeyAt(cases, i)
    BY <2>1 DEF Solve
  <2> QED BY <1>1, <1>2, <2>2, KeyInvalidatedCut
<1>5. FailureTakesDependents'
  BY <1>2, <1>4, FailuresCut
<1>6. failing' \subseteq Cases
  BY <1>1, <1>2, UnsolvedTyped
<1> QED BY <1>1, <1>2, <1>3, <1>5, <1>6, AnswerKeeps

LEMMA ComboSolvedKeeps ==
  ASSUME IInv, ComboSolved
  PROVE  IInv'
<1> DEFINE name == job.names[1]
           w == StoreCombo(view, name, Result(name))
           sel == ComboSel(ComboPos(view, name))
<1> HIDE DEF name, sel
<1>1. /\ Answered("combo") /\ Display(w, sel) /\ stale' = Fresh /\ failing' = {}
  BY DEF ComboSolved, name, sel
<1>2. /\ job.run = runs /\ runs \in 1..MaxRuns /\ job.names # <<>> /\ job.names \in Seq(Names)
      /\ floorsOk \in BOOLEAN /\ term \in {"long", "short"}
      /\ view \in ViewRec /\ Unique(view)
  BY <1>1, AnswerFacts
<1>3. name \in Names
  <2>1. 1 \in 1..Len(job.names)
    BY <1>2, EmptySeq
  <2> QED BY <1>2, <2>1, ElementOfSeq DEF name
<1>4. Result(name) \in Res /\ Result(name).run = runs
  BY <1>2, <1>3, ResultTyped
<1>5. view \in Storing(cases, {})
  BY <1>2 DEF Storing
<1>6. w \in Storing(cases, {}) /\ sel \in Sel /\ Resolve(w, sel) # None
  BY <1>3, <1>4, <1>5, ComboStored DEF sel
<1> HIDE DEF w
<1>7. w \in ViewRec /\ Unique(w)
  BY <1>6 DEF Storing
<1>8. view' \in GoodView(reported') /\ reported' \in BOOLEAN /\ term' \in {"long", "short"}
  BY <1>1, <1>2, <1>6, <1>7, Displayed
<1> QED BY <1>1, <1>8, FreshTyped, NothingFailing, AnswerKeeps

LEMMA ComboFailedKeeps ==
  ASSUME IInv, ComboFailed
  PROVE  IInv'
<1>1. /\ Answered("combo") /\ view' = Removed(view, {}, {job.names[1]})
      /\ failing' = {} /\ UNCHANGED <<term, stale, reported>>
  BY DEF ComboFailed
<1>2. /\ term \in {"long", "short"} /\ reported \in BOOLEAN
      /\ stale \in [results : BOOLEAN, design : BOOLEAN] /\ view \in GoodView(reported)
  BY <1>1, AnswerFacts
<1>3. view' \in GoodView(reported')
  BY <1>1, <1>2, RemovedGood
<1> QED BY <1>1, <1>2, <1>3, NothingFailing, AnswerKeeps

LEMMA AllFailedKeeps ==
  ASSUME IInv, AllFailed
  PROVE  IInv'
<1> DEFINE w == Removed(view, job.exKeys, job.exNames)
<1>1. /\ Answered("all") /\ view' = InvalidateAll(w, cases)
      /\ failing' = Unsolved(ToSet(job.solves)) /\ UNCHANGED <<term, stale, reported>>
  BY DEF AllFailed
<1>2. /\ cases \in Seq(Cases) /\ term \in {"long", "short"}
      /\ stale \in [results : BOOLEAN, design : BOOLEAN] /\ reported \in BOOLEAN
      /\ view \in GoodView(reported)
      /\ cases' = cases /\ combos' = combos
  BY <1>1, AnswerFacts
<1>3. w \in GoodView(reported)
  BY <1>2, RemovedGood
<1> HIDE DEF w
<1>4. view' \in GoodView(reported') /\ \A i \in DOMAIN cases : Cut(view', cases, i)
  BY <1>1, <1>3, AllInvalidated
<1>5. FailureTakesDependents'
  BY <1>2, <1>4, FailuresCut
<1>6. failing' \subseteq Cases
  BY <1>1, <1>2, UnsolvedTyped
<1> QED BY <1>1, <1>2, <1>4, <1>5, <1>6, AnswerKeeps

LEMMA OtherAnsweredKeeps ==
  ASSUME IInv, NEW ok \in BOOLEAN, OtherAnswered(ok)
  PROVE  IInv'
<1>1. /\ Answered("other") /\ stale' = IF ok THEN Fresh ELSE stale
      /\ failing' = {} /\ UNCHANGED <<view, term, reported>>
  BY DEF OtherAnswered
<1>2. /\ term \in {"long", "short"} /\ reported \in BOOLEAN
      /\ stale \in [results : BOOLEAN, design : BOOLEAN] /\ view \in GoodView(reported)
  BY <1>1, AnswerFacts
<1> QED BY <1>1, <1>2, FreshTyped, NothingFailing, AnswerKeeps

LEMMA AllAnsweredKeeps ==
  ASSUME IInv, NEW solved, AllAnswered(solved)
  PROVE  IInv'
<1> DEFINE solves == Only(job.solves, {i \in DOMAIN job.solves : job.solves[i].of \in solved})
           names == Only(job.names, {i \in DOMAIN job.names : Terms[job.names[i]] \subseteq solved})
           base == BatchRemoved(solved, ToSet(names))
           mid == CasesStored(base, solves)
           v == CombosStored(mid, names)
           lost == {e \in ToSet(job.solves) : e.of \notin solved}
           F == {i \in DOMAIN cases : cases[i] \in failing'}
           last == ComboSel(ComboPos(v, Last(names)))
           key == Last(solves).key
<1>1. /\ Answered("all") /\ failing' = Unsolved(lost)
      /\ \/ names # <<>> /\ Display(v, last) /\ stale' = Fresh
         \/ names = <<>> /\ solves # <<>> /\ Display(v, CaseSel(key)) /\ stale' = Fresh
         \/ names = <<>> /\ solves = <<>> /\ view' = v /\ UNCHANGED <<term, stale, reported>>
  BY DEF AllAnswered
<1>2. /\ job.run = runs /\ runs \in 1..MaxRuns
      /\ job.solves \in Seq([key : StaticCaseKey, of : Cases]) /\ job.names \in Seq(Names)
      /\ cases \in Seq(Cases) /\ IsInjective(cases)
      /\ floorsOk \in BOOLEAN /\ term \in {"long", "short"} /\ reported \in BOOLEAN
      /\ stale \in [results : BOOLEAN, design : BOOLEAN]
      /\ view \in GoodView(reported)
      /\ cases' = cases /\ combos' = combos /\ runs' = runs
  BY <1>1, AnswerFacts
<1>3. solves \in Seq([key : StaticCaseKey, of : Cases])
  <2> DEFINE R == [key : StaticCaseKey, of : Cases]
             P == {i \in DOMAIN job.solves : job.solves[i].of \in solved}
  <2>1. job.solves \in Seq(R)
    BY <1>2
  <2> HIDE DEF R, P
  <2>2. Only(job.solves, P) \in Seq(R)
    BY <2>1, OnlyPositions
  <2> QED BY <2>2 DEF R, P
<1>4. names \in Seq(Names)
  <2> DEFINE P == {i \in DOMAIN job.names : Terms[job.names[i]] \subseteq solved}
  <2> HIDE DEF P
  <2>1. Only(job.names, P) \in Seq(Names)
    BY <1>2, OnlyPositions
  <2> QED BY <2>1 DEF P
<1> HIDE DEF solves, names
<1>5. /\ base \in GoodView(reported)
      /\ \A i \in F : Cut(base, cases, i)
  <2> DEFINE w == Spared(solved)
  <2>1. Len(job.solves) \in Nat /\ DOMAIN job.solves = 1..Len(job.solves)
    BY <1>2
  <2>2. /\ w \in GoodView(reported)
        /\ \A m \in 1..Len(job.solves), i \in DOMAIN cases :
             job.solves[m].of \notin solved /\ job.solves[m] = Solve(cases, i) => Cut(w, cases, i)
    BY <1>2, <2>1, SparedGood
  <2> HIDE DEF w
  <2>3. ASSUME NEW i \in F PROVE Cut(w, cases, i)
    <3>1. Solve(cases, i) \in lost
      BY <1>1, <1>2, UnsolvedAt
    <3>2. PICK m \in 1..Len(job.solves) : job.solves[m] = Solve(cases, i)
      BY <2>1, <3>1 DEF ToSet
    <3> QED BY <2>2, <3>1, <3>2
  <2>4. w \in ViewRec
    BY <2>2 DEF GoodView
  <2> QED BY <2>2, <2>3, <2>4, RemovedGood, RemovedCut DEF BatchRemoved, w
<1>6. base \in Storing(cases, F)
  BY <1>5, CutIsCurrent DEF Storing, GoodView
<1> HIDE DEF base, F
<1>7. /\ mid \in Storing(cases, F)
      /\ solves # <<>> => Resolve(mid, CaseSel(key)) # None
      /\ solves = <<>> => mid = base
  BY <1>2, <1>3, <1>6, CasesStoredGood
<1> HIDE DEF mid
<1>8. /\ v \in Storing(cases, F)
      /\ names # <<>> => last \in Sel /\ Resolve(v, last) # None
      /\ names = <<>> => v = mid
  BY <1>2, <1>4, <1>7, CombosStoredGood
<1> HIDE DEF v, last
<1>9. v \in ViewRec /\ Unique(v) /\ \A i \in F : Current(v, cases, i)
  BY <1>8 DEF Storing
<1>10. /\ view' \in GoodView(reported') /\ reported' \in BOOLEAN /\ term' \in {"long", "short"}
       /\ stale' \in [results : BOOLEAN, design : BOOLEAN]
       /\ view'.statics = v.statics /\ view'.combos = v.combos
  <2>1. CASE names # <<>> /\ Display(v, last) /\ stale' = Fresh
    BY <1>2, <1>8, <1>9, <2>1, Displayed, FreshTyped
  <2>2. CASE names = <<>> /\ solves # <<>> /\ Display(v, CaseSel(key)) /\ stale' = Fresh
    <3>1. Len(solves) \in 1..Len(solves)
      BY <1>3, <2>2, EmptySeq
    <3>2. CaseSel(key) \in Sel
      BY <1>3, <3>1, SolveTyped DEF Last, Sel
    <3>3. Resolve(v, CaseSel(key)) # None
      BY <1>7, <1>8, <2>2
    <3> HIDE DEF key
    <3> QED BY <1>2, <1>9, <2>2, <3>2, <3>3, Displayed, FreshTyped
  <2>3. CASE names = <<>> /\ solves = <<>> /\ view' = v /\ UNCHANGED <<term, stale, reported>>
    BY <1>2, <1>5, <1>7, <1>8, <2>3
  <2> QED BY <1>1, <2>1, <2>2, <2>3
<1>11. FailureTakesDependents'
  <2>1. \A i \in F : Current(view', cases, i)
    BY <1>9, <1>10 DEF Current
  <2>2. \A i \in DOMAIN cases' : cases'[i] \in failing' => Current(view', cases', i)
    BY <1>2, <2>1 DEF F
  <2> QED BY <1>2, <2>2, FailuresCurrent
<1>12. failing' \subseteq Cases
  BY <1>1, <1>2, UnsolvedTyped
<1> QED BY <1>1, <1>10, <1>11, <1>12, AnswerKeeps

----------------------------------------------------------------------------
(* The user *)

LEMMA LookKeeps ==
  ASSUME IInv, view' \in GoodView(reported'), reported' \in BOOLEAN, term' \in {"long", "short"},
         failing' = {},
         UNCHANGED <<cases, combos, empty, floorsOk, stale, job, file, runs, edits>>
  PROVE  IInv'
<1>1. TypeOK /\ JobInv /\ FileInv
  BY DEF IInv
<1>2. TypeOK'
  <2>1. view' \in ViewRec /\ failing' \subseteq Cases
    BY DEF GoodView
  <2>2. /\ cases' \in Seq(Cases) /\ IsInjective(cases')
        /\ combos' \in Seq(Names) /\ floorsOk' \in BOOLEAN
        /\ stale' \in [results : BOOLEAN, design : BOOLEAN]
        /\ job' \in JobRec \union {None} /\ file' \in FileRec \union {None}
        /\ runs' \in 0..MaxRuns /\ edits' \in 0..MaxEdits
    BY <1>1 DEF TypeOK
  <2>3. empty' \in BOOLEAN /\ (empty' => EX \in ToSet(cases'))
    BY <1>1, Zenon DEF TypeOK
  <2> QED BY <2>1, <2>2, <2>3, Zenon DEF TypeOK
<1>3. JobInv' /\ FileInv'
  BY <1>1 DEF JobInv, FileInv
<1> QED BY <1>2, <1>3, NothingFailing DEF IInv

LEMMA ViewFacts ==
  ASSUME IInv
  PROVE  /\ view \in ViewRec /\ Unique(view) /\ Shows(view) /\ view \in GoodView(reported)
         /\ floorsOk \in BOOLEAN /\ term \in {"long", "short"} /\ reported \in BOOLEAN
BY DEF IInv, TypeOK, GoodView

LEMMA SelectKeeps ==
  ASSUME IInv, NEW sel \in Sel, Resolve(view, sel) # None, Select(sel)
  PROVE  IInv'
<1>1. /\ Display(view, sel) /\ failing' = {}
      /\ UNCHANGED <<cases, combos, empty, floorsOk, stale, job, file, runs, edits>>
  BY DEF Select
<1>2. view' \in GoodView(reported') /\ reported' \in BOOLEAN /\ term' \in {"long", "short"}
  BY <1>1, ViewFacts, Displayed
<1> QED BY <1>1, <1>2, LookKeeps

(* A stored result can be selected. *)
LEMMA Selectable ==
  ASSUME IInv
  PROVE  /\ \A k \in DOMAIN view.statics :
              CaseSel(k) \in Sel /\ Resolve(view, CaseSel(k)) # None
         /\ \A i \in DOMAIN view.combos :
              ComboSel(i) \in Sel /\ Resolve(view, ComboSel(i)) # None
<1>1. view \in ViewRec /\ Unique(view)
  BY ViewFacts
<1>2. ASSUME NEW k \in DOMAIN view.statics
      PROVE  CaseSel(k) \in Sel /\ Resolve(view, CaseSel(k)) # None
  <2>1. PICK K \in SUBSET StaticCaseKey : view.statics \in [K -> Res]
    BY <1>1 DEF ViewRec, Statics
  <2>2. k \in StaticCaseKey /\ view.statics[k] \in Res
    BY <2>1
  <2>3. CaseSel(k) \in Sel /\ CaseSel(k) # None
    BY <2>2, NoneAssumption DEF Sel
  <2>4. Resolve(view, CaseSel(k)) = view.statics[k]
    BY <2>3 DEF Resolve, CaseSel
  <2> QED BY <2>2, <2>3, <2>4, NoneAssumption
<1>3. ASSUME NEW i \in DOMAIN view.combos
      PROVE  ComboSel(i) \in Sel /\ Resolve(view, ComboSel(i)) # None
  <2>1. /\ Len(view.combos) <= Cardinality(Names) /\ Len(view.combos) \in Nat
        /\ DOMAIN view.combos = 1..Len(view.combos) /\ view.combos[i].res \in Res
    BY <1>1, UniqueBound, CombosTyped
  <2>2. i \in 1..Cardinality(Names)
    BY <2>1, ConstantsFinite
  <2>3. ComboSel(i) \in Sel /\ ComboSel(i) # None
    BY <2>2, NoneAssumption DEF Sel
  <2>4. Resolve(view, ComboSel(i)) = view.combos[i].res
    BY <2>3 DEF Resolve, ComboSel
  <2> QED BY <2>1, <2>3, <2>4, NoneAssumption
<1> QED BY <1>2, <1>3

(* Forgetting a selection disturbs nothing. *)
LEMMA Forgotten ==
  ASSUME NEW r, NEW v \in GoodView(r)
  PROVE  [v EXCEPT !.focus = None] \in GoodView(r) /\ [v EXCEPT !.last = None] \in GoodView(r)
<1> DEFINE a == [v EXCEPT !.focus = None]
           b == [v EXCEPT !.last = None]
<1>0. v \in ViewRec /\ Unique(v) /\ Shows(v) /\ ChecksFit(v, r)
  BY DEF GoodView
<1>1. /\ a \in ViewRec /\ a.statics = v.statics /\ a.combos = v.combos /\ a.forces = v.forces
      /\ a.checks = v.checks /\ a.last = v.last /\ a.focus = None
  BY <1>0 DEF ViewRec
<1>2. /\ b \in ViewRec /\ b.statics = v.statics /\ b.combos = v.combos /\ b.forces = v.forces
      /\ b.checks = v.checks /\ b.last = None /\ b.focus = v.focus
  BY <1>0 DEF ViewRec
<1> HIDE DEF a, b
<1>3. a \in GoodView(r)
  BY <1>0, <1>1 DEF GoodView, Unique, Shows, ChecksFit, Resolve
<1>4. b \in GoodView(r)
  BY <1>0, <1>2 DEF GoodView, Unique, Shows, ChecksFit, Resolve
<1> QED BY <1>3, <1>4 DEF a, b

LEMMA ChooseKeeps ==
  ASSUME IInv, Choose
  PROVE  IInv'
<1>1. CASE \E k \in DOMAIN view.statics : Select(CaseSel(k))
  BY <1>1, Selectable, SelectKeeps
<1>2. CASE \E i \in DOMAIN view.combos : Select(ComboSel(i))
  BY <1>2, Selectable, SelectKeeps
<1>3. CASE LookElsewhere
  <2>1. /\ view' = [view EXCEPT !.focus = None] /\ failing' = {}
        /\ UNCHANGED <<cases, combos, empty, floorsOk, term, stale, job, file, reported, runs, edits>>
    BY <1>3 DEF LookElsewhere
  <2>2. view' \in GoodView(reported')
    BY <2>1, ViewFacts, Forgotten
  <2> QED BY <2>1, <2>2, ViewFacts, LookKeeps
<1>4. CASE Redesign
  <2>1. /\ DesignCheck(view, term) /\ failing' = {}
        /\ UNCHANGED <<cases, combos, empty, floorsOk, stale, job, file, runs, edits>>
    BY <1>4 DEF Redesign
  <2>2. view' \in GoodView(reported') /\ reported' \in BOOLEAN /\ term' \in {"long", "short"}
    BY <2>1, ViewFacts, DesignChecked
  <2> QED BY <2>1, <2>2, LookKeeps
<1> QED BY <1>1, <1>2, <1>3, <1>4 DEF Choose

LEMMA EditKeeps ==
  ASSUME IInv, Edited, view' \in GoodView(reported),
         cases' \in Seq(Cases), IsInjective(cases'), combos' \in Seq(Names),
         empty' \in BOOLEAN, empty' => EX \in ToSet(cases'), floorsOk' \in BOOLEAN
  PROVE  IInv'
<1>1. TypeOK /\ JobInv /\ FileInv
  BY DEF IInv
<1>2. /\ edits < MaxEdits /\ edits' = edits + 1 /\ stale' = AllStale /\ failing' = {}
      /\ term' = term /\ job' = job /\ file' = file /\ reported' = reported /\ runs' = runs
  BY DEF Edited
<1>3. TypeOK'
  <2>1. view' \in ViewRec /\ failing' \subseteq Cases
    BY <1>2 DEF GoodView
  <2>2. stale' \in [results : BOOLEAN, design : BOOLEAN]
    BY <1>2, FreshTyped
  <2>3. edits' \in 0..MaxEdits
    BY <1>1, <1>2, BoundsAssumption DEF TypeOK
  <2>4. /\ term' \in {"long", "short"} /\ reported' \in BOOLEAN
        /\ job' \in JobRec \union {None} /\ file' \in FileRec \union {None}
        /\ runs' \in 0..MaxRuns
    BY <1>1, <1>2 DEF TypeOK
  <2> QED BY <2>1, <2>2, <2>3, <2>4, Zenon DEF TypeOK
<1>4. JobInv' /\ FileInv' /\ view' \in GoodView(reported')
  BY <1>1, <1>2 DEF JobInv, FileInv
<1> QED BY <1>2, <1>3, <1>4, NothingFailing DEF IInv

LEMMA ModelFacts ==
  ASSUME IInv
  PROVE  /\ cases \in Seq(Cases) /\ IsInjective(cases) /\ combos \in Seq(Names)
         /\ empty \in BOOLEAN /\ floorsOk \in BOOLEAN
         /\ empty => EX \in ToSet(cases)
BY Zenon DEF IInv, TypeOK

LEMMA DeleteCaseKeeps ==
  ASSUME IInv, NEW i \in DOMAIN cases, NEW undone \in BOOLEAN, DeleteCase(i, undone)
  PROVE  IInv'
<1>1. /\ Edited /\ cases' = RemoveAt(cases, i) /\ empty' = (empty /\ cases[i] # EX)
      /\ view' = IF ~undone /\ view.last = CaseSel(User(i))
                 THEN [view EXCEPT !.last = None] ELSE view
      /\ combos' = combos /\ floorsOk' = floorsOk
  BY DEF DeleteCase
<1>2. view' \in GoodView(reported)
  BY <1>1, ViewFacts, Forgotten
<1>3. /\ cases' \in Seq(Cases) /\ IsInjective(cases')
      /\ \A c \in ToSet(cases) : c # cases[i] => c \in ToSet(cases')
  BY <1>1, ModelFacts, CaseRemoved
<1>4. empty' \in BOOLEAN
  BY <1>1
<1>5. empty' => EX \in ToSet(cases')
  BY <1>1, <1>3, ModelFacts
<1>6. combos' \in Seq(Names) /\ floorsOk' \in BOOLEAN
  BY <1>1, ModelFacts
<1> QED BY <1>1, <1>2, <1>3, <1>4, <1>5, <1>6, EditKeeps

LEMMA InsertCaseKeeps ==
  ASSUME IInv, NEW i \in 1..(Len(cases) + 1), NEW c \in Cases, NEW e \in BOOLEAN,
         InsertCase(i, c, e)
  PROVE  IInv'
<1>1. /\ c \notin ToSet(cases) /\ Edited /\ cases' = InsertAt(cases, i, c)
      /\ empty' = IF c = EX THEN e ELSE empty
      /\ combos' = combos /\ floorsOk' = floorsOk /\ view' = view
  BY DEF InsertCase
<1>2. view' \in GoodView(reported)
  BY <1>1, ViewFacts
<1>3. /\ cases' \in Seq(Cases) /\ IsInjective(cases')
      /\ c \in ToSet(cases') /\ ToSet(cases) \subseteq ToSet(cases')
  BY <1>1, ModelFacts, CaseInserted
<1>4. empty' \in BOOLEAN /\ (empty' => EX \in ToSet(cases'))
  <2>1. CASE c = EX
    <3>1. empty' = e
      BY <1>1, <2>1
    <3> QED BY <1>3, <2>1, <3>1, Zenon
  <2>2. CASE c # EX
    <3>1. empty' = empty
      BY <1>1, <2>2
    <3>2. EX \in ToSet(cases) => EX \in ToSet(cases')
      BY <1>3
    <3> QED BY <3>1, <3>2, ModelFacts, Zenon
  <2> QED BY <2>1, <2>2
<1>5. combos' \in Seq(Names) /\ floorsOk' \in BOOLEAN
  BY <1>1, ModelFacts
<1> QED BY <1>1, <1>2, <1>3, <1>4, <1>5, EditKeeps

LEMMA OtherEditsKeep ==
  ASSUME IInv, Edited, cases' = cases, empty' = empty, view' = view,
         combos' \in Seq(Names), floorsOk' \in BOOLEAN
  PROVE  IInv'
<1>1. empty' \in BOOLEAN /\ (empty' => EX \in ToSet(cases'))
  BY ModelFacts, Zenon
<1>2. cases' \in Seq(Cases) /\ IsInjective(cases') /\ view' \in GoodView(reported)
  BY ModelFacts, ViewFacts
<1> QED BY <1>1, <1>2, EditKeeps

LEMMA UserEditKeeps ==
  ASSUME IInv, Edit
  PROVE  IInv'
<1>1. CASE \E i \in DOMAIN cases, undone \in BOOLEAN : DeleteCase(i, undone)
  BY <1>1, DeleteCaseKeeps
<1>2. CASE \E i \in 1..(Len(cases) + 1), c \in Cases, e \in BOOLEAN : InsertCase(i, c, e)
  BY <1>2, InsertCaseKeeps
<1>3. ASSUME NEW n \in Names, AddCombination(n) PROVE IInv'
  <2>1. /\ Edited /\ combos' = Append(combos, n) /\ cases' = cases /\ empty' = empty
        /\ floorsOk' = floorsOk /\ view' = view
    BY <1>3 DEF AddCombination
  <2>2. combos' \in Seq(Names) /\ floorsOk' \in BOOLEAN
    BY <2>1, ModelFacts
  <2> QED BY <2>1, <2>2, OtherEditsKeep
<1>4. ASSUME NEW i \in DOMAIN combos, DeleteCombination(i) PROVE IInv'
  <2>1. /\ Edited /\ combos' = RemoveAt(combos, i) /\ cases' = cases /\ empty' = empty
        /\ floorsOk' = floorsOk /\ view' = view
    BY <1>4 DEF DeleteCombination
  <2>2. RemoveAt(combos, i) \in Seq(Names)
    BY ModelFacts, ConcatProperties DEF RemoveAt
  <2>3. combos' \in Seq(Names) /\ floorsOk' \in BOOLEAN
    BY <2>1, <2>2, ModelFacts
  <2> QED BY <2>1, <2>3, OtherEditsKeep
<1>5. CASE EditFloors
  <2>1. /\ Edited /\ floorsOk' = ~floorsOk /\ cases' = cases /\ combos' = combos
        /\ empty' = empty /\ view' = view
    BY <1>5 DEF EditFloors
  <2>2. combos' \in Seq(Names) /\ floorsOk' \in BOOLEAN
    BY <2>1, ModelFacts
  <2> QED BY <2>1, <2>2, OtherEditsKeep
<1> QED BY <1>1, <1>2, <1>3, <1>4, <1>5 DEF Edit

----------------------------------------------------------------------------
(* The project file *)

LEMMA NoViewGood ==
  ASSUME NEW r
  PROVE  NoView \in GoodView(r)
<1>1. /\ NoView.statics = <<>> /\ NoView.combos = <<>> /\ NoView.forces = None
      /\ NoView.checks = None /\ NoView.last = None /\ NoView.focus = None
  BY DEF NoView
<1>2. <<>> \in Statics
  <2>1. DOMAIN <<>> = {} /\ <<>> = [k \in {} |-> None]
    OBVIOUS
  <2>2. [k \in {} |-> None] \in [{} -> Res]
    OBVIOUS
  <2>3. {} \in SUBSET StaticCaseKey
    OBVIOUS
  <2> QED BY <2>1, <2>2, <2>3 DEF Statics
<1>3. NoView \in ViewRec
  <2>1. <<>> \in Seq([name : Names, res : Res])
    OBVIOUS
  <2> QED BY <1>2, <2>1 DEF NoView, ViewRec
<1> QED BY <1>1, <1>3 DEF GoodView, Unique, Shows, ChecksFit

LEMMA SaveKeeps ==
  ASSUME IInv, Save
  PROVE  IInv'
<1> DEFINE v == IF stale.results THEN NoView ELSE [view EXCEPT !.focus = None]
           f == [cases |-> cases, combos |-> combos, empty |-> empty, floorsOk |-> floorsOk,
                 view |-> v, reported |-> reported]
<1>1. /\ file' = f /\ failing' = {}
      /\ UNCHANGED <<cases, combos, empty, floorsOk, view, term, stale, job, reported, runs, edits>>
  BY DEF Save
<1>2. v \in GoodView(reported)
  BY ViewFacts, Forgotten, NoViewGood
<1>3. v \in ViewRec
  BY <1>2 DEF GoodView
<1> HIDE DEF v
<1>4. f \in FileRec
  BY <1>3, ModelFacts, ViewFacts DEF FileRec
<1>5. f.view = v /\ f.reported = reported /\ f.cases = cases /\ f.empty = empty
  OBVIOUS
<1> HIDE DEF f
<1>6. TypeOK /\ JobInv /\ view \in GoodView(reported)
  BY DEF IInv
<1>7. TypeOK'
  <2>1. /\ cases' \in Seq(Cases) /\ IsInjective(cases') /\ combos' \in Seq(Names)
        /\ view' \in ViewRec /\ term' \in {"long", "short"}
        /\ stale' \in [results : BOOLEAN, design : BOOLEAN]
        /\ job' \in JobRec \union {None} /\ runs' \in 0..MaxRuns /\ edits' \in 0..MaxEdits
        /\ floorsOk' \in BOOLEAN /\ reported' \in BOOLEAN
    BY <1>1, <1>6 DEF TypeOK
  <2>2. empty' \in BOOLEAN /\ (empty' => EX \in ToSet(cases'))
    BY <1>1, <1>6, Zenon DEF TypeOK
  <2>3. file' \in FileRec \union {None} /\ failing' \subseteq Cases
    BY <1>1, <1>4
  <2> QED BY <2>1, <2>2, <2>3, Zenon DEF TypeOK
<1>8. JobInv' /\ view' \in GoodView(reported')
  BY <1>1, <1>6 DEF JobInv
<1>9. FileInv'
  <2>1. IsInjective(f.cases) /\ (f.empty => EX \in ToSet(f.cases))
    BY <1>5, ModelFacts, Zenon
  <2>2. f.view \in GoodView(f.reported)
    BY <1>2, <1>5
  <2> QED BY <1>1, <2>1, <2>2 DEF FileInv
<1> QED BY <1>1, <1>7, <1>8, <1>9, NothingFailing DEF IInv

LEMMA OpenKeeps ==
  ASSUME IInv, Open
  PROVE  IInv'
<1>1. /\ file # None
      /\ cases' = file.cases /\ combos' = file.combos
      /\ empty' = file.empty /\ floorsOk' = file.floorsOk
      /\ view' = file.view /\ reported' = file.reported
      /\ stale' = Fresh /\ job' = None /\ failing' = {}
      /\ term' = term /\ file' = file /\ runs' = runs /\ edits' = edits
  BY DEF Open
<1>2. TypeOK /\ FileInv
  BY DEF IInv
<1>3. /\ file \in FileRec /\ term \in {"long", "short"}
      /\ runs \in 0..MaxRuns /\ edits \in 0..MaxEdits
  BY <1>1, <1>2 DEF TypeOK
<1>4. /\ file.cases \in Seq(Cases) /\ file.combos \in Seq(Names) /\ file.empty \in BOOLEAN
      /\ file.floorsOk \in BOOLEAN /\ file.view \in ViewRec /\ file.reported \in BOOLEAN
  BY <1>3 DEF FileRec
<1>5. /\ file.view \in GoodView(file.reported) /\ IsInjective(file.cases)
      /\ file.empty => EX \in ToSet(file.cases)
  BY <1>1, <1>2 DEF FileInv
<1>6. TypeOK'
  <2>1. /\ cases' \in Seq(Cases) /\ IsInjective(cases') /\ combos' \in Seq(Names)
        /\ view' \in ViewRec /\ term' \in {"long", "short"}
        /\ stale' \in [results : BOOLEAN, design : BOOLEAN]
        /\ job' \in JobRec \union {None} /\ runs' \in 0..MaxRuns /\ edits' \in 0..MaxEdits
        /\ file' \in FileRec \union {None} /\ failing' \subseteq Cases
    BY <1>1, <1>3, <1>4, <1>5, FreshTyped
  <2>2. /\ empty' \in BOOLEAN /\ floorsOk' \in BOOLEAN /\ reported' \in BOOLEAN
        /\ empty' => EX \in ToSet(cases')
    BY <1>1, <1>4, <1>5, Zenon
  <2> QED BY <2>1, <2>2, Zenon DEF TypeOK
<1>7. JobInv' /\ FileInv' /\ view' \in GoodView(reported')
  BY <1>1, <1>2, <1>5 DEF JobInv, FileInv
<1> QED BY <1>1, <1>6, <1>7, NothingFailing DEF IInv

LEMMA RestartKeeps ==
  ASSUME IInv, Restart
  PROVE  IInv'
<1>1. /\ edits < MaxEdits /\ edits' = edits + 1
      /\ cases' = <<>> /\ combos' = <<>> /\ empty' = FALSE /\ floorsOk' = TRUE
      /\ view' = NoView /\ stale' = Fresh /\ job' = None
      /\ term' = "long" /\ reported' = FALSE /\ failing' = {}
      /\ file' = file /\ runs' = runs
  BY DEF Restart
<1>2. TypeOK /\ FileInv
  BY DEF IInv
<1>3. view' \in GoodView(reported')
  BY <1>1, NoViewGood
<1>4. TypeOK'
  <2>1. /\ cases' \in Seq(Cases) /\ combos' \in Seq(Names) /\ IsInjective(cases')
    <3>1. IsInjective(<<>>)
      BY DEF IsInjective
    <3> QED BY <1>1, <3>1
  <2>2. /\ view' \in ViewRec /\ term' \in {"long", "short"}
        /\ stale' \in [results : BOOLEAN, design : BOOLEAN]
        /\ job' \in JobRec \union {None} /\ failing' \subseteq Cases
        /\ empty' \in BOOLEAN /\ floorsOk' \in BOOLEAN /\ reported' \in BOOLEAN
    BY <1>1, <1>3, FreshTyped DEF GoodView
  <2>3. runs' \in 0..MaxRuns /\ edits' \in 0..MaxEdits /\ file' \in FileRec \union {None}
    BY <1>1, <1>2, BoundsAssumption DEF TypeOK
  <2>4. empty' => EX \in ToSet(cases')
    BY <1>1
  <2> QED BY <2>1, <2>2, <2>3, <2>4, Zenon DEF TypeOK
<1>5. JobInv' /\ FileInv'
  BY <1>1, <1>2 DEF JobInv, FileInv
<1> QED BY <1>1, <1>3, <1>4, <1>5, NothingFailing DEF IInv

----------------------------------------------------------------------------
(* The invariant *)

LEMMA InitIInv ==
  ASSUME Init
  PROVE  IInv
<1>1. /\ cases \in Distinct(Cases) /\ combos \in Distinct(Names)
      /\ empty = FALSE /\ floorsOk = TRUE
      /\ view = NoView /\ term = "long" /\ stale = Fresh
      /\ job = None /\ file = None
      /\ failing = {} /\ reported = FALSE /\ runs = 0 /\ edits = 0
  BY DEF Init
<1>2. cases \in Seq(Cases) /\ IsInjective(cases) /\ combos \in Seq(Names)
  <2>1. \A S : \A q \in Distinct(S) : IsInjective(q) /\ \E n \in Nat : q \in [1..n -> S]
    <3>1. ASSUME NEW S, NEW q \in Distinct(S)
          PROVE  IsInjective(q) /\ \E n \in 0..Cardinality(S) : q \in [1..n -> S]
      BY DEF Distinct
    <3>2. \A m : \A n \in 0..m : n \in Nat
      OBVIOUS
    <3> QED BY <3>1, <3>2
  <2>2. PICK n \in Nat : cases \in [1..n -> Cases]
    BY <1>1, <2>1
  <2>3. PICK m \in Nat : combos \in [1..m -> Names]
    BY <1>1, <2>1
  <2> QED BY <1>1, <2>1, <2>2, <2>3
<1>3. view \in GoodView(reported)
  BY <1>1, NoViewGood
<1>4. TypeOK
  <2>1. /\ view \in ViewRec /\ term \in {"long", "short"}
        /\ stale \in [results : BOOLEAN, design : BOOLEAN]
        /\ job \in JobRec \union {None} /\ file \in FileRec \union {None}
        /\ failing \subseteq Cases
    BY <1>1, <1>3, FreshTyped DEF GoodView
  <2>2. runs \in 0..MaxRuns /\ edits \in 0..MaxEdits
    BY <1>1, BoundsAssumption
  <2>3. /\ empty \in BOOLEAN /\ floorsOk \in BOOLEAN /\ reported \in BOOLEAN
        /\ empty => EX \in ToSet(cases)
    BY <1>1, Zenon
  <2> QED BY <1>2, <2>1, <2>2, <2>3, Zenon DEF TypeOK
<1>5. JobInv /\ FileInv /\ FailureTakesDependents
  BY <1>1 DEF JobInv, FileInv, FailureTakesDependents
<1> QED BY <1>3, <1>4, <1>5 DEF IInv

LEMMA StutterKeeps ==
  ASSUME IInv, UNCHANGED vars
  PROVE  IInv'
<1>1. UNCHANGED <<cases, combos, empty, floorsOk, view, term, stale, job, file,
                  failing, reported, runs, edits>>
  BY DEF vars
<1> QED BY <1>1, Zenon DEF IInv, TypeOK, JobInv, FileInv, FailureTakesDependents

LEMMA NextIInv ==
  ASSUME IInv, [Next]_vars
  PROVE  IInv'
<1>1. ASSUME NEW p \in Outcomes, NEW ready \in BOOLEAN, Run(p, ready) PROVE IInv'
  BY <1>1, StartCaseKeeps, StartComboKeeps, StartAllKeeps, StartOtherKeeps DEF Run
<1>2. CASE Poll
  BY <1>2, CaseSolvedKeeps, CaseFailedKeeps, ComboSolvedKeeps, ComboFailedKeeps,
     AllFailedKeeps, AllAnsweredKeeps, OtherAnsweredKeeps DEF Poll
<1>3. CASE Choose
  BY <1>3, ChooseKeeps
<1>4. CASE Edit
  BY <1>4, UserEditKeeps
<1>5. CASE Save \/ Open \/ Restart
  BY <1>5, SaveKeeps, OpenKeeps, RestartKeeps
<1>6. CASE UNCHANGED vars
  BY <1>6, StutterKeeps
<1> QED BY <1>1, <1>2, <1>3, <1>4, <1>5, <1>6 DEF Next

LEMMA Inductive ==
  Spec => []IInv
<1>1. Init => IInv
  BY InitIInv
<1>2. IInv /\ [Next]_vars => IInv'
  BY NextIInv
<1> QED BY <1>1, <1>2, PTL DEF Spec

----------------------------------------------------------------------------
(* Theorems *)

(* Every variable keeps its type: in particular the positions that results, *)
(* jobs and selections carry stay within the keys a model can have.         *)
THEOREM TypeCorrect == Spec => []TypeOK
<1>1. IInv => TypeOK
  BY DEF IInv
<1> QED BY <1>1, Inductive, PTL

(* The selected result is always in the bundle and its forces are those on  *)
(* display, whatever is stored over it, taken out in front of it, or read   *)
(* back from a file.                                                        *)
THEOREM SelectionShown == Spec => []SelectionShowsItsResult
<1>1. IInv => SelectionShowsItsResult
  <2> SUFFICES ASSUME IInv, NEW sel \in {view.last, view.focus} \ {None}
               PROVE  /\ Resolve(view, sel) # None
                      /\ view.forces = Resolve(view, sel)
                      /\ CurrentStatic(view) = view.forces
    BY DEF SelectionShowsItsResult
  <2>1. Shows(view)
    BY ViewFacts
  <2>2. Resolve(view, sel) # None /\ view.forces = Resolve(view, sel)
    BY <2>1 DEF Shows
  <2>3. CASE view.focus # None
    <3>1. Resolve(view, view.focus) # None /\ view.forces = Resolve(view, view.focus)
      BY <2>1, <2>3 DEF Shows
    <3> QED BY <2>2, <3>1 DEF CurrentStatic
  <2>4. CASE view.focus = None
    <3>1. sel = view.last /\ Resolve(view, view.focus) = None
      BY <2>4 DEF Resolve
    <3> QED BY <2>2, <3>1 DEF CurrentStatic
  <2> QED BY <2>3, <2>4
<1> QED BY <1>1, Inductive, PTL

(* The member checks on display were made from the forces on display, or    *)
(* the design check that was to renew them was refused and said so.         *)
THEOREM ChecksFitOrReported == Spec => []ChecksMatchOrReported
<1>1. IInv => ChecksMatchOrReported
  BY DEF IInv, GoodView, ChecksFit, ChecksMatchOrReported
<1> QED BY <1>1, Inductive, PTL

(* A load case that a step found unsolvable leaves no older result under    *)
(* its keys and none of a combination that sums it.                         *)
THEOREM FailuresLeaveNothing == Spec => []FailureTakesDependents
<1>1. IInv => FailureTakesDependents
  BY DEF IInv
<1> QED BY <1>1, Inductive, PTL

=============================================================================
