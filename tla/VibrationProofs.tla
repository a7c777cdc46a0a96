--------------------------- MODULE VibrationProofs ---------------------------
(****************************************************************************)
(* The vibration cases of a project for every wave library, every set of    *)
(* settings and every bound: the case on display and everything drawn from  *)
(* it are one result, a case is named after the run it shows, saving and    *)
(* opening loses nothing, and the hash beside a wave is of a run of it.     *)
(****************************************************************************)
EXTENDS VibrationProject, FiniteSetTheorems, SequenceTheorems, WellFoundedInduction, TLAPS

----------------------------------------------------------------------------
(* The types of the state *)

CaseTables == [Kinds -> Tables(Labels)]
Entries == CaseTables \union {None}
Histories == [past : Seq(Entries), future : Seq(Entries)]
Views == [Kinds -> Nat \union {None}]
Selections == [Kinds -> Waves \union {None}]
Hashes == [Kinds -> Nat \union {None}]
Requests == [kind : Kinds, wave : Names, timed : BOOLEAN, touched : BOOLEAN, run : Nat]
Jobs == [kind : Kinds, wave : Names, timed : BOOLEAN, touched : BOOLEAN, setting : Settings,
         run : Nat]
Saved == [bundle : Bundles, view : Views]
Files == [results : Saved \union {None}, cases : CaseTables, settings : [Kinds -> Settings],
          selection : Selections, sha : Hashes, restored : BOOLEAN]

TypeOK ==
  /\ cases \in CaseTables
  /\ bundle \in Bundles \union {NoBundle}
  /\ view \in Views
  /\ graph \in [Kinds -> Results \union {None}]
  /\ stale \in BOOLEAN
  /\ settings \in [Kinds -> Settings]
  /\ selection \in Selections
  /\ sha \in Hashes
  /\ library \in [Waves -> Nat]
  /\ asked \in Requests \union {None}
  /\ job \in Jobs \union {None}
  /\ undo \in Histories
  /\ asking \in BOOLEAN
  /\ file \in Files \union {None}
  /\ runs \in Nat /\ turns \in Nat
  /\ restored \in BOOLEAN
  /\ requested \in [Kinds -> SUBSET (Waves \X Nat)]

----------------------------------------------------------------------------
(* The invariant *)

(* A window without slots is not a time history of the session's making.    *)
WindowHasSlot(b) ==
  \A k \in Kinds : b[k].slots = NoSlots => b[k].window = None \/ ~b[k].window.timed

(* Cases c and slots of b are pairs, each case with the name of its run.    *)
PairedWith(c, s) == DOMAIN c = DOMAIN s
NamedAfter(c, s) == \A id \in DOMAIN c : s[id].touched \/ c[id] = Label(s[id].wave, s[id].setting)
Matches(cs, b) == \A k \in Kinds : LET s == SlotsOf(b, k) IN PairedWith(cs[k], s) /\ NamedAfter(cs[k], s)

SessionGood ==
  /\ bundle # NoBundle => WindowHasSlot(bundle)
  /\ ~restored => Matches(cases, bundle)

(* What is asked or under way is what the selection and the settings say,   *)
(* until they are touched.                                                  *)
AskedGood == asked # None /\ asked.timed /\ ~asked.touched => asked.wave = WaveName(asked.kind)
JobGood ==
  job # None /\ job.timed /\ ~job.touched =>
    job.wave = WaveName(job.kind) /\ job.setting = settings[job.kind]

(* A file holds what a session held, or comes from before the cases.        *)
LegacyWindow(b) ==
  \A k \in Kinds : b[k].slots = NoSlots /\ b[k].window # None /\ b[k].window.timed => b[k].window.touched
FileGood ==
  file # None =>
    /\ \A k \in Kinds : file.sha[k] # None => <<file.selection[k], file.sha[k]>> \in requested[k]
    /\ file.results # None =>
         /\ LegacyWindow(file.results.bundle)
         /\ ~file.restored => Matches(file.cases, file.results.bundle)

IInv == TypeOK /\ ViewShowsItsCase /\ SessionGood /\ AskedGood /\ JobGood /\ HashNamesARun /\ FileGood

----------------------------------------------------------------------------
(* Tables of case numbers *)

(* What the definition of Tables says, to be used without it.               *)
LEMMA TableIs ==
  ASSUME NEW S, NEW t
  PROVE  t \in Tables(S) <=> /\ t \in [DOMAIN t -> S]
                             /\ DOMAIN t \in SUBSET Nat /\ IsFiniteSet(DOMAIN t)
<1> DEFINE N == {D \in SUBSET Nat : IsFiniteSet(D)}
<1>1. ASSUME t \in Tables(S) PROVE t \in [DOMAIN t -> S] /\ DOMAIN t \in N
  <2>1. PICK D \in N : t \in [D -> S]
    BY <1>1 DEF Tables
  <2> QED BY <2>1
<1>2. ASSUME t \in [DOMAIN t -> S], DOMAIN t \in N PROVE t \in Tables(S)
  BY <1>2 DEF Tables
<1> QED BY <1>1, <1>2

LEMMA NoSlotsIs ==
  ASSUME NEW S
  PROVE  /\ DOMAIN NoSlots = {} /\ NoSlots \in Tables(S)
         /\ \A t \in Tables(S) : DOMAIN t = {} => t = NoSlots
<1>1. DOMAIN NoSlots = {} /\ NoSlots \in [{} -> S]
  BY DEF NoSlots
<1>2. NoSlots \in Tables(S)
  BY <1>1, TableIs, FS_EmptySet
<1>3. ASSUME NEW t \in Tables(S), DOMAIN t = {} PROVE t = NoSlots
  BY <1>1, <1>3, TableIs
<1> QED BY <1>1, <1>2, <1>3

LEMMA Upserted ==
  ASSUME NEW S, NEW t \in Tables(S), NEW id, id \in Nat, NEW r \in S
  PROVE  /\ Upsert(t, id, r) \in Tables(S)
         /\ DOMAIN Upsert(t, id, r) = DOMAIN t \union {id}
         /\ Upsert(t, id, r)[id] = r
         /\ \A i \in DOMAIN t \ {id} : Upsert(t, id, r)[i] = t[i]
         /\ Upsert(t, id, r) # NoSlots
<1> DEFINE u == Upsert(t, id, r)
<1>1. t \in [DOMAIN t -> S] /\ DOMAIN t \in SUBSET Nat /\ IsFiniteSet(DOMAIN t)
  BY TableIs
<1>2. DOMAIN u = DOMAIN t \union {id} /\ u \in [DOMAIN u -> S]
  BY <1>1 DEF Upsert
<1>3. IsFiniteSet(DOMAIN t \union {id})
  BY <1>1, FS_AddElement
<1>4. u \in Tables(S)
  <2> HIDE DEF u
  <2> QED BY <1>1, <1>2, <1>3, TableIs
<1>5. u # NoSlots
  <2> HIDE DEF u
  <2> QED BY <1>2, NoSlotsIs
<1> QED BY <1>1, <1>2, <1>4, <1>5 DEF Upsert

(* Of a table no more is needed from here on.                               *)
LEMMA TableFacts ==
  ASSUME NEW S, NEW t \in Tables(S)
  PROVE  /\ t \in [DOMAIN t -> S] /\ DOMAIN t \in SUBSET Nat
         /\ \A i \in DOMAIN t : t[i] \in S /\ i \in Nat
BY TableIs

LEMMA RestrictTyped ==
  ASSUME NEW S, NEW t \in Tables(S), NEW D
  PROVE  /\ Restrict(t, DOMAIN t \cap D) \in Tables(S)
         /\ DOMAIN Restrict(t, DOMAIN t \cap D) = DOMAIN t \cap D
         /\ \A i \in DOMAIN t \cap D : Restrict(t, DOMAIN t \cap D)[i] = t[i]
         /\ DOMAIN t \subseteq D => Restrict(t, DOMAIN t \cap D) = t
<1> DEFINE u == Restrict(t, DOMAIN t \cap D)
<1>1. t \in [DOMAIN t -> S] /\ DOMAIN t \in SUBSET Nat /\ IsFiniteSet(DOMAIN t)
  BY TableIs
<1>2. DOMAIN u = DOMAIN t \cap D /\ u \in [DOMAIN u -> S] /\ \A i \in DOMAIN u : u[i] = t[i]
  BY <1>1 DEF Restrict
<1>3. IsFiniteSet(DOMAIN t \cap D)
  BY <1>1, FS_Subset
<1> HIDE DEF u
<1>4. u \in Tables(S)
  BY <1>1, <1>2, <1>3, TableIs
<1>5. DOMAIN t \subseteq D => u = t
  <2>1. u = [i \in DOMAIN u |-> u[i]] /\ t = [i \in DOMAIN t |-> t[i]]
    BY <1>1, <1>2
  <2> QED BY <1>2, <2>1
<1> QED BY <1>2, <1>4, <1>5 DEF u

(* The same entries changed one by one.                                     *)
LEMMA MappedTyped ==
  ASSUME NEW S, NEW T, NEW t \in Tables(S), NEW u, DOMAIN u = DOMAIN t, u = [i \in DOMAIN t |-> u[i]],
         \A i \in DOMAIN t : u[i] \in T
  PROVE  u \in Tables(T)
<1>1. u \in [DOMAIN u -> T]
  OBVIOUS
<1> QED BY <1>1, TableIs

----------------------------------------------------------------------------
(* The next case number.  The set S stands where an induction schema would  *)
(* have a predicate, so that the provers can instantiate it.                *)

LEMMA SetInduction ==
  ASSUME NEW S, 0 \in S, \A n \in Nat : n \in S => n + 1 \in S
  PROVE  \A n \in Nat : n \in S
<1> DEFINE T == Nat \ S
<1> DEFINE R == OpToRel(<, Nat)
<1>1. ASSUME T # {} PROVE FALSE
  <2>1. PICK d \in T : \A e \in T : <<e, d>> \notin R
    <3> HIDE DEF R
    <3>1. IsWellFoundedOn(R, Nat)
      BY NatLessThanWellFounded DEF R
    <3> QED BY <1>1, <3>1, WFMin
  <2>2. d - 1 \in T
    OBVIOUS
  <2>3. ~(d - 1 < d)
    BY <2>1, <2>2 DEF OpToRel
  <2> QED BY <2>3
<1> QED BY <1>1

HasLargest(D) == \E m \in D : \A i \in D : i <= m
LargestUpTo == {n \in Nat : \A D \in SUBSET Nat : IsFiniteSet(D) /\ D # {} /\ Cardinality(D) = n => HasLargest(D)}

LEMMA LargestExists ==
  ASSUME NEW D \in SUBSET Nat, IsFiniteSet(D), D # {}
  PROVE  HasLargest(D)
<1>1. 0 \in LargestUpTo
  <2> SUFFICES ASSUME NEW E \in SUBSET Nat, IsFiniteSet(E), E # {}, Cardinality(E) = 0 PROVE FALSE
    BY DEF LargestUpTo
  <2> QED BY FS_EmptySet
<1>2. ASSUME NEW n \in Nat, n \in LargestUpTo PROVE n + 1 \in LargestUpTo
  <2> SUFFICES ASSUME NEW E \in SUBSET Nat, IsFiniteSet(E), E # {}, Cardinality(E) = n + 1
               PROVE  HasLargest(E)
    BY DEF LargestUpTo
  <2>1. PICK e \in E : TRUE
    OBVIOUS
  <2> DEFINE F == E \ {e}
  <2>2. IsFiniteSet(F) /\ Cardinality(F) = n
    <3>1. IsFiniteSet(E \ {e}) /\ Cardinality(E \ {e}) = Cardinality(E) - 1
      BY <2>1, FS_RemoveElement
    <3> QED BY <3>1
  <2>3. CASE F = {}
    <3>1. E = {e}
      BY <2>1, <2>3
    <3>2. e <= e
      BY <2>1
    <3> QED BY <3>1, <3>2 DEF HasLargest
  <2>4. CASE F # {}
    <3>1. HasLargest(F)
      BY <1>2, <2>2, <2>4 DEF LargestUpTo
    <3>2. PICK m \in F : \A i \in F : i <= m
      BY <3>1 DEF HasLargest
    <3>3. CASE e <= m
      <4>1. m \in E /\ \A i \in E : i <= m
        BY <3>2, <3>3
      <4> QED BY <4>1 DEF HasLargest
    <3>4. CASE ~(e <= m)
      <4>1. e \in E /\ \A i \in E : i <= e
        BY <2>1, <3>2, <3>4
      <4> QED BY <4>1 DEF HasLargest
    <3> QED BY <3>3, <3>4
  <2> QED BY <2>3, <2>4
<1>3. \A n \in Nat : n \in LargestUpTo
  BY <1>1, <1>2, SetInduction
<1>4. Cardinality(D) \in Nat
  BY FS_CardinalityType
<1> QED BY <1>3, <1>4 DEF LargestUpTo

(* A case keeps its number or takes one that is free.                       *)
LEMMA CaseIdTyped ==
  ASSUME NEW S, NEW cs \in Tables(S), NEW label
  PROVE  CaseIdOf(cs, label) \in Nat
<1>1. DOMAIN cs \in SUBSET Nat /\ IsFiniteSet(DOMAIN cs)
  BY TableIs
<1>2. NextId(cs) \in Nat
  <2>1. CASE DOMAIN cs = {}
    BY <2>1 DEF NextId
  <2>2. CASE DOMAIN cs # {}
    <3>1. \E m \in DOMAIN cs : \A i \in DOMAIN cs : i <= m
      BY <1>1, <2>2, LargestExists DEF HasLargest
    <3>2. (CHOOSE m \in DOMAIN cs : \A i \in DOMAIN cs : i <= m) \in Nat
      BY <1>1, <3>1
    <3> QED BY <2>2, <3>2 DEF NextId
  <2> QED BY <2>1, <2>2
<1> QED BY <1>1, <1>2 DEF CaseIdOf

LEMMA CaseUpserted ==
  ASSUME NEW S, NEW cs \in Tables(S), NEW label \in S
  PROVE  /\ UpsertCase(cs, label) \in Tables(S)
         /\ DOMAIN UpsertCase(cs, label) = DOMAIN cs \union {CaseIdOf(cs, label)}
         /\ UpsertCase(cs, label)[CaseIdOf(cs, label)] = label
         /\ \A i \in DOMAIN cs \ {CaseIdOf(cs, label)} : UpsertCase(cs, label)[i] = cs[i]
<1>1. CaseIdOf(cs, label) \in Nat
  BY CaseIdTyped
<1>2. UpsertCase(cs, label) = Upsert(cs, CaseIdOf(cs, label), label)
  BY DEF UpsertCase
<1> DEFINE id == CaseIdOf(cs, label)
<1> HIDE DEF id
<1>3. /\ Upsert(cs, id, label) \in Tables(S)
      /\ DOMAIN Upsert(cs, id, label) = DOMAIN cs \union {id}
      /\ Upsert(cs, id, label)[id] = label
      /\ \A i \in DOMAIN cs \ {id} : Upsert(cs, id, label)[i] = cs[i]
  <2>1. id \in Nat
    BY <1>1 DEF id
  <2>2. Upsert(cs, id, label) \in Tables(S)
    BY <2>1, Upserted
  <2>3. DOMAIN Upsert(cs, id, label) = DOMAIN cs \union {id}
    BY <2>1, Upserted
  <2>4. Upsert(cs, id, label)[id] = label
    BY DEF Upsert
  <2>5. \A i \in DOMAIN cs \ {id} : Upsert(cs, id, label)[i] = cs[i]
    BY DEF Upsert
  <2> QED BY <2>2, <2>3, <2>4, <2>5
<1> QED BY <1>2, <1>3 DEF id

----------------------------------------------------------------------------
(* Results, bundles and what saving does to their recordings *)

LEMMA BundleFacts ==
  ASSUME NEW b \in Bundles
  PROVE  /\ b # NoBundle /\ b = [k \in Kinds |-> b[k]]
         /\ \A k \in Kinds : /\ b[k] = [slots |-> b[k].slots, window |-> b[k].window]
                             /\ b[k].slots \in Tables(Results)
                             /\ b[k].window \in Results \union {None}
<1>1. b = [k \in Kinds |-> b[k]] /\ DOMAIN b = Kinds
  BY DEF Bundles
<1>2. \A k \in Kinds : /\ b[k] = [slots |-> b[k].slots, window |-> b[k].window]
                       /\ b[k].slots \in Tables(Results)
                       /\ b[k].window \in Results \union {None}
  BY DEF Bundles
<1>3. b # NoBundle
  <2>1. "spatial" \in DOMAIN b /\ DOMAIN NoBundle = {}
    BY <1>1 DEF Kinds, NoBundle
  <2> QED BY <2>1
<1> QED BY <1>1, <1>2, <1>3

LEMMA BundleMade ==
  ASSUME NEW b, b = [k \in Kinds |-> b[k]],
         \A k \in Kinds : \E s \in Tables(Results), w \in Results \union {None} :
           b[k] = [slots |-> s, window |-> w]
  PROVE  b \in Bundles
BY DEF Bundles

LEMMA BareFacts ==
  ASSUME NEW r \in Results \union {None}
  PROVE  /\ Bare(r) \in Results \union {None} /\ (r = None <=> Bare(r) = None)
         /\ r # None => /\ r \in Results /\ Bare(r) \in Results
                        /\ Bare(r).wave = r.wave /\ Bare(r).setting = r.setting
                        /\ Bare(r).timed = r.timed /\ Bare(r).touched = r.touched
         /\ \A k \in Kinds : Graph(k, Bare(r)) = Graph(k, r) /\ Graph(k, r) \in Results \union {None}
<1>1. None \notin Results
  BY NoneAssumption
<1>2. CASE r = None
  BY <1>2 DEF Bare, Graph
<1>3. CASE r \in Results
  <2>1. Bare(r) = [r EXCEPT !.rec = FALSE] /\ Bare(r) \in Results /\ r # None /\ Bare(r) # None
    BY <1>1, <1>3 DEF Bare, Results
  <2>2. /\ Bare(r).wave = r.wave /\ Bare(r).setting = r.setting
        /\ Bare(r).timed = r.timed /\ Bare(r).touched = r.touched
    BY <1>3, <2>1 DEF Results
  <2>3. [Bare(r) EXCEPT !.rec = FALSE] = Bare(r)
    BY <1>3, <2>1 DEF Results
  <2>4. ASSUME NEW k \in Kinds PROVE Graph(k, Bare(r)) = Graph(k, r) /\ Graph(k, r) \in Results \union {None}
    BY <2>1, <2>2, <2>3 DEF Graph
  <2> QED BY <1>3, <2>1, <2>2, <2>4
<1> QED BY <1>2, <1>3

LEMMA RecordingBack ==
  ASSUME NEW r \in Results
  PROVE  /\ [Bare(r) EXCEPT !.rec = TRUE] = r \/ ~HasRecording(r)
         /\ [Bare(r) EXCEPT !.rec = FALSE] = r \/ HasRecording(r)
         /\ HasRecording(r) \/ Bare(r) = r
<1>1. Bare(r) = [r EXCEPT !.rec = FALSE] /\ (HasRecording(r) <=> r.rec)
  BY NoneAssumption DEF Bare, HasRecording
<1>2. r.rec \in BOOLEAN
  BY DEF Results
<1> QED BY <1>1, <1>2 DEF Results

(* c holds the runs of b, at most without their recordings.                 *)
SameRuns(b, c) ==
  \A k \in Kinds :
    /\ DOMAIN c[k].slots = DOMAIN b[k].slots /\ Bare(c[k].window) = Bare(b[k].window)
    /\ \A id \in DOMAIN b[k].slots :
         /\ Bare(c[k].slots[id]) = Bare(b[k].slots[id])
         /\ b[k].window = b[k].slots[id] => c[k].window = c[k].slots[id]

LEMMA SameAsItself ==
  ASSUME NEW b \in Bundles PROVE SameRuns(b, b)
BY DEF SameRuns

LEMMA TakenAre ==
  ASSUME NEW b \in Bundles
  PROVE  LET s == b["spatial"].slots  t == TakeThRecordings(b) IN
         /\ t.bundle = [k \in Kinds |->
                          IF k = "spatial"
                          THEN [slots |-> [id \in DOMAIN s |-> Bare(s[id])], window |-> Bare(b[k].window)]
                          ELSE b[k]]
         /\ t.window = HasRecording(b["spatial"].window)
         /\ t.slots = {id \in DOMAIN s : HasRecording(s[id])}
<1>1. b = [k \in Kinds |-> b[k]] /\ "spatial" \in Kinds
  BY BundleFacts DEF Kinds
<1> QED BY <1>1 DEF TakeThRecordings

LEMMA TakenFacts ==
  ASSUME NEW b \in Bundles
  PROVE  /\ TakeThRecordings(b).bundle \in Bundles
         /\ SameRuns(b, TakeThRecordings(b).bundle)
<1> DEFINE c == TakeThRecordings(b).bundle
<1> DEFINE s == b["spatial"].slots
<1> DEFINE w == b["spatial"].window
<1> DEFINE u == [id \in DOMAIN s |-> Bare(s[id])]
<1>0. "spatial" \in Kinds
  BY DEF Kinds
<1>1. /\ c = [k \in Kinds |-> c[k]] /\ c["spatial"] = [slots |-> u, window |-> Bare(w)]
      /\ \A k \in Kinds : k = "spatial" \/ c[k] = b[k]
  <2>1. c = [k \in Kinds |-> IF k = "spatial" THEN [slots |-> u, window |-> Bare(b[k].window)] ELSE b[k]]
    BY TakenAre
  <2> HIDE DEF c, u
  <2> QED BY <1>0, <2>1 DEF w
<1>2. s \in Tables(Results) /\ w \in Results \union {None}
  BY <1>0, BundleFacts
<1>3. \A id \in DOMAIN s : s[id] \in Results
  BY <1>2, TableFacts
<1>4. \A id \in DOMAIN s : Bare(s[id]) \in Results
  BY <1>3, BareFacts, NoneAssumption
<1>5. u \in Tables(Results)
  <2>1. DOMAIN u = DOMAIN s /\ u = [id \in DOMAIN s |-> u[id]] /\ \A id \in DOMAIN s : u[id] \in Results
    BY <1>4
  <2> HIDE DEF u
  <2> QED BY <1>2, <2>1, MappedTyped
<1>6. Bare(w) \in Results \union {None}
  BY <1>2, BareFacts
<1>7. Bare(Bare(w)) = Bare(w) /\ \A id \in DOMAIN s : Bare(Bare(s[id])) = Bare(s[id])
  <2>1. ASSUME NEW r \in Results \union {None} PROVE Bare(Bare(r)) = Bare(r)
    <3>1. CASE r = None
      BY <3>1 DEF Bare
    <3>2. CASE r \in Results
      BY <3>2, NoneAssumption DEF Bare, Results
    <3> QED BY <3>1, <3>2
  <2> QED BY <1>2, <1>3, <2>1
<1>8. c \in Bundles
  <2>1. ASSUME NEW k \in Kinds
        PROVE  \E x \in Tables(Results), y \in Results \union {None} : c[k] = [slots |-> x, window |-> y]
    <3>1. CASE k = "spatial"
      <4> HIDE DEF c, u
      <4> QED BY <1>1, <1>5, <1>6, <3>1
    <3>2. CASE k # "spatial"
      <4>1. c[k] = b[k]
        <5> HIDE DEF c, u
        <5> QED BY <1>1, <3>2
      <4>2. /\ b[k] = [slots |-> b[k].slots, window |-> b[k].window]
            /\ b[k].slots \in Tables(Results) /\ b[k].window \in Results \union {None}
        BY BundleFacts
      <4> HIDE DEF c, u
      <4> QED BY <4>1, <4>2
    <3> QED BY <3>1, <3>2
  <2> HIDE DEF c, u
  <2> QED BY <1>1, <2>1, BundleMade
<1>9. SameRuns(b, c)
  <2> SUFFICES ASSUME NEW k \in Kinds
               PROVE  /\ DOMAIN c[k].slots = DOMAIN b[k].slots /\ Bare(c[k].window) = Bare(b[k].window)
                      /\ \A id \in DOMAIN b[k].slots :
                           /\ Bare(c[k].slots[id]) = Bare(b[k].slots[id])
                           /\ b[k].window = b[k].slots[id] => c[k].window = c[k].slots[id]
    BY DEF SameRuns
  <2>1. CASE k = "spatial"
    <3>1. c[k].slots = u /\ c[k].window = Bare(w) /\ b[k].slots = s /\ b[k].window = w
      <4> HIDE DEF c, u
      <4> QED BY <1>1, <2>1 DEF s, w
    <3>2. DOMAIN u = DOMAIN s /\ \A id \in DOMAIN s : u[id] = Bare(s[id])
      OBVIOUS
    <3> HIDE DEF c, u, s, w
    <3> QED BY <1>7, <3>1, <3>2
  <2>2. CASE k # "spatial"
    <3> HIDE DEF c
    <3> QED BY <1>1, <2>2
  <2> QED BY <2>1, <2>2
<1> QED BY <1>8, <1>9

(* What has been taken out comes back to where it was.                      *)
LEMMA RestoreTaken ==
  ASSUME NEW b \in Bundles
  PROVE  RestoreThRecordings(TakeThRecordings(b)) = b
<1> DEFINE t == TakeThRecordings(b)
<1> DEFINE s == b["spatial"].slots
<1> DEFINE w == b["spatial"].window
<1> DEFINE u == [id \in DOMAIN s |-> Bare(s[id])]
<1>0. "spatial" \in Kinds
  BY DEF Kinds
<1>1. /\ t.bundle = [k \in Kinds |-> IF k = "spatial" THEN [slots |-> u, window |-> Bare(w)] ELSE b[k]]
      /\ t.window = HasRecording(w) /\ t.slots = {id \in DOMAIN s : HasRecording(s[id])}
  BY TakenAre
<1>2. s \in Tables(Results) /\ w \in Results \union {None}
  BY <1>0, BundleFacts
<1>3. s = [id \in DOMAIN s |-> s[id]] /\ \A id \in DOMAIN s : s[id] \in Results
  BY <1>2, TableFacts
<1>4. [id \in DOMAIN s |-> [Bare(s[id]) EXCEPT !.rec = id \in t.slots]] = s
  <2>1. ASSUME NEW id \in DOMAIN s PROVE [Bare(s[id]) EXCEPT !.rec = id \in t.slots] = s[id]
    <3>1. s[id] \in Results /\ (id \in t.slots <=> HasRecording(s[id]))
      BY <1>1, <1>3
    <3>2. CASE HasRecording(s[id])
      <4>1. (id \in t.slots) = TRUE
        BY <3>1, <3>2
      <4>2. [Bare(s[id]) EXCEPT !.rec = TRUE] = s[id]
        BY <3>1, <3>2, RecordingBack
      <4> QED BY <4>1, <4>2
    <3>3. CASE ~HasRecording(s[id])
      <4>1. (id \in t.slots) = FALSE
        BY <3>1, <3>3
      <4>2. [Bare(s[id]) EXCEPT !.rec = FALSE] = s[id]
        BY <3>1, <3>3, RecordingBack
      <4> QED BY <4>1, <4>2
    <3> QED BY <3>2, <3>3
  <2> HIDE DEF t, s
  <2> QED BY <1>3, <2>1
<1>5. (IF t.window THEN [Bare(w) EXCEPT !.rec = TRUE] ELSE Bare(w)) = w
  <2>1. CASE w = None
    BY <1>1, <2>1 DEF HasRecording, Bare
  <2>2. CASE w \in Results
    BY <1>1, <2>2, RecordingBack
  <2> QED BY <1>2, <2>1, <2>2
<1> DEFINE a == t.bundle
<1>6. a["spatial"].slots = u /\ a["spatial"].window = Bare(w)
  BY <1>0, <1>1
<1>7. RestoreThRecordings(t) =
        [a EXCEPT !["spatial"] =
           [slots  |-> [id \in DOMAIN u |-> [u[id] EXCEPT !.rec = id \in t.slots]],
            window |-> IF t.window THEN [Bare(w) EXCEPT !.rec = TRUE] ELSE Bare(w)]]
  <2> HIDE DEF t, u, w
  <2> QED BY <1>6 DEF RestoreThRecordings
<1>8. [id \in DOMAIN u |-> [u[id] EXCEPT !.rec = id \in t.slots]] = s
  BY <1>4
<1>9. RestoreThRecordings(t) = [a EXCEPT !["spatial"] = [slots |-> s, window |-> w]]
  <2> HIDE DEF t, u, w, s
  <2> QED BY <1>5, <1>7, <1>8
<1>10. b = [k \in Kinds |-> b[k]] /\ b["spatial"] = [slots |-> s, window |-> w]
  BY <1>0, BundleFacts
<1>11. [a EXCEPT !["spatial"] = [slots |-> s, window |-> w]] =
         [k \in Kinds |-> IF k = "spatial" THEN [slots |-> s, window |-> w] ELSE b[k]]
  BY <1>1, <1>0
<1> QED BY <1>9, <1>10, <1>11

----------------------------------------------------------------------------
(* What an action leaves alone *)

LEMMA SameShown ==
  ASSUME ViewShowsItsCase, SessionGood, UNCHANGED <<shown, restored>>
  PROVE  ViewShowsItsCase' /\ SessionGood'
BY DEF ViewShowsItsCase, SessionGood, shown

LEMMA SameFile ==
  ASSUME FileGood, UNCHANGED file, \A k \in Kinds : requested[k] \subseteq requested'[k]
  PROVE  FileGood'
BY DEF FileGood

LEMMA SameHash ==
  ASSUME HashNamesARun, UNCHANGED <<selection, sha, requested>>
  PROVE  HashNamesARun'
BY DEF HashNamesARun

LEMMA SameWork ==
  ASSUME AskedGood, JobGood, UNCHANGED <<asked, job, selection, settings>>
  PROVE  AskedGood' /\ JobGood'
BY DEF AskedGood, JobGood, WaveName

----------------------------------------------------------------------------
(* The library and the settings *)

LEMMA TouchTyped ==
  ASSUME NEW j, NEW k \in Kinds
  PROVE  /\ j \in Requests \union {None} => Touch(j, k) \in Requests \union {None}
         /\ j \in Jobs \union {None} => Touch(j, k) \in Jobs \union {None}
         /\ j \in Requests \union Jobs \union {None} =>
              \/ Touch(j, k) = None \/ Touch(j, k).touched
              \/ Touch(j, k) = j /\ j # None /\ j.kind # k
<1>1. CASE j = None
  BY <1>1 DEF Touch
<1>2. CASE j # None /\ j \in Requests
  <2>1. CASE j.kind = k
    <3>1. Touch(j, k) = [j EXCEPT !.touched = TRUE]
      BY <1>2, <2>1 DEF Touch
    <3>2. Touch(j, k) \in Requests /\ Touch(j, k).touched
      BY <1>2, <3>1 DEF Requests
    <3>3. j \in Requests => Touch(j, k) \in Requests
      BY <3>1 DEF Requests
    <3>4. j \in Jobs => Touch(j, k) \in Jobs
      BY <3>1 DEF Jobs
    <3> QED BY <1>2, <3>2, <3>3, <3>4
  <2>2. CASE j.kind # k
    BY <1>2, <2>2 DEF Touch
  <2> QED BY <2>1, <2>2
<1>3. CASE j # None /\ j \in Jobs
  <2>1. CASE j.kind = k
    <3>1. Touch(j, k) = [j EXCEPT !.touched = TRUE]
      BY <1>3, <2>1 DEF Touch
    <3>2. Touch(j, k) \in Jobs /\ Touch(j, k).touched
      BY <1>3, <3>1 DEF Jobs
    <3>3. j \in Requests => Touch(j, k) \in Requests
      BY <3>1 DEF Requests
    <3>4. j \in Jobs => Touch(j, k) \in Jobs
      BY <3>1 DEF Jobs
    <3> QED BY <1>3, <3>2, <3>3, <3>4
  <2>2. CASE j.kind # k
    BY <1>3, <2>2 DEF Touch
  <2> QED BY <2>1, <2>2
<1>4. CASE j \notin Requests \union Jobs \union {None}
  BY <1>4
<1> QED BY <1>1, <1>2, <1>3, <1>4

LEMMA SelectWaveKeeps ==
  ASSUME IInv, SelectWave
  PROVE  IInv'
<1>1. PICK k \in Kinds, w \in Waves :
        /\ w # selection[k] /\ SetWaveLibrarySelection(k, w)
        /\ asked' = Touch(asked, k) /\ job' = Touch(job, k)
  BY DEF SelectWave
<1>2. /\ turns' = turns + 1
      /\ UNCHANGED <<shown, stale, settings, library, undo, asking, file, runs, restored, requested>>
  BY DEF SelectWave
<1>3. /\ selection' = [selection EXCEPT ![k] = w]
      /\ sha' = [sha EXCEPT ![k] = None]
  BY <1>1 DEF SetWaveLibrarySelection
<1>4. TypeOK'
  <2>1. TypeOK
    BY DEF IInv
  <2>2. selection' \in Selections /\ sha' \in Hashes
    BY <1>3, <2>1 DEF TypeOK, Selections, Hashes
  <2>3. asked' \in Requests \union {None} /\ job' \in Jobs \union {None}
    BY <1>1, <2>1, TouchTyped DEF TypeOK
  <2> QED BY <1>2, <2>1, <2>2, <2>3 DEF TypeOK, shown
<1>5. ViewShowsItsCase' /\ SessionGood'
  BY <1>2, SameShown DEF IInv
<1>6. AskedGood'
  <2>1. asked' = None \/ asked'.touched \/ (asked' = asked /\ asked # None /\ asked.kind # k)
    BY <1>1, TouchTyped DEF IInv, TypeOK
  <2>2. ASSUME asked' = asked, asked # None, asked.kind # k PROVE AskedGood'
    <3>1. asked.kind \in Kinds /\ selection'[asked.kind] = selection[asked.kind]
      BY <1>3, <2>2 DEF IInv, TypeOK, Requests, Selections
    <3> QED BY <2>2, <3>1 DEF IInv, AskedGood, WaveName
  <2> QED BY <2>1, <2>2 DEF AskedGood
<1>7. JobGood'
  <2>1. job' = None \/ job'.touched \/ (job' = job /\ job # None /\ job.kind # k)
    BY <1>1, TouchTyped DEF IInv, TypeOK
  <2>2. ASSUME job' = job, job # None, job.kind # k PROVE JobGood'
    <3>1. job.kind \in Kinds /\ selection'[job.kind] = selection[job.kind]
      BY <1>3, <2>2 DEF IInv, TypeOK, Jobs, Selections
    <3> QED BY <1>2, <2>2, <3>1 DEF IInv, JobGood, WaveName
  <2> QED BY <2>1, <2>2 DEF JobGood
<1>8. HashNamesARun'
  <2> SUFFICES ASSUME NEW j \in Kinds, sha'[j] # None PROVE <<selection'[j], sha'[j]>> \in requested'[j]
    BY DEF HashNamesARun
  <2>1. j # k /\ sha'[j] = sha[j] /\ selection'[j] = selection[j]
    BY <1>3 DEF IInv, TypeOK, Selections, Hashes
  <2> QED BY <1>2, <2>1 DEF IInv, HashNamesARun
<1>9. FileGood'
  BY <1>2, SameFile DEF IInv
<1> QED BY <1>4, <1>5, <1>6, <1>7, <1>8, <1>9 DEF IInv

LEMMA ChangeSettingsKeeps ==
  ASSUME IInv, ChangeSettings
  PROVE  IInv'
<1>1. PICK k \in Kinds, s \in Settings :
        settings' = [settings EXCEPT ![k] = s] /\ job' = Touch(job, k)
  BY DEF ChangeSettings
<1>2. /\ turns' = turns + 1
      /\ UNCHANGED <<shown, stale, selection, sha, library, asked, undo, asking, file, runs,
                     restored, requested>>
  BY DEF ChangeSettings
<1>3. TypeOK'
  <2>1. TypeOK
    BY DEF IInv
  <2>2. settings' \in [Kinds -> Settings] /\ job' \in Jobs \union {None}
    BY <1>1, <2>1, TouchTyped DEF TypeOK
  <2> QED BY <1>2, <2>1, <2>2 DEF TypeOK, shown
<1>4. ViewShowsItsCase' /\ SessionGood' /\ FileGood' /\ HashNamesARun'
  BY <1>2, SameShown, SameFile, SameHash DEF IInv
<1>5. AskedGood'
  BY <1>2 DEF IInv, AskedGood, WaveName
<1>6. JobGood'
  <2>1. job' = None \/ job'.touched \/ (job' = job /\ job # None /\ job.kind # k)
    BY <1>1, TouchTyped DEF IInv, TypeOK
  <2>2. ASSUME job' = job, job # None, job.kind # k PROVE JobGood'
    <3>1. job.kind \in Kinds /\ settings'[job.kind] = settings[job.kind]
      BY <1>1, <2>2 DEF IInv, TypeOK, Jobs
    <3> QED BY <1>2, <2>2, <3>1 DEF IInv, JobGood, WaveName
  <2> QED BY <2>1, <2>2 DEF JobGood
<1> QED BY <1>3, <1>4, <1>5, <1>6 DEF IInv

LEMMA LibraryKeeps ==
  ASSUME IInv, RegisterWave \/ DeleteWave
  PROVE  IInv'
<1>1. /\ turns' = turns + 1
      /\ UNCHANGED <<shown, stale, settings, selection, sha, asked, job, undo, asking, file, runs,
                     restored, requested>>
  BY DEF RegisterWave, DeleteWave
<1>2. library' \in [Waves -> Nat]
  BY DEF RegisterWave, DeleteWave, IInv, TypeOK
<1>3. TypeOK'
  BY <1>1, <1>2 DEF IInv, TypeOK, shown
<1>4. ViewShowsItsCase' /\ SessionGood' /\ FileGood' /\ HashNamesARun' /\ AskedGood' /\ JobGood'
  BY <1>1, SameShown, SameFile, SameHash, SameWork DEF IInv
<1> QED BY <1>3, <1>4 DEF IInv

----------------------------------------------------------------------------
(* Asking for an analysis *)

LEMMA Dispatched ==
  ASSUME NEW p \in Requests, p.timed /\ ~p.touched => p.wave = WaveName(p.kind),
         IInv, Dispatch(p), UNCHANGED <<selection, settings>>
  PROVE  job' \in Jobs \union {None} /\ JobGood'
<1>1. CASE job' = job
  BY <1>1 DEF IInv, TypeOK, JobGood, WaveName
<1>2. CASE job' = NewJob(p)
  <2>1. settings[p.kind] \in Settings
    BY DEF IInv, TypeOK, Requests
  <2>2. job' \in Jobs
    BY <1>2, <2>1 DEF NewJob, Jobs, Requests
  <2>3. JobGood'
    BY <1>2 DEF NewJob, JobGood, WaveName
  <2> QED BY <2>2, <2>3
<1> QED BY <1>1, <1>2 DEF Dispatch

LEMMA RequestedKeeps ==
  ASSUME NEW k \in Kinds, NEW wave \in Names, NEW timed \in BOOLEAN, NEW misnamed \in BOOLEAN,
         timed /\ ~misnamed => wave = WaveName(k),
         IInv, RequestAnalysis(k, wave, timed, misnamed), UNCHANGED <<selection, settings>>
  PROVE  /\ asked' \in Requests \union {None} /\ job' \in Jobs \union {None} /\ runs' \in Nat
         /\ AskedGood' /\ JobGood'
<1> DEFINE p == [kind |-> k, wave |-> wave, timed |-> timed, touched |-> misnamed, run |-> runs + 1]
<1>1. p \in Requests
  BY DEF Requests, IInv, TypeOK
<1>2. /\ runs' = runs + 1
      /\ \/ asked' = p /\ UNCHANGED job
         \/ asked' = asked /\ Dispatch(p)
  BY DEF RequestAnalysis
<1>3. p.timed /\ ~p.touched => p.wave = WaveName(p.kind)
  OBVIOUS
<1>4. runs' \in Nat
  BY <1>2 DEF IInv, TypeOK
<1>5. CASE asked' = p /\ UNCHANGED job
  <2>1. AskedGood'
    BY <1>3, <1>5 DEF AskedGood, WaveName
  <2>2. JobGood'
    BY <1>5 DEF IInv, JobGood, WaveName
  <2> QED BY <1>1, <1>4, <1>5, <2>1, <2>2 DEF IInv, TypeOK
<1>6. CASE asked' = asked /\ Dispatch(p)
  <2> HIDE DEF p
  <2>1. AskedGood'
    BY <1>6 DEF IInv, AskedGood, WaveName
  <2>2. job' \in Jobs \union {None} /\ JobGood'
    BY <1>1, <1>3, <1>6, Dispatched
  <2> QED BY <1>4, <1>6, <2>1, <2>2 DEF IInv, TypeOK
<1> QED BY <1>2, <1>5, <1>6

LEMMA RunKeeps ==
  ASSUME IInv, RunSample \/ RunCsv \/ RunEigen
  PROVE  IInv'
<1>1. UNCHANGED <<shown, stale, input, undo, asking, file, turns, restored, requested>>
  BY DEF RunSample, RunCsv, RunEigen
<1>2. UNCHANGED <<settings, selection, sha, library>>
  BY <1>1 DEF input
<1>3. /\ asked' \in Requests \union {None} /\ job' \in Jobs \union {None} /\ runs' \in Nat
      /\ AskedGood' /\ JobGood'
  <2>1. CASE RunSample
    <3>1. PICK k \in Kinds : RequestAnalysis(k, Sample, TRUE, selection[k] # None)
      BY <2>1 DEF RunSample
    <3>2. Sample \in Names /\ (selection[k] # None) \in BOOLEAN
      BY DEF Names
    <3>3. TRUE /\ ~(selection[k] # None) => Sample = WaveName(k)
      BY DEF WaveName
    <3> QED BY <1>2, <3>1, <3>2, <3>3, RequestedKeeps
  <2>2. CASE RunCsv
    BY <1>2, <2>2, RequestedKeeps DEF RunCsv, Names, Kinds
  <2>3. CASE RunEigen
    BY <1>2, <2>3, RequestedKeeps DEF RunEigen, Names, Kinds
  <2> QED BY <2>1, <2>2, <2>3
<1>4. TypeOK'
  BY <1>1, <1>2, <1>3 DEF IInv, TypeOK, shown
<1>5. ViewShowsItsCase' /\ SessionGood' /\ FileGood' /\ HashNamesARun'
  BY <1>1, <1>2, SameShown, SameFile, SameHash DEF IInv
<1> QED BY <1>3, <1>4, <1>5 DEF IInv

LEMMA RunFromLibraryKeeps ==
  ASSUME IInv, RunFromLibrary
  PROVE  IInv'
<1>1. PICK k \in Kinds :
        /\ selection[k] # None
        /\ RequestAnalysis(k, selection[k], TRUE, FALSE)
        /\ sha' = [sha EXCEPT ![k] = library[selection[k]]]
        /\ requested' = [requested EXCEPT ![k] = @ \union {<<selection[k], library[selection[k]]>>}]
  BY DEF RunFromLibrary
<1>2. UNCHANGED <<shown, stale, settings, selection, library, undo, asking, file, turns, restored>>
  BY DEF RunFromLibrary
<1>3. TypeOK
  BY DEF IInv
<1>4. selection[k] \in Waves /\ library[selection[k]] \in Nat
  BY <1>1, <1>3 DEF TypeOK, Selections
<1>5. /\ asked' \in Requests \union {None} /\ job' \in Jobs \union {None} /\ runs' \in Nat
      /\ AskedGood' /\ JobGood'
  <2>1. selection[k] \in Names /\ selection[k] = WaveName(k)
    BY <1>1, <1>4 DEF Names, WaveName
  <2> QED BY <1>1, <1>2, <2>1, RequestedKeeps
<1>6. sha' \in Hashes /\ requested' \in [Kinds -> SUBSET (Waves \X Nat)]
  BY <1>1, <1>3, <1>4 DEF TypeOK, Hashes
<1>7. TypeOK'
  BY <1>2, <1>3, <1>5, <1>6 DEF TypeOK, shown
<1>8. \A j \in Kinds : requested[j] \subseteq requested'[j]
  BY <1>1, <1>3 DEF TypeOK
<1>9. HashNamesARun'
  <2> SUFFICES ASSUME NEW j \in Kinds, sha'[j] # None PROVE <<selection'[j], sha'[j]>> \in requested'[j]
    BY DEF HashNamesARun
  <2>1. CASE j = k
    BY <1>1, <1>2, <1>3, <2>1 DEF TypeOK, Hashes
  <2>2. CASE j # k
    <3>1. sha'[j] = sha[j] /\ requested'[j] = requested[j]
      BY <1>1, <1>3, <2>2 DEF TypeOK, Hashes
    <3> QED BY <1>2, <3>1 DEF IInv, HashNamesARun
  <2> QED BY <2>1, <2>2
<1>10. ViewShowsItsCase' /\ SessionGood' /\ FileGood'
  BY <1>2, <1>8, SameShown, SameFile DEF IInv
<1> QED BY <1>5, <1>7, <1>9, <1>10 DEF IInv

LEMMA AskedKeeps ==
  ASSUME IInv, Resume \/ Cancel
  PROVE  IInv'
<1>1. UNCHANGED <<shown, stale, input, undo, asking, file, runs, turns, restored, requested>>
  BY DEF Resume, Cancel
<1>2. UNCHANGED <<settings, selection, sha, library>>
  BY <1>1 DEF input
<1>3. asked # None /\ asked' = None
  BY DEF Resume, Cancel
<1>4. job' \in Jobs \union {None} /\ JobGood'
  <2>1. CASE Resume
    <3>1. asked \in Requests /\ (asked.timed /\ ~asked.touched => asked.wave = WaveName(asked.kind))
      BY <1>3 DEF IInv, TypeOK, AskedGood
    <3>2. Dispatch(asked)
      BY <2>1 DEF Resume
    <3> QED BY <1>2, <3>1, <3>2, Dispatched
  <2>2. CASE Cancel
    BY <1>2, <2>2 DEF Cancel, IInv, TypeOK, JobGood, WaveName
  <2> QED BY <2>1, <2>2
<1>5. TypeOK'
  BY <1>1, <1>2, <1>3, <1>4 DEF IInv, TypeOK, shown
<1>6. AskedGood'
  BY <1>3 DEF AskedGood
<1>7. ViewShowsItsCase' /\ SessionGood' /\ FileGood' /\ HashNamesARun'
  BY <1>1, <1>2, SameShown, SameFile, SameHash DEF IInv
<1> QED BY <1>4, <1>5, <1>6, <1>7 DEF IInv

----------------------------------------------------------------------------
(* The session, one kind at a time: e is its entry of the bundle, c its     *)
(* cases, v and g what is on display, r whether a copy has been restored.   *)

KindGood(k, e, c, v, g, r) ==
  /\ v # None => v \in DOMAIN e.slots /\ e.window = e.slots[v]
  /\ g = Graph(k, e.window)
  /\ e.slots = NoSlots => e.window = None \/ ~e.window.timed
  /\ ~r => PairedWith(c, e.slots) /\ NamedAfter(c, e.slots)

LEMMA BundleOrEmptyTyped ==
  ASSUME TypeOK PROVE BundleOrEmpty \in Bundles
<1>1. EmptyBundle \in Bundles
  BY NoSlotsIs DEF EmptyBundle, Bundles
<1> QED BY <1>1 DEF BundleOrEmpty, TypeOK

LEMMA KindsGood ==
  ASSUME IInv, NEW k \in Kinds
  PROVE  KindGood(k, BundleOrEmpty[k], cases[k], view[k], graph[k], restored)
<1>1. CASE bundle = NoBundle
  <2>1. BundleOrEmpty[k].slots = NoSlots /\ BundleOrEmpty[k].window = None /\ SlotsOf(bundle, k) = NoSlots
    BY <1>1 DEF BundleOrEmpty, EmptyBundle, SlotsOf
  <2>2. view[k] = None /\ graph[k] = None
    BY <1>1, <2>1, NoSlotsIs DEF IInv, ViewShowsItsCase
  <2>3. ~restored => PairedWith(cases[k], NoSlots) /\ NamedAfter(cases[k], NoSlots)
    BY <2>1 DEF IInv, SessionGood, Matches
  <2> QED BY <2>1, <2>2, <2>3 DEF KindGood, Graph
<1>2. CASE bundle # NoBundle
  <2>1. BundleOrEmpty = bundle /\ SlotsOf(bundle, k) = bundle[k].slots
    BY <1>2 DEF BundleOrEmpty, SlotsOf
  <2>2. /\ view[k] # None => view[k] \in DOMAIN bundle[k].slots /\ bundle[k].window = bundle[k].slots[view[k]]
        /\ graph[k] = Graph(k, bundle[k].window)
    BY <1>2, <2>1 DEF IInv, ViewShowsItsCase
  <2>3. bundle[k].slots = NoSlots => bundle[k].window = None \/ ~bundle[k].window.timed
    BY <1>2 DEF IInv, SessionGood, WindowHasSlot
  <2>4. ~restored => PairedWith(cases[k], bundle[k].slots) /\ NamedAfter(cases[k], bundle[k].slots)
    BY <2>1 DEF IInv, SessionGood, Matches
  <2> QED BY <2>1, <2>2, <2>3, <2>4 DEF KindGood
<1> QED BY <1>1, <1>2

LEMMA SessionFromKinds ==
  ASSUME bundle' \in Bundles,
         \A k \in Kinds : KindGood(k, bundle'[k], cases'[k], view'[k], graph'[k], restored')
  PROVE  ViewShowsItsCase' /\ SessionGood'
<1>1. bundle' # NoBundle /\ \A k \in Kinds : SlotsOf(bundle', k) = bundle'[k].slots
  BY BundleFacts DEF SlotsOf
<1>2. ViewShowsItsCase'
  BY <1>1 DEF ViewShowsItsCase, KindGood
<1>3. WindowHasSlot(bundle')
  BY DEF KindGood, WindowHasSlot
<1>4. ~restored' => Matches(cases', bundle')
  BY <1>1 DEF KindGood, Matches
<1> QED BY <1>2, <1>3, <1>4 DEF SessionGood

LEMMA EntryReplaced ==
  ASSUME NEW s, NEW w, NEW e, e = [slots |-> s, window |-> w], NEW u, NEW r
  PROVE  [e EXCEPT !.slots = u, !.window = r] = [slots |-> u, window |-> r]
<1>1. [[e EXCEPT !.slots = u] EXCEPT !.window = r] = [slots |-> u, window |-> r]
  <2>1. [e EXCEPT !.slots = u] = [slots |-> u, window |-> w]
    OBVIOUS
  <2>2. [[slots |-> u, window |-> w] EXCEPT !.window = r] = [slots |-> u, window |-> r]
    OBVIOUS
  <2> QED BY <2>1, <2>2
<1> QED BY <1>1

LEMMA GraphTyped ==
  ASSUME NEW b \in Bundles, NEW k \in Kinds
  PROVE  Graph(k, b[k].window) \in Results \union {None}
BY BundleFacts, BareFacts

(* A timed result of the kind k: slot, window and case are written together. *)
LEMMA TimedKeeps ==
  ASSUME IInv, NEW k \in Kinds, NEW r \in Results, r.timed,
         r.touched \/ Label(WaveName(k), settings[k]) = Label(r.wave, r.setting),
         ApplyTimed(k, r), UNCHANGED restored
  PROVE  /\ cases' \in CaseTables /\ bundle' \in Bundles /\ view' \in Views
         /\ graph' \in [Kinds -> Results \union {None}] /\ stale' \in BOOLEAN
         /\ ViewShowsItsCase' /\ SessionGood'
<1> DEFINE label == Label(WaveName(k), settings[k])
<1> DEFINE b == BundleOrEmpty
<1> DEFINE id == CaseIdOf(cases[k], label)
<1>0. TypeOK
  BY DEF IInv
<1>1. b \in Bundles /\ b = [j \in Kinds |-> b[j]] /\ b[k].slots \in Tables(Results)
      /\ b[k] = [slots |-> b[k].slots, window |-> b[k].window]
  <2>1. b \in Bundles
    BY <1>0, BundleOrEmptyTyped
  <2> HIDE DEF b
  <2> QED BY <2>1, BundleFacts
<1>2. /\ cases' = [cases EXCEPT ![k] = UpsertCase(cases[k], label)]
      /\ bundle' = UpsertInWindow(b, k, id, r)
      /\ view' = [view EXCEPT ![k] = id] /\ graph' = [graph EXCEPT ![k] = Graph(k, r)]
      /\ stale' = FALSE
  BY DEF ApplyTimed, ShowResult
<1>3. label \in Labels
  <2>1. WaveName(k) \in Names /\ settings[k] \in Settings
    BY <1>0 DEF WaveName, TypeOK, Selections, Names
  <2> QED BY <2>1 DEF Label, Labels
<1>4. cases[k] \in Tables(Labels) /\ cases \in CaseTables
  BY <1>0 DEF TypeOK, CaseTables
<1> DEFINE c == UpsertCase(cases[k], label)
<1> DEFINE u == Upsert(b[k].slots, id, r)
<1> HIDE DEF label, b
<1>5. id \in Nat
  BY <1>4, CaseIdTyped
<1>6. /\ c \in Tables(Labels) /\ DOMAIN c = DOMAIN cases[k] \union {id} /\ c[id] = label
      /\ \A i \in DOMAIN cases[k] \ {id} : c[i] = cases[k][i]
  <2>1. c \in Tables(Labels)
    BY <1>3, <1>4, CaseUpserted
  <2> QED BY <2>1 DEF UpsertCase, Upsert
<1> HIDE DEF id, c
<1>7. /\ u \in Tables(Results) /\ DOMAIN u = DOMAIN b[k].slots \union {id} /\ u # NoSlots
  <2>1. u \in Tables(Results)
    BY <1>1, <1>5, Upserted
  <2>2. DOMAIN u = DOMAIN b[k].slots \union {id}
    BY DEF Upsert
  <2>3. u # NoSlots
    <3> HIDE DEF u
    <3> QED BY <2>2, NoSlotsIs
  <2> QED BY <2>1, <2>2, <2>3
<1>8. u[id] = r /\ \A i \in DOMAIN b[k].slots \ {id} : u[i] = b[k].slots[i]
  BY DEF Upsert
<1>9. bundle' = [j \in Kinds |-> IF j = k THEN [slots |-> u, window |-> r] ELSE b[j]]
  <2>1. bundle' = [b EXCEPT ![k].slots = u, ![k].window = r]
    BY <1>2 DEF UpsertInWindow
  <2>2. [b[k] EXCEPT !.slots = u, !.window = r] = [slots |-> u, window |-> r]
    <3> DEFINE s == b[k].slots
    <3> DEFINE w == b[k].window
    <3> DEFINE e == b[k]
    <3>1. e = [slots |-> s, window |-> w]
      BY <1>1
    <3> HIDE DEF u, s, w, e
    <3>2. [e EXCEPT !.slots = u, !.window = r] = [slots |-> u, window |-> r]
      BY <3>1, EntryReplaced
    <3> QED BY <3>2 DEF e
  <2> HIDE DEF u
  <2> QED BY <1>1, <2>1, <2>2
<1> HIDE DEF u
<1>10. bundle' \in Bundles
  <2>1. ASSUME NEW j \in Kinds
        PROVE  \E s \in Tables(Results), w \in Results \union {None} : bundle'[j] = [slots |-> s, window |-> w]
    <3>1. CASE j = k
      BY <1>7, <1>9, <3>1
    <3>2. CASE j # k
      <4>1. bundle'[j] = b[j]
        BY <1>9, <3>2
      <4>2. /\ b[j] = [slots |-> b[j].slots, window |-> b[j].window]
            /\ b[j].slots \in Tables(Results) /\ b[j].window \in Results \union {None}
        BY <1>1, BundleFacts
      <4> QED BY <4>1, <4>2
    <3> QED BY <3>1, <3>2
  <2>2. bundle' = [j \in Kinds |-> bundle'[j]]
    BY <1>9
  <2> QED BY <2>1, <2>2, BundleMade
<1>11. ASSUME NEW j \in Kinds
       PROVE  KindGood(j, bundle'[j], cases'[j], view'[j], graph'[j], restored')
  <2>1. KindGood(j, b[j], cases[j], view[j], graph[j], restored)
    BY KindsGood DEF b
  <2>2. CASE j # k
    <3>1. bundle'[j] = b[j] /\ cases'[j] = cases[j] /\ view'[j] = view[j] /\ graph'[j] = graph[j]
      BY <1>0, <1>2, <1>9, <2>2 DEF TypeOK, CaseTables, Views
    <3> QED BY <2>1, <3>1
  <2>3. CASE j = k
    <3>1. /\ bundle'[j] = [slots |-> u, window |-> r] /\ cases'[j] = c /\ view'[j] = id
          /\ graph'[j] = Graph(j, r)
      BY <1>0, <1>2, <1>9, <2>3 DEF TypeOK, CaseTables, Views, c
    <3>2. ASSUME ~restored PROVE PairedWith(c, u) /\ NamedAfter(c, u)
      <4>1. DOMAIN cases[k] = DOMAIN b[k].slots
        BY <2>1, <2>3, <3>2 DEF KindGood, PairedWith
      <4>2. DOMAIN c = DOMAIN u
        BY <4>1, <1>6, <1>7
      <4>3. ASSUME NEW i \in DOMAIN c PROVE u[i].touched \/ c[i] = Label(u[i].wave, u[i].setting)
        <5>1. CASE i = id
          BY <5>1, <1>6, <1>8 DEF label
        <5>2. CASE i # id
          <6>1. i \in DOMAIN cases[k] /\ c[i] = cases[k][i] /\ u[i] = b[k].slots[i]
            BY <1>6, <1>8, <4>1, <4>3, <5>2
          <6>2. NamedAfter(cases[k], b[k].slots)
            BY <2>1, <2>3, <3>2 DEF KindGood
          <6> QED BY <6>1, <6>2 DEF NamedAfter
        <5> QED BY <5>1, <5>2
      <4> QED BY <4>2, <4>3 DEF PairedWith, NamedAfter
    <3> QED BY <1>7, <1>8, <3>1, <3>2 DEF KindGood
  <2> QED BY <2>2, <2>3
<1>12. cases' \in CaseTables /\ view' \in Views /\ graph' \in [Kinds -> Results \union {None}]
  <2>1. Graph(k, r) \in Results \union {None}
    BY BareFacts
  <2> QED BY <1>0, <1>2, <1>5, <1>6, <2>1 DEF TypeOK, CaseTables, Views, c
<1> QED BY <1>2, <1>10, <1>11, <1>12, SessionFromKinds

(* The window of a kind is replaced and shown with the case v, or none.     *)
LEMMA WindowKeeps ==
  ASSUME IInv, NEW k \in Kinds, NEW r \in Results, NEW v \in Nat \union {None},
         v # None => v \in DOMAIN BundleOrEmpty[k].slots /\ BundleOrEmpty[k].slots[v] = r,
         v # None \/ ~r.timed,
         bundle' = [BundleOrEmpty EXCEPT ![k].window = r],
         ShowResult(k, v, r), UNCHANGED <<cases, restored>>
  PROVE  /\ bundle' \in Bundles /\ view' \in Views /\ graph' \in [Kinds -> Results \union {None}]
         /\ ViewShowsItsCase' /\ SessionGood'
<1> DEFINE b == BundleOrEmpty
<1>0. TypeOK
  BY DEF IInv
<1>1. b \in Bundles /\ b = [j \in Kinds |-> b[j]] /\ b[k].slots \in Tables(Results)
      /\ b[k] = [slots |-> b[k].slots, window |-> b[k].window]
  <2>1. b \in Bundles
    BY <1>0, BundleOrEmptyTyped
  <2> HIDE DEF b
  <2> QED BY <2>1, BundleFacts
<1>2. view' = [view EXCEPT ![k] = v] /\ graph' = [graph EXCEPT ![k] = Graph(k, r)]
  BY DEF ShowResult
<1>3. bundle' = [b EXCEPT ![k].window = r] /\ (v # None => v \in DOMAIN b[k].slots /\ b[k].slots[v] = r)
  OBVIOUS
<1> HIDE DEF b
<1>9. bundle' = [j \in Kinds |-> IF j = k THEN [slots |-> b[k].slots, window |-> r] ELSE b[j]]
  <2>1. [b[k] EXCEPT !.window = r] = [slots |-> b[k].slots, window |-> r]
    BY <1>1
  <2> QED BY <1>1, <1>3, <2>1
<1>10. bundle' \in Bundles
  <2>1. ASSUME NEW j \in Kinds
        PROVE  \E s \in Tables(Results), w \in Results \union {None} : bundle'[j] = [slots |-> s, window |-> w]
    <3>1. CASE j = k
      BY <1>1, <1>9, <3>1
    <3>2. CASE j # k
      <4>1. bundle'[j] = b[j]
        BY <1>9, <3>2
      <4>2. /\ b[j] = [slots |-> b[j].slots, window |-> b[j].window]
            /\ b[j].slots \in Tables(Results) /\ b[j].window \in Results \union {None}
        BY <1>1, BundleFacts
      <4> QED BY <4>1, <4>2
    <3> QED BY <3>1, <3>2
  <2>2. bundle' = [j \in Kinds |-> bundle'[j]]
    BY <1>9
  <2> QED BY <2>1, <2>2, BundleMade
<1>11. ASSUME NEW j \in Kinds
       PROVE  KindGood(j, bundle'[j], cases'[j], view'[j], graph'[j], restored')
  <2>1. KindGood(j, b[j], cases[j], view[j], graph[j], restored)
    BY KindsGood DEF b
  <2>2. CASE j # k
    <3>1. bundle'[j] = b[j] /\ cases'[j] = cases[j] /\ view'[j] = view[j] /\ graph'[j] = graph[j]
      BY <1>0, <1>2, <1>9, <2>2 DEF TypeOK, Views
    <3> QED BY <2>1, <3>1
  <2>3. CASE j = k
    <3>1. /\ bundle'[j] = [slots |-> b[k].slots, window |-> r] /\ cases'[j] = cases[j] /\ view'[j] = v
          /\ graph'[j] = Graph(j, r)
      BY <1>0, <1>2, <1>9, <2>3 DEF TypeOK, Views
    <3>2. b[k].slots = NoSlots => ~r.timed
      BY <1>3, NoSlotsIs
    <3> QED BY <1>3, <2>1, <2>3, <3>1, <3>2 DEF KindGood
  <2> QED BY <2>2, <2>3
<1>12. view' \in Views /\ graph' \in [Kinds -> Results \union {None}]
  <2>1. Graph(k, r) \in Results \union {None}
    BY BareFacts
  <2> QED BY <1>0, <1>2, <2>1 DEF TypeOK, Views
<1> QED BY <1>10, <1>11, <1>12, SessionFromKinds

LEMMA SucceedsKeeps ==
  ASSUME IInv, JobSucceeds
  PROVE  IInv'
<1>1. /\ job # None /\ job' = None
      /\ UNCHANGED <<input, asked, undo, asking, file, runs, turns, restored, requested>>
  BY DEF JobSucceeds
<1>2. UNCHANGED <<settings, selection, sha, library>>
  BY <1>1 DEF input
<1>3. TypeOK /\ job \in Jobs
  BY <1>1 DEF IInv, TypeOK
<1>4. ResultOfJob \in Results
  BY <1>3 DEF ResultOfJob, RunResult, Results, Jobs
<1>5. /\ cases' \in CaseTables /\ bundle' \in Bundles /\ view' \in Views
      /\ graph' \in [Kinds -> Results \union {None}] /\ stale' \in BOOLEAN
      /\ ViewShowsItsCase' /\ SessionGood'
  <2>1. CASE job.timed
    <3>1. ApplyTimed(job.kind, ResultOfJob)
      BY <2>1 DEF JobSucceeds
    <3>2. job.kind \in Kinds
      BY <1>3 DEF Jobs
    <3>3. ResultOfJob.timed
      BY <2>1 DEF ResultOfJob, RunResult
    <3>4. ResultOfJob.touched \/ Label(WaveName(job.kind), settings[job.kind]) =
                                   Label(ResultOfJob.wave, ResultOfJob.setting)
      BY <1>1, <2>1 DEF IInv, JobGood, ResultOfJob, RunResult
    <3> QED BY <1>1, <1>4, <3>1, <3>2, <3>3, <3>4, TimedKeeps
  <2>2. CASE ~job.timed
    <3>1. ApplyEigen(ResultOfJob)
      BY <2>2 DEF JobSucceeds
    <3>2. /\ bundle' = [BundleOrEmpty EXCEPT !["lumped"].window = ResultOfJob]
          /\ ShowResult("lumped", None, ResultOfJob) /\ UNCHANGED <<cases, stale>>
      BY <3>1 DEF ApplyEigen
    <3>3. ~ResultOfJob.timed /\ "lumped" \in Kinds
      BY <2>2 DEF ResultOfJob, RunResult, Kinds
    <3>4. /\ bundle' \in Bundles /\ view' \in Views /\ graph' \in [Kinds -> Results \union {None}]
          /\ ViewShowsItsCase' /\ SessionGood'
      BY <1>1, <1>4, <3>2, <3>3, WindowKeeps
    <3> QED BY <1>3, <3>2, <3>4 DEF TypeOK
  <2> QED BY <2>1, <2>2
<1>6. TypeOK'
  BY <1>1, <1>2, <1>3, <1>5 DEF TypeOK
<1>7. AskedGood' /\ JobGood'
  BY <1>1, <1>2 DEF IInv, AskedGood, JobGood, WaveName
<1>8. FileGood' /\ HashNamesARun'
  BY <1>1, <1>2, SameFile, SameHash DEF IInv
<1> QED BY <1>5, <1>6, <1>7, <1>8 DEF IInv

LEMMA FailsKeeps ==
  ASSUME IInv, JobFails
  PROVE  IInv'
<1>1. /\ job' = None
      /\ UNCHANGED <<shown, stale, input, asked, undo, asking, file, runs, turns, restored, requested>>
  BY DEF JobFails
<1>2. UNCHANGED <<settings, selection, sha, library>>
  BY <1>1 DEF input
<1>3. TypeOK'
  BY <1>1, <1>2 DEF IInv, TypeOK, shown
<1>4. AskedGood' /\ JobGood'
  BY <1>1, <1>2 DEF IInv, AskedGood, JobGood, WaveName
<1>5. ViewShowsItsCase' /\ SessionGood' /\ FileGood' /\ HashNamesARun'
  BY <1>1, <1>2, SameShown, SameFile, SameHash DEF IInv
<1> QED BY <1>3, <1>4, <1>5 DEF IInv

LEMMA OtherKeeps ==
  ASSUME IInv, OtherAnalysis
  PROVE  IInv'
<1>1. /\ bundle' = BundleOrEmpty /\ stale' = FALSE
      /\ UNCHANGED <<cases, view, graph, input, asked, job, undo, asking, file, runs, turns,
                     restored, requested>>
  BY DEF OtherAnalysis
<1>2. UNCHANGED <<settings, selection, sha, library>>
  BY <1>1 DEF input
<1>3. bundle' \in Bundles
  BY <1>1, BundleOrEmptyTyped DEF IInv
<1>4. TypeOK'
  BY <1>1, <1>2, <1>3 DEF IInv, TypeOK
<1>5. ViewShowsItsCase' /\ SessionGood'
  BY <1>1, <1>3, KindsGood, SessionFromKinds
<1>6. AskedGood' /\ JobGood' /\ FileGood' /\ HashNamesARun'
  BY <1>1, <1>2, SameWork, SameFile, SameHash DEF IInv
<1> QED BY <1>4, <1>5, <1>6 DEF IInv

LEMMA FocusKeeps ==
  ASSUME IInv, Focus
  PROVE  IInv'
<1>0. PICK k \in Kinds : \E id \in DOMAIN bundle[k].slots :
        /\ bundle' = [bundle EXCEPT ![k].window = bundle[k].slots[id]]
        /\ ShowResult(k, id, bundle[k].slots[id])
  BY DEF Focus
<1>1. PICK id \in DOMAIN bundle[k].slots :
        /\ bundle' = [bundle EXCEPT ![k].window = bundle[k].slots[id]]
        /\ ShowResult(k, id, bundle[k].slots[id])
  BY <1>0
<1>2. /\ bundle # NoBundle
      /\ UNCHANGED <<cases, stale, input, asked, job, undo, asking, file, runs, turns, restored, requested>>
  BY DEF Focus
<1>3. UNCHANGED <<settings, selection, sha, library>>
  BY <1>2 DEF input
<1>4. bundle \in Bundles /\ BundleOrEmpty = bundle
  BY <1>2 DEF IInv, TypeOK, BundleOrEmpty
<1> DEFINE r == bundle[k].slots[id]
<1>5. r \in Results /\ id \in Nat
  BY <1>4, BundleFacts, TableFacts
<1>6. id # None /\ id \in Nat \union {None}
  BY <1>5, NoneAssumption
<1>7. /\ bundle' \in Bundles /\ view' \in Views /\ graph' \in [Kinds -> Results \union {None}]
      /\ ViewShowsItsCase' /\ SessionGood'
  BY <1>1, <1>2, <1>4, <1>5, <1>6, WindowKeeps
<1>8. TypeOK'
  BY <1>2, <1>3, <1>7 DEF IInv, TypeOK
<1>9. AskedGood' /\ JobGood' /\ FileGood' /\ HashNamesARun'
  BY <1>2, <1>3, SameWork, SameFile, SameHash DEF IInv
<1> QED BY <1>7, <1>8, <1>9 DEF IInv

----------------------------------------------------------------------------
(* Editing, undo and redo *)

LEMMA FrontLast ==
  ASSUME NEW S, NEW q \in Seq(S), q # <<>>
  PROVE  Front(q) \in Seq(S) /\ Last(q) \in S
<1>1. Len(q) \in Nat /\ Len(q) > 0
  OBVIOUS
<1>2. Len(q) - 1 \in Nat /\ \A i \in 1..(Len(q) - 1) : q[i] \in S
  BY <1>1
<1>3. SubSeq(q, 1, Len(q) - 1) \in Seq(S)
  BY <1>1, <1>2
<1>4. q[Len(q)] \in S
  BY <1>1
<1> QED BY <1>3, <1>4 DEF Front, Last

LEMMA DoKeeps ==
  ASSUME IInv, Edit \/ CopyStory
  PROVE  IInv'
<1>1. PICK entry \in Entries : Do(entry)
  BY DEF Edit, CopyStory, Entries, IInv, TypeOK
<1>2. /\ turns' = turns + 1 /\ stale' = TRUE
      /\ undo' = [past |-> Append(undo.past, entry), future |-> <<>>]
      /\ UNCHANGED <<shown, input, asked, job, asking, file, runs, restored, requested>>
  BY <1>1 DEF Do
<1>3. UNCHANGED <<settings, selection, sha, library>>
  BY <1>2 DEF input
<1>4. undo' \in Histories
  BY <1>2 DEF IInv, TypeOK, Histories
<1>5. TypeOK'
  BY <1>2, <1>3, <1>4 DEF IInv, TypeOK, shown
<1>6. ViewShowsItsCase' /\ SessionGood' /\ FileGood' /\ HashNamesARun' /\ AskedGood' /\ JobGood'
  BY <1>2, <1>3, SameShown, SameFile, SameHash, SameWork DEF IInv
<1> QED BY <1>5, <1>6 DEF IInv

(* Undo and redo may put earlier cases back, and then `restored' tells.     *)
LEMMA StepKeeps ==
  ASSUME IInv, NEW entry \in Entries, Step(entry), undo' \in Histories
  PROVE  IInv'
<1>1. /\ turns' = turns + 1 /\ stale' = TRUE
      /\ cases' = CasesOf(entry) /\ restored' = (restored \/ CasesOf(entry) # cases)
      /\ UNCHANGED <<bundle, view, graph, input, asked, job, asking, file, runs, requested>>
  BY DEF Step
<1>2. UNCHANGED <<settings, selection, sha, library>>
  BY <1>1 DEF input
<1>3. cases' \in CaseTables
  BY <1>1 DEF CasesOf, Entries, IInv, TypeOK
<1>4. TypeOK'
  BY <1>1, <1>2, <1>3 DEF IInv, TypeOK
<1>5. ViewShowsItsCase' /\ SessionGood'
  <2>1. ViewShowsItsCase'
    BY <1>1 DEF IInv, ViewShowsItsCase
  <2>2. ~restored' => ~restored /\ cases' = cases
    BY <1>1
  <2> QED BY <1>1, <2>1, <2>2 DEF IInv, SessionGood
<1>6. FileGood' /\ HashNamesARun' /\ AskedGood' /\ JobGood'
  BY <1>1, <1>2, SameFile, SameHash, SameWork DEF IInv
<1> QED BY <1>4, <1>5, <1>6 DEF IInv

LEMMA UndoKeeps ==
  ASSUME IInv, Undo
  PROVE  IInv'
<1>1. /\ undo.past # <<>> /\ Step(Last(undo.past))
      /\ undo' = [past |-> Front(undo.past), future |-> Append(undo.future, AnswerTo(Last(undo.past)))]
  BY DEF Undo
<1>2. undo.past \in Seq(Entries) /\ undo.future \in Seq(Entries)
  BY DEF IInv, TypeOK, Histories
<1>3. Front(undo.past) \in Seq(Entries) /\ Last(undo.past) \in Entries
  BY <1>1, <1>2, FrontLast
<1>4. AnswerTo(Last(undo.past)) \in Entries
  BY DEF AnswerTo, Entries, IInv, TypeOK
<1>5. undo' \in Histories
  BY <1>1, <1>2, <1>3, <1>4 DEF Histories
<1> QED BY <1>1, <1>3, <1>5, StepKeeps

LEMMA RedoKeeps ==
  ASSUME IInv, Redo
  PROVE  IInv'
<1>1. /\ undo.future # <<>> /\ Step(Last(undo.future))
      /\ undo' = [past |-> Append(undo.past, AnswerTo(Last(undo.future))), future |-> Front(undo.future)]
  BY DEF Redo
<1>2. undo.past \in Seq(Entries) /\ undo.future \in Seq(Entries)
  BY DEF IInv, TypeOK, Histories
<1>3. Front(undo.future) \in Seq(Entries) /\ Last(undo.future) \in Entries
  BY <1>1, <1>2, FrontLast
<1>4. AnswerTo(Last(undo.future)) \in Entries
  BY DEF AnswerTo, Entries, IInv, TypeOK
<1>5. undo' \in Histories
  BY <1>1, <1>2, <1>3, <1>4 DEF Histories
<1> QED BY <1>1, <1>3, <1>5, StepKeeps

----------------------------------------------------------------------------
(* Saving *)

LEMMA NoCasesTyped ==
  NoCases \in CaseTables /\ \A k \in Kinds : DOMAIN NoCases[k] = {}
<1>1. <<>> \in Tables(Labels) /\ DOMAIN <<>> = {}
  BY NoSlotsIs DEF NoSlots
<1> QED BY <1>1 DEF NoCases, CaseTables

LEMMA SameRunsKeep ==
  ASSUME NEW b \in Bundles, NEW c \in Bundles, SameRuns(b, c), NEW k \in Kinds
  PROVE  /\ c[k].slots = NoSlots => b[k].slots = NoSlots
         /\ c[k].window = None <=> b[k].window = None
         /\ c[k].window # None => c[k].window.timed = b[k].window.timed
         /\ \A cs : PairedWith(cs, b[k].slots) /\ NamedAfter(cs, b[k].slots) =>
                      PairedWith(cs, c[k].slots) /\ NamedAfter(cs, c[k].slots)
<1>1. /\ b[k].slots \in Tables(Results) /\ c[k].slots \in Tables(Results)
      /\ b[k].window \in Results \union {None} /\ c[k].window \in Results \union {None}
  BY BundleFacts
<1>2. /\ DOMAIN c[k].slots = DOMAIN b[k].slots /\ Bare(c[k].window) = Bare(b[k].window)
      /\ \A id \in DOMAIN b[k].slots : Bare(c[k].slots[id]) = Bare(b[k].slots[id])
  BY DEF SameRuns
<1>3. c[k].slots = NoSlots => b[k].slots = NoSlots
  BY <1>1, <1>2, NoSlotsIs
<1>4. c[k].window = None <=> b[k].window = None
  BY <1>1, <1>2, BareFacts
<1>5. c[k].window # None => c[k].window.timed = b[k].window.timed
  BY <1>1, <1>2, <1>4, BareFacts
<1>6. ASSUME NEW cs, PairedWith(cs, b[k].slots), NamedAfter(cs, b[k].slots)
      PROVE  PairedWith(cs, c[k].slots) /\ NamedAfter(cs, c[k].slots)
  <2>1. PairedWith(cs, c[k].slots)
    BY <1>2, <1>6 DEF PairedWith
  <2>2. ASSUME NEW id \in DOMAIN cs
        PROVE  c[k].slots[id].touched \/ cs[id] = Label(c[k].slots[id].wave, c[k].slots[id].setting)
    <3>1. id \in DOMAIN b[k].slots /\ id \in DOMAIN c[k].slots
      BY <1>2, <1>6 DEF PairedWith
    <3>2. b[k].slots[id] \in Results /\ c[k].slots[id] \in Results
      BY <1>1, <3>1, TableFacts
    <3>3. b[k].slots[id] # None /\ c[k].slots[id] # None
      BY <3>2, NoneAssumption
    <3>4. Bare(c[k].slots[id]) = Bare(b[k].slots[id])
      BY <1>2, <3>1
    <3>5. /\ c[k].slots[id].wave = b[k].slots[id].wave
          /\ c[k].slots[id].setting = b[k].slots[id].setting
          /\ c[k].slots[id].touched = b[k].slots[id].touched
      BY <3>2, <3>3, <3>4, BareFacts
    <3> QED BY <1>6, <3>5 DEF NamedAfter
  <2> QED BY <2>1, <2>2 DEF NamedAfter
<1> QED BY <1>3, <1>4, <1>5, <1>6

(* What is written, with its results c or without any.                      *)
FileOf(c) ==
  [results |-> IF c = NoBundle THEN None ELSE [bundle |-> c, view |-> view],
   cases |-> IF PersistResults THEN cases ELSE NoCases,
   settings |-> settings, selection |-> selection, sha |-> sha, restored |-> restored]

LEMMA Written ==
  ASSUME TypeOK, NEW exclude \in BOOLEAN, Write(exclude)
  PROVE  /\ UNCHANGED <<shown, stale, input, asked, job, undo, runs, restored, requested>>
         /\ \/ UNCHANGED file
            \/ file' = FileOf(NoBundle)
            \/ PersistResults /\ \E c \in Bundles : SameRuns(bundle, c) /\ file' = FileOf(c)
                                                    /\ c \in {bundle, TakeThRecordings(bundle).bundle}
<1> DEFINE taken == TakeThRecordings(bundle)
<1> DEFINE held == IF exclude /\ bundle # NoBundle THEN taken.bundle ELSE bundle
<1> DEFINE saved == IF PersistResults THEN [bundle |-> held, view |-> view] ELSE None
<1> DEFINE entry(results) ==
      [results |-> results, cases |-> IF PersistResults THEN cases ELSE NoCases,
       settings |-> settings, selection |-> selection, sha |-> sha, restored |-> restored]
<1>1. /\ bundle' = IF exclude /\ bundle # NoBundle THEN RestoreThRecordings(taken) ELSE bundle
      /\ (\E results \in {saved, None} : file' = entry(results)) \/ UNCHANGED file
      /\ UNCHANGED <<cases, view, graph, stale, input, asked, job, undo, runs, restored, requested>>
  BY DEF Write
<1>2. bundle' = bundle
  <2>1. bundle # NoBundle => RestoreThRecordings(taken) = bundle
    BY RestoreTaken DEF TypeOK
  <2> HIDE DEF taken
  <2> QED BY <1>1, <2>1
<1>3. UNCHANGED <<shown, stale, input, asked, job, undo, runs, restored, requested>>
  BY <1>1, <1>2 DEF shown
<1>4. CASE file' = entry(None)
  BY <1>3, <1>4 DEF FileOf
<1>5. CASE file' = entry(saved) /\ PersistResults
  <2>1. bundle \in Bundles
    BY <1>5 DEF PersistResults, TypeOK
  <2>2. held \in Bundles /\ SameRuns(bundle, held) /\ held \in {bundle, taken.bundle}
    <3>1. taken.bundle \in Bundles /\ SameRuns(bundle, taken.bundle) /\ SameRuns(bundle, bundle)
      BY <2>1, TakenFacts, SameAsItself
    <3> HIDE DEF taken
    <3> QED BY <2>1, <3>1
  <2>3. file' = FileOf(held)
    <3>1. held # NoBundle
      BY <2>2, BundleFacts
    <3>2. saved = [bundle |-> held, view |-> view]
      BY <1>5
    <3> HIDE DEF held, saved
    <3> QED BY <1>5, <3>1, <3>2 DEF FileOf
  <2> HIDE DEF held
  <2> QED BY <1>3, <1>5, <2>2, <2>3
<1>6. CASE file' = entry(saved) /\ ~PersistResults
  <2>1. saved = None
    BY <1>6
  <2> HIDE DEF saved
  <2> QED BY <1>4, <1>6, <2>1
<1>7. CASE UNCHANGED file
  BY <1>3, <1>7
<1> HIDE DEF saved, entry
<1> QED BY <1>1, <1>4, <1>5, <1>6, <1>7

LEMMA WriteKeeps ==
  ASSUME IInv, NEW exclude \in BOOLEAN, Write(exclude), turns' \in Nat, asking' \in BOOLEAN
  PROVE  IInv'
<1>1. TypeOK
  BY DEF IInv
<1>2. UNCHANGED <<shown, stale, input, asked, job, undo, runs, restored, requested>>
  BY <1>1, Written
<1>3. UNCHANGED <<settings, selection, sha, library>>
  BY <1>2 DEF input
<1>4. file' \in Files \union {None} /\ FileGood'
  <2>1. CASE UNCHANGED file
    <3>1. FileGood'
      BY <1>2, <2>1, SameFile DEF IInv
    <3> QED BY <1>1, <2>1, <3>1 DEF TypeOK
  <2>2. (IF PersistResults THEN cases ELSE NoCases) \in CaseTables
    BY <1>1, NoCasesTyped DEF TypeOK
  <2>3. \A k \in Kinds : sha[k] # None => <<selection[k], sha[k]>> \in requested'[k]
    BY <1>2 DEF IInv, HashNamesARun
  <2>4. CASE file' = FileOf(NoBundle)
    <3>1. file'.results = None /\ file'.sha = sha /\ file'.selection = selection /\ file' \in Files
      BY <1>1, <2>2, <2>4 DEF FileOf, Files, TypeOK
    <3> QED BY <2>3, <3>1 DEF FileGood
  <2>5. ASSUME PersistResults, NEW c \in Bundles, SameRuns(bundle, c), file' = FileOf(c)
        PROVE  file' \in Files \union {None} /\ FileGood'
    <3>1. bundle \in Bundles /\ c # NoBundle /\ bundle # NoBundle
      BY <1>1, <2>5, BundleFacts DEF PersistResults, TypeOK
    <3>2. /\ file'.results = [bundle |-> c, view |-> view] /\ file'.cases = cases
          /\ file'.sha = sha /\ file'.selection = selection /\ file'.restored = restored
      BY <2>5, <3>1 DEF FileOf
    <3>3. file' \in Files
      <4>1. [bundle |-> c, view |-> view] \in Saved
        BY <1>1 DEF Saved, TypeOK
      <4> QED BY <1>1, <2>2, <2>5, <3>1, <4>1 DEF FileOf, Files, TypeOK
    <3>4. LegacyWindow(c)
      <4> SUFFICES ASSUME NEW k \in Kinds, c[k].slots = NoSlots, c[k].window # None, c[k].window.timed
                   PROVE  FALSE
        BY DEF LegacyWindow
      <4>1. bundle[k].slots = NoSlots /\ bundle[k].window # None /\ bundle[k].window.timed
        BY <2>5, <3>1, SameRunsKeep
      <4> QED BY <3>1, <4>1 DEF IInv, SessionGood, WindowHasSlot
    <3>5. ASSUME ~restored PROVE Matches(cases, c)
      <4> SUFFICES ASSUME NEW k \in Kinds
                   PROVE  PairedWith(cases[k], c[k].slots) /\ NamedAfter(cases[k], c[k].slots)
        BY <3>1 DEF Matches, SlotsOf
      <4>1. PairedWith(cases[k], bundle[k].slots) /\ NamedAfter(cases[k], bundle[k].slots)
        BY <3>1, <3>5 DEF IInv, SessionGood, Matches, SlotsOf
      <4> QED BY <2>5, <3>1, <4>1, SameRunsKeep
    <3>6. file'.results.bundle = c
      BY <3>2
    <3> QED BY <2>3, <3>2, <3>3, <3>4, <3>5, <3>6 DEF FileGood
  <2> QED BY <1>1, <2>1, <2>4, <2>5, Written
<1>5. TypeOK'
  BY <1>1, <1>2, <1>3, <1>4 DEF TypeOK, shown
<1>6. ViewShowsItsCase' /\ SessionGood' /\ HashNamesARun' /\ AskedGood' /\ JobGood'
  BY <1>2, <1>3, SameShown, SameHash, SameWork DEF IInv
<1> QED BY <1>4, <1>5, <1>6 DEF IInv

(* Nothing but the question is left when nothing is written.                *)
LEMMA NotWrittenKeeps ==
  ASSUME IInv, UNCHANGED <<shown, stale, input, asked, job, undo, file, runs, restored, requested>>,
         turns' \in Nat, asking' \in BOOLEAN
  PROVE  IInv'
<1>1. UNCHANGED <<settings, selection, sha, library>>
  BY DEF input
<1>2. TypeOK'
  BY <1>1 DEF IInv, TypeOK, shown
<1>3. ViewShowsItsCase' /\ SessionGood' /\ FileGood' /\ HashNamesARun' /\ AskedGood' /\ JobGood'
  BY <1>1, SameShown, SameFile, SameHash, SameWork DEF IInv
<1> QED BY <1>2, <1>3 DEF IInv

LEMMA SaveKeeps ==
  ASSUME IInv, Save \/ ResolveSave
  PROVE  IInv'
<1>1. turns' \in Nat /\ asking' \in BOOLEAN
  <2>1. turns \in Nat /\ asking \in BOOLEAN
    BY DEF IInv, TypeOK
  <2>2. turns' \in {turns, turns + 1}
    BY DEF Save, ResolveSave
  <2>3. asking' = asking \/ asking' = TRUE \/ asking' = FALSE
    BY DEF Save, ResolveSave
  <2>4. asking' \in BOOLEAN
    BY <2>1, <2>3, Zenon
  <2> QED BY <2>1, <2>2, <2>4
<1>2. \/ \E exclude \in BOOLEAN : Write(exclude)
      \/ UNCHANGED <<shown, stale, input, asked, job, undo, file, runs, restored, requested>>
  BY DEF Save, ResolveSave
<1> QED BY <1>1, <1>2, WriteKeeps, NotWrittenKeeps

----------------------------------------------------------------------------
(* Opening *)

LEMMA MigratedFacts ==
  ASSUME NEW f \in Files, f.results # None, NEW k \in Kinds
  PROVE  LET m == Migrated(f, k)  b == f.results.bundle[k] IN
         /\ m.cases \in Tables(Labels) /\ m.slots \in Tables(Results)
         /\ \/ /\ m.slots = b.slots /\ m.cases = f.cases[k]
               /\ b.slots # NoSlots \/ b.window = None \/ ~b.window.timed
            \/ /\ b.slots = NoSlots /\ b.window \in Results /\ b.window # None /\ b.window.timed
               /\ \E id \in Nat : /\ DOMAIN m.slots = {id} /\ m.slots[id] = b.window
                                  /\ id \in DOMAIN m.cases /\ m.slots # NoSlots
<1> DEFINE b == f.results.bundle[k]
<1> DEFINE sel == RestoredSelection(f)[k]
<1> DEFINE label == Label(IF sel = None THEN Sample ELSE sel, f.settings[k])
<1> DEFINE id == CaseIdOf(f.cases[k], label)
<1>1. f.results.bundle \in Bundles /\ f.cases[k] \in Tables(Labels) /\ f.settings[k] \in Settings
  BY DEF Files, Saved, CaseTables
<1>2. b.slots \in Tables(Results) /\ b.window \in Results \union {None}
  BY <1>1, BundleFacts
<1>3. label \in Labels
  <2>1. sel \in Waves \union {None}
    <3>1. f.selection[k] \in Waves \union {None}
      BY DEF Files, Selections
    <3> QED BY <3>1 DEF RestoredSelection
  <2> QED BY <1>1, <2>1 DEF Label, Labels, Names
<1>4. CASE b.slots # NoSlots \/ b.window = None \/ ~b.window.timed
  <2>1. Migrated(f, k) = [cases |-> f.cases[k], slots |-> b.slots]
    BY <1>4 DEF Migrated
  <2> HIDE DEF b
  <2> QED BY <1>1, <1>2, <1>4, <2>1 DEF b
<1>5. CASE b.slots = NoSlots /\ b.window # None /\ b.window.timed
  <2> DEFINE w == b.window
  <2> DEFINE u == Upsert(NoSlots, id, w)
  <2>1. Migrated(f, k) = [cases |-> UpsertCase(f.cases[k], label), slots |-> u]
    BY <1>5 DEF Migrated
  <2>2. w \in Results
    BY <1>2, <1>5
  <2>3. UpsertCase(f.cases[k], label) \in Tables(Labels)
    <3> HIDE DEF label
    <3> QED BY <1>1, <1>3, CaseUpserted
  <2>4. id \in DOMAIN UpsertCase(f.cases[k], label)
    <3> HIDE DEF label
    <3> QED BY DEF UpsertCase, Upsert
  <2>5. id \in Nat
    <3> HIDE DEF label
    <3> QED BY <1>1, CaseIdTyped
  <2> HIDE DEF id, w
  <2>6. DOMAIN u = {id} /\ u[id] = w
    BY NoSlotsIs DEF Upsert
  <2>7. u \in Tables(Results)
    BY <2>2, <2>5, NoSlotsIs, Upserted
  <2>8. u # NoSlots
    <3> HIDE DEF u
    <3> QED BY <2>6, NoSlotsIs
  <2> HIDE DEF u, label
  <2>9. Migrated(f, k).slots = u /\ Migrated(f, k).cases = UpsertCase(f.cases[k], label)
    BY <2>1
  <2> QED BY <1>5, <2>2, <2>3, <2>4, <2>5, <2>6, <2>7, <2>8, <2>9 DEF w
<1> QED BY <1>4, <1>5

LEMMA HydratedFacts ==
  ASSUME NEW f \in Files, f.results # None, NEW k \in Kinds
  PROVE  LET h == Hydrated(f, k)  m == Migrated(f, k)  b == f.results.bundle[k] IN
         /\ h.slots = m.slots /\ h.slots \in Tables(Results)
         /\ h.window \in Results \union {None} /\ h.view \in Nat \union {None}
         /\ h.graph = Graph(k, h.window) /\ h.graph \in Results \union {None}
         /\ \/ h.view = f.results.view[k] /\ h.view \in DOMAIN h.slots /\ h.window = h.slots[h.view]
            \/ f.results.view[k] \notin DOMAIN h.slots /\ h.view = None /\ h.window = b.window
<1> DEFINE s == Migrated(f, k).slots
<1> DEFINE v == f.results.view[k]
<1> DEFINE b == f.results.bundle[k]
<1>1. s \in Tables(Results)
  BY MigratedFacts
<1>2. v \in Nat \union {None} /\ b.window \in Results \union {None}
  <2>1. f.results.bundle \in Bundles /\ f.results.view \in Views
    BY DEF Files, Saved
  <2>2. v \in Nat \union {None}
    BY <2>1 DEF Views
  <2>3. b.window \in Results \union {None}
    BY <2>1, BundleFacts
  <2> QED BY <2>2, <2>3
<1>3. CASE v \in DOMAIN s
  <2>1. Hydrated(f, k) = [slots |-> s, window |-> s[v], view |-> v, graph |-> Graph(k, s[v])]
    BY <1>3 DEF Hydrated
  <2>2. s[v] \in Results
    BY <1>1, <1>3, TableFacts
  <2>3. Graph(k, s[v]) \in Results \union {None}
    BY <2>2, BareFacts
  <2> HIDE DEF s, v
  <2> QED BY <1>1, <1>2, <1>3, <2>1, <2>2, <2>3 DEF s, v
<1>4. CASE v \notin DOMAIN s
  <2>1. Hydrated(f, k) = [slots |-> s, window |-> b.window, view |-> None, graph |-> Graph(k, b.window)]
    BY <1>4 DEF Hydrated
  <2>2. Graph(k, b.window) \in Results \union {None}
    BY <1>2, BareFacts
  <2> HIDE DEF s, v, b
  <2> QED BY <1>1, <1>2, <1>4, <2>1, <2>2 DEF s, v, b
<1> QED BY <1>3, <1>4

(* What is read back from a file with results, kind by kind.                *)
LEMMA OpenedFacts ==
  ASSUME NEW f \in Files, f.results # None
  PROVE  LET o == Opened(f) IN
         /\ o.cases = [k \in Kinds |-> Restrict(Migrated(f, k).cases,
                         DOMAIN Migrated(f, k).cases \cap DOMAIN Hydrated(f, k).slots)]
         /\ o.bundle = [k \in Kinds |-> [slots |-> Hydrated(f, k).slots, window |-> Hydrated(f, k).window]]
         /\ o.view = [k \in Kinds |-> Hydrated(f, k).view]
         /\ o.graph = [k \in Kinds |-> Hydrated(f, k).graph]
BY DEF Opened

LEMMA OpenedTyped ==
  ASSUME NEW f \in Files, f.results # None
  PROVE  /\ Opened(f).cases \in CaseTables /\ Opened(f).bundle \in Bundles
         /\ Opened(f).view \in Views /\ Opened(f).graph \in [Kinds -> Results \union {None}]
<1> DEFINE o == Opened(f)
<1> HIDE DEF o
<1>1. o.cases \in CaseTables
  <2>1. \A k \in Kinds : Migrated(f, k).cases \in Tables(Labels)
    BY MigratedFacts
  <2>2. \A k \in Kinds : Restrict(Migrated(f, k).cases,
                           DOMAIN Migrated(f, k).cases \cap DOMAIN Hydrated(f, k).slots) \in Tables(Labels)
    BY <2>1, RestrictTyped
  <2>3. o.cases = [k \in Kinds |-> Restrict(Migrated(f, k).cases,
                         DOMAIN Migrated(f, k).cases \cap DOMAIN Hydrated(f, k).slots)]
    BY OpenedFacts DEF o
  <2> QED BY <2>2, <2>3 DEF CaseTables
<1>2. o.bundle \in Bundles
  <2>1. o.bundle = [k \in Kinds |-> [slots |-> Hydrated(f, k).slots, window |-> Hydrated(f, k).window]]
    BY OpenedFacts DEF o
  <2>2. \A k \in Kinds : Hydrated(f, k).slots \in Tables(Results) /\ Hydrated(f, k).window \in Results \union {None}
    BY HydratedFacts
  <2> QED BY <2>1, <2>2 DEF Bundles
<1>3. o.view \in Views
  <2>1. o.view = [k \in Kinds |-> Hydrated(f, k).view]
    BY OpenedFacts DEF o
  <2>2. \A k \in Kinds : Hydrated(f, k).view \in Nat \union {None}
    BY HydratedFacts
  <2> QED BY <2>1, <2>2 DEF Views
<1>4. o.graph \in [Kinds -> Results \union {None}]
  <2>1. o.graph = [k \in Kinds |-> Hydrated(f, k).graph]
    BY OpenedFacts DEF o
  <2>2. \A k \in Kinds : Hydrated(f, k).graph \in Results \union {None}
    BY HydratedFacts
  <2> QED BY <2>1, <2>2
<1> QED BY <1>1, <1>2, <1>3, <1>4 DEF o

(* Cases without a slot are pruned and a window without a case gets one.    *)
LEMMA OpenedGood ==
  ASSUME NEW f \in Files, f.results # None, NEW k \in Kinds,
         LegacyWindow(f.results.bundle), ~f.restored => Matches(f.cases, f.results.bundle)
  PROVE  KindGood(k, Opened(f).bundle[k], Opened(f).cases[k], Opened(f).view[k], Opened(f).graph[k], f.restored)
<1> DEFINE m == Migrated(f, k)
<1> DEFINE h == Hydrated(f, k)
<1> DEFINE b == f.results.bundle[k]
<1> DEFINE c == Restrict(m.cases, DOMAIN m.cases \cap DOMAIN h.slots)
<1>1. /\ m.cases \in Tables(Labels) /\ m.slots \in Tables(Results)
      /\ \/ /\ m.slots = b.slots /\ m.cases = f.cases[k]
            /\ b.slots # NoSlots \/ b.window = None \/ ~b.window.timed
         \/ /\ b.slots = NoSlots /\ b.window \in Results /\ b.window # None /\ b.window.timed
            /\ \E id \in Nat : /\ DOMAIN m.slots = {id} /\ m.slots[id] = b.window
                               /\ id \in DOMAIN m.cases /\ m.slots # NoSlots
  BY MigratedFacts
<1>2. /\ h.slots = m.slots /\ h.graph = Graph(k, h.window)
      /\ \/ h.view = f.results.view[k] /\ h.view \in DOMAIN h.slots /\ h.window = h.slots[h.view]
         \/ h.view = None /\ h.window = b.window
  BY HydratedFacts
<1>3. /\ Opened(f).bundle[k] = [slots |-> h.slots, window |-> h.window] /\ Opened(f).cases[k] = c
      /\ Opened(f).view[k] = h.view /\ Opened(f).graph[k] = h.graph
  <2> DEFINE o == Opened(f)
  <2>1. o.cases = [j \in Kinds |-> Restrict(Migrated(f, j).cases,
                      DOMAIN Migrated(f, j).cases \cap DOMAIN Hydrated(f, j).slots)]
    BY OpenedFacts
  <2>2. o.bundle = [j \in Kinds |-> [slots |-> Hydrated(f, j).slots, window |-> Hydrated(f, j).window]]
    BY OpenedFacts
  <2>3. o.view = [j \in Kinds |-> Hydrated(f, j).view] /\ o.graph = [j \in Kinds |-> Hydrated(f, j).graph]
    BY OpenedFacts
  <2> HIDE DEF o
  <2>4. o.cases[k] = c
    BY <2>1
  <2>5. o.bundle[k] = [slots |-> h.slots, window |-> h.window] /\ o.view[k] = h.view /\ o.graph[k] = h.graph
    BY <2>2, <2>3
  <2> QED BY <2>4, <2>5 DEF o
<1> HIDE DEF m, h
<1>4. /\ DOMAIN c = DOMAIN m.cases \cap DOMAIN m.slots /\ \A i \in DOMAIN c : c[i] = m.cases[i]
  BY <1>1, <1>2 DEF Restrict
<1> HIDE DEF c, b
<1>5. h.view # None => h.view \in DOMAIN h.slots /\ h.window = h.slots[h.view]
  BY <1>2
<1>6. h.slots = NoSlots => h.window = None \/ ~h.window.timed
  <2>1. SUFFICES ASSUME h.slots = NoSlots PROVE h.window = None \/ ~h.window.timed
    OBVIOUS
  <2>2. h.window = b.window
    BY <1>2, <2>1, NoSlotsIs
  <2> QED BY <1>1, <1>2, <2>1, <2>2
<1>7. ASSUME ~f.restored PROVE PairedWith(c, h.slots) /\ NamedAfter(c, h.slots)
  <2>1. CASE m.slots = b.slots /\ m.cases = f.cases[k]
    <3>1. f.results.bundle # NoBundle
      BY BundleFacts DEF Files, Saved
    <3>2. PairedWith(f.cases[k], b.slots) /\ NamedAfter(f.cases[k], b.slots)
      BY <1>7, <3>1 DEF Matches, SlotsOf, b
    <3>3. DOMAIN c = DOMAIN b.slots /\ DOMAIN c = DOMAIN m.cases
      BY <1>4, <2>1, <3>2 DEF PairedWith
    <3> QED BY <1>2, <1>4, <2>1, <3>2, <3>3 DEF PairedWith, NamedAfter
  <2>2. CASE /\ b.slots = NoSlots /\ b.window # None /\ b.window.timed
             /\ \E id \in Nat : /\ DOMAIN m.slots = {id} /\ m.slots[id] = b.window
                                /\ id \in DOMAIN m.cases
    <3>1. b.window.touched
      BY <2>2 DEF LegacyWindow, b
    <3>2. PICK id \in Nat : DOMAIN m.slots = {id} /\ m.slots[id] = b.window /\ id \in DOMAIN m.cases
      BY <2>2
    <3>3. DOMAIN c = DOMAIN m.slots /\ DOMAIN c = {id}
      BY <1>4, <3>2
    <3> QED BY <1>2, <3>1, <3>2, <3>3 DEF PairedWith, NamedAfter
  <2> QED BY <1>1, <2>1, <2>2
<1>8. KindGood(k, [slots |-> h.slots, window |-> h.window], c, h.view, h.graph, f.restored)
  BY <1>2, <1>5, <1>6, <1>7 DEF KindGood
<1> QED BY <1>3, <1>8

LEMMA OpenKeeps ==
  ASSUME IInv, Open
  PROVE  IInv'
<1>1. /\ file # None
      /\ LET o == Opened(file) IN
         cases' = o.cases /\ bundle' = o.bundle /\ view' = o.view /\ graph' = o.graph
      /\ settings' = file.settings
      /\ selection' = RestoredSelection(file) /\ sha' = RestoredSha(file)
      /\ stale' = FALSE /\ undo' = NoUndo /\ job' = None /\ asked' = None /\ asking' = FALSE
      /\ restored' = file.restored
      /\ UNCHANGED <<library, file, runs, turns, requested>>
  BY DEF Open
<1>2. TypeOK /\ file \in Files
  BY <1>1 DEF IInv, TypeOK
<1>3. /\ cases' \in CaseTables /\ bundle' \in Bundles \union {NoBundle} /\ view' \in Views
      /\ graph' \in [Kinds -> Results \union {None}] /\ ViewShowsItsCase' /\ SessionGood'
  <2>1. CASE file.results = None
    <3>1. /\ cases' = NoCases /\ bundle' = NoBundle
          /\ view' = [k \in Kinds |-> None] /\ graph' = [k \in Kinds |-> None]
      BY <1>1, <2>1 DEF Opened
    <3>2. ViewShowsItsCase'
      BY <3>1 DEF ViewShowsItsCase
    <3>3. Matches(cases', bundle')
      <4>1. \A k \in Kinds : SlotsOf(bundle', k) = NoSlots
        BY <3>1 DEF SlotsOf
      <4>2. \A k \in Kinds : PairedWith(cases'[k], NoSlots) /\ NamedAfter(cases'[k], NoSlots)
        BY <3>1, NoCasesTyped, NoSlotsIs DEF PairedWith, NamedAfter
      <4> QED BY <4>1, <4>2 DEF Matches
    <3>4. SessionGood'
      BY <3>1, <3>3 DEF SessionGood
    <3> QED BY <3>1, <3>2, <3>4, NoCasesTyped DEF Views
  <2>2. CASE file.results # None
    <3>1. /\ cases' = Opened(file).cases /\ bundle' = Opened(file).bundle
          /\ view' = Opened(file).view /\ graph' = Opened(file).graph
      BY <1>1
    <3>2. /\ cases' \in CaseTables /\ bundle' \in Bundles /\ view' \in Views
          /\ graph' \in [Kinds -> Results \union {None}]
      BY <1>2, <2>2, <3>1, OpenedTyped
    <3>3. LegacyWindow(file.results.bundle) /\ (~file.restored => Matches(file.cases, file.results.bundle))
      BY <1>1, <2>2 DEF IInv, FileGood
    <3>4. \A k \in Kinds : KindGood(k, bundle'[k], cases'[k], view'[k], graph'[k], restored')
      BY <1>1, <1>2, <2>2, <3>1, <3>3, OpenedGood
    <3> QED BY <3>2, <3>4, SessionFromKinds
  <2> QED BY <2>1, <2>2
<1>4. selection' \in Selections /\ sha' \in Hashes
  BY <1>1, <1>2 DEF RestoredSelection, RestoredSha, Files, Selections, Hashes
<1>5. undo' \in Histories
  BY <1>1 DEF NoUndo, Histories
<1>6. settings' \in [Kinds -> Settings] /\ restored' \in BOOLEAN
  BY <1>1, <1>2 DEF Files
<1>7. TypeOK'
  BY <1>1, <1>2, <1>3, <1>4, <1>5, <1>6 DEF TypeOK
<1>8. HashNamesARun'
  <2> SUFFICES ASSUME NEW k \in Kinds, sha'[k] # None PROVE <<selection'[k], sha'[k]>> \in requested'[k]
    BY DEF HashNamesARun
  <2>1. Found(file, k) /\ sha'[k] = file.sha[k] /\ selection'[k] = file.selection[k]
    BY <1>1 DEF RestoredSha, RestoredSelection
  <2> QED BY <1>1, <2>1 DEF IInv, FileGood
<1>9. AskedGood' /\ JobGood'
  BY <1>1 DEF AskedGood, JobGood
<1>10. FileGood'
  BY <1>1, SameFile DEF IInv
<1> QED BY <1>3, <1>7, <1>8, <1>9, <1>10 DEF IInv

----------------------------------------------------------------------------
(* The invariant *)

LEMMA LegacyGood ==
  ASSUME NEW s \in Settings
  PROVE  /\ LegacyFile(s) \in Files
         /\ LegacyWindow(LegacyFile(s).results.bundle)
         /\ Matches(LegacyFile(s).cases, LegacyFile(s).results.bundle)
         /\ \A k \in Kinds : LegacyFile(s).sha[k] = None
<1> DEFINE b == LegacyFile(s).results.bundle
<1>1. b = [k \in Kinds |-> [slots |-> NoSlots,
                            window |-> RunResult(0, Sample, s, TRUE, k = "spatial", TRUE)]]
  BY DEF LegacyFile
<1>2. \A k \in Kinds : RunResult(0, Sample, s, TRUE, k = "spatial", TRUE) \in Results
  BY DEF RunResult, Results, Names
<1>3. b \in Bundles
  <2>1. NoSlots \in Tables(Results)
    BY NoSlotsIs
  <2>2. \A k \in Kinds : b[k] = [slots |-> NoSlots, window |-> RunResult(0, Sample, s, TRUE, k = "spatial", TRUE)]
    BY <1>1
  <2>3. b = [k \in Kinds |-> b[k]]
    BY <1>1
  <2> HIDE DEF b
  <2>4. ASSUME NEW k \in Kinds
        PROVE  \E x \in Tables(Results), y \in Results \union {None} : b[k] = [slots |-> x, window |-> y]
    <3> DEFINE w == RunResult(0, Sample, s, TRUE, k = "spatial", TRUE)
    <3>1. w \in Results \union {None} /\ b[k] = [slots |-> NoSlots, window |-> w]
      BY <1>2, <2>2
    <3> HIDE DEF w
    <3> QED BY <2>1, <3>1
  <2> QED BY <2>3, <2>4, BundleMade
<1>4. LegacyFile(s).results = [bundle |-> b, view |-> [k \in Kinds |-> None]]
      /\ LegacyFile(s).cases = NoCases
  BY DEF LegacyFile
<1>5. LegacyWindow(b)
  BY <1>1 DEF LegacyWindow, RunResult
<1>6. Matches(NoCases, b)
  <2>1. b # NoBundle
    BY <1>3, BundleFacts
  <2>2. \A k \in Kinds : SlotsOf(b, k) = NoSlots
    <3>1. \A k \in Kinds : b[k].slots = NoSlots
      BY <1>1
    <3> HIDE DEF b
    <3> QED BY <2>1, <3>1 DEF SlotsOf
  <2>3. \A k \in Kinds : PairedWith(NoCases[k], NoSlots) /\ NamedAfter(NoCases[k], NoSlots)
    BY NoCasesTyped, NoSlotsIs DEF PairedWith, NamedAfter
  <2> QED BY <2>2, <2>3 DEF Matches
<1>7. LegacyFile(s) \in Files
  <2>1. [bundle |-> b, view |-> [k \in Kinds |-> None]] \in Saved
    BY <1>3 DEF Saved, Views
  <2>2. LegacyFile(s) = [results |-> [bundle |-> b, view |-> [k \in Kinds |-> None]],
           cases |-> NoCases, settings |-> [k \in Kinds |-> s],
           selection |-> [k \in Kinds |-> None], sha |-> [k \in Kinds |-> None], restored |-> FALSE]
    BY DEF LegacyFile
  <2> HIDE DEF b
  <2> QED BY <2>1, <2>2, NoCasesTyped DEF Files, Selections, Hashes
<1>8. \A k \in Kinds : LegacyFile(s).sha[k] = None
  BY DEF LegacyFile
<1> QED BY <1>4, <1>5, <1>6, <1>7, <1>8

LEMMA InitGood ==
  ASSUME Init
  PROVE  IInv
<1>1. /\ cases = NoCases /\ bundle = NoBundle
      /\ view = [k \in Kinds |-> None] /\ graph = [k \in Kinds |-> None] /\ stale = FALSE
      /\ selection = [k \in Kinds |-> None] /\ sha = [k \in Kinds |-> None]
      /\ library = [w \in Waves |-> 1]
      /\ asked = None /\ job = None /\ undo = NoUndo /\ asking = FALSE
      /\ runs = 0 /\ turns = 0 /\ restored = FALSE /\ requested = [k \in Kinds |-> {}]
  BY DEF Init
<1>2. PICK s \in Settings : settings = [k \in Kinds |-> s] /\ file \in {None, LegacyFile(s)}
  BY DEF Init
<1>3. file \in Files \union {None}
  BY <1>2, LegacyGood
<1>4. TypeOK
  <2>1. view \in Views /\ selection \in Selections /\ sha \in Hashes
    BY <1>1 DEF Views, Selections, Hashes
  <2>2. undo \in Histories
    BY <1>1 DEF Histories, NoUndo
  <2>3. settings \in [Kinds -> Settings] /\ library \in [Waves -> Nat]
    BY <1>1, <1>2
  <2>4. graph \in [Kinds -> Results \union {None}] /\ requested \in [Kinds -> SUBSET (Waves \X Nat)]
    BY <1>1
  <2>5. asked \in Requests \union {None} /\ job \in Jobs \union {None}
    BY <1>1
  <2>6. stale \in BOOLEAN /\ asking \in BOOLEAN /\ restored \in BOOLEAN /\ runs \in Nat /\ turns \in Nat
    BY <1>1
  <2> QED BY <1>1, <1>3, <2>1, <2>2, <2>3, <2>4, <2>5, <2>6, NoCasesTyped DEF TypeOK
<1>5. ViewShowsItsCase
  BY <1>1 DEF ViewShowsItsCase
<1>6. SessionGood
  <2>1. \A k \in Kinds : SlotsOf(bundle, k) = NoSlots
    BY <1>1 DEF SlotsOf
  <2>2. \A k \in Kinds : PairedWith(cases[k], NoSlots) /\ NamedAfter(cases[k], NoSlots)
    BY <1>1, NoCasesTyped, NoSlotsIs DEF PairedWith, NamedAfter
  <2> QED BY <1>1, <2>1, <2>2 DEF SessionGood, Matches
<1>7. AskedGood /\ JobGood /\ HashNamesARun
  BY <1>1 DEF AskedGood, JobGood, HashNamesARun
<1>8. FileGood
  BY <1>2, LegacyGood DEF FileGood
<1> QED BY <1>4, <1>5, <1>6, <1>7, <1>8 DEF IInv

LEMMA Stutters ==
  ASSUME IInv, UNCHANGED vars
  PROVE  IInv'
<1>1. UNCHANGED <<shown, stale, settings, selection, sha, library, asked, job, undo, asking, file,
                  runs, turns, restored, requested>>
  BY DEF vars, shown
<1>2. TypeOK'
  BY <1>1 DEF IInv, TypeOK, shown
<1>3. ViewShowsItsCase' /\ SessionGood' /\ FileGood' /\ HashNamesARun' /\ AskedGood' /\ JobGood'
  BY <1>1, SameShown, SameFile, SameHash, SameWork DEF IInv
<1> QED BY <1>2, <1>3 DEF IInv

LEMMA Inductive ==
  IInv /\ [Next]_vars => IInv'
<1> SUFFICES ASSUME IInv, [Next]_vars PROVE IInv'
  OBVIOUS
<1>1. CASE SelectWave BY <1>1, SelectWaveKeeps
<1>2. CASE ChangeSettings BY <1>2, ChangeSettingsKeeps
<1>3. CASE RegisterWave \/ DeleteWave BY <1>3, LibraryKeeps
<1>4. CASE RunSample \/ RunCsv \/ RunEigen BY <1>4, RunKeeps
<1>5. CASE RunFromLibrary BY <1>5, RunFromLibraryKeeps
<1>6. CASE Resume \/ Cancel BY <1>6, AskedKeeps
<1>7. CASE JobSucceeds BY <1>7, SucceedsKeeps
<1>8. CASE JobFails BY <1>8, FailsKeeps
<1>9. CASE OtherAnalysis BY <1>9, OtherKeeps
<1>10. CASE Focus BY <1>10, FocusKeeps
<1>11. CASE Edit \/ CopyStory BY <1>11, DoKeeps
<1>12. CASE Undo BY <1>12, UndoKeeps
<1>13. CASE Redo BY <1>13, RedoKeeps
<1>14. CASE Save \/ ResolveSave BY <1>14, SaveKeeps
<1>15. CASE Open BY <1>15, OpenKeeps
<1>16. CASE UNCHANGED vars BY <1>16, Stutters
<1> QED BY <1>1, <1>2, <1>3, <1>4, <1>5, <1>6, <1>7, <1>8, <1>9, <1>10, <1>11, <1>12, <1>13,
           <1>14, <1>15, <1>16 DEF Next

LEMMA Invariant ==
  Spec => []IInv
<1>1. Init => IInv
  BY InitGood
<1> QED BY <1>1, Inductive, PTL DEF Spec

(* Case numbers, labels and results keep their types whatever is run, undone,       *)
(* saved and opened; the next case number exists (next_vibration_case_id).          *)
THEOREM TypeCorrect ==
  Spec => []TypeOK
<1>1. IInv => TypeOK
  BY DEF IInv
<1> QED BY <1>1, Invariant, PTL

(* The case on display, its slot, the window and the graph data are one result      *)
(* (the answers, focus_spatial_vibration_case, the restoring of recordings and      *)
(* hydrate_saved_vibration_views).                                                  *)
THEOREM DisplayIsOneResult ==
  Spec => []ViewShowsItsCase
<1>1. IInv => ViewShowsItsCase
  BY DEF IInv
<1> QED BY <1>1, Invariant, PTL

LEMMA GoodSessionNames ==
  ASSUME IInv
  PROVE  CasesNameTheirRuns
<1> SUFFICES ASSUME ~restored
             PROVE  /\ CasesPairWithResults
                    /\ \A k \in Kinds : \A id \in DOMAIN cases[k] :
                         LET r == bundle[k].slots[id] IN
                         r.touched \/ cases[k][id] = Label(r.wave, r.setting)
  BY DEF CasesNameTheirRuns
<1>1. \A k \in Kinds : PairedWith(cases[k], SlotsOf(bundle, k)) /\ NamedAfter(cases[k], SlotsOf(bundle, k))
  BY DEF IInv, SessionGood, Matches
<1>2. CasesPairWithResults
  BY <1>1 DEF CasesPairWithResults, PairedWith
<1>3. ASSUME NEW k \in Kinds, NEW id \in DOMAIN cases[k]
      PROVE  bundle[k].slots[id].touched \/
             cases[k][id] = Label(bundle[k].slots[id].wave, bundle[k].slots[id].setting)
  <2>1. id \in DOMAIN SlotsOf(bundle, k)
    BY <1>1 DEF PairedWith
  <2>2. SlotsOf(bundle, k) = bundle[k].slots
    BY <2>1, NoSlotsIs DEF SlotsOf
  <2> QED BY <1>1, <2>2 DEF NamedAfter
<1> QED BY <1>2, <1>3

(* Unless a restored copy has replaced them, cases and results are pairs and a case *)
(* has the name of the run it shows (upsert_vibration_case, the naming when the     *)
(* answer arrives, the pruning and the migration of open_project_from).             *)
THEOREM NamesAreOfRuns ==
  Spec => []CasesNameTheirRuns
<1>1. IInv => CasesNameTheirRuns
  BY GoodSessionNames
<1> QED BY <1>1, Invariant, PTL

(* The hash beside the selected wave is of a content of that wave the user asked to *)
(* run, in the session and through every file (set_wave_library_selection,          *)
(* run_time_history_from_library, restore_wave_library_selection).                  *)
THEOREM HashIsOfARun ==
  Spec => []HashNamesARun
<1>1. IInv => HashNamesARun
  BY DEF IInv
<1> QED BY <1>1, Invariant, PTL

----------------------------------------------------------------------------
(* Saving and opening again *)

RoundTrip ==
  file' # file /\ file' # None =>
    LET o == Opened(file') IN
    /\ UNCHANGED shown
    /\ IF file'.results = None THEN o.cases = NoCases
       ELSE /\ \A k \in Kinds :
                 /\ o.cases[k] = Restrict(cases[k], DOMAIN cases[k] \cap DOMAIN bundle[k].slots)
                 /\ o.view[k] = view[k] /\ o.graph[k] = graph[k]
            /\ o.bundle \in {bundle, TakeThRecordings(bundle).bundle}

(* What was written is what is read.                                        *)
LEMMA ReadsBack ==
  ASSUME IInv, PersistResults, NEW c \in Bundles, SameRuns(bundle, c), FileOf(c) \in Files,
         FileOf(c).results # None, NEW k \in Kinds
  PROVE  LET o == Opened(FileOf(c)) IN
         /\ o.cases[k] = Restrict(cases[k], DOMAIN cases[k] \cap DOMAIN bundle[k].slots)
         /\ o.view[k] = view[k] /\ o.graph[k] = graph[k]
         /\ o.bundle[k] = c[k]
<1> DEFINE f == FileOf(c)
<1> DEFINE m == Migrated(f, k)
<1> DEFINE h == Hydrated(f, k)
<1>0. f \in Files /\ f.results # None
  OBVIOUS
<1>1. c # NoBundle /\ bundle # NoBundle /\ bundle \in Bundles
  BY BundleFacts DEF PersistResults, IInv, TypeOK
<1>2. f.results = [bundle |-> c, view |-> view] /\ f.cases = cases
  BY <1>1 DEF FileOf
<1>3. f.results.bundle[k] = c[k] /\ f.results.view[k] = view[k] /\ f.cases[k] = cases[k]
  <2> HIDE DEF f
  <2> QED BY <1>2
<1> HIDE DEF f
<1>4. c[k].slots # NoSlots \/ c[k].window = None \/ ~c[k].window.timed
  <2>1. bundle[k].slots = NoSlots => bundle[k].window = None \/ ~bundle[k].window.timed
    BY <1>1 DEF IInv, SessionGood, WindowHasSlot
  <2> QED BY <1>1, <2>1, SameRunsKeep
<1>5. m.slots = c[k].slots /\ m.cases = cases[k]
  <2>1. \/ m.slots = f.results.bundle[k].slots /\ m.cases = f.cases[k]
        \/ /\ f.results.bundle[k].slots = NoSlots /\ f.results.bundle[k].window # None
           /\ f.results.bundle[k].window.timed
    BY <1>0, MigratedFacts
  <2> HIDE DEF m
  <2> QED BY <1>3, <1>4, <2>1
<1>6. /\ h.slots = m.slots /\ h.graph = Graph(k, h.window)
      /\ \/ h.view = f.results.view[k] /\ h.view \in DOMAIN h.slots /\ h.window = h.slots[h.view]
         \/ f.results.view[k] \notin DOMAIN h.slots /\ h.view = None /\ h.window = f.results.bundle[k].window
  BY <1>0, HydratedFacts
<1> HIDE DEF m, h
<1>7. /\ view[k] # None => view[k] \in DOMAIN bundle[k].slots /\ bundle[k].window = bundle[k].slots[view[k]]
      /\ graph[k] = Graph(k, bundle[k].window)
  BY <1>1 DEF IInv, ViewShowsItsCase, SlotsOf
<1>8. /\ DOMAIN c[k].slots = DOMAIN bundle[k].slots /\ Bare(c[k].window) = Bare(bundle[k].window)
      /\ \A id \in DOMAIN bundle[k].slots :
           bundle[k].window = bundle[k].slots[id] => c[k].window = c[k].slots[id]
  BY DEF SameRuns
<1>9. h.view = view[k] /\ h.window = c[k].window
  <2>1. CASE h.view = f.results.view[k] /\ h.view \in DOMAIN h.slots /\ h.window = h.slots[h.view]
    <3>1. h.view = view[k] /\ view[k] \in DOMAIN bundle[k].slots /\ h.window = c[k].slots[view[k]]
      BY <1>3, <1>5, <1>6, <1>8, <2>1
    <3>2. view[k] # None
      <4>1. bundle[k].slots \in Tables(Results)
        BY <1>1, BundleFacts
      <4>2. view[k] \in Nat
        BY <3>1, <4>1, TableFacts
      <4> QED BY <4>2, NoneAssumption
    <3> QED BY <1>7, <1>8, <3>1, <3>2
  <2>2. CASE f.results.view[k] \notin DOMAIN h.slots /\ h.view = None /\ h.window = f.results.bundle[k].window
    <3>1. view[k] \notin DOMAIN bundle[k].slots /\ h.view = None /\ h.window = c[k].window
      BY <1>3, <1>5, <1>6, <1>8, <2>2
    <3> QED BY <1>7, <3>1
  <2> QED BY <1>6, <2>1, <2>2
<1>10. h.graph = graph[k]
  <2>1. c[k].window \in Results \union {None} /\ bundle[k].window \in Results \union {None}
    BY <1>1, BundleFacts
  <2>2. /\ Graph(k, c[k].window) = Graph(k, Bare(c[k].window))
        /\ Graph(k, bundle[k].window) = Graph(k, Bare(bundle[k].window))
    BY <2>1, BareFacts
  <2> QED BY <1>6, <1>7, <1>8, <1>9, <2>2
<1> DEFINE o == Opened(f)
<1>11. /\ o.cases = [j \in Kinds |-> Restrict(Migrated(f, j).cases,
                       DOMAIN Migrated(f, j).cases \cap DOMAIN Hydrated(f, j).slots)]
       /\ o.bundle = [j \in Kinds |-> [slots |-> Hydrated(f, j).slots, window |-> Hydrated(f, j).window]]
  BY <1>0, OpenedFacts
<1>12. o.view = [j \in Kinds |-> Hydrated(f, j).view] /\ o.graph = [j \in Kinds |-> Hydrated(f, j).graph]
  BY <1>0, OpenedFacts
<1> HIDE DEF o
<1>13. o.cases[k] = Restrict(m.cases, DOMAIN m.cases \cap DOMAIN h.slots)
  BY <1>11 DEF m, h
<1>14. o.bundle[k] = [slots |-> h.slots, window |-> h.window] /\ o.view[k] = h.view /\ o.graph[k] = h.graph
  BY <1>11, <1>12 DEF h
<1>15. o.cases[k] = Restrict(cases[k], DOMAIN cases[k] \cap DOMAIN bundle[k].slots)
  BY <1>5, <1>6, <1>8, <1>13
<1>16. o.bundle[k] = c[k]
  <2>1. c[k] = [slots |-> c[k].slots, window |-> c[k].window]
    BY BundleFacts
  <2> QED BY <1>5, <1>6, <1>9, <1>14, <2>1
<1> QED BY <1>9, <1>10, <1>14, <1>15, <1>16 DEF o, f

LEMMA StepRoundTrip ==
  ASSUME IInv, IInv', Next
  PROVE  RoundTrip
<1> SUFFICES ASSUME file' # file, file' # None PROVE RoundTrip
  BY DEF RoundTrip
<1>1. \E exclude \in BOOLEAN : Write(exclude)
  <2>1. Save \/ ResolveSave
    BY DEF Next, SelectWave, ChangeSettings, RegisterWave, DeleteWave, RunSample, RunCsv, RunEigen,
           RunFromLibrary, Resume, Cancel, JobSucceeds, JobFails, OtherAnalysis, Focus, Edit, CopyStory,
           Do, Undo, Redo, Step, Open
  <2> QED BY <2>1 DEF Save, ResolveSave
<1>2. /\ UNCHANGED shown
      /\ \/ file' = FileOf(NoBundle)
         \/ PersistResults /\ \E c \in Bundles : SameRuns(bundle, c) /\ file' = FileOf(c)
                                                 /\ c \in {bundle, TakeThRecordings(bundle).bundle}
  <2>1. TypeOK
    BY DEF IInv
  <2> QED BY <1>1, <2>1, Written
<1>3. CASE file'.results = None
  <2>1. Opened(file').cases = NoCases
    BY <1>3 DEF Opened
  <2> QED BY <1>2, <1>3, <2>1 DEF RoundTrip
<1>4. CASE file'.results # None
  <2>1. file' \in Files
    BY DEF IInv, TypeOK
  <2>2. file' # FileOf(NoBundle)
    BY <1>4 DEF FileOf
  <2>3. PICK c \in Bundles : /\ PersistResults /\ SameRuns(bundle, c) /\ file' = FileOf(c)
                             /\ c \in {bundle, TakeThRecordings(bundle).bundle}
    BY <1>2, <2>2
  <2> DEFINE o == Opened(file')
  <2>4. ASSUME NEW k \in Kinds
        PROVE  /\ o.cases[k] = Restrict(cases[k], DOMAIN cases[k] \cap DOMAIN bundle[k].slots)
               /\ o.view[k] = view[k] /\ o.graph[k] = graph[k] /\ o.bundle[k] = c[k]
    BY <1>4, <2>1, <2>3, ReadsBack
  <2>5. o.bundle \in Bundles
    BY <1>4, <2>1, OpenedTyped
  <2> HIDE DEF o
  <2>6. o.bundle = c
    <3>1. o.bundle = [k \in Kinds |-> o.bundle[k]] /\ c = [k \in Kinds |-> c[k]]
      BY <2>5, BundleFacts
    <3> QED BY <2>4, <3>1
  <2> QED BY <1>2, <1>4, <2>3, <2>4, <2>6 DEF RoundTrip, o
<1> QED BY <1>3, <1>4

(* Saving changes nothing in memory, and opening the file gives back every case     *)
(* with its result and the case on display, with all the recordings or with none    *)
(* (save_project_to_opts, take_th_recordings, restore_th_recordings and             *)
(* open_project_from together).                                                     *)
THEOREM SavedComesBack ==
  Spec => SavedRoundTrip
<1>1. IInv /\ IInv' /\ [Next]_vars => [RoundTrip]_vars
  BY StepRoundTrip
<1>2. Spec => [][RoundTrip]_vars
  BY <1>1, Invariant, PTL DEF Spec
<1> QED BY <1>2 DEF SavedRoundTrip, RoundTrip
=============================================================================
