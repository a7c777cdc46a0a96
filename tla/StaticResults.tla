---------------------------- MODULE StaticResults ----------------------------
(****************************************************************************)
(* The linear static results of the desktop application and what is shown   *)
(* of them: results by load case and by load combination, the selected one, *)
(* the member forces on display, and the member checks made from those.     *)
(*                                                                          *)
(* A load case's id is its position in the model, so deleting a case moves  *)
(* the ids behind it; references of combinations move along and are kept    *)
(* here by the case they mean.  A result carries what it was computed for   *)
(* and in which run.  The results of other analyses (eigen, pushover, ...)  *)
(* appear by their effect on the shared staleness flags only.               *)
(****************************************************************************)
EXTENDS Integers, Sequences, SequencesExt, FiniteSets

CONSTANTS
  Cases,      \* load cases a model can hold
  EX,         \* the one of them with the name and kind of the standard seismic case
  Names,      \* names of load combinations
  Terms,      \* the load cases each of them sums
  ShortTerm,  \* the names that is_short_term_combo takes for short-term ones
  None,       \* an absent Option
  MaxRuns,    \* bound: jobs started in a behaviour
  MaxEdits    \* bound: user edits in a behaviour

ASSUME CasesAssumption == EX \in Cases /\ ShortTerm \subseteq Names
ASSUME TermsAssumption == Terms \in [Names -> SUBSET Cases]
ASSUME FiniteAssumption == IsFiniteSet(Cases) /\ IsFiniteSet(Names)
ASSUME BoundsAssumption == MaxRuns \in Nat /\ MaxEdits \in Nat

VARIABLES
  cases,       \* model.load_cases
  combos,      \* model.combinations, by name
  empty,       \* the standard seismic case, if it holds no lateral load
  floorsOk,    \* validate_one_way_directions accepts the model
  view,        \* scoped.results with last_static and nav.focus_result
  term,        \* core.design_term; survives a model swap
  stale,       \* staleness.results_stale and design_stale
  job,         \* scoped.job
  file,        \* the project file
  failing,     \* history: load cases that the last step found unsolvable
  reported,    \* history: the last design check of what is on display was refused
               \* with a message, by this process or by the one that saved the file
  runs, edits  \* how many jobs and user edits there have been

vars == <<cases, combos, empty, floorsOk, view, term, stale, job, file,
          failing, reported, runs, edits>>

----------------------------------------------------------------------------
(* Keys and what they resolve to *)

User(i) == <<"user", i>>
Seismic == <<"seismic", 0>>
StaticCaseKey == {Seismic} \union {User(i) : i \in 1..Cardinality(Cases)}

CaseSel(k) == <<"case", k>>
ComboSel(i) == <<"combo", i>>
Sel == {CaseSel(k) : k \in StaticCaseKey} \union {ComboSel(i) : i \in 1..Cardinality(Names)}

PosIn(cs, c) == {i \in DOMAIN cs : cs[i] = c}
KeyAt(cs, i) == IF i \in DOMAIN cs /\ cs[i] = EX THEN Seismic ELSE User(i)

Resolve(v, sel) ==
  IF sel = None THEN None
  ELSE IF sel[1] = "case"
       THEN IF sel[2] \in DOMAIN v.statics THEN v.statics[sel[2]] ELSE None
       ELSE IF sel[2] \in DOMAIN v.combos THEN v.combos[sel[2]].res ELSE None

CurrentStatic(v) ==
  IF Resolve(v, v.focus) # None THEN Resolve(v, v.focus) ELSE Resolve(v, v.last)

NoView == [statics |-> <<>>, combos |-> <<>>, forces |-> None, checks |-> None,
           last |-> None, focus |-> None]

----------------------------------------------------------------------------
(* Types *)

Res == [of : Cases \union Names, run : 1..MaxRuns]
Statics == UNION {[K -> Res] : K \in SUBSET StaticCaseKey}
ViewRec ==
  [statics : Statics,
   combos  : Seq([name : Names, res : Res]),
   forces  : Res \union {None},
   checks  : [forces : Res, term : {"long", "short"}] \union {None},
   last    : Sel \union {None},
   focus   : Sel \union {None}]
JobRec ==
  [kind    : {"case", "combo", "all", "other"},
   run     : 1..MaxRuns,
   solves  : Seq([key : StaticCaseKey, of : Cases]),
   names   : Seq(Names),
   exKeys  : SUBSET StaticCaseKey,
   exNames : SUBSET Names]
FileRec ==
  [cases : Seq(Cases), combos : Seq(Names), empty : BOOLEAN, floorsOk : BOOLEAN,
   view : ViewRec, reported : BOOLEAN]

ASSUME NoneAssumption ==
  None \notin Res \union Sel \union JobRec \union FileRec
             \union [forces : Res, term : {"long", "short"}]

----------------------------------------------------------------------------
(* Taking results out *)

\* The entries of s at the positions in P, in their order.
Only(s, P) ==
  LET kept[n \in 0..Len(s)] ==
        IF n = 0 THEN <<>>
        ELSE IF n \in P THEN Append(kept[n - 1], s[n]) ELSE kept[n - 1]
  IN kept[Len(s)]

\* Faulty variant: the position is kept although earlier entries left.
SamePosition(v, i, names) == i
\* Where an entry that stays moves to.
NewPosition(v, i, names) ==
  i - Cardinality({j \in 1..(i - 1) : v.combos[j].name \in names})

\* A selection after the named results left the bundle.
Remap(v, sel, keys, names) ==
  IF sel = None THEN None
  ELSE IF sel[1] = "case" THEN IF sel[2] \in keys THEN None ELSE sel
  ELSE IF sel[2] \notin DOMAIN v.combos \/ v.combos[sel[2]].name \in names THEN None
  ELSE ComboSel(NewPosition(v, sel[2], names))

\* Faulty variant: the checks made from the cleared forces stay.
WithoutForces(v) == [v EXCEPT !.forces = None]
\* Nothing is on display.
Cleared(v) == [v EXCEPT !.forces = None, !.checks = None]

Removed(v, keys, names) ==
  LET last == Remap(v, v.last, keys, names)
      focus == Remap(v, v.focus, keys, names)
      lost == (v.last # None /\ last = None) \/ (v.focus # None /\ focus = None)
  IN [(IF lost THEN Cleared(v) ELSE v) EXCEPT
        !.statics = [k \in DOMAIN v.statics \ keys |-> v.statics[k]],
        !.combos  = Only(v.combos, {i \in DOMAIN v.combos : v.combos[i].name \notin names}),
        !.last    = last,
        !.focus   = focus]

\* Faulty variant: the combinations built on the cases are forgotten.
NoDependents(cs, ids) == {}
\* The combinations of the model that sum one of the cases at these positions.
Dependents(cs, ids) ==
  {n \in ToSet(combos) : \E i \in ids \intersect DOMAIN cs : cs[i] \in Terms[n]}

InvalidateCases(v, cs, ids) ==
  Removed(v, {KeyAt(cs, i) : i \in ids} \union {User(i) : i \in ids}, Dependents(cs, ids))

InvalidateKey(v, cs, key) ==
  IF key[1] = "user" THEN InvalidateCases(v, cs, {key[2]})
  ELSE IF EX \in ToSet(cs) THEN InvalidateCases(v, cs, PosIn(cs, EX))
  ELSE Removed(v, {key}, {})

InvalidateAll(v, cs) ==
  Removed(InvalidateCases(v, cs, DOMAIN cs), {}, ToSet(combos))

----------------------------------------------------------------------------
(* Storing and showing results *)

StoreCase(v, key, res) ==
  [v EXCEPT !.statics = [k \in DOMAIN @ \union {key} |-> IF k = key THEN res ELSE @[k]]]

ComboPos(v, name) ==
  CHOOSE i \in 1..(Len(v.combos) + 1) :
    \/ i \in DOMAIN v.combos /\ v.combos[i].name = name
    \/ i = Len(v.combos) + 1 /\ \A j \in DOMAIN v.combos : v.combos[j].name # name

StoreCombo(v, name, res) ==
  LET i == ComboPos(v, name) entry == [name |-> name, res |-> res]
  IN [v EXCEPT !.combos = IF i \in DOMAIN @ THEN [@ EXCEPT ![i] = entry]
                          ELSE Append(@, entry)]

TermOf(v, sel) ==
  IF sel[1] = "case" THEN term
  ELSE IF v.combos[sel[2]].name \in ShortTerm THEN "short" ELSE "long"

\* run_design_check: checks the forces on display under a term, unless the
\* floors of the model are refused, which leaves the old checks in place.
Checked(v, t) ==
  IF ~floorsOk THEN v
  ELSE [v EXCEPT !.checks = IF v.forces = None THEN None
                            ELSE [forces |-> v.forces, term |-> t]]
DesignCheck(v, t) ==
  /\ view' = Checked(v, t)
  /\ term' = t
  /\ reported' = ~floorsOk

\* Makes a stored result the one on display.
Shown(v, sel) == [v EXCEPT !.forces = Resolve(v, sel), !.last = sel, !.focus = sel]
Display(v, sel) == DesignCheck(Shown(v, sel), TermOf(v, sel))

AllStale == [results |-> TRUE, design |-> TRUE]
Fresh == [results |-> FALSE, design |-> FALSE]
----------------------------------------------------------------------------
(* The preparation before a run.  It fills or empties the standard seismic  *)
(* case, or leaves it as it is; `ready' is false when it reported an error. *)

Outcomes == {"kept", "filled", "emptied"}

CasesAfter(p) == IF p = "filled" /\ EX \notin ToSet(cases) THEN Append(cases, EX) ELSE cases
EmptyAfter(p) ==
  CASE p = "kept" -> empty [] p = "filled" -> FALSE [] p = "emptied" -> EX \in ToSet(cases)
ViewAfter(p) ==
  IF p = "emptied" THEN InvalidateCases(view, cases, PosIn(cases, EX)) ELSE view

Prepare(p, ready) ==
  /\ job = None
  /\ runs < MaxRuns /\ runs' = runs + 1
  /\ ready \/ p = "filled" => floorsOk
  /\ cases' = CasesAfter(p)
  /\ empty' = EmptyAfter(p)
  /\ stale' = IF cases' # cases \/ empty' # empty THEN AllStale ELSE stale
  /\ UNCHANGED <<combos, floorsOk, term, file, reported, edits>>

Emptied(p) == IF p = "emptied" THEN {EX} \intersect ToSet(cases) ELSE {}
IsEmpty(p, c) == EmptyAfter(p) /\ c = EX

Job(kind, solves, names, exKeys, exNames) ==
  [kind |-> kind, run |-> runs + 1, solves |-> solves, names |-> names,
   exKeys |-> exKeys, exNames |-> exNames]
Solve(cs, i) == [key |-> KeyAt(cs, i), of |-> cs[i]]

StartCase(p, ready, i) ==
  LET cs == CasesAfter(p)
      v == IF IsEmpty(p, cs[i]) THEN InvalidateCases(ViewAfter(p), cs, {i}) ELSE ViewAfter(p)
  IN /\ Prepare(p, ready)
     /\ job' = IF ready THEN Job("case", <<Solve(cs, i)>>, <<>>, {}, {}) ELSE None
     /\ view' = IF ready THEN v ELSE InvalidateCases(v, cs, {i})
     /\ failing' = Emptied(p) \union IF ready /\ ~IsEmpty(p, cs[i]) THEN {} ELSE {cs[i]}

StartCombo(p, ready, i) ==
  LET solvable == ready /\ \A c \in Terms[combos[i]] : ~IsEmpty(p, c)
  IN /\ Prepare(p, ready)
     /\ job' = IF solvable THEN Job("combo", <<>>, <<combos[i]>>, {}, {}) ELSE None
     /\ view' = IF solvable THEN ViewAfter(p) ELSE Removed(ViewAfter(p), {}, {combos[i]})
     /\ failing' = Emptied(p)

StartAll(p, ready) ==
  LET cs == CasesAfter(p)
      left == {i \in DOMAIN cs : IsEmpty(p, cs[i])}
      all == [i \in DOMAIN cs |-> Solve(cs, i)]
      exKeys == {KeyAt(cs, i) : i \in left} \union {User(i) : i \in left}
      exNames == Dependents(cs, left)
      go == ready /\ cs # <<>>
  IN /\ Prepare(p, ready)
     /\ job' = IF go
               THEN Job("all", Only(all, DOMAIN cs \ left),
                        Only(combos, {i \in DOMAIN combos : combos[i] \notin exNames}),
                        exKeys, exNames)
               ELSE None
     /\ view' = IF go THEN ViewAfter(p) ELSE InvalidateAll(ViewAfter(p), cs)
     /\ failing' = Emptied(p) \union IF go THEN {} ELSE ToSet(cs)

\* Another analysis, or the preparation alone.
StartOther(p, ready) ==
  /\ Prepare(p, ready)
  /\ job' = IF ready THEN Job("other", <<>>, <<>>, {}, {}) ELSE None
  /\ view' = ViewAfter(p)
  /\ failing' = Emptied(p)

----------------------------------------------------------------------------
(* The answer of a job *)

Answered(kind) ==
  /\ job # None /\ job.kind = kind
  /\ job' = None
  /\ UNCHANGED <<cases, combos, empty, floorsOk, file, runs, edits>>

Result(of) == [of |-> of, run |-> job.run]

CaseSolved ==
  LET e == job.solves[1]
  IN /\ Answered("case")
     /\ Display(StoreCase(view, e.key, Result(e.of)), CaseSel(e.key))
     /\ stale' = Fresh
     /\ failing' = {}

\* The cases that failed, where the key the job knew them by still means them.
Unsolved(left) == {e.of : e \in {e \in left : \E i \in DOMAIN cases : e = Solve(cases, i)}}

CaseFailed ==
  LET e == job.solves[1]
  IN /\ Answered("case")
     /\ view' = InvalidateKey(view, cases, e.key)
     /\ failing' = Unsolved({e})
     /\ UNCHANGED <<term, stale, reported>>

ComboSolved ==
  LET name == job.names[1]
  IN /\ Answered("combo")
     /\ Display(StoreCombo(view, name, Result(name)), ComboSel(ComboPos(view, name)))
     /\ stale' = Fresh
     /\ failing' = {}

ComboFailed ==
  /\ Answered("combo")
  /\ view' = Removed(view, {}, {job.names[1]})
  /\ failing' = {}
  /\ UNCHANGED <<term, stale, reported>>

\* The preparation of the solver failed, or its thread panicked.
AllFailed ==
  /\ Answered("all")
  /\ view' = InvalidateAll(Removed(view, job.exKeys, job.exNames), cases)
  /\ failing' = Unsolved(ToSet(job.solves))
  /\ UNCHANGED <<term, stale, reported>>

\* What a batch leaves of the bundle once its failures are taken out.
Spared(solved) ==
  LET left[n \in 0..Len(job.solves)] ==
        IF n = 0 THEN Removed(view, job.exKeys, job.exNames)
        ELSE IF job.solves[n].of \in solved THEN left[n - 1]
        ELSE InvalidateKey(left[n - 1], cases, job.solves[n].key)
  IN left[Len(job.solves)]
BatchRemoved(solved, names) == Removed(Spared(solved), {}, ToSet(job.names) \ names)

CasesStored(v, solves) ==
  LET stored[n \in 0..Len(solves)] ==
        IF n = 0 THEN v
        ELSE StoreCase(stored[n - 1], solves[n].key, Result(solves[n].of))
  IN stored[Len(solves)]
CombosStored(v, names) ==
  LET stored[n \in 0..Len(names)] ==
        IF n = 0 THEN v ELSE StoreCombo(stored[n - 1], names[n], Result(names[n]))
  IN stored[Len(names)]

\* Some cases were solved; a combination is when all of its cases are.
AllAnswered(solved) ==
  LET solves == Only(job.solves, {i \in DOMAIN job.solves : job.solves[i].of \in solved})
      names  == Only(job.names, {i \in DOMAIN job.names : Terms[job.names[i]] \subseteq solved})
      v      == CombosStored(CasesStored(BatchRemoved(solved, ToSet(names)), solves), names)
  IN /\ Answered("all")
     /\ failing' = Unsolved({e \in ToSet(job.solves) : e.of \notin solved})
     /\ \/ /\ names # <<>>
           /\ Display(v, ComboSel(ComboPos(v, Last(names))))
           /\ stale' = Fresh
        \/ /\ names = <<>> /\ solves # <<>>
           /\ Display(v, CaseSel(Last(solves).key))
           /\ stale' = Fresh
        \/ /\ names = <<>> /\ solves = <<>>
           /\ view' = v
           /\ UNCHANGED <<term, stale, reported>>

OtherAnswered(ok) ==
  /\ Answered("other")
  /\ stale' = IF ok THEN Fresh ELSE stale
  /\ failing' = {}
  /\ UNCHANGED <<view, term, reported>>

----------------------------------------------------------------------------
(* The user *)

Select(sel) ==
  /\ Display(view, sel)
  /\ failing' = {}
  /\ UNCHANGED <<cases, combos, empty, floorsOk, stale, job, file, runs, edits>>

\* The navigator turns to a mode shape, a pushover or a time history.
LookElsewhere ==
  /\ view.focus # None
  /\ view' = [view EXCEPT !.focus = None]
  /\ failing' = {}
  /\ UNCHANGED <<cases, combos, empty, floorsOk, term, stale, job, file, reported, runs, edits>>

\* A design setting was changed: the checks are made again.
Redesign ==
  /\ DesignCheck(view, term)
  /\ failing' = {}
  /\ UNCHANGED <<cases, combos, empty, floorsOk, stale, job, file, runs, edits>>

Edited ==
  /\ edits < MaxEdits /\ edits' = edits + 1
  /\ stale' = AllStale
  /\ failing' = {}
  /\ UNCHANGED <<term, job, file, reported, runs>>

\* Deleting a load case, from the panel or by undoing its creation; the panel
\* also forgets a selection of its key.
DeleteCase(i, undone) ==
  /\ \A n \in ToSet(combos) : cases[i] \notin Terms[n]
  /\ Edited
  /\ cases' = RemoveAt(cases, i)
  /\ empty' = (empty /\ cases[i] # EX)
  /\ view' = IF ~undone /\ view.last = CaseSel(User(i))
             THEN [view EXCEPT !.last = None] ELSE view
  /\ UNCHANGED <<combos, floorsOk>>

InsertCase(i, c, e) ==
  /\ c \notin ToSet(cases)
  /\ Edited
  /\ cases' = InsertAt(cases, i, c)
  /\ empty' = IF c = EX THEN e ELSE empty
  /\ UNCHANGED <<combos, floorsOk, view>>

AddCombination(n) ==
  /\ Terms[n] \subseteq ToSet(cases)
  /\ Edited
  /\ combos' = Append(combos, n)
  /\ UNCHANGED <<cases, empty, floorsOk, view>>

DeleteCombination(i) ==
  /\ Edited
  /\ combos' = RemoveAt(combos, i)
  /\ UNCHANGED <<cases, empty, floorsOk, view>>

EditFloors ==
  /\ Edited
  /\ floorsOk' = ~floorsOk
  /\ UNCHANGED <<cases, combos, empty, view>>

----------------------------------------------------------------------------
(* The project file *)

Save ==
  /\ file' = [cases |-> cases, combos |-> combos, empty |-> empty, floorsOk |-> floorsOk,
              view |-> IF stale.results THEN NoView ELSE [view EXCEPT !.focus = None],
              reported |-> reported]
  /\ failing' = {}
  /\ UNCHANGED <<cases, combos, empty, floorsOk, view, term, stale, job, reported, runs, edits>>

\* ModelScoped and UiModelScoped are replaced; the term of the design check
\* belongs to neither.
Open ==
  /\ file # None
  /\ cases' = file.cases /\ combos' = file.combos
  /\ empty' = file.empty /\ floorsOk' = file.floorsOk
  /\ view' = file.view
  /\ reported' = file.reported
  /\ stale' = Fresh
  /\ job' = None
  /\ failing' = {}
  /\ UNCHANGED <<term, file, runs, edits>>

\* The application is started again, with an empty model.
Restart ==
  /\ edits < MaxEdits /\ edits' = edits + 1
  /\ cases' = <<>> /\ combos' = <<>> /\ empty' = FALSE /\ floorsOk' = TRUE
  /\ view' = NoView /\ stale' = Fresh /\ job' = None
  /\ term' = "long" /\ reported' = FALSE
  /\ failing' = {}
  /\ UNCHANGED <<file, runs>>
----------------------------------------------------------------------------
(* Specification *)

Distinct(S) == {q \in UNION {[1..n -> S] : n \in 0..Cardinality(S)} : IsInjective(q)}

\* A model was loaded from a file without results.
Init ==
  /\ cases \in Distinct(Cases)
  /\ combos \in {q \in Distinct(Names) : \A n \in ToSet(q) : Terms[n] \subseteq ToSet(cases)}
  /\ empty = FALSE /\ floorsOk = TRUE
  /\ view = NoView /\ term = "long" /\ stale = Fresh
  /\ job = None /\ file = None
  /\ failing = {} /\ reported = FALSE
  /\ runs = 0 /\ edits = 0

Run(p, ready) ==
  \/ \E i \in DOMAIN cases : StartCase(p, ready, i)
  \/ \E i \in DOMAIN combos : StartCombo(p, ready, i)
  \/ StartAll(p, ready)
  \/ StartOther(p, ready)

Poll ==
  \/ CaseSolved \/ CaseFailed
  \/ ComboSolved \/ ComboFailed
  \/ AllFailed
  \/ \E solved \in SUBSET Cases : AllAnswered(solved)
  \/ \E ok \in BOOLEAN : OtherAnswered(ok)

Choose ==
  \/ \E k \in DOMAIN view.statics : Select(CaseSel(k))
  \/ \E i \in DOMAIN view.combos : Select(ComboSel(i))
  \/ LookElsewhere
  \/ Redesign

Edit ==
  \/ \E i \in DOMAIN cases, undone \in BOOLEAN : DeleteCase(i, undone)
  \/ \E i \in 1..(Len(cases) + 1), c \in Cases, e \in BOOLEAN : InsertCase(i, c, e)
  \/ \E n \in Names : AddCombination(n)
  \/ \E i \in DOMAIN combos : DeleteCombination(i)
  \/ EditFloors

Next ==
  \/ \E p \in Outcomes, ready \in BOOLEAN : Run(p, ready)
  \/ Poll \/ Choose \/ Edit
  \/ Save \/ Open \/ Restart

Spec == Init /\ [][Next]_vars

----------------------------------------------------------------------------
(* Properties *)

\* Every variable has its type.
TypeOK ==
  /\ cases \in Seq(Cases) /\ IsInjective(cases)
  /\ combos \in Seq(Names)
  /\ empty \in BOOLEAN /\ floorsOk \in BOOLEAN
  /\ empty => EX \in ToSet(cases)
  /\ view \in ViewRec
  /\ term \in {"long", "short"}
  /\ stale \in [results : BOOLEAN, design : BOOLEAN]
  /\ job \in JobRec \union {None}
  /\ file \in FileRec \union {None}
  /\ failing \subseteq Cases /\ reported \in BOOLEAN
  /\ runs \in 0..MaxRuns /\ edits \in 0..MaxEdits

\* What is selected is in the bundle, and the forces on display are its forces:
\* storing over a result, taking results out in front of it and opening a file
\* neither leave a selection dangling nor let it slide to its neighbour, also
\* while the navigator shows something else.
SelectionShowsItsResult ==
  \A sel \in {view.last, view.focus} \ {None} :
    /\ Resolve(view, sel) # None
    /\ view.forces = Resolve(view, sel)
    /\ CurrentStatic(view) = view.forces

\* The member checks are those of the forces on display, unless the design check
\* that was to renew them was refused and said so.  Once a check was refused the two
\* may differ until a check succeeds again: every change of the forces is followed by
\* a check, but a second refusal is not told from the first.
ChecksMatchOrReported ==
  view.checks # None /\ view.checks.forces # view.forces => reported

\* When a load case could not be solved, no older result under its keys, and
\* none of a combination of the model that sums it, is left to pass for current.
FailureTakesDependents ==
  \A i \in {j \in DOMAIN cases : cases[j] \in failing} :
    /\ \A k \in {KeyAt(cases, i), User(i)} \intersect DOMAIN view.statics :
         view.statics[k].run = runs
    /\ \A e \in ToSet(view.combos) :
         e.name \in ToSet(combos) /\ cases[i] \in Terms[e.name] => e.res.run = runs

=============================================================================
