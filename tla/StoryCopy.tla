------------------------------ MODULE StoryCopy ------------------------------
(***************************************************************************)
(* CopyStory of sepika-edit: what was entered for one story is handed out   *)
(* to others, to what lies at the same place in plan and at the same height *)
(* within the story.  Four passes follow one another for each target: the   *)
(* floors, the joists, the sections, the loads; each looks up what the ones *)
(* before it left.  Nodes and members are not made.                         *)
(*                                                                          *)
(* A model is a record of                                                   *)
(*   nodes     the points [at, z] that have a node                          *)
(*   elems     [kind, ends, section]     sections  [name, floor, size, cft] *)
(*   slabs     [section, load]           ranges    floor regions, sets of slabs *)
(*   regions   floor assignment regions [edges, plate]                      *)
(*   joists    [id, ends, held, section]  nextJoist                         *)
(*   nodal     [on, auto, p]             member    [on, auto, from, to, p]  *)
(* cft says what a concrete-filled section is used for, None of other ones. *)
(* Coordinates are exact, so that no two points are within the tolerance.   *)
(***************************************************************************)
EXTENDS Integers, Sequences, SequencesExt, FiniteSets, FiniteSetsExt

CONSTANTS None,        \* Option::None
          Elevation,   \* the levels of the stories, rising; a story's number is its name
          Base,        \* the lowest level
          Bay,         \* the length of a member that is not vertical
          Documents,   \* the models a session may begin with
          Commands,    \* the copies a user may ask for: [from, to, targets, overwrite]
          MaxCopies    \* bound on the copies of a session

VARIABLES model, before, done, copies

vars == <<model, before, done, copies>>

Unset    == <<"unset">>
NoPlate  == <<"no plate">>
Plate(s) == <<"plate", s>>
Primary(e)   == <<"primary", e>>
Secondary(j) == <<"secondary", j>>

(***************************************************************************)
(* Stories and places                                                      *)
(***************************************************************************)
(* The level of the story below. *)
Floor(k) == IF k = 1 THEN Base ELSE Elevation[k - 1]

Spans(z) == {k \in DOMAIN Elevation : Floor(k) < z /\ z <= Elevation[k]}
Story == [z \in Base .. Last(Elevation) |-> IF z = Base THEN 1 ELSE Min(Spans(z))]
StoryAt(z) == IF z \in DOMAIN Story THEN Story[z] ELSE None

(* Things belong to the story of their highest node; without nodes to none. *)
StoryOf(points) == IF points = None THEN None ELSE StoryAt(Max({p.z : p \in points}))

(* The height within a story in thousandths; its own level and the one below are exact. *)
LevelTag(z, k) ==
    LET height == Elevation[k] - Floor(k)
        part   == (2000 * (z - Floor(k)) + height) \div (2 * height)
    IN  IF z = Floor(k) THEN 0
        ELSE IF z = Elevation[k] THEN 1000
        ELSE IF height = 0 THEN 500
        ELSE Max({1, Min({999, part})})

Key(points, k) == {<<p.at, LevelTag(p.z, k)>> : p \in points}

(* The points at the same place dz higher, and whether all of them have nodes. *)
Shifted(points, dz) == {[p EXCEPT !.z = @ + dz] : p \in points}
MapsTo(m, points, dz) == Shifted(points, dz) \subseteq m.nodes

Rise(c, to) == Elevation[to] - Elevation[c.from]

(***************************************************************************)
(* Floors and what bounds them                                             *)
(***************************************************************************)
JoistsWith(m, id) == {j \in DOMAIN m.joists : m.joists[j].id = id}

(* The two ends of an edge; none if its member is gone. *)
EdgeEnds(m, edge) ==
    IF edge[1] = "primary" THEN m.elems[edge[2]].ends
    ELSE IF JoistsWith(m, edge[2]) = {} THEN None
    ELSE ToSet(m.joists[Min(JoistsWith(m, edge[2]))].ends)

Sides(m, r)   == {EdgeEnds(m, edge) : edge \in m.regions[r].edges}
Corners(m, r) == IF None \in Sides(m, r) THEN None ELSE UNION Sides(m, r)

RegionsOf(m, s) == {r \in DOMAIN m.regions : m.regions[r].plate = Plate(s)}
Boundary(m, s)  == IF RegionsOf(m, s) = {} THEN None ELSE Corners(m, Min(RegionsOf(m, s)))

(* The things of a story, by position, with their keys. *)
MembersByPlan(m, k) ==
    [e \in {e \in DOMAIN m.elems : StoryOf(m.elems[e].ends) = k} |-> Key(m.elems[e].ends, k)]
SlabsByPlan(m, k) ==
    [s \in {s \in DOMAIN m.slabs : StoryOf(Boundary(m, s)) = k} |-> Key(Boundary(m, s), k)]
JoistsByPlan(m, k) ==
    [j \in {j \in DOMAIN m.joists : StoryOf(ToSet(m.joists[j].ends)) = k} |->
        Key(ToSet(m.joists[j].ends), k)]

(* A key that two things share names neither. *)
At(index, key) == {i \in DOMAIN index : index[i] = key}
Found(index, key) == IF Cardinality(At(index, key)) = 1 THEN Min(At(index, key)) ELSE None
KeysOf(index)     == {index[i] : i \in DOMAIN index}

(* The list of what f makes of its elements, at once. *)
Mapped(list, f(_)) == SubSeq([i \in DOMAIN list |-> f(list[i])], 1, Len(list))

(* One after the other, in the order of the lists. *)
Rising(S) == IF S = {} THEN << >> ELSE SelectSeq([i \in 1 .. Max(S) |-> i], LAMBDA i : i \in S)
InOrder(step(_, _), w, index) == FoldLeft(step, w, Rising(DOMAIN index))

(* Faulty variant: what lies outside the source's plan counts as well. *)
SurplusAnywhere(m, points, c, to, keys) ==
    StoryOf(points) = to /\ Key(points, to) \notin keys

(* What lies in the source's plan at a place where the source has nothing. *)
Surplus(m, points, c, to, keys) ==
    /\ StoryOf(points) = to
    /\ Key(points, to) \notin keys
    /\ MapsTo(m, points, -Rise(c, to))

(***************************************************************************)
(* Sections                                                                *)
(***************************************************************************)
(* The section of the same name for another story, made if there is none:
   the model with it, and its position. *)
OfStory(m, name, to) ==
    {k \in DOMAIN m.sections : m.sections[k].name = name /\ m.sections[k].floor = to}

(* Faulty variant: the section that exists is made like the source's. *)
SectionRewritten(m, s, to) ==
    LET copy == [m.sections[s] EXCEPT !.floor = to]
        same == OfStory(m, copy.name, to)
    IN  IF m.sections[s].floor = None THEN <<m, s>>
        ELSE IF same # {} THEN <<[m EXCEPT !.sections[Min(same)] = copy], Min(same)>>
        ELSE <<[m EXCEPT !.sections = Append(@, copy)], Len(m.sections) + 1>>

SectionForStory(m, s, to) ==
    LET copy == [m.sections[s] EXCEPT !.floor = to]
        same == OfStory(m, copy.name, to)
    IN  IF m.sections[s].floor = None THEN <<m, s>>
        ELSE IF same # {} THEN <<m, Min(same)>>
        ELSE <<[m EXCEPT !.sections = Append(@, copy)], Len(m.sections) + 1>>

Cft(m, s) == s # None /\ m.sections[s].cft # None

(* What a thing with the section current gets from one with the section s; what it
   keeps if that does not fit is refused. *)
ResolveSection(m, c, to, s, current, fits(_), refused) ==
    IF ~c.overwrite /\ current # None THEN <<m, current>>
    ELSE IF s = None THEN <<m, None>>
    ELSE IF ~fits(m.sections[s]) THEN <<m, refused>>
    ELSE LET found == SectionForStory(m, s, to)
         IN  IF fits(found[1].sections[found[2]]) THEN found ELSE <<found[1], refused>>

(***************************************************************************)
(* The passes.  w is the work: the model so far, whether anything has been  *)
(* copied, and the slabs made for this target.                              *)
(***************************************************************************)
(* Faulty variant: the slabs behind the deleted one keep their regions' old numbers. *)
WithoutRenumbering(m, s) ==
    [m EXCEPT !.slabs   = RemoveAt(@, s),
              !.regions = Mapped(@, LAMBDA r : [r EXCEPT !.plate = IF @ = Plate(s) THEN Unset ELSE @])]

Without(m, s) ==
    LET down(t)  == IF t > s THEN t - 1 ELSE t
        plate(p) == IF p = Plate(s) THEN Unset ELSE IF p[1] = "plate" THEN Plate(down(p[2])) ELSE p
    IN  [m EXCEPT
          !.slabs   = RemoveAt(@, s),
          !.ranges  = Mapped(@, LAMBDA slabs : {down(t) : t \in slabs \ {s}}),
          !.regions = Mapped(@, LAMBDA r : [r EXCEPT !.plate = plate(@)])]

(* What carries a side of a new floor: a beam, a joist held at both ends, or a new
   beam.  acc is the model and the edges so far. *)
WithEdge(acc, side) ==
    LET m == acc[1]
        beams  == {e \in DOMAIN m.elems : m.elems[e].kind = "Beam" /\ m.elems[e].ends = side}
        joists == {j \in DOMAIN m.joists : /\ m.joists[j].held = "Supported"
                                           /\ ToSet(m.joists[j].ends) = side}
        beam   == [kind |-> "Beam", ends |-> side, section |-> None]
    IN  IF beams # {} THEN <<m, acc[2] \union {Primary(Min(beams))}>>
        ELSE IF joists # {} THEN <<m, acc[2] \union {Secondary(m.joists[Min(joists)].id)}>>
        ELSE <<[m EXCEPT !.elems = Append(@, beam)],
               acc[2] \union {Primary(Len(m.elems) + 1)}>>

(* A slab within the sides: on a region without a plate, or on a new one. *)
WithSlab(m, sides, section) ==
    LET id    == Len(m.slabs) + 1
        free  == {r \in DOMAIN m.regions : /\ m.regions[r].plate \in {Unset, NoPlate}
                                           /\ Corners(m, r) = UNION sides}
        edged == FoldSet(LAMBDA side, acc : WithEdge(acc, side), <<m, {}>>, sides)
        slab  == [section |-> section, load |-> None]
    IN  IF free # {}
        THEN [m EXCEPT !.slabs = Append(@, slab), !.regions[Min(free)].plate = Plate(id)]
        ELSE [edged[1] EXCEPT !.slabs   = Append(@, slab),
                              !.regions = Append(@, [edges |-> edged[2], plate |-> Plate(id)])]

(* The section a new slab or joist starts with: not a column's. *)
NewSection(m, s, to) == IF s = None \/ Cft(m, s) THEN <<m, None>> ELSE SectionForStory(m, s, to)

CopySlabs(w, c, to) ==
    LET keys    == KeysOf(SlabsByPlan(w.m, c.from))
        doomed  == {s \in DOMAIN w.m.slabs : Surplus(w.m, Boundary(w.m, s), c, to, keys)}
        cleared == IF c.overwrite THEN FoldLeft(Without, w.m, Reverse(Rising(doomed))) ELSE w.m
        source  == SlabsByPlan(cleared, c.from)
        present == KeysOf(SlabsByPlan(cleared, to))
        copy(v, s) ==
            LET sides == {Shifted(side, Rise(c, to)) : side \in Sides(v.m, Min(RegionsOf(v.m, s)))}
                given == NewSection(v.m, v.m.slabs[s].section, to)
            IN  IF source[s] \in present \/ ~(UNION sides \subseteq v.m.nodes) THEN v
                ELSE [m       |-> WithSlab(given[1], sides, given[2]),
                      changed |-> TRUE,
                      made    |-> v.made \union {Len(v.m.slabs) + 1}]
    IN  InOrder(copy, [m |-> cleared, made |-> {},
                       changed |-> w.changed \/ (c.overwrite /\ doomed # {})], source)

(* Where a joist can be anchored: on a beam. *)
Anchored(m, p) == \E e \in ToSet(m.elems) : e.kind = "Beam" /\ p \in e.ends

Held(m, like, ends) ==
    IF like = "Cantilever" THEN IF Anchored(m, ends[1]) THEN "Cantilever" ELSE "Detached"
    ELSE IF Anchored(m, ends[1]) /\ Anchored(m, ends[2]) THEN "Supported" ELSE "Detached"

CopySecondary(w, c, to) ==
    LET keys    == KeysOf(JoistsByPlan(w.m, c.from))
        kept(j) == ~Surplus(w.m, ToSet(j.ends), c, to, keys)
        cleared == IF c.overwrite THEN [w.m EXCEPT !.joists = SelectSeq(@, kept)] ELSE w.m
        source  == JoistsByPlan(cleared, c.from)
        present == KeysOf(JoistsByPlan(cleared, to))
        copy(v, j) ==
            LET joist == v.m.joists[j]
                ends  == Mapped(joist.ends, LAMBDA p : [p EXCEPT !.z = @ + Rise(c, to)])
                given == NewSection(v.m, joist.section, to)
                new   == [id |-> given[1].nextJoist, ends |-> ends, section |-> given[2],
                          held |-> Held(given[1], joist.held, ends)]
            IN  IF source[j] \in present \/ ~(ToSet(ends) \subseteq v.m.nodes) THEN v
                ELSE [v EXCEPT !.m = [given[1] EXCEPT !.joists = Append(@, new), !.nextJoist = @ + 1],
                               !.changed = TRUE]
    IN  InOrder(copy, [w EXCEPT !.m = cleared, !.changed = @ \/ cleared # w.m], source)

(* One kind of thing: index and list of the source and of the target. *)
CopySectionsOf(w, c, to, list, source, target, fits(_, _), refused(_)) ==
    LET copy(v, i) ==
            LET d       == Found(target, source[i])
                current == v.m[list][d].section
                next    == ResolveSection(v.m, c, to, v.m[list][i].section, current,
                                          LAMBDA s : fits(v.m[list][d], s), refused(current))
            IN  IF d = None THEN v
                ELSE [v EXCEPT !.m = [next[1] EXCEPT ![list][d].section = next[2]],
                               !.changed = @ \/ next[2] # current]
    IN  InOrder(copy, w, source)

(* A concrete-filled section is for columns and what is calculated like them; a slab
   that is refused one loses what it had, the others keep it. *)
CopySections(w, c, to) ==
    LET frame(e, s) == s.cft # None => /\ s.cft = "Column"
                                       /\ e.kind \in {"Beam", "Fiber", "MultiSpring"}
        plain(x, s) == s.cft = None
        keep(s)     == s
        clear(s)    == None
        members == CopySectionsOf(w, c, to, "elems", MembersByPlan(w.m, c.from),
                                  MembersByPlan(w.m, to), frame, keep)
        slabs   == CopySectionsOf(members, c, to, "slabs", SlabsByPlan(w.m, c.from),
                                  SlabsByPlan(w.m, to), plain, clear)
    IN  CopySectionsOf(slabs, c, to, "joists", JoistsByPlan(w.m, c.from),
                       JoistsByPlan(w.m, to), plain, keep)

(* Area loads and use: what is there gives way if it may, or if the slab is new. *)
CopySlabLoads(w, c, to) ==
    LET source == SlabsByPlan(w.m, c.from)
        target == SlabsByPlan(w.m, to)
        copy(v, s) ==
            LET d    == Found(target, source[s])
                load == v.m.slabs[s].load
                open == c.overwrite \/ d \in w.made \/ v.m.slabs[d].load = None
            IN  IF d = None \/ ~open THEN v
                ELSE [v EXCEPT !.m.slabs[d].load = load,
                               !.changed = @ \/ (load # v.m.slabs[d].load /\ d \notin w.made)]
    IN  InOrder(copy, w, source)

Length(points) == IF Cardinality({p.at : p \in points}) > 1 THEN Bay
                  ELSE Max({p.z : p \in points}) - Min({p.z : p \in points})

(* Faulty variant: the place is taken over as it is. *)
FitAnywhere(l, from, to) == l

(* A load over the whole length stays one; others keep their place, or do not fit. *)
Fit(l, from, to) == IF l.from = 0 /\ l.to = from THEN [l EXCEPT !.to = to]
                    ELSE IF l.to <= to THEN l
                    ELSE None

Manual(loads) == SelectSeq(loads, LAMBDA l : ~l.auto)

(* Faulty variant: what is there stays. *)
AllKept(loads, images, c) == loads

(* Of the loads of one kind: what stays when images are the things that are given
   some, and what comes of the loads sent to them.  Generated loads always stay. *)
Kept(loads, images, c) ==
    LET targets == {images[x] : x \in DOMAIN images}
    IN  SelectSeq(loads, LAMBDA l : ~c.overwrite \/ l.auto \/ l.on \notin targets)

Added(loads, sent, c) ==
    LET busy == {l.on : l \in ToSet(Manual(loads))}
    IN  SelectSeq(sent, LAMBDA l : c.overwrite \/ l.on \notin busy)

Sent(loads, images, fit(_)) ==
    LET own   == SelectSeq(Manual(loads), LAMBDA l : l.on \in DOMAIN images)
        moved == [k \in DOMAIN own |-> fit(own[k])]
    IN  SelectSeq(moved, LAMBDA l : l # None)

CopyCaseLoads(w, c, to) ==
    LET m       == w.m
        target  == MembersByPlan(m, to)
        source  == MembersByPlan(m, c.from)
        nodes   == [p \in {p \in m.nodes : StoryAt(p.z) = c.from /\ MapsTo(m, {p}, Rise(c, to))} |->
                       [p EXCEPT !.z = @ + Rise(c, to)]]
        members == [e \in {e \in DOMAIN source : Found(target, source[e]) # None} |->
                       Found(target, source[e])]
        length(e)  == Length(m.elems[e].ends)
        onNode(l)  == [l EXCEPT !.on = nodes[@]]
        onMember(l) == LET f == Fit(l, length(l.on), length(members[l.on]))
                       IN  IF f = None THEN None ELSE [f EXCEPT !.on = members[@]]
        keptN  == Kept(m.nodal, nodes, c)
        addedN == Added(m.nodal, Sent(m.nodal, nodes, onNode), c)
        keptM  == Kept(m.member, members, c)
        addedM == Added(m.member, Sent(m.member, members, onMember), c)
    IN  [w EXCEPT !.m = [m EXCEPT !.nodal = keptN \o addedN, !.member = keptM \o addedM],
                  !.changed = @ \/ keptN # m.nodal \/ keptM # m.member
                                \/ addedN # <<>> \/ addedM # <<>>]

(***************************************************************************)
(* The command                                                             *)
(***************************************************************************)
CopyOne(w, c, to) ==
    LET do(target, pass(_, _, _), v) == IF target \in c.targets THEN pass(v, c, to) ELSE v
        floors  == do("slabs", CopySlabs, [w EXCEPT !.made = {}])
        joists  == do("secondary", CopySecondary, floors)
        sections == do("sections", CopySections, joists)
    IN  do("loads", CopyCaseLoads, do("loads", CopySlabLoads, sections))

CopyInto(m, c) ==
    FoldLeft(LAMBDA w, to : IF to = c.from THEN w ELSE CopyOne(w, c, to),
             [m |-> m, changed |-> FALSE, made |-> {}], c.to)

(* Nothing copied: nothing changed. *)
After(m, c) == LET w == CopyInto(m, c) IN IF w.changed THEN w.m ELSE m

Init == /\ model \in Documents
        /\ before = model
        /\ done = None
        /\ copies = 0

CopyStory(c) == /\ copies < MaxCopies
                /\ model' = After(model, c)
                /\ before' = model
                /\ done' = c
                /\ copies' = copies + 1

(* The inverse is the whole model, and its inverse is what it replaced. *)
RestoreModel == /\ copies > 0
                /\ model' = before
                /\ before' = model
                /\ done' = None
                /\ UNCHANGED copies

Next == (\E c \in Commands : CopyStory(c)) \/ RestoreModel

Spec == Init /\ [][Next]_vars

(***************************************************************************)
(* Properties, of a copy that was just made                                *)
(***************************************************************************)
SectionAt(m, s) == IF s = None THEN None ELSE m.sections[s]

(* What a model has, with the numbers resolved: on which points, and what. *)
Things(m) ==
    {<<e.ends, e.kind, SectionAt(m, e.section)>> : e \in ToSet(m.elems)}
    \union {<<Boundary(m, s), "slab", SectionAt(m, m.slabs[s].section), m.slabs[s].load>>
              : s \in {s \in DOMAIN m.slabs : Boundary(m, s) # None}}
    \union {<<ToSet(j.ends), "joist", SectionAt(m, j.section)>> : j \in ToSet(m.joists)}
    \union {<<{p}, "nodal", SelectSeq(Manual(m.nodal), LAMBDA l : l.on = p)>> : p \in m.nodes}
    \union {<<m.elems[e].ends, "member", SelectSeq(Manual(m.member), LAMBDA l : l.on = e)>>
              : e \in DOMAIN m.elems}

(* Lies in a target where the source has something, or nodes to have it between. *)
SourceKeys(m, k) ==
    KeysOf(MembersByPlan(m, k)) \union KeysOf(SlabsByPlan(m, k)) \union KeysOf(JoistsByPlan(m, k))

Addressed(c, m, points, keys) ==
    \E k \in ToSet(c.to) :
        /\ StoryOf(points) = k
        /\ Key(points, k) \in keys \/ MapsTo(m, points, -Rise(c, k))

Elsewhere(c, m) == LET keys == SourceKeys(m, c.from)
                   IN  {x \in Things(m) : ~Addressed(c, m, x[1], keys)}

(* What was there is still there, in its place, with at most what it lacked filled in. *)
Stays(list) ==
    \A i \in DOMAIN before[list] : \A field \in DOMAIN before[list][i] :
        \/ model[list][i][field] = before[list][i][field]
        \/ field \in {"section", "load"} /\ before[list][i][field] = None

(* Stories that were not asked for, the source among them, and what lies outside the
   source's plan keep their members, floors, joists and loads as they were, whatever
   was deleted, made and renumbered for the targets; sections that exist are never
   rewritten; and without leave to overwrite, nothing that was there is changed. *)
NothingElseChanges ==
    done # None =>
        /\ Elsewhere(done, model) = Elsewhere(done, before)
        /\ IsPrefix(before.sections, model.sections)
        /\ ~done.overwrite => /\ Stays("elems") /\ Stays("joists") /\ Stays("slabs")
                              /\ IsPrefix(before.nodal, model.nodal)
                              /\ IsPrefix(before.member, model.member)

(* The same copy again changes nothing: loads do not pile up, sections are found
   again, and floors are not made twice, as long as a floor has the same key at the
   target as at the source.  docs/model_edit/05:31 promises it for all; floors of the
   ground floor, and sunken ones where heights differ, break it. *)
TwiceIsOnce == done # None => After(model, done) = model

(* What a copy that may overwrite leaves at a target is what the source has. *)
SlabPlaces(k)  == {Boundary(model, s) : s \in DOMAIN SlabsByPlan(model, k)}
JoistPlaces(k) == {ToSet(model.joists[j].ends) : j \in DOMAIN JoistsByPlan(model, k)}

SamePlaces(places(_), from, k, rise) ==
    {Shifted(p, rise) : p \in {p \in places(from) : MapsTo(model, p, rise)}}
    = {p \in places(k) : MapsTo(model, p, -rise)}

(* Every pair of a thing of the source and the one it corresponds to. *)
Pairs(source, target) ==
    {<<i, Found(target, source[i])>> : i \in {i \in DOMAIN source : Found(target, source[i]) # None}}

SameSection(s, d, k) ==
    \/ s = None /\ d = None
    \/ /\ s # None /\ d # None
       /\ model.sections[d].name = model.sections[s].name
       /\ model.sections[d].floor \in {None, k}

(* The section, or the one that the target has in its place, is concrete-filled and
   not for a thing like d. *)
Unfit(s, list, d, k) ==
    s # None /\ \E t \in DOMAIN model.sections :
        /\ model.sections[t].cft # None
        /\ ~(list = "elems" /\ d.kind = "Beam" /\ model.sections[t].cft = "Column")
        /\ model.sections[t].name = model.sections[s].name
        /\ t = s \/ model.sections[t].floor = k

SameSections(list, source, target, k) ==
    \A x \in Pairs(source, target) :
        LET s == model[list][x[1]].section
            d == model[list][x[2]]
        IN  SameSection(s, d.section, k) \/ Unfit(s, list, d, k)

NodalAt(p) ==
    LET own == SelectSeq(Manual(model.nodal), LAMBDA l : l.on = p)
    IN  [i \in DOMAIN own |-> own[i].p]

SameLoads(from, k, rise) ==
    /\ \A x \in Pairs(SlabsByPlan(model, from), SlabsByPlan(model, k)) :
           model.slabs[x[1]].load = model.slabs[x[2]].load
    /\ \A p \in model.nodes : StoryAt(p.z) = from /\ MapsTo(model, {p}, rise)
           => NodalAt([p EXCEPT !.z = @ + rise]) = NodalAt(p)

(* Loads lie within the members they were handed to. *)
LoadsFit == \A l \in ToSet(model.member) : l.to <= Length(model.elems[l.on].ends)

(* Whatever the order in which the passes find, delete and make things, the targets
   have the floors and joists of the source where their nodes allow it and no others
   within its plan, sections of the same names that are the story's own, and the
   same loads, none of which reaches beyond its member. *)
TargetsMatchSource ==
    done # None /\ done.overwrite =>
        /\ LoadsFit
        /\ \A k \in ToSet(done.to) :
              LET rise == Rise(done, k)
                  f    == done.from
              IN  /\ "slabs" \in done.targets => SamePlaces(SlabPlaces, f, k, rise)
                  /\ "secondary" \in done.targets => SamePlaces(JoistPlaces, f, k, rise)
                  /\ "sections" \in done.targets =>
                        /\ SameSections("elems", MembersByPlan(model, f), MembersByPlan(model, k), k)
                        /\ SameSections("slabs", SlabsByPlan(model, f), SlabsByPlan(model, k), k)
                        /\ SameSections("joists", JoistsByPlan(model, f), JoistsByPlan(model, k), k)
                  /\ "loads" \in done.targets => SameLoads(f, k, rise)

(* What the documentation says besides, and the code does not keep: a copy makes no
   members, and leaves no floor region with an edge that is gone. *)
NoMembersMade == done # None => DOMAIN model.elems = DOMAIN before.elems
EdgesExist    == \A r \in DOMAIN model.regions : None \notin Sides(model, r)

==============================================================================
