------------------------------ MODULE FrameModel ------------------------------
(***************************************************************************)
(* The document of SEPIKA as its editor sees it (sepika-core, Model): lists *)
(* whose entries are known by their position (nodes, elements, sections,    *)
(* materials, load cases, slabs) and the references between them.  Deleting *)
(* an entry renumbers the ones behind it, and every reference has to follow.*)
(*                                                                          *)
(* A model is a record of                                                   *)
(*   nodes      [id, at, restraint]         masters   generated masters     *)
(*   elems      [id, kind, nodes, section]  attrs     [table, elem, value]  *)
(*   sections   [id, name, material]        materials [id, name]            *)
(*   cases      [id, name, nodal, member], loads [on, auto]                 *)
(*   combos     sets of case ids            groups    girder groups         *)
(*   axes, stories  sets of node ids                                        *)
(*   ranges     floor regions: [boundary, slabs]                            *)
(*   slabs      [id, section]                                               *)
(*   regions    floor assignment regions: [next, list of [id, edges, plate]]*)
(*   secondaries [id, ends, section]        nextSecondary                   *)
(* Ids and positions count from 1 here, from 0 in the code.  Walls mirror   *)
(* floors in the code and are left out, as are constraints.                 *)
(***************************************************************************)
EXTENDS Integers, Sequences, SequencesExt, FiniteSets, FiniteSetsExt

CONSTANTS None,        \* Option::None
          Faces(_)     \* scan_bounded_regions: the closed loops of a set of segments

(* A plate assignment; a support of a region's edge or of a secondary's end. *)
Unset    == <<"unset">>
NoPlate  == <<"no plate">>
Plate(s) == <<"plate", s>>
Primary(e)   == <<"primary", e>>
Secondary(s) == <<"secondary", s>>

Exists(list, id) == id \in DOMAIN list /\ list[id].id = id
ExistsOrNone(list, id) == id # None => Exists(list, id)

(***************************************************************************)
(* Renumbering                                                             *)
(***************************************************************************)
(* The new number of every id after a deletion of gone, an insertion at new. *)
Down(gone) == [id \in Nat |-> IF id > gone THEN id - 1 ELSE id]
Up(new)    == [id \in Nat |-> IF id >= new THEN id + 1 ELSE id]

(* A tuple at once: TLC's Append forgets what EXCEPT did to an unevaluated function. *)
Listed(n, f(_)) == SubSeq([k \in 1 .. n |-> f(k)], 1, n)
Mapped(list, f(_)) == Listed(Len(list), LAMBDA k : f(list[k]))

Optional(f, id)   == IF id = None THEN None ELSE f[id]
WithId(x, f)      == [x EXCEPT !.id = f[x.id]]
WithSection(x, f) == [x EXCEPT !.section = Optional(f, x.section)]

VisitNodes(m, f) ==
    LET ids(S)  == {f[n] : n \in S}
        load(l) == [l EXCEPT !.on = f[l.on]]
        ends(x) == [x EXCEPT !.nodes = Mapped(x.nodes, LAMBDA n : f[n])]
    IN  [m EXCEPT
          !.nodes   = Mapped(m.nodes, LAMBDA x : WithId(x, f)),
          !.masters = ids(m.masters),
          !.elems   = Mapped(m.elems, ends),
          !.stories = Mapped(m.stories, ids),
          !.axes    = Mapped(m.axes, ids),
          !.ranges  = Mapped(m.ranges, LAMBDA x : [x EXCEPT !.boundary = ids(x.boundary)]),
          !.cases   = Mapped(m.cases, LAMBDA x : [x EXCEPT !.nodal = Mapped(x.nodal, load)])]

(* The supports a region's edges name follow; the ends of secondaries do not. *)
VisitElems(m, f) ==
    LET load(l) == [l EXCEPT !.on = f[l.on]]
        edge(s) == IF s[1] = "primary" THEN Primary(f[s[2]]) ELSE s
        region(r) == [r EXCEPT !.edges = {edge(s) : s \in r.edges}]
    IN  [m EXCEPT
          !.elems  = Mapped(m.elems, LAMBDA x : WithId(x, f)),
          !.cases  = Mapped(m.cases, LAMBDA x : [x EXCEPT !.member = Mapped(x.member, load)]),
          !.regions.list = Mapped(m.regions.list, region),
          !.attrs  = {[a EXCEPT !.elem = f[a.elem]] : a \in m.attrs},
          !.groups = Mapped(m.groups, LAMBDA g : Mapped(g, LAMBDA e : f[e]))]

(* Faulty variant: the sections of slabs are forgotten. *)
VisitSectionsOfMembers(m, f) ==
    [m EXCEPT
      !.sections = Mapped(m.sections, LAMBDA x : WithId(x, f)),
      !.elems    = Mapped(m.elems, LAMBDA x : WithSection(x, f)),
      !.secondaries = Mapped(m.secondaries, LAMBDA x : WithSection(x, f))]

VisitSections(m, f) ==
    [m EXCEPT
      !.sections = Mapped(m.sections, LAMBDA x : WithId(x, f)),
      !.elems    = Mapped(m.elems, LAMBDA x : WithSection(x, f)),
      !.slabs    = Mapped(m.slabs, LAMBDA x : WithSection(x, f)),
      !.secondaries = Mapped(m.secondaries, LAMBDA x : WithSection(x, f))]

VisitMaterials(m, f) ==
    [m EXCEPT
      !.materials = Mapped(m.materials, LAMBDA x : WithId(x, f)),
      !.sections  = Mapped(m.sections,
                           LAMBDA x : [x EXCEPT !.material = Optional(f, x.material)])]

VisitCases(m, f) ==
    [m EXCEPT
      !.cases  = Mapped(m.cases, LAMBDA x : WithId(x, f)),
      !.combos = Mapped(m.combos, LAMBDA S : {f[c] : c \in S})]

VisitSlabs(m, f) ==
    LET plate(r) == IF r.plate[1] = "plate" THEN [r EXCEPT !.plate = Plate(f[r.plate[2]])] ELSE r
    IN  [m EXCEPT
          !.slabs  = Mapped(m.slabs, LAMBDA x : WithId(x, f)),
          !.ranges = Mapped(m.ranges, LAMBDA x : [x EXCEPT !.slabs = Mapped(x.slabs, LAMBDA s : f[s])]),
          !.regions.list = Mapped(m.regions.list, plate)]

(***************************************************************************)
(* Who refers to an entry (the guards of deletion)                         *)
(***************************************************************************)
NodeInUseOutsideElems(m, n) ==
    \/ \E k \in DOMAIN m.stories : n \in m.stories[k]
    \/ \E k \in DOMAIN m.cases : \E l \in ToSet(m.cases[k].nodal) : l.on = n
    \/ \E k \in DOMAIN m.ranges : n \in m.ranges[k].boundary

(* Faulty variant: only elements count as users of a node. *)
NodeInUseByElems(m, n) == \E e \in ToSet(m.elems) : n \in ToSet(e.nodes)

NodeInUse(m, n) == \/ \E e \in ToSet(m.elems) : n \in ToSet(e.nodes)
                   \/ NodeInUseOutsideElems(m, n)

NodeInUseExcluding(m, n, excl) ==
    \/ \E e \in ToSet(m.elems) : e.id # excl /\ n \in ToSet(e.nodes)
    \/ NodeInUseOutsideElems(m, n)

SectionInUse(m, s) ==
    \E x \in ToSet(m.elems) \union ToSet(m.slabs) \union ToSet(m.secondaries) : x.section = s

MaterialInUse(m, t) == \E x \in ToSet(m.sections) : x.material = t

CaseInUse(m, c) == \E k \in DOMAIN m.combos : c \in m.combos[k]

(* The two ends <<upper, ground>> of an isolator that stands in for a support. *)
SupportIsolatorEnds(m, e) ==
    LET isolator == m.elems[e]
        n == isolator.nodes
        ground(k) == /\ m.nodes[n[k]].restraint = "FIXED"
                     /\ ~NodeInUseExcluding(m, n[k], e)
    IN  IF isolator.kind # "Isolator" \/ m.nodes[n[1]].at # m.nodes[n[2]].at THEN None
        ELSE IF ground(1) THEN <<n[2], n[1]>>
        ELSE IF ground(2) THEN <<n[1], n[2]>>
        ELSE None

(***************************************************************************)
(* Floor assignment regions: derived from the drawing, with state of their  *)
(* own (the plate assigned)                                                *)
(***************************************************************************)

(* Level beams and the secondaries supported at both ends; a cantilever closes
   nothing. *)
Segments(m) ==
    { [support |-> Primary(e),
        ends |-> {<<"node", m.nodes[n].at>> : n \in ToSet(m.elems[e].nodes)}] :
        e \in {k \in DOMAIN m.elems :
                 /\ m.elems[k].kind = "Beam"
                 /\ m.nodes[m.elems[k].nodes[1]].at.level = m.nodes[m.elems[k].nodes[2]].at.level} }
    \union
    { [support |-> Secondary(s.id), ends |-> s.ends] :
        s \in {x \in ToSet(m.secondaries) : Cardinality(x.ends) = 2} }

(* The k-th face keeps the region it had, or becomes a new unset region. *)
ReplaceBoundaries(regions, faces) ==
    LET old == ToSet(regions.list)
        first == Max({regions.next} \union {r.id + 1 : r \in old})
        Known(k) == \E r \in old : r.edges = faces[k]
        region(k) ==
            IF Known(k) THEN CHOOSE r \in old : r.edges = faces[k]
            ELSE [id    |-> first + Cardinality({j \in 1 .. k - 1 : ~Known(j)}),
                  edges |-> faces[k], plate |-> Unset]
    IN  [next |-> first + Cardinality({k \in DOMAIN faces : ~Known(k)}),
         list |-> Listed(Len(faces), region)]

(* Keeps the slabs in keep, renumbers them and everything that names them. *)
RetainSlabs(m, keep) ==
    LET new(s) == Cardinality({k \in keep : k <= s})
        left == SelectSeq(m.slabs, LAMBDA s : s.id \in keep)
        plate(r) == IF r.plate[1] # "plate" THEN r
                    ELSE [r EXCEPT !.plate = IF r.plate[2] \in keep THEN Plate(new(r.plate[2]))
                                                                   ELSE Unset]
        range(x) == [x EXCEPT !.slabs = Mapped(SelectSeq(x.slabs, LAMBDA s : s \in keep), new)]
    IN  [m EXCEPT
          !.slabs  = Listed(Len(left), LAMBDA k : [left[k] EXCEPT !.id = k]),
          !.ranges = Mapped(m.ranges, range),
          !.regions.list = Mapped(m.regions.list, plate)]

Assigned(m) == {r.plate[2] : r \in {x \in ToSet(m.regions.list) : x.plate[1] = "plate"}}

(* rebuild_assignment_regions_dropping_orphan_plates *)
Rebuild(m) ==
    LET rebuilt == [m EXCEPT !.regions = ReplaceBoundaries(m.regions, Faces(Segments(m)))]
    IN  RetainSlabs(rebuilt, Assigned(rebuilt))

(***************************************************************************)
(* What every model must be: what Model::validate demands, and the loads,   *)
(* attributes and combinations it does not look at                         *)
(***************************************************************************)
IdsArePositions(m) ==
    \A list \in {m.nodes, m.elems, m.sections, m.materials, m.cases, m.slabs} :
        \A k \in DOMAIN list : list[k].id = k

ElementsRefer(m) ==
    /\ \A e \in ToSet(m.elems) : /\ \A n \in ToSet(e.nodes) : Exists(m.nodes, n)
                                 /\ ExistsOrNone(m.sections, e.section)
    /\ \A s \in ToSet(m.sections) : ExistsOrNone(m.materials, s.material)
    /\ \A g \in ToSet(m.groups) : \A e \in ToSet(g) : Exists(m.elems, e)
    /\ \A a \in m.attrs : Exists(m.elems, a.elem)

LoadsRefer(m) ==
    /\ \A c \in ToSet(m.cases) : /\ \A l \in ToSet(c.nodal) : Exists(m.nodes, l.on)
                                 /\ \A l \in ToSet(c.member) : Exists(m.elems, l.on)
    /\ \A k \in DOMAIN m.combos : \A c \in m.combos[k] : Exists(m.cases, c)

PlacesRefer(m) ==
    /\ \A S \in ToSet(m.axes) \union ToSet(m.stories) \union {m.masters} :
          \A n \in S : Exists(m.nodes, n)
    /\ \A r \in ToSet(m.ranges) : /\ \A n \in r.boundary : Exists(m.nodes, n)
                                  /\ \A s \in ToSet(r.slabs) : Exists(m.slabs, s)
                                  /\ IsInjective(r.slabs)
    /\ \A j, k \in DOMAIN m.ranges :
          j # k => ToSet(m.ranges[j].slabs) \intersect ToSet(m.ranges[k].slabs) = {}

(* Every slab lies in exactly one region, and no two regions share an edge loop. *)
FloorsRefer(m) ==
    /\ \A s \in ToSet(m.slabs) :
          /\ ExistsOrNone(m.sections, s.section)
          /\ Cardinality({k \in DOMAIN m.regions.list : m.regions.list[k].plate = Plate(s.id)}) = 1
    /\ \A r \in ToSet(m.regions.list) :
          /\ r.plate[1] = "plate" => Exists(m.slabs, r.plate[2])
          /\ \A s \in r.edges : s[1] = "primary" => Exists(m.elems, s[2])
                                                    /\ m.elems[s[2]].kind = "Beam"
    /\ \A j, k \in DOMAIN m.regions.list :
          j # k => /\ m.regions.list[j].id # m.regions.list[k].id
                   /\ m.regions.list[j].edges # m.regions.list[k].edges

SecondariesRefer(m) ==
    \A x \in ToSet(m.secondaries) :
        /\ ExistsOrNone(m.sections, x.section)
        /\ \A s \in x.ends :
              IF s[1] = "primary" THEN Exists(m.elems, s[2])
              ELSE \E y \in ToSet(m.secondaries) : y.id = s[2] /\ y.id # x.id

Valid(m) == /\ IdsArePositions(m) /\ ElementsRefer(m) /\ LoadsRefer(m)
            /\ PlacesRefer(m) /\ FloorsRefer(m) /\ SecondariesRefer(m)
==============================================================================
