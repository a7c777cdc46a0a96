----------------------------- MODULE FrameCommands -----------------------------
(***************************************************************************)
(* The commands of sepika-edit on the primary frame.  Each ApplyX(m, c) is  *)
(* X::apply on model m: the pair of the model it leaves and the command it  *)
(* answers with.  A command is a record whose "op" is the name of its       *)
(* struct and whose fields are those of the struct.                         *)
(***************************************************************************)
EXTENDS FrameModel

LOCAL C == INSTANCE CombinationEditing WITH Combos <- {}, MaxCombos <- 0

NoopCmd == [op |-> "Noop"]
Refused(m) == <<m, NoopCmd>>

DeleteNode(n)   == [op |-> "DeleteNode", id |-> n]
DeleteMember(e) == [op |-> "DeleteMember", id |-> e]

(***************************************************************************)
(* Nodes                                                                   *)
(***************************************************************************)

(* What a rebuild of the assignment regions may change. *)
Topology(m) == [ranges |-> m.ranges, regions |-> m.regions, slabs |-> m.slabs]
WithTopology(m, t) == [m EXCEPT !.ranges = t.ranges, !.regions = t.regions, !.slabs = t.slabs]
RestoreAssignmentTopology(m, undo) ==
    [op |-> "RestoreAssignmentTopology", snapshot |-> Topology(m), inverse |-> undo]

ApplySetNodeCoord(m, c) ==
    IF ~Exists(m.nodes, c.node) THEN Refused(m)
    ELSE <<Rebuild([m EXCEPT !.nodes[c.node].at = c.at]),
           RestoreAssignmentTopology(m, [c EXCEPT !.at = m.nodes[c.node].at])>>

ApplySetNodeRestraint(m, c) ==
    IF ~Exists(m.nodes, c.node) THEN Refused(m)
    ELSE <<[m EXCEPT !.nodes[c.node].restraint = c.restraint],
           [c EXCEPT !.restraint = m.nodes[c.node].restraint]>>

NewNode(m, at, restraint) == [id |-> Len(m.nodes) + 1, at |-> at, restraint |-> restraint]

ApplyAddNode(m, c) ==
    <<[m EXCEPT !.nodes = Append(@, NewNode(m, c.at, c.restraint))], DeleteNode(Len(m.nodes) + 1)>>

(* A referenced node stays; axes and generated masters let it go. *)
ApplyDeleteNode(m, c) ==
    IF ~Exists(m.nodes, c.id) \/ NodeInUse(m, c.id) THEN Refused(m)
    ELSE LET off == [m EXCEPT !.masters = @ \ {c.id},
                              !.axes = Mapped(@, LAMBDA S : S \ {c.id}),
                              !.nodes = RemoveAt(@, c.id)]
         IN  <<VisitNodes(off, Down(c.id)),
               [op |-> "InsertNode", index |-> c.id, node |-> m.nodes[c.id],
                master |-> c.id \in m.masters,
                axes |-> {k \in DOMAIN m.axes : c.id \in m.axes[k]}]>>

ApplyInsertNode(m, c) ==
    LET up == VisitNodes(m, Up(c.index))
    IN  <<[up EXCEPT
            !.nodes = InsertAt(@, c.index, [c.node EXCEPT !.id = c.index]),
            !.masters = IF c.master THEN @ \union {c.index} ELSE @,
            !.axes = Listed(Len(@), LAMBDA k : IF k \in c.axes THEN @[k] \union {c.index}
                                                                ELSE @[k])],
          DeleteNode(c.index)>>

(***************************************************************************)
(* Members                                                                 *)
(***************************************************************************)

(* new_elem_ok: the id is the next position, what it refers to exists. *)
NewElemOk(m, e) == /\ e.id = Len(m.elems) + 1
                   /\ \A n \in ToSet(e.nodes) : Exists(m.nodes, n)
                   /\ ExistsOrNone(m.sections, e.section)

ApplyAddMember(m, c) ==
    IF ~NewElemOk(m, c.elem) THEN Refused(m)
    ELSE <<Rebuild([m EXCEPT !.elems = Append(@, c.elem)]),
           RestoreAssignmentTopology(m, DeleteMember(c.elem.id))>>

(* AddDamper and AddIsolator: no rebuild, and the plain deletion as inverse. *)
ApplyAddDevice(m, c) ==
    IF ~NewElemOk(m, c.elem) THEN Refused(m)
    ELSE <<[m EXCEPT !.elems = Append(@, c.elem),
                     !.attrs = @ \union {[table |-> c.elem.kind, elem |-> c.elem.id,
                                          value |-> c.props]}],
           DeleteMember(c.elem.id)>>

AttrsOf(m, e) == {a \in m.attrs : a.elem = e}
GroupPlaces(m, e) == {p \in (DOMAIN m.groups) \X (1 .. Len(m.elems)) :
                        p[2] \in DOMAIN m.groups[p[1]] /\ m.groups[p[1]][p[2]] = e}

(* The loads, attributes and group entries of the member go with it. *)
ApplyDeleteMember(m, c) ==
    LET e == c.id
        others(loads) == SelectSeq(loads, LAMBDA l : l.on # e)
        off == [m EXCEPT
                 !.cases  = Mapped(@, LAMBDA x : [x EXCEPT !.member = others(x.member)]),
                 !.attrs  = @ \ AttrsOf(m, e),
                 !.groups = Mapped(@, LAMBDA g : SelectSeq(g, LAMBDA x : x # e)),
                 !.elems  = RemoveAt(@, e)]
    IN  IF ~Exists(m.elems, e) THEN Refused(m)
        ELSE <<Rebuild(VisitElems(off, Down(e))),
               RestoreAssignmentTopology(m,
                 [op |-> "InsertMember", index |-> e, elem |-> m.elems[e],
                  loads |-> [k \in DOMAIN m.cases |->
                              {<<p, m.cases[k].member[p]>> :
                                 p \in {q \in DOMAIN m.cases[k].member :
                                          m.cases[k].member[q].on = e}}],
                  attrs |-> AttrsOf(m, e), groups |-> GroupPlaces(m, e)])>>

(* The list with entries <<position, value>> back at their positions. *)
Reinserted(list, entries) ==
    LET places == {x[1] : x \in entries}
        before(k) == Cardinality({p \in places : p < k})
    IN  Listed(Len(list) + Cardinality(places), LAMBDA k :
           IF k \in places THEN (CHOOSE x \in entries : x[1] = k)[2] ELSE list[k - before(k)])

ApplyInsertMember(m, c) ==
    LET e == c.index
        up == VisitElems(m, Up(e))
        entries(k) == {<<p[2], e>> : p \in {q \in c.groups : q[1] = k}}
    IN  IF e > Len(m.elems) + 1 THEN Refused(m)
        ELSE <<[up EXCEPT
                 !.elems  = InsertAt(@, e, [c.elem EXCEPT !.id = e]),
                 !.cases  = Listed(Len(@), LAMBDA k :
                              [@[k] EXCEPT !.member = Reinserted(@, c.loads[k])]),
                 !.attrs  = @ \union {[a EXCEPT !.elem = e] : a \in c.attrs},
                 !.groups = Listed(Len(@), LAMBDA k : Reinserted(@[k], entries(k)))],
               DeleteMember(e)>>

(***************************************************************************)
(* Isolators in the place of supports                                      *)
(***************************************************************************)
ApplyPlaceSupportIsolator(m, c) ==
    IF ~Exists(m.nodes, c.node) THEN Refused(m)
    ELSE LET ground == NewNode(m, m.nodes[c.node].at, "FIXED")
             elem == [id |-> Len(m.elems) + 1, kind |-> "Isolator",
                      nodes |-> <<ground.id, c.node>>, section |-> None]
         IN  <<[m EXCEPT !.nodes = Append([@ EXCEPT ![c.node].restraint = "FREE"], ground),
                         !.elems = Append(@, elem),
                         !.attrs = @ \union {[table |-> "Isolator", elem |-> elem.id,
                                              value |-> c.props]}],
               [op |-> "UndoPlaceSupportIsolator", node |-> c.node, props |-> c.props,
                restraint |-> m.nodes[c.node].restraint,
                ground |-> ground.id, elem |-> elem.id]>>

(* The answers of the two deletions are thrown away. *)
ApplyUndoPlaceSupportIsolator(m, c) ==
    IF ~Exists(m.nodes, c.node) THEN Refused(m)
    ELSE LET back == [m EXCEPT !.nodes[c.node].restraint = c.restraint]
             bare == ApplyDeleteMember(back, DeleteMember(c.elem))[1]
         IN  <<ApplyDeleteNode(bare, DeleteNode(c.ground))[1],
               [op |-> "PlaceSupportIsolator", node |-> c.node, props |-> c.props]>>

(* The first isolator that carries the node in the place of its support. *)
CarryingIsolator(m, node) ==
    {e \in DOMAIN m.elems : LET ends == SupportIsolatorEnds(m, e)
                            IN  IF ends = None THEN FALSE ELSE ends[1] = node}
Restrained(m, node, restraint) ==
    [m EXCEPT !.nodes = Mapped(@, LAMBDA x : IF x.id = node THEN [x EXCEPT !.restraint = restraint]
                                                            ELSE x)]

(* The node is looked up by its old number after the ground node is gone. *)
RemovedIsolator(m, node, e, ground) ==
    LET bare == ApplyDeleteMember(m, DeleteMember(e))
        down == ApplyDeleteNode(bare[1], DeleteNode(ground))
    IN  <<Restrained(down[1], node, "FIXED"),
          [op |-> "UndoRemoveSupportIsolator", node |-> node,
           restraint |-> m.nodes[node].restraint, undoNode |-> down[2], undoMember |-> bare[2]]>>

ApplyRemoveSupportIsolator(m, c) ==
    LET e == Min(CarryingIsolator(m, c.node))
    IN  IF CarryingIsolator(m, c.node) = {} \/ ~Exists(m.nodes, c.node) THEN Refused(m)
        ELSE RemovedIsolator(m, c.node, e, SupportIsolatorEnds(m, e)[2])

(***************************************************************************)
(* Sections and materials                                                  *)
(***************************************************************************)
ApplySetElementSection(m, c) ==
    IF ~Exists(m.elems, c.elem) \/ ~ExistsOrNone(m.sections, c.section) THEN Refused(m)
    ELSE <<[m EXCEPT !.elems[c.elem].section = c.section],
           [c EXCEPT !.section = m.elems[c.elem].section]>>

ApplySetSectionMaterial(m, c) ==
    IF ~Exists(m.sections, c.section) \/ ~ExistsOrNone(m.materials, c.material) THEN Refused(m)
    ELSE <<[m EXCEPT !.sections[c.section].material = c.material],
           [c EXCEPT !.material = m.sections[c.section].material]>>

NameTaken(m, name) == \E s \in ToSet(m.sections) : s.name = name

ApplyAddCatalogSection(m, c) ==
    IF NameTaken(m, c.section.name) THEN Refused(m)
    ELSE <<[m EXCEPT !.sections = Append(@, [c.section EXCEPT !.id = Len(m.sections) + 1])],
           [op |-> "DeleteSection", id |-> Len(m.sections) + 1]>>

ApplyDeleteSection(m, c) ==
    IF ~Exists(m.sections, c.id) \/ SectionInUse(m, c.id) THEN Refused(m)
    ELSE <<VisitSections([m EXCEPT !.sections = RemoveAt(@, c.id)], Down(c.id)),
           [op |-> "AddSection", index |-> c.id, old |-> m.sections[c.id]]>>

ApplyAddSection(m, c) ==
    IF c.index > Len(m.sections) + 1 THEN Refused(m)
    ELSE LET up == VisitSections(m, Up(c.index))
         IN  <<[up EXCEPT !.sections = InsertAt(@, c.index, [c.old EXCEPT !.id = c.index])],
               [op |-> "DeleteSection", id |-> c.index]>>

(* "C1 (copy)", "C1 (copy 2)", ...: the first of the names that is free. *)
CopyName(m, name) ==
    Append(name, Min({k \in 1 .. Len(m.sections) + 1 : ~NameTaken(m, Append(name, k))}))

ApplyDuplicateSectionForMember(m, c) ==
    LET s == m.elems[c.member].section
        copy == [m.sections[s] EXCEPT !.id = Len(m.sections) + 1, !.name = CopyName(m, @)]
    IN  IF ~Exists(m.elems, c.member) THEN Refused(m)
        ELSE IF s = None THEN Refused(m)
        ELSE IF ~Exists(m.sections, s) THEN Refused(m)
        ELSE <<[m EXCEPT !.sections = Append(@, copy), !.elems[c.member].section = copy.id],
               [op |-> "RestoreElementSectionAndDeleteSection", elem |-> c.member,
                oldSection |-> s, newSection |-> copy.id]>>

ApplyRestoreElementSection(m, c) ==
    IF ~Exists(m.elems, c.elem) \/ ~Exists(m.sections, c.newSection) THEN Refused(m)
    ELSE <<VisitSections([m EXCEPT !.elems[c.elem].section = c.oldSection,
                                   !.sections = RemoveAt(@, c.newSection)],
                         Down(c.newSection)),
           [op |-> "DuplicateSectionForMember", member |-> c.elem]>>

ApplyAddMaterial(m, c) ==
    <<[m EXCEPT !.materials = Append(@, [id |-> Len(m.materials) + 1, name |-> c.name])],
      [op |-> "DeleteMaterial", id |-> Len(m.materials) + 1]>>

ApplyDeleteMaterial(m, c) ==
    IF ~Exists(m.materials, c.id) \/ MaterialInUse(m, c.id) THEN Refused(m)
    ELSE <<VisitMaterials([m EXCEPT !.materials = RemoveAt(@, c.id)], Down(c.id)),
           [op |-> "InsertMaterial", index |-> c.id, old |-> m.materials[c.id]]>>

ApplyInsertMaterial(m, c) ==
    IF c.index > Len(m.materials) + 1 THEN Refused(m)
    ELSE LET up == VisitMaterials(m, Up(c.index))
         IN  <<[up EXCEPT !.materials = InsertAt(@, c.index, [c.old EXCEPT !.id = c.index])],
               [op |-> "DeleteMaterial", id |-> c.index]>>

(***************************************************************************)
(* Attributes of members                                                   *)
(***************************************************************************)

(* The hysteresis of a member is a pair <<rule, rule_th>>; the default pair is
   kept as the absence of an entry. *)
DefaultHysteresis == <<"Auto", None>>
Hysteresis(m, e) ==
    LET own == {a \in m.attrs : a.table = "Hysteresis" /\ a.elem = e}
    IN  IF own = {} THEN DefaultHysteresis ELSE (CHOOSE a \in own : TRUE).value
WithAttr(m, table, e, value, default) ==
    [m EXCEPT !.attrs = {a \in @ : ~(a.table = table /\ a.elem = e)}
        \union IF value = default THEN {} ELSE {[table |-> table, elem |-> e, value |-> value]}]

(* k = 1: the rule of the pushover; k = 2: that of the time history. *)
ApplySetMemberHysteresis(m, c) ==
    LET old == Hysteresis(m, c.member)
    IN  IF ~Exists(m.elems, c.member) THEN Refused(m)
        ELSE <<WithAttr(m, "Hysteresis", c.member, [old EXCEPT ![c.slot] = c.rule],
                        DefaultHysteresis),
               [c EXCEPT !.rule = old[c.slot]]>>

ApplySetDamperProps(m, c) ==
    LET own == {a \in m.attrs : a.table = "Damper" /\ a.elem = c.member}
        old == IF own = {} THEN None ELSE (CHOOSE a \in own : TRUE).value
    IN  IF ~Exists(m.elems, c.member) THEN Refused(m)
        ELSE <<WithAttr(m, "Damper", c.member, c.props, None), [c EXCEPT !.props = old]>>

(***************************************************************************)
(* Load cases and loads                                                    *)
(***************************************************************************)
ApplyAddLoadCase(m, c) ==
    <<[m EXCEPT !.cases = Append(@, [id |-> Len(m.cases) + 1, name |-> c.name,
                                     nodal |-> <<>>, member |-> <<>>])],
      [op |-> "DeleteLoadCase", id |-> Len(m.cases) + 1]>>

ApplyDeleteLoadCase(m, c) ==
    IF ~Exists(m.cases, c.id) \/ CaseInUse(m, c.id) THEN Refused(m)
    ELSE <<VisitCases([m EXCEPT !.cases = RemoveAt(@, c.id)], Down(c.id)),
           [op |-> "InsertLoadCase", index |-> c.id, old |-> m.cases[c.id]]>>

ApplyInsertLoadCase(m, c) ==
    IF c.index > Len(m.cases) + 1 THEN Refused(m)
    ELSE LET up == VisitCases(m, Up(c.index))
         IN  <<[up EXCEPT !.cases = InsertAt(@, c.index, [c.old EXCEPT !.id = c.index])],
               [op |-> "DeleteLoadCase", id |-> c.index]>>

(* The combinations are sets of case ids here; nobody checks the ids. *)
ApplyCombination(m, c) ==
    LET done == C!ExecuteCombination(m.combos, c)
    IN  <<[m EXCEPT !.combos = done[1]], done[2]>>

(* The list is "nodal" or "member"; a load prepared automatically cannot be added,
   changed or deleted. *)
Target(m, c) == IF c.list = "nodal" THEN Exists(m.nodes, c.load.on)
                ELSE Exists(m.elems, c.load.on)

ApplyAddLoad(m, c) ==
    IF ~Exists(m.cases, c.lc) \/ c.load.auto \/ ~Target(m, c) THEN Refused(m)
    ELSE <<[m EXCEPT !.cases[c.lc][c.list] = Append(@, c.load)],
           [op |-> "DeleteLoad", list |-> c.list, lc |-> c.lc,
            index |-> Len(m.cases[c.lc][c.list]) + 1]>>

OwnLoadAt(m, c) == /\ Exists(m.cases, c.lc)
                   /\ c.index \in DOMAIN m.cases[c.lc][c.list]
                   /\ ~m.cases[c.lc][c.list][c.index].auto

ApplySetLoad(m, c) ==
    IF ~Target(m, c) \/ ~OwnLoadAt(m, c) THEN Refused(m)
    ELSE <<[m EXCEPT !.cases[c.lc][c.list][c.index] = c.load],
           [c EXCEPT !.load = m.cases[c.lc][c.list][c.index]]>>

ApplyDeleteLoad(m, c) ==
    IF ~OwnLoadAt(m, c) THEN Refused(m)
    ELSE <<[m EXCEPT !.cases[c.lc][c.list] = RemoveAt(@, c.index)],
           [op |-> "InsertLoad", list |-> c.list, lc |-> c.lc, index |-> c.index,
            load |-> m.cases[c.lc][c.list][c.index]]>>

ApplyInsertLoad(m, c) ==
    IF ~Exists(m.cases, c.lc) THEN Refused(m)
    ELSE IF c.index > Len(m.cases[c.lc][c.list]) + 1 THEN Refused(m)
    ELSE <<[m EXCEPT !.cases[c.lc][c.list] = InsertAt(@, c.index, c.load)],
           [op |-> "DeleteLoad", list |-> c.list, lc |-> c.lc, index |-> c.index]>>

(***************************************************************************)
(* Slabs in their assignment regions                                       *)
(***************************************************************************)
RegionAt(m, id) == {k \in DOMAIN m.regions.list : m.regions.list[k].id = id}
RegionOf(m, id) == m.regions.list[CHOOSE k \in RegionAt(m, id) : TRUE]
WithPlate(m, id, plate) ==
    [m EXCEPT !.regions.list = Mapped(@, LAMBDA r : IF r.id = id THEN [r EXCEPT !.plate = plate]
                                                               ELSE r)]
SlabPlaces(m, s) == {p \in (DOMAIN m.ranges) \X (1 .. Len(m.slabs)) :
                       p[2] \in DOMAIN m.ranges[p[1]].slabs /\ m.ranges[p[1]].slabs[p[2]] = s}
WithSlabPlaces(m, places, s) ==
    [m EXCEPT !.ranges = Listed(Len(@), LAMBDA k : [@[k] EXCEPT
        !.slabs = Reinserted(@, {<<p[2], s>> : p \in {q \in places : q[1] = k}})])]

(* The slab the region had goes (retain_slabs), the new one is inserted. *)
ApplySetFloorPlateRegionAssignment(m, c) ==
    LET previous == RegionOf(m, c.region).plate
        had == previous[1] = "plate"
        cleared == IF had THEN RetainSlabs(m, DOMAIN m.slabs \ {previous[2]}) ELSE m
        at == c.slab.id
        inserted == IF c.slab = None THEN cleared
                    ELSE LET up == VisitSlabs(cleared, Up(at))
                         IN  [up EXCEPT !.slabs = InsertAt(@, at, c.slab)]
        set == WithPlate(inserted, c.region, c.assignment)
    IN  IF RegionAt(m, c.region) = {} THEN Refused(m)
        ELSE IF (c.assignment[1] = "plate") # (c.slab # None) THEN Refused(m)
        ELSE IF c.slab # None /\ at > Len(cleared.slabs) + 1 THEN <<cleared, NoopCmd>>
        ELSE <<IF c.slab = None THEN set ELSE WithSlabPlaces(set, c.refs, at),
               [c EXCEPT !.assignment = previous,
                         !.slab = IF had THEN m.slabs[previous[2]] ELSE None,
                         !.refs = IF had THEN SlabPlaces(m, previous[2]) ELSE {}]>>

SetAssignment(region, plate, slab) ==
    [op |-> "SetFloorPlateRegionAssignment", region |-> region, assignment |-> plate,
     slab |-> slab, refs |-> {}]

(* floor_assignment_region_nodes: every corner is a node.  Those at the ends of a
   secondary lie on the axis of what carries it and are none. *)
CornersAreNodes(m, region) ==
    /\ region.edges # {}
    /\ \A s \in region.edges : s[1] = "primary" /\ Exists(m.elems, s[2])

ApplyAssignSlab(m, c) ==
    IF RegionAt(m, c.region) = {} THEN Refused(m)
    ELSE IF \/ RegionOf(m, c.region).plate[1] = "plate"
            \/ ~ExistsOrNone(m.sections, c.section)
            \/ ~CornersAreNodes(m, RegionOf(m, c.region))
    THEN Refused(m)
    ELSE LET s == Len(m.slabs) + 1
         IN  ApplySetFloorPlateRegionAssignment(m,
               SetAssignment(c.region, Plate(s), [id |-> s, section |-> c.section]))

(* SetFloorPlateRegionNoPlate and UnsetFloorPlateRegion. *)
ApplyClearRegion(m, c) ==
    IF RegionAt(m, c.region) = {} THEN Refused(m)
    ELSE IF RegionOf(m, c.region).plate = c.plate THEN Refused(m)
    ELSE ApplySetFloorPlateRegionAssignment(m, SetAssignment(c.region, c.plate, None))

ApplyDeleteSlab(m, c) ==
    LET s == c.id
        off == [m EXCEPT
                 !.ranges = Mapped(@, LAMBDA x :
                              [x EXCEPT !.slabs = SelectSeq(x.slabs, LAMBDA y : y # s)]),
                 !.regions.list = Mapped(@, LAMBDA r :
                              IF r.plate = Plate(s) THEN [r EXCEPT !.plate = Unset] ELSE r),
                 !.slabs = RemoveAt(@, s)]
    IN  IF ~Exists(m.slabs, s) THEN Refused(m)
        ELSE <<VisitSlabs(off, Down(s)),
               [op |-> "InsertSlab", index |-> s, slab |-> m.slabs[s], refs |-> SlabPlaces(m, s),
                regions |-> {r.id : r \in {x \in ToSet(m.regions.list) : x.plate = Plate(s)}}]>>

ApplyInsertSlab(m, c) ==
    LET s == c.index
        up == VisitSlabs(m, Up(s))
        back == [up EXCEPT
                  !.slabs = InsertAt(@, s, [c.slab EXCEPT !.id = s]),
                  !.regions.list = Mapped(@, LAMBDA r :
                              IF r.id \in c.regions THEN [r EXCEPT !.plate = Plate(s)] ELSE r)]
    IN  IF s > Len(m.slabs) + 1 THEN Refused(m)
        ELSE <<WithSlabPlaces(back, c.refs, s), [op |-> "DeleteSlab", id |-> s]>>
==============================================================================
