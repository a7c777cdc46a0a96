---------------------------- MODULE MCFrameEditing ----------------------------
(* One small document per part of the editor, and the commands given on it. *)
EXTENDS FrameEditing

CONSTANTS MaxNodes, MaxElems, MaxSections, MaxMaterials, MaxCases, MaxLoads,
          MaxRegionId,   \* bound on the region ids handed out
          MaxJoists, MaxJoistId

(* Three or more segments whose ends meet two by two, with no chord. *)
Loop(S, segments) ==
    LET points == UNION {x.ends : x \in S}
    IN  /\ Cardinality(S) >= 3
        /\ \A x, y \in S : x # y => x.ends # y.ends
        /\ \A p \in points : Cardinality({x \in S : p \in x.ends}) = 2
        /\ \A x \in segments \ S : ~(x.ends \subseteq points)

MCFaces(segments) ==
    SetToSeq({ {x.support : x \in S} : S \in {T \in SUBSET segments : Loop(T, segments)} })

P(plan) == [plan |-> plan, level |-> 1]
Nodes(plans) == [k \in DOMAIN plans |-> [id |-> k, at |-> P(plans[k]), restraint |-> "FREE"]]
Beams(ends) == [k \in DOMAIN ends |->
                  [id |-> k, kind |-> "Beam", nodes |-> ends[k], section |-> 1]]
Section(k, name, material) == [id |-> k, name |-> <<name>>, material |-> material]
Material(k, name) == [id |-> k, name |-> name]
Case(k, name, nodal, member) == [id |-> k, name |-> name, nodal |-> nodal, member |-> member]
Load(id, auto) == [on |-> id, auto |-> auto]

Bare == [nodes |-> Nodes(<<"a", "b", "c">>), masters |-> {},
         elems |-> Beams(<< <<1, 2>>, <<2, 3>> >>), attrs |-> {}, groups |-> <<>>,
         sections |-> << Section(1, "S1", 1) >>, materials |-> << Material(1, "M1") >>,
         cases |-> <<>>, combos |-> <<>>, axes |-> <<>>, stories |-> <<>>, ranges |-> <<>>,
         slabs |-> <<>>, regions |-> [next |-> 1, list |-> <<>>],
         secondaries |-> <<>>, nextSecondary |-> 1]

(* Beams around a square and perhaps across it, with the regions they enclose. *)
Drawn(beams) ==
    LET drawing == [Bare EXCEPT
                     !.nodes = Nodes(<<"a", "b", "c", "d">>), !.elems = Beams(beams),
                     !.sections = << Section(1, "S1", None), Section(2, "S2", None),
                                     Section(3, "S3", None) >>]
    IN  [drawing EXCEPT !.regions = ReplaceBoundaries(@, MCFaces(Segments(drawing)))]

Square == Drawn(<< <<1, 2>>, <<2, 3>>, <<3, 4>>, <<4, 1>> >>)

(* Two slabs on the two halves of a square. *)
Floor == [Drawn(<< <<1, 2>>, <<2, 3>>, <<1, 3>>, <<3, 4>>, <<4, 1>> >>) EXCEPT
            !.regions.list[1].plate = Plate(1), !.regions.list[2].plate = Plate(2),
            !.slabs = << [id |-> 1, section |-> 3], [id |-> 2, section |-> 2] >>,
            !.ranges = << [boundary |-> {1, 2, 3, 4}, slabs |-> <<2, 1>>] >>]

MCDocument(v) ==
    CASE v = "nodes" ->
           [Bare EXCEPT !.axes = << {1, 3}, {2, 3} >>, !.stories = << {1} >>, !.masters = {3},
                        !.elems = Beams(<< <<1, 2>> >>),
                        !.cases = << Case(1, "G", << Load(3, FALSE), Load(2, TRUE) >>, <<>>) >>]
      [] v = "members" ->
           [Bare EXCEPT !.groups = << <<2, 1>> >>,
                        !.cases = << Case(1, "G", <<>>, << Load(2, FALSE), Load(1, TRUE) >>) >>,
                        !.attrs = {[table |-> "Hysteresis", elem |-> 2,
                                    value |-> <<"Auto", "Takeda">>]}]
      [] v = "isolators" ->
           [Bare EXCEPT !.elems = Beams(<< <<1, 2>> >>),
                        !.nodes = [Nodes(<<"a", "b">>) EXCEPT ![1].restraint = "FIXED"]]
      [] v \in {"sections", "materials"} ->
           [Bare EXCEPT !.elems = Beams(<< <<1, 2>> >>),
                        !.sections = << Section(1, "S1", 2), Section(2, "S2", 1) >>,
                        !.materials = << Material(1, "M1"), Material(2, "M2") >>]
      [] v = "cases" ->
           [Bare EXCEPT !.cases = << Case(1, "G", << Load(1, FALSE) >>, << Load(1, TRUE) >>),
                                     Case(2, "K", <<>>, <<>>) >>,
                        !.combos = << {1, 2} >>]
      [] v = "floors" -> Floor
      [] v = "girders" -> [Square EXCEPT !.regions.list[1].plate = Plate(1),
                                         !.slabs = << [id |-> 1, section |-> 2] >>]
      [] v \in {"joists", "stacked"} ->
           [Bare EXCEPT !.nodes = [Nodes(<<"a", "b", "c", "d", "a">>) EXCEPT ![5].at.level = 2],
                        !.elems = Beams(<< <<1, 5>>, <<1, 2>>, <<3, 4>>, <<4, 5>> >>),
                        !.secondaries = << [id |-> 1, ends |-> {Primary(2), Primary(3)},
                                            section |-> 1] >>,
                        !.nextSecondary = 2]

(* Ids one past the end are stale rows of a table. *)
Ids(list) == 1 .. Len(list) + 1
Op(name) == [op |-> name]
OnId(name, ids) == {[op |-> name, id |-> k] : k \in ids}

LoadRequests(m, list, targets) ==
    UNION { {[op |-> "DeleteLoad", list |-> list, lc |-> c, index |-> k] : k \in 1 .. MaxLoads}
            \union {[op |-> "SetLoad", list |-> list, lc |-> c, index |-> k,
                     load |-> Load(t, FALSE)] : k \in 1 .. MaxLoads, t \in targets}
            \union IF c > Len(m.cases) THEN {}
                   ELSE IF Len(m.cases[c][list]) >= MaxLoads THEN {}
                   ELSE {[op |-> "AddLoad", list |-> list, lc |-> c, load |-> Load(t, auto)] :
                           t \in targets, auto \in BOOLEAN}
            : c \in Ids(m.cases) }

NewElems(m, kinds, sections) ==
    IF Len(m.elems) >= MaxElems THEN {}
    ELSE {[id |-> Len(m.elems) + k, kind |-> kind, nodes |-> n, section |-> s] :
            k \in {1, 2}, kind \in kinds, n \in {<<2, 3>>, <<3, 9>>}, s \in sections}

NodeRequests(m) ==
    OnId("DeleteNode", Ids(m.nodes)) \union OnId("DeleteMember", Ids(m.elems))
    \union {[op |-> "SetNodeRestraint", node |-> 2, restraint |-> r] : r \in {"FREE", "FIXED"}}
    \union {[op |-> "SetNodeCoord", node |-> n, at |-> P("e")] : n \in Ids(m.nodes)}
    \union {[op |-> "AddNode", at |-> P("d"), restraint |-> "FREE"] :
              k \in Len(m.nodes) + 1 .. MaxNodes}
    \union LoadRequests(m, "nodal", {Len(m.nodes), Len(m.nodes) + 1})
    \union {Composite(DeleteNode(n), DeleteNode(n - 1)) : n \in Ids(m.nodes) \ {1}}

MemberRequests(m) ==
    OnId("DeleteMember", Ids(m.elems))
    \union {Composite(DeleteMember(e), DeleteMember(1)) : e \in Ids(m.elems) \ {1}}
    \union {[op |-> "AddMember", elem |-> e] : e \in NewElems(m, {"Beam"}, {None, 2})}
    \union {[op |-> "AddDamper", elem |-> e, props |-> <<"p">>] :
              e \in NewElems(m, {"Damper"}, {None})}
    \union {[op |-> "SetDamperProps", member |-> e, props |-> p] :
              e \in Ids(m.elems), p \in {None, <<"p">>}}
    \union {[op |-> "SetMemberHysteresis", member |-> e, slot |-> 1, rule |-> r] :
              e \in {1, 2}, r \in {"Auto", "Takeda"}}
    \union {[op |-> "SetMemberHysteresis", member |-> 2, slot |-> 2, rule |-> r] :
              r \in {None, "Takeda"}}
    \union LoadRequests(m, "member", {1, Len(m.elems) + 1})

(* An isolator whose ground node precedes the node it carries is not removed. *)
IsolatorRequests(m) ==
    OnId("DeleteNode", Ids(m.nodes)) \union OnId("DeleteMember", Ids(m.elems))
    \union {[op |-> "SetNodeRestraint", node |-> n, restraint |-> "FIXED"] : n \in Ids(m.nodes)}
    \union {[op |-> "AddNode", at |-> P("a"), restraint |-> "FIXED"] :
              k \in Len(m.nodes) + 1 .. MaxNodes}
    \union {[op |-> "AddIsolator", props |-> <<"q">>,
             elem |-> [id |-> Len(m.elems) + 1, kind |-> "Isolator", nodes |-> n,
                       section |-> None]] :
              n \in IF Len(m.elems) + 1 < MaxElems THEN {<<1, 3>>, <<3, 1>>, <<2, 3>>}
                    ELSE {}}
    \union {[op |-> "PlaceSupportIsolator", node |-> n, props |-> <<"q">>] :
              n \in IF Len(m.nodes) < MaxNodes /\ Len(m.elems) < MaxElems THEN Ids(m.nodes)
                    ELSE {}}
    \union {[op |-> "RemoveSupportIsolator", node |-> n] :
              n \in {k \in Ids(m.nodes) :
                       \A e \in DOMAIN m.elems : LET ends == SupportIsolatorEnds(m, e)
                         IN  IF ends = None THEN TRUE ELSE ends[1] = k => ends[2] > k}}

(* A copy of a section is not copied again: its name would grow for ever. *)
OriginalName(m, s) == s \in DOMAIN m.sections => Len(m.sections[s].name) = 1

SectionRequests(m) ==
    OnId("DeleteSection", Ids(m.sections)) \union OnId("DeleteMaterial", {1})
    \union {[op |-> "AddCatalogSection", section |-> Section(0, "S1", None)] :
              k \in Len(m.sections) + 1 .. MaxSections}
    \union {[op |-> "SetElementSection", elem |-> e, section |-> s] :
              e \in {1}, s \in {None} \union Ids(m.sections)}
    \union {[op |-> "DuplicateSectionForMember", member |-> e] :
              e \in {k \in IF Len(m.sections) < MaxSections THEN Ids(m.elems) ELSE {} :
                       k \in DOMAIN m.elems => OriginalName(m, m.elems[k].section)}}

MaterialRequests(m) ==
    OnId("DeleteMaterial", Ids(m.materials))
    \union {[op |-> "AddMaterial", name |-> "M3"] : k \in Len(m.materials) + 1 .. MaxMaterials}
    \union {[op |-> "SetSectionMaterial", section |-> s, material |-> t] :
              s \in Ids(m.sections), t \in {None} \union Ids(m.materials)}

CaseRequests(m) ==
    OnId("DeleteLoadCase", Ids(m.cases))
    \union {[op |-> "AddLoadCase", name |-> "L"] : k \in Len(m.cases) + 1 .. MaxCases}
    \union {[op |-> "DeleteCombination", index |-> k] : k \in Ids(m.combos)}
    \union {[op |-> "AddCombination", combo |-> S] :
              S \in IF Len(m.combos) < 2 /\ m.cases # <<>> THEN {{1, Len(m.cases)}} ELSE {}}
    \union LoadRequests(m, "nodal", {1})

FloorRequests(m) ==
    OnId("DeleteMember", Ids(m.elems)) \union OnId("DeleteSlab", Ids(m.slabs))
    \union {Composite([op |-> "DeleteSlab", id |-> 2], DeleteMember(3))}
    \union OnId("DeleteSection", Ids(m.sections))
    \union {[op |-> "SetNodeCoord", node |-> n, at |-> [P("c") EXCEPT !.level = l]] :
              n \in {3}, l \in IF m.regions.next < MaxRegionId THEN {1, 2} ELSE {}}
    \union {[op |-> "AssignSlab", region |-> r, section |-> s] :
              r \in 1 .. MaxRegionId, s \in {None, 1}}
    \union {[op |-> "ClearRegion", region |-> r, plate |-> p] :
              r \in 1 .. MaxRegionId, p \in {Unset, NoPlate}}

GirderRequests(m) ==
    FloorRequests(m)
    \union {[op |-> "AddMember", elem |-> [id |-> Len(m.elems) + 1, kind |-> "Beam",
                                           nodes |-> <<1, 3>>, section |-> 1]] :
              k \in Len(m.elems) + 1 .. 5}

JoistRequests(m) ==
    OnId("DeleteMember", Ids(m.elems))
    \union {[op |-> "DeleteSecondaryMember", member |-> k] : k \in 1 .. MaxJoistId}
    \union {[op |-> "PlaceSecondaryMember", section |-> s, ends |-> e] :
              s \in {None, 1},
              e \in IF m.nextSecondary <= MaxJoistId /\ Len(m.secondaries) < MaxJoists
                    THEN {{Secondary(1)}, {Secondary(1), Primary(3)}, {Primary(9)}} ELSE {}}
    \union {[op |-> "SetSecondaryMemberEnds", member |-> k, ends |-> e] :
              k \in 1 .. MaxJoistId, e \in {{Secondary(1)}, {Secondary(2)}, {Primary(1)}}}

(* Neither a girder nor a joist goes while a joist rests on it or on one behind it. *)
Carrying(m) == UNION {x.ends : x \in ToSet(m.secondaries)}
FreeJoistRequests(m) ==
    {c \in JoistRequests(m) :
       /\ c.op = "DeleteMember" => \A e \in c.id .. Len(m.elems) : Primary(e) \notin Carrying(m)
       /\ c.op = "DeleteSecondaryMember" => Secondary(c.member) \notin Carrying(m)}

MCRequests(v, m) ==
    CASE v = "nodes"     -> NodeRequests(m)
      [] v = "members"   -> MemberRequests(m)
      [] v = "isolators" -> IsolatorRequests(m)
      [] v = "sections"  -> SectionRequests(m)
      [] v = "materials" -> MaterialRequests(m)
      [] v = "cases"     -> CaseRequests(m)
      [] v = "floors"    -> FloorRequests(m)
      [] v = "girders"   -> GirderRequests(m)
      [] v = "joists"    -> FreeJoistRequests(m)
      [] v = "stacked"   -> JoistRequests(m)
==============================================================================
