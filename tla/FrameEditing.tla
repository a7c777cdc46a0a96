----------------------------- MODULE FrameEditing -----------------------------
(***************************************************************************)
(* The editor at work on the document: any command a user can give, in any  *)
(* order.  Undo is not an action of its own here: CommandsReversible says   *)
(* of every command given on every reachable model what UndoStackProofs     *)
(* asks of it, and from it undo and redo follow.                            *)
(***************************************************************************)
EXTENDS FrameCommands, SecondaryCommands

CONSTANTS Views,           \* the parts of the document a session may work on
          Document(_),     \* the document that is opened to work on a part
          Requests(_, _)   \* Requests(view, model): the commands a user can give

VARIABLES model,
          view             \* the part this session works on

vars == <<model, view>>

(* EditCommand::apply of the commands that contain no other command. *)
ApplyPlain(m, c) ==
    CASE c.op = "Noop"                 -> Refused(m)
      [] c.op = "SetNodeCoord"         -> ApplySetNodeCoord(m, c)
      [] c.op = "SetNodeRestraint"     -> ApplySetNodeRestraint(m, c)
      [] c.op = "AddNode"              -> ApplyAddNode(m, c)
      [] c.op = "DeleteNode"           -> ApplyDeleteNode(m, c)
      [] c.op = "InsertNode"           -> ApplyInsertNode(m, c)
      [] c.op = "AddMember"            -> ApplyAddMember(m, c)
      [] c.op \in {"AddDamper", "AddIsolator"} -> ApplyAddDevice(m, c)
      [] c.op = "DeleteMember"         -> ApplyDeleteMember(m, c)
      [] c.op = "InsertMember"         -> ApplyInsertMember(m, c)
      [] c.op = "PlaceSupportIsolator" -> ApplyPlaceSupportIsolator(m, c)
      [] c.op = "UndoPlaceSupportIsolator" -> ApplyUndoPlaceSupportIsolator(m, c)
      [] c.op = "RemoveSupportIsolator" -> ApplyRemoveSupportIsolator(m, c)
      [] c.op = "SetElementSection"    -> ApplySetElementSection(m, c)
      [] c.op = "SetSectionMaterial"   -> ApplySetSectionMaterial(m, c)
      [] c.op = "AddCatalogSection"    -> ApplyAddCatalogSection(m, c)
      [] c.op = "DeleteSection"        -> ApplyDeleteSection(m, c)
      [] c.op = "AddSection"           -> ApplyAddSection(m, c)
      [] c.op = "DuplicateSectionForMember" -> ApplyDuplicateSectionForMember(m, c)
      [] c.op = "RestoreElementSectionAndDeleteSection" -> ApplyRestoreElementSection(m, c)
      [] c.op = "AddMaterial"          -> ApplyAddMaterial(m, c)
      [] c.op = "DeleteMaterial"       -> ApplyDeleteMaterial(m, c)
      [] c.op = "InsertMaterial"       -> ApplyInsertMaterial(m, c)
      [] c.op = "SetMemberHysteresis"  -> ApplySetMemberHysteresis(m, c)
      [] c.op = "SetDamperProps"       -> ApplySetDamperProps(m, c)
      [] c.op = "AddLoadCase"          -> ApplyAddLoadCase(m, c)
      [] c.op = "DeleteLoadCase"       -> ApplyDeleteLoadCase(m, c)
      [] c.op = "InsertLoadCase"       -> ApplyInsertLoadCase(m, c)
      [] c.op \in {"AddCombination", "DeleteCombination", "InsertCombination"} ->
                                         ApplyCombination(m, c)
      [] c.op = "AddLoad"              -> ApplyAddLoad(m, c)
      [] c.op = "SetLoad"              -> ApplySetLoad(m, c)
      [] c.op = "DeleteLoad"           -> ApplyDeleteLoad(m, c)
      [] c.op = "InsertLoad"           -> ApplyInsertLoad(m, c)
      [] c.op = "AssignSlab"           -> ApplyAssignSlab(m, c)
      [] c.op = "ClearRegion"          -> ApplyClearRegion(m, c)
      [] c.op = "SetFloorPlateRegionAssignment" -> ApplySetFloorPlateRegionAssignment(m, c)
      [] c.op = "DeleteSlab"           -> ApplyDeleteSlab(m, c)
      [] c.op = "InsertSlab"           -> ApplyInsertSlab(m, c)
      [] c.op = "PlaceSecondaryMember" -> ApplyPlaceSecondaryMember(m, c)
      [] c.op = "DeleteSecondaryMember" -> ApplyDeleteSecondaryMember(m, c)
      [] c.op = "SetSecondaryMemberEnds" -> ApplySetSecondaryMemberEnds(m, c)
      [] c.op = "RestoreSecondarySnapshot" -> ApplyRestoreSecondarySnapshot(m, c)
      [] c.op = "ApplySecondaryAction" -> ApplySecondaryAction(m, c)

(* RestoreAssignmentTopology: the renumbering first, then the snapshot. *)
ApplyTopological(m, c) ==
    CASE c.op = "SetNodeCoord" -> ApplySetNodeCoord(m, c)
      [] c.op = "DeleteMember" -> ApplyDeleteMember(m, c)
      [] c.op = "InsertMember" -> ApplyInsertMember(m, c)

ApplyRestoreAssignmentTopology(m, c) ==
    LET back == ApplyTopological(m, c.inverse)
    IN  <<WithTopology(back[1], c.snapshot), back[2]>>

(* Both deletions of RemoveSupportIsolator were accepted: both have an inverse. *)
ApplyUndoRemoveSupportIsolator(m, c) ==
    LET noded == ApplyInsertNode(m, c.undoNode)[1]
        back  == ApplyInsertMember(noded, c.undoMember.inverse)[1]
    IN  <<Restrained(WithTopology(back, c.undoMember.snapshot), c.node, c.restraint),
          [op |-> "RemoveSupportIsolator", node |-> c.node]>>

ApplyOne(m, c) ==
    CASE c.op = "RestoreAssignmentTopology" -> ApplyRestoreAssignmentTopology(m, c)
      [] c.op = "UndoRemoveSupportIsolator" -> ApplyUndoRemoveSupportIsolator(m, c)
      [] OTHER -> ApplyPlain(m, c)

(* CompositeCommand of two children: one entry of the history, whose inverse is the
   inverses in the opposite order.  Refused if both are. *)
Composite(first, second) ==
    IF first = NoopCmd /\ second = NoopCmd THEN NoopCmd
    ELSE [op |-> "Composite", children |-> <<first, second>>]

Second(one, c)    == <<one, ApplyOne(one[1], c)>>
Forward(done)  == <<done[2][1], Composite(done[1][2], done[2][2])>>
Backward(done) == <<done[2][1], Composite(done[2][2], done[1][2])>>

(* Faulty variant: the inverses stay in the order of the children. *)
ApplyCompositeForward(m, c) == Forward(Second(ApplyOne(m, c.children[1]), c.children[2]))

ApplyComposite(m, c) == Backward(Second(ApplyOne(m, c.children[1]), c.children[2]))

ExecuteFrame(m, c) == IF c.op = "Composite" THEN ApplyComposite(m, c) ELSE ApplyOne(m, c)

Trip == INSTANCE RoundTrip WITH Execute <- ExecuteFrame, Noop <- NoopCmd

Init == /\ view \in Views
        /\ model = Document(view)

Give(c) == /\ model' = Trip!After(model, c)
           /\ UNCHANGED view

Next == \E c \in Requests(view, model) : Give(c)

Spec == Init /\ [][Next]_vars

(***************************************************************************)
(* Properties                                                              *)
(***************************************************************************)

(* Ids are positions and every reference meets an existing entry, whatever was
   deleted, inserted or renumbered: what Model::validate demands before an
   analysis, a save or a load, and the loads and attributes it does not see. *)
ReferencesHold == Valid(model)

(* Every command the user can give obeys the round-trip law of the undo stack:
   its inverse restores the whole model, and undo and redo can be repeated.
   Placing a joist is excepted: its redo leaves the counter of ids behind.
   Attributes are a set here, so the order in which an inverse puts them back in
   their lists (aggregate.rs:1356-1389) is not looked at. *)
CommandsReversible ==
    \A c \in Requests(view, model) :
        c.op # "PlaceSecondaryMember" => Trip!Reversible(model, c)

(* What the entries are connected to, with the numbers resolved: a place, a name. *)
PlaceOf(m, n) == IF n \in DOMAIN m.nodes THEN m.nodes[n].at ELSE None
NameOf(list, id) == IF id \in DOMAIN list THEN list[id].name ELSE None
Bar(m, e) == IF e \notin DOMAIN m.elems THEN None
             ELSE <<m.elems[e].kind, Mapped(m.elems[e].nodes, LAMBDA n : PlaceOf(m, n))>>
SlabSection(m, s) == IF s \in DOMAIN m.slabs THEN NameOf(m.sections, m.slabs[s].section)
                     ELSE None
SupportOf(m, s) == IF s[1] = "primary" THEN Bar(m, s[2]) ELSE s

Wires(m) ==
    { <<"section", Bar(m, e), NameOf(m.sections, m.elems[e].section)>> : e \in DOMAIN m.elems }
    \union { <<"material", s.name, NameOf(m.materials, s.material)>> : s \in ToSet(m.sections) }
    \union UNION { {<<"nodal", c.name, PlaceOf(m, l.on)>> : l \in ToSet(c.nodal)}
                   \union {<<"member", c.name, Bar(m, l.on)>> : l \in ToSet(c.member)}
                   : c \in ToSet(m.cases) }
    \union UNION { {<<"combo", k, NameOf(m.cases, c)>> : c \in m.combos[k]}
                   : k \in DOMAIN m.combos }
    \union { <<a.table, Bar(m, a.elem), a.value>> : a \in m.attrs }
    \union UNION { {<<"group", k, Bar(m, e)>> : e \in ToSet(m.groups[k])} : k \in DOMAIN m.groups }
    \union UNION { {<<"axis", k, PlaceOf(m, n)>> : n \in m.axes[k]} : k \in DOMAIN m.axes }
    \union UNION { {<<"story", k, PlaceOf(m, n)>> : n \in m.stories[k]} : k \in DOMAIN m.stories }
    \union UNION { {<<"range", k, SlabSection(m, s)>>
                     : s \in ToSet(m.ranges[k].slabs)} : k \in DOMAIN m.ranges }
    \union { <<"slab", {SupportOf(m, s) : s \in r.edges},
                       SlabSection(m, r.plate[2])>>
             : r \in {x \in ToSet(m.regions.list) : x.plate[1] = "plate"} }
    \union UNION { {<<"joist", x.id, SupportOf(m, s)>> : s \in x.ends} : x \in ToSet(m.secondaries) }

Deletions == {"DeleteNode", "DeleteMember", "DeleteSection", "DeleteMaterial", "DeleteLoadCase",
              "DeleteLoad", "DeleteSlab", "RemoveSupportIsolator", "DeleteSecondaryMember"}

DeletesOnly(c) == IF c.op = "Composite" THEN \A x \in ToSet(c.children) : x.op \in Deletions
                  ELSE c.op \in Deletions

(* A deletion takes connections away and makes none: after the renumbering no
   member stands on another node, no load acts on another member, no slab has
   another section.  A reference that merely exists is not enough for that. *)
DeletionsRewireNothing ==
    \A c \in Requests(view, model) :
        DeletesOnly(c) => Wires(Trip!After(model, c)) \subseteq Wires(model)
==============================================================================
