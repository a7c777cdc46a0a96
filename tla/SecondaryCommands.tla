--------------------------- MODULE SecondaryCommands ---------------------------
(***************************************************************************)
(* The commands of sepika-edit on secondary members (joists).  They are     *)
(* known by a stable id, not by position; each end rests on a girder or on  *)
(* another joist.  One end: a cantilever.  They are placed outside of the   *)
(* floor regions here (SecondaryParent::Unassigned).                        *)
(***************************************************************************)
EXTENDS FrameModel

Joists(m) == ToSet(m.secondaries)
JoistAt(m, id) == {k \in DOMAIN m.secondaries : m.secondaries[k].id = id}
Joist(m, id) == m.secondaries[CHOOSE k \in JoistAt(m, id) : TRUE]

(* support_member_axis: a girder has an axis, a joist only with two ends. *)
HasAxis(m, support) ==
    IF support[1] = "primary" THEN Exists(m.elems, support[2])
    ELSE \E x \in Joists(m) : x.id = support[2] /\ Cardinality(x.ends) = 2

(* The joists that carry x, directly or through others: none of them is x. *)
RECURSIVE Carriers(_, _)
Carriers(joists, ids) ==
    LET under == {s[2] : s \in {e \in UNION {x.ends : x \in {j \in joists : j.id \in ids}} :
                                  e[1] = "secondary"}}
    IN  IF under \subseteq ids THEN ids ELSE Carriers(joists, ids \union under)

(* secondary_ends_ok: the ends rest on something, and not on the joist itself. *)
EndsOk(m, joist) ==
    LET others == {x \in Joists(m) : x.id # joist.id} \union {joist}
    IN  /\ \A s \in joist.ends : HasAxis(m, s)
        /\ \A x \in others : \A s \in x.ends :
              s[1] = "secondary" =>
                 /\ \E y \in others : y.id = s[2]
                 /\ x.id \notin Carriers(others, {s[2]})

Action(name, id, ends, section) == [name |-> name, id |-> id, ends |-> ends, section |-> section]

(* apply_secondary_action; ok is its answer. *)
ApplyAction(m, a) ==
    CASE a.name = "Place" ->
           [ok |-> JoistAt(m, a.id) = {},
            model |-> [m EXCEPT !.secondaries =
                         Append(@, [id |-> a.id, ends |-> a.ends, section |-> a.section])]]
      [] a.name = "Delete" ->
           [ok |-> JoistAt(m, a.id) # {},
            model |-> [m EXCEPT !.secondaries = SelectSeq(@, LAMBDA x : x.id # a.id)]]
      [] a.name = "SetEnds" ->
           [ok |-> JoistAt(m, a.id) # {},
            model |-> [m EXCEPT !.secondaries =
                         Mapped(@, LAMBDA x : IF x.id = a.id THEN [x EXCEPT !.ends = a.ends]
                                                             ELSE x)]]

Snapshot(m) == [ranges |-> m.ranges, regions |-> m.regions, slabs |-> m.slabs,
                secondaries |-> m.secondaries, next |-> m.nextSecondary]

(* The action on m; before is the model its undo restores. *)
Acted(before, m, a) ==
    LET done == ApplyAction(m, a)
    IN  IF ~done.ok THEN <<m, [op |-> "Noop"]>>
        ELSE <<Rebuild(done.model),
               [op |-> "RestoreSecondarySnapshot", snapshot |-> Snapshot(before), redo |-> a]>>

(* The id is handed out once, by the first placement; redo places the same id. *)
ApplyPlaceSecondaryMember(m, c) ==
    LET id == Max({m.nextSecondary} \union {x.id + 1 : x \in Joists(m)})
        joist == [id |-> id, ends |-> c.ends, section |-> c.section]
    IN  IF ~ExistsOrNone(m.sections, c.section) \/ ~EndsOk(m, joist) THEN <<m, [op |-> "Noop"]>>
        ELSE Acted(m, [m EXCEPT !.nextSecondary = id + 1],
                   Action("Place", id, c.ends, c.section))

(* Nobody asks which joists rest on the one deleted. *)
ApplyDeleteSecondaryMember(m, c) ==
    IF JoistAt(m, c.member) = {} THEN <<m, [op |-> "Noop"]>>
    ELSE Acted(m, m, Action("Delete", c.member, {}, None))

ApplySetSecondaryMemberEnds(m, c) ==
    IF JoistAt(m, c.member) = {} THEN <<m, [op |-> "Noop"]>>
    ELSE LET x == Joist(m, c.member)
         IN  IF x.ends = c.ends \/ ~EndsOk(m, [x EXCEPT !.ends = c.ends])
             THEN <<m, [op |-> "Noop"]>>
             ELSE Acted(m, m, Action("SetEnds", c.member, c.ends, None))

ApplyRestoreSecondarySnapshot(m, c) ==
    <<[m EXCEPT !.ranges = c.snapshot.ranges, !.regions = c.snapshot.regions,
                !.slabs = c.snapshot.slabs, !.secondaries = c.snapshot.secondaries,
                !.nextSecondary = c.snapshot.next],
      [op |-> "ApplySecondaryAction", action |-> c.redo]>>

ApplySecondaryAction(m, c) == Acted(m, m, c.action)
==============================================================================
