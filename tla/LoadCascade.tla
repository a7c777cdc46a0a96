---------------------------- MODULE LoadCascade ----------------------------
(***************************************************************************)
(* How the loads of joists and posts reach the frame (sepika-load          *)
(* cascade.rs, secondary.rs; sepika-job auto_loads.rs): the members are    *)
(* put in an order in which each comes after those that rest on it, then   *)
(* every member hands its reactions to what its ends rest on, and what     *)
(* arrives at the frame becomes nodal and member loads of a load case.     *)
(*                                                                         *)
(* A load is its resultant: a force and its position as a fraction of the  *)
(* member's length; forces are exact fractions.                            *)
(***************************************************************************)
EXTENDS SupportGeometry, Functions

CONSTANT Models   \* the models that are analysed

ASSUME ModelsAssumption == \A m \in Models : WellFormed(m)

VARIABLES
  model,      \* the model, with the loads of its members
  supports,   \* id |-> what its two ends rest on
  pending,    \* id |-> ends that rest on it and were not counted off yet
  ready,      \* stack of members nothing is pending on
  order,      \* the order of the transfer so far
  phase,      \* "order", "transfer" or "done"
  turn,       \* the member of the order whose turn it is
  extra,      \* id |-> loads handed to it by the members resting on it
  reactions,  \* id |-> forces at its two ends, None until they are known
  arrived     \* nodal and member loads on the frame
vars == <<model, supports, pending, ready, order, phase, turn, extra, reactions, arrived>>

Members == DOMAIN supports
Listed(q) == {q[i] : i \in DOMAIN q}

(* The order of the transfer *)

\* A member with both ends on the same carrier counts twice there.
EndsOn(k, r) == {e \in Ends : supports[k][e].on = "Secondary" /\ supports[k][e].key = r}
RestsOn(k, r) == EndsOn(k, r) # {}
Resting(s, r) == {x \in (DOMAIN s) \X Ends : s[x[1]][x[2]].on = "Secondary" /\ s[x[1]][x[2]].key = r}

\* The members of S by rising identifier.
Ascending(S) ==
  {q \in [1..Cardinality(S) -> S] :
    Listed(q) = S /\ \A i, j \in DOMAIN q : i < j => q[i] < q[j]}

\* Faulty variant: a carrier is counted off once for a member, not for each end.
CountedOffOnce(k) == [r \in Members |-> IF RestsOn(k, r) THEN pending[r] - 1 ELSE pending[r]]
CountedOff(k) == [r \in Members |-> pending[r] - Cardinality(EndsOn(k, r))]

\* Faulty variant: a member joins the stack as soon as one end is counted off.
ReleasedEarly(k) == {r \in Members : RestsOn(k, r)}
\* The members that nothing is pending on once k is counted off.
Released(k) == {r \in Members : RestsOn(k, r) /\ CountedOff(k)[r] = 0}

\* The code also passes over a member that is in the order already; none gets
\* onto the stack twice (LoadCascadeProofs, NoneTwice).
PopReady ==
  /\ phase = "order" /\ ready # <<>>
  /\ LET k == ready[Len(ready)]
         rest == SubSeq(ready, 1, Len(ready) - 1)
     IN  /\ order' = Append(order, k)
         /\ \E next \in Ascending(Released(k)) : ready' = rest \o next
         /\ pending' = CountedOff(k)
  /\ UNCHANGED <<model, supports, phase, turn, extra, reactions, arrived>>

Ordered ==
  /\ phase = "order" /\ ready = <<>>
  /\ phase' = "transfer" /\ turn' = 1
  /\ UNCHANGED <<model, supports, pending, ready, order, extra, reactions, arrived>>

\* What was never released: it rests on itself, or on something that does.
Cyclic == Members \ Listed(order)

(* The transfer *)

PointLoad(at, p) == [at |-> at, p |-> p]
SumOf(q) == LET sum[i \in 0..Len(q)] == IF i = 0 THEN Zero ELSE Plus(sum[i - 1], q[i]) IN sum[Len(q)]

\* A load splits by the lever rule, on a vertical member by its shares.
ReactionsOf(x, load) ==
  IF Vertical(x)
  THEN [e \in Ends |-> Times(load.p, x.shares[e])]
  ELSE <<Times(load.p, Minus(One, load.at)), Times(load.p, load.at)>>
Reaction(x, loads, e) == SumOf([i \in DOMAIN loads |-> ReactionsOf(x, loads[i])[e]])

\* A cantilever gives everything to its support.
ForcesAt(x, loads) ==
  LET r == [e \in Ends |-> Reaction(x, loads, e)]
  IN  IF x.cantilever THEN <<Plus(r[1], r[2]), Zero>> ELSE <<r[1], r[2]>>

LoadsOn(k) == Axis(model, k).loads \o extra[k]

\* Faulty variant: a load handed over replaces the one handed over before.
HandedOnlyLast(k, f) ==
  [r \in Members |->
    LET from == {e \in EndsOn(k, r) : f[e] # Zero}
    IN  IF from = {} THEN extra[r]
        ELSE LET e == CHOOSE d \in from : \A c \in from : c <= d
             IN  <<PointLoad(supports[k][e].at, f[e])>>]
\* Forces at ends that rest on other members become loads of these.
Handed(k, f) ==
  LET On(r, e) == IF e \in EndsOn(k, r) /\ f[e] # Zero
                  THEN <<PointLoad(supports[k][e].at, f[e])>> ELSE <<>>
  IN  [r \in Members |-> extra[r] \o On(r, 1) \o On(r, 2)]

Turn == order[turn]

\* A vertical member without valid shares is left out; what it carries stays there.
SkipMember ==
  /\ phase = "transfer" /\ turn <= Len(order)
  /\ Turn \in InvalidShares(model)
  /\ turn' = turn + 1
  /\ UNCHANGED <<model, supports, pending, ready, order, phase, extra, reactions, arrived>>

TransferMember ==
  /\ phase = "transfer" /\ turn <= Len(order)
  /\ Turn \notin InvalidShares(model)
  /\ LET f == ForcesAt(Axis(model, Turn), LoadsOn(Turn))
     IN  /\ reactions' = [reactions EXCEPT ![Turn] = f]
         /\ extra' = Handed(Turn, f)
  /\ turn' = turn + 1
  /\ UNCHANGED <<model, supports, pending, ready, order, phase, arrived>>

(* The loads on the frame *)

Solved == {k \in Members : reactions[k] # None}
EndsOf(on) == {x \in Solved \X Ends : supports[x[1]][x[2]].on = on /\ reactions[x[1]][x[2]] # Zero}
NodalLoad(n, p) == [on |-> "node", node |-> n, p |-> p]
MemberLoad(g, at, p) == [on |-> "girder", girder |-> g, at |-> at, p |-> p]
OnSpan(at, p) == LET g == SpanOf(model, at)
                 IN  MemberLoad(g, Position(at, GirderFrom(model, g), GirderTo(model, g)), p)

\* A nodal load on a node that no element ends at moves to the girder under it.
Resolved(n, p) ==
  IF Connected(model, n) \/ Spans(model, model.nodes[n]) = {}
  THEN NodalLoad(n, p)
  ELSE OnSpan(model.nodes[n], p)

\* An end on the frame is at a node or on a span.  The first node at the point is
\* taken, whether an element ends there or not: no two nodes coincide here.
PrimaryLoad(x) ==
  LET p == reactions[x[1]][x[2]]
      at == End(Axis(model, x[1]), x[2])
  IN  IF NodesAt(model, at) # {} THEN Resolved(NodeAt(model, at), p) ELSE OnSpan(at, p)

Emit ==
  /\ phase = "transfer" /\ turn > Len(order)
  /\ arrived' = [x \in EndsOf("Primary") |-> PrimaryLoad(x)]
  /\ phase' = "done"
  /\ UNCHANGED <<model, supports, pending, ready, order, turn, extra, reactions>>

\* Ends with a reaction that nothing takes: reported before an analysis, like
\* Cyclic and InvalidShares.
UnresolvedMembers == {x[1] : x \in EndsOf("Unresolved")}

Init ==
  /\ model \in Models
  /\ supports = SupportsOf(model)
  /\ pending = [r \in Members |-> Cardinality(Resting(supports, r))]
  /\ ready \in Ascending({r \in Members : pending[r] = 0})
  /\ order = <<>>
  /\ phase = "order"
  /\ turn = 0
  /\ extra = [r \in Members |-> <<>>]
  /\ reactions = [r \in Members |-> None]
  /\ arrived = <<>>

Next == PopReady \/ Ordered \/ SkipMember \/ TransferMember \/ Emit

Spec == Init /\ [][Next]_vars
-----------------------------------------------------------------------------
(* Properties *)

\* A member's turn comes after that of every member that rests on it, so that
\* its loads are complete (transfer_order, cascade.rs:589-645).
CarriersComeLater ==
  \A j \in DOMAIN order : \A k \in Members :
    RestsOn(k, order[j]) => \E i \in 1..j - 1 : order[i] = k

\* Forces, and their first moments about the vertical planes x = 0 and y = 0.
Moments == 0..2
Weighted(p, at, c) == IF c = 0 THEN p ELSE Times(p, at[c])
Exactly(point) == [d \in 1..3 |-> Whole(point[d])]
PointOn(from, to, at) == [d \in 1..3 |-> Plus(Whole(from[d]), Times(at, Whole(to[d] - from[d])))]
Total(S, w) == FoldFunctionOnSet(Plus, Zero, w, S)

\* What a member carries, and what it gives to its end.
OnMember(k, loads, c) ==
  LET x == Axis(model, k)
  IN  SumOf([i \in DOMAIN loads |-> Weighted(loads[i].p, PointOn(x.a, x.b, loads[i].at), c)])
AtEnd(k, e, c) == Weighted(reactions[k][e], Exactly(End(Axis(model, k), e)), c)

Applied(c) == Total(Members, [k \in Members |-> OnMember(k, Axis(model, k).loads, c)])
\* A nodal load counts as arrived where an element takes it.
Taken == {x \in DOMAIN arrived : arrived[x].on = "node" => Connected(model, arrived[x].node)}
Place(l) == IF l.on = "node" THEN Exactly(model.nodes[l.node])
            ELSE PointOn(GirderFrom(model, l.girder), GirderTo(model, l.girder), l.at)
Arrived(c) == Total(Taken, [x \in Taken |-> Weighted(arrived[x].p, Place(arrived[x]), c)])
\* What stays at the ends and on the members that are reported.
Stopped(c) ==
  LET left == Members \ Solved
      ends == EndsOf("Unresolved")
  IN  Plus(Total(ends, [x \in ends |-> AtEnd(x[1], x[2], c)]),
           Total(left, [k \in left |-> OnMember(k, LoadsOn(k), c)]))

\* Every load arrives on the frame or stays where it is reported, once, and with
\* the moment it has; the moment at the support of a cantilever is not handed on
\* (solve_with_basis, cascade.rs:391-551; primary_loads, 97-161).
LoadsArrive ==
  phase = "done" =>
    \A c \in Moments :
      c = 0 \/ (\A k \in Members : ~Axis(model, k).cantilever)
        => Applied(c) = Plus(Arrived(c), Stopped(c))

\* A member is reported as cyclic only if another reported one rests on it: it
\* is in a ring of members or carries one.  No other member is left out.
LeftOutForARing ==
  phase # "order" => \A r \in Cyclic : \E k \in Cyclic : RestsOn(k, r)
=============================================================================
