-------------------------- MODULE SupportGeometry --------------------------
(***************************************************************************)
(* Which frame or which other joist the ends of a joist or post rest on    *)
(* (sepika-load cascade.rs, secondary.rs).  Points lie on a grid much      *)
(* coarser than the tolerance of 10 mm, so that a point is on a line or    *)
(* far from it; positions along a line are fractions of its length.        *)
(*                                                                         *)
(* A model is a record of nodes (a sequence of points), girders (a         *)
(* sequence of pairs of nodes) and members (joists, then posts, in the     *)
(* order of the regions that hold them; id is the stable identifier).      *)
(***************************************************************************)
EXTENDS Integers, Sequences, FiniteSets, Rational

CONSTANT None
ASSUME NoneAssumption == None \notin Fractions \X Fractions

Points == Int \X Int \X Int
Loads == [at : Fractions, p : Fractions]
MemberRecords ==
  [id : Nat, a : Points, b : Points, cantilever : BOOLEAN,
   shares : (Fractions \X Fractions) \union {None}, loads : Seq(Loads)]

\* No two nodes are at one point; identifiers are unique (secondary.rs of
\* sepika-core, 36).
WellFormed(m) ==
  /\ m.nodes \in Seq(Points)
  /\ m.girders \in Seq((1..Len(m.nodes)) \X (1..Len(m.nodes)))
  /\ m.members \in Seq(MemberRecords)
  /\ \A i, j \in DOMAIN m.nodes : m.nodes[i] = m.nodes[j] => i = j
  /\ \A i, j \in DOMAIN m.members : m.members[i].id = m.members[j].id => i = j

Way(a, b) == [c \in 1..3 |-> b[c] - a[c]]
Dot(u, v) == u[1] * v[1] + u[2] * v[2] + u[3] * v[3]
Parallel(u, v) == \A c, d \in 1..3 : u[c] * v[d] = u[d] * v[c]

\* The point is on the segment, ends included.
OnSegment(p, a, b) ==
  /\ a # b /\ Parallel(Way(a, p), Way(a, b))
  /\ Dot(Way(a, p), Way(a, b)) \in 0 .. Dot(Way(a, b), Way(a, b))
Position(p, a, b) == Frac(Dot(Way(a, p), Way(a, b)), Dot(Way(a, b), Way(a, b)))
\* The point is on the segment away from its ends.
Within(p, a, b) == OnSegment(p, a, b) /\ p \notin {a, b}

(* The frame *)

Connected(m, n) == \E g \in DOMAIN m.girders : n \in {m.girders[g][1], m.girders[g][2]}
GirderFrom(m, g) == m.nodes[m.girders[g][1]]
GirderTo(m, g) == m.nodes[m.girders[g][2]]

\* The girders whose span the point is on; the first one found is taken.
Spans(m, p) == {g \in DOMAIN m.girders : Within(p, GirderFrom(m, g), GirderTo(m, g))}
SpanOf(m, p) == CHOOSE g \in Spans(m, p) : \A h \in Spans(m, p) : g <= h

NodesAt(m, p) == {n \in DOMAIN m.nodes : m.nodes[n] = p}
NodeAt(m, p) == CHOOSE n \in NodesAt(m, p) : \A k \in NodesAt(m, p) : n <= k
OnFrame(m, p) == Spans(m, p) # {} \/ \E n \in NodesAt(m, p) : Connected(m, n)

(* Joists and posts *)

\* A beam element between the same points takes the member's place.
Materialized(m, x) ==
  /\ NodesAt(m, x.a) # {} /\ NodesAt(m, x.b) # {}
  /\ \E g \in DOMAIN m.girders :
       {m.girders[g][1], m.girders[g][2]} = {NodeAt(m, x.a), NodeAt(m, x.b)}

\* Positions in the list of the members that take part in the transfer.
Axes(m) == {i \in DOMAIN m.members : ~Materialized(m, m.members[i]) /\ m.members[i].a # m.members[i].b}
Ids(m) == {m.members[i].id : i \in Axes(m)}
Axis(m, k) == m.members[CHOOSE i \in Axes(m) : m.members[i].id = k]

Ends == 1..2
End(x, e) == IF e = 1 THEN x.a ELSE x.b
IsFree(x, e) == x.cantilever /\ e = 2
Vertical(x) == x.a[1] = x.b[1] /\ x.a[2] = x.b[2]

\* The shares of a member's load that its ends take, when they make sense.
ValidShares(x) ==
  /\ x.shares # None
  /\ \A e \in Ends : Leq(Zero, x.shares[e]) /\ (IsFree(x, e) => x.shares[e] = Zero)
  /\ Plus(x.shares[1], x.shares[2]) = One
InvalidShares(m) == {k \in Ids(m) : Vertical(Axis(m, k)) /\ ~ValidShares(Axis(m, k))}

Primary == [on |-> "Primary"]
Free == [on |-> "Free"]
Unresolved == [on |-> "Unresolved"]
Secondary(k, at) == [on |-> "Secondary", key |-> k, at |-> at]

\* A member supports a point at its free end and away from its ends.
FreeEndAt(x, p) == x.cantilever /\ x.b = p
Supports(x, p) == FreeEndAt(x, p) \/ Within(p, x.a, x.b)

\* The frame comes first.  A free end is taken as soon as the search meets it,
\* otherwise the first of the members that the point is on.
SupportAt(m, k, p) ==
  LET others == {i \in Axes(m) : m.members[i].id # k /\ Supports(m.members[i], p)}
      tips == {i \in others : FreeEndAt(m.members[i], p)}
      among == IF tips # {} THEN tips ELSE others
      first == CHOOSE i \in among : \A j \in among : i <= j
      x == m.members[first]
  IN  CASE OnFrame(m, p) -> Primary
        [] ~OnFrame(m, p) /\ others = {} -> Unresolved
        [] OTHER -> Secondary(x.id, Position(p, x.a, x.b))

\* A vertical member rests only on the ends that take a share.
TakesNone(x, e) == Vertical(x) /\ ValidShares(x) /\ x.shares[e] = Zero
SupportOf(m, k, e) ==
  LET x == Axis(m, k)
  IN  CASE TakesNone(x, e) -> Unresolved
        [] ~TakesNone(x, e) /\ IsFree(x, e) -> Free
        [] OTHER -> SupportAt(m, k, End(x, e))
SupportsOf(m) == [k \in Ids(m) |-> [e \in Ends |-> SupportOf(m, k, e)]]
=============================================================================
