--------------------------- MODULE MCLoadCascade ---------------------------
(* A bay of 4 x 4 with girders around it on level 1, columns and a girder on *)
(* level 0 at one side, and up to three (rings: four) of the joists and      *)
(* posts below in any order.                                                 *)
EXTENDS LoadCascade, SequencesExt

CONSTANT Sizes   \* how many members a model has

Half == Frac(1, 2)
Even == <<PointLoad(Half, Whole(4))>>
Uneven == <<PointLoad(Half, Whole(4)), PointLoad(Frac(1, 4), Whole(8))>>
Nodes == <<<<0, 0, 1>>, <<4, 0, 1>>, <<4, 4, 1>>, <<0, 4, 1>>, <<0, 0, 0>>, <<4, 0, 0>>,
           <<0, 2, 1>>, <<9, 9, 1>>>>
Girders == <<<<1, 2>>, <<2, 3>>, <<3, 4>>, <<4, 1>>, <<5, 6>>, <<5, 1>>, <<6, 2>>>>

Joist(a, b, loads) == [a |-> a, b |-> b, cantilever |-> FALSE, shares |-> None, loads |-> loads]
Cantilever(a, b) == [a |-> a, b |-> b, cantilever |-> TRUE, shares |-> None, loads |-> Even]
Post(a, b, shares) == [a |-> a, b |-> b, cantilever |-> FALSE, shares |-> shares, loads |-> Even]

Catalogue == <<
  Joist(<<0, 2, 1>>, <<4, 2, 1>>, Uneven),       \* girder to girder, from a free node
  Joist(<<2, 0, 1>>, <<2, 4, 1>>, Even),         \* crosses the first
  Joist(<<1, 2, 1>>, <<3, 2, 1>>, Even),         \* both ends on the first
  Joist(<<2, 2, 1>>, <<4, 2, 1>>, <<>>),         \* overlaps the first
  Joist(<<2, 1, 1>>, <<4, 1, 1>>, Uneven),       \* on the second and a girder
  Joist(<<3, 1, 1>>, <<3, 2, 1>>, Even),         \* between two joists
  Joist(<<0, 0, 1>>, <<2, 2, 1>>, Even),         \* diagonal from a column
  Joist(<<1, 1, 1>>, <<1, 3, 1>>, Even),         \* between free ends, or on a diagonal
  Joist(<<1, 2, 1>>, <<2, 3, 1>>, <<>>),         \* without load
  Joist(<<3, 1, 1>>, <<2, 1, 1>>, Even),         \* reversed, inside another
  Joist(<<0, 0, 1>>, <<4, 0, 1>>, Even),         \* a beam element takes its place
  Cantilever(<<0, 1, 1>>, <<1, 1, 1>>),
  Cantilever(<<0, 3, 1>>, <<1, 3, 1>>),
  Post(<<2, 0, 0>>, <<2, 0, 1>>, <<Half, Half>>),
  Post(<<2, 2, 1>>, <<2, 2, 2>>, <<One, Zero>>),
  Post(<<1, 2, 0>>, <<1, 2, 1>>, None),
  Post(<<3, 2, 0>>, <<3, 2, 1>>, <<Frac(1, 4), Frac(3, 4)>>) >>

\* Four joists that carry each other in a ring, and a ring of two on a third.
Ring == <<
  Joist(<<0, 1, 1>>, <<3, 1, 1>>, Even), Joist(<<3, 0, 1>>, <<3, 3, 1>>, Even),
  Joist(<<4, 3, 1>>, <<1, 3, 1>>, Even), Joist(<<1, 4, 1>>, <<1, 1, 1>>, Even) >>
Pair == <<
  Joist(<<1, 2, 1>>, <<3, 2, 1>>, Even), Joist(<<2, 2, 1>>, <<4, 2, 1>>, Even),
  Joist(<<1, 0, 1>>, <<1, 4, 1>>, Even), Joist(<<2, 3, 1>>, <<2, 2, 1>>, Even) >>

Named(x, k) == [id |-> k] @@ x
Chosen(list, n) == {q \in [1..n -> DOMAIN list] : IsInjective(q)}
WithMembers(list, n) ==
  {[nodes |-> Nodes, girders |-> Girders,
    members |-> [i \in 1..n |-> Named(list[q[i]], q[i])]] : q \in Chosen(list, n)}
MCModels == UNION {WithMembers(Catalogue, n) : n \in Sizes}
              \union WithMembers(Ring, 4) \union WithMembers(Pair, 4)
============================================================================
