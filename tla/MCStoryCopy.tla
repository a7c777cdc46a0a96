----------------------------- MODULE MCStoryCopy -----------------------------
(***************************************************************************)
(* A building of four floors, the ground floor among them, the upper stories *)
(* 4, 4 and 3 high: a bay a-m-b-c that a joist m-c may divide, and from the  *)
(* second story on an overhang b-e-c.  What its floors, sections and loads   *)
(* are differs from document to document.                                    *)
(***************************************************************************)
EXTENDS StoryCopy

CONSTANTS SunkenStories,  \* the stories with a floor one below their level
          From            \* the stories that are copied from and to

Levels == <<0, 4, 8, 11>>
Stories == 2 .. 4
Pt(at, k) == [at |-> at, z |-> Levels[k]]
Sunk(at, k) == [at |-> at, z |-> Levels[k] - 1]

Points == {Pt(at, k) : at \in {"a", "m", "b", "c"}, k \in 1 .. 4}
          \union {Pt("e", k) : k \in {3, 4}}
          \union {Sunk(at, k) : at \in {"s", "t", "u"}, k \in SunkenStories}

Beam(p, q, s)  == [kind |-> "Beam", ends |-> {p, q}, section |-> s]
Brace(p, q, s) == [kind |-> "Truss", ends |-> {p, q}, section |-> s]

(* The members of a story; col and gir are the sections of the column and the girder. *)
Frame(k, col, gir) ==
    << Beam(Pt("a", k), Pt("m", k), gir), Beam(Pt("m", k), Pt("b", k), None),
       Beam(Pt("b", k), Pt("c", k), None), Beam(Pt("c", k), Pt("a", k), None) >>
    \o (IF k = 1 THEN << >>
        ELSE << Beam(Pt("a", k - 1), Pt("a", k), col), Brace(Pt("a", k - 1), Pt("m", k), gir) >>)
    \o (IF k < 3 THEN << >> ELSE << Beam(Pt("b", k), Pt("e", k), None), Beam(Pt("e", k), Pt("c", k), None) >>)
    \o (IF k \notin SunkenStories THEN << >>
        ELSE << Beam(Sunk("s", k), Sunk("t", k), None), Beam(Sunk("t", k), Sunk("u", k), None),
                Beam(Sunk("u", k), Sunk("s", k), None) >>)

Index(elems, ends) == Min({e \in DOMAIN elems : elems[e].kind = "Beam" /\ elems[e].ends = ends})

(* The floors of a story: <<boundary sides with the joist as "joist", has a plate>>. *)
Outline(k, names) == {{Pt(n[1], k), Pt(n[2], k)} : n \in names}
Whole == {<<"a", "m">>, <<"m", "b">>, <<"b", "c">>, <<"c", "a">>}
Left  == {<<"a", "m">>, <<"m", "c">>, <<"c", "a">>}
Right == {<<"m", "b">>, <<"b", "c">>, <<"c", "m">>}
Over  == {<<"b", "e">>, <<"e", "c">>, <<"b", "c">>}

Bay1(kind) == CASE kind = "bare"    -> {}
                [] kind = "unset"   -> {<<Whole, Unset>>}
                [] kind = "noplate" -> {<<Whole, NoPlate>>}
                [] kind = "whole"   -> {<<Whole, Plate(0)>>}
                [] kind = "halves"  -> {<<Left, Plate(0)>>, <<Right, Plate(0)>>}
                [] kind = "half"    -> {<<Left, Plate(0)>>, <<Right, Unset>>}
Divided(kind) == kind \in {"halves", "half"}

(* A document: d has the kind of bay 1, the section and the load of the slabs, the
   sections of column and girder by story; the sections, and the loads. *)
Doc(d) ==
    LET elems == Frame(1, None, None) \o Frame(2, d.col[2], d.gir[2])
                 \o Frame(3, d.col[3], d.gir[3]) \o Frame(4, None, None)
        joisted == Rising({k \in 1 .. 4 : Divided(d.floor[k])})
        joists  == [i \in DOMAIN joisted |->
                      [id |-> i, ends |-> <<Pt("m", joisted[i]), Pt("c", joisted[i])>>,
                       held |-> "Supported", section |-> d.slab[joisted[i]]]] \o << >>
        edge(k, n) == IF n \in {<<"m", "c">>, <<"c", "m">>}
                      THEN Secondary(Min({i \in DOMAIN joisted : joisted[i] = k}))
                      ELSE Primary(Index(elems, {Pt(n[1], k), Pt(n[2], k)}))
        sunk(k)    == {Primary(Index(elems, {Sunk(n[1], k), Sunk(n[2], k)}))
                        : n \in {<<"s", "t">>, <<"t", "u">>, <<"u", "s">>}}
        bounded(k) == {[edges |-> {edge(k, n) : n \in o[1]}, plate |-> o[2], at |-> k]
                          : o \in Bay1(d.floor[k])}
                      \union (IF k < 3 THEN {}
                              ELSE {[edges |-> {edge(k, n) : n \in Over}, plate |-> Plate(0), at |-> k]})
                      \union (IF k \notin SunkenStories THEN {}
                              ELSE {[edges |-> sunk(k), plate |-> Plate(0), at |-> k]})
        all        == SetToSeq(bounded(1)) \o SetToSeq(bounded(2)) \o SetToSeq(bounded(3))
                      \o SetToSeq(bounded(4))
        plated     == {i \in DOMAIN all : all[i].plate = Plate(0)}
        number(i)  == Cardinality({x \in plated : x <= i})
        placed     == Rising(plated)
    IN  [nodes |-> Points, elems |-> elems, sections |-> d.sections,
         slabs |-> Mapped(placed, LAMBDA i : [section |-> d.slab[all[i].at], load |-> d.load[all[i].at]]),
         ranges |-> Mapped(<<1, 2, 3, 4>>, LAMBDA k : {number(i) : i \in {i \in plated : all[i].at = k}}),
         regions |-> [i \in DOMAIN all |->
                        [edges |-> all[i].edges,
                         plate |-> IF i \in plated THEN Plate(number(i)) ELSE all[i].plate]] \o << >>,
         joists |-> joists, nextJoist |-> Len(joists) + 1,
         nodal |-> d.nodal,
         member |-> Mapped(d.member, LAMBDA l : [l EXCEPT !.on = Index(elems, @)])]

Section(name, floor, size, cft) == [name |-> name, floor |-> floor, size |-> size, cft |-> cft]
Sections == << Section("C", 2, 1, None), Section("C", 3, 2, None), Section("G", None, 1, None),
               Section("K", 2, 1, "Column") >>

Plain == [floor |-> <<"bare", "whole", "whole", "whole">>, slab |-> <<None, None, None, None>>,
          load |-> <<None, None, None, None>>, col |-> <<None, None, None, None>>,
          gir |-> <<None, None, None, None>>, sections |-> Sections, nodal |-> << >>, member |-> << >>]

(* Floors: pairs of arrangements of the second and third story. *)
FloorDocs ==
    { [Plain EXCEPT !.floor = <<"bare", p, q, IF p = q THEN "whole" ELSE "unset">>,
                    !.slab = <<None, 1, 2, None>>, !.load = <<None, "office", "store", None>>]
      : p \in {"noplate", "whole", "halves"}, q \in {"bare", "whole", "halves", "half"} }

(* Sections: of the source, of the target, of floors and joists, and a list in which
   the target's section of the same name is missing, another, or for other things. *)
SectionDocs ==
    { [Plain EXCEPT !.floor = <<"bare", "halves", "halves", "whole">>,
                    !.col = <<None, s, t, None>>, !.gir = <<None, s, None, None>>,
                    !.slab = <<None, s, t, None>>, !.sections = list]
      : s \in {1, 3, 4}, t \in {None, 2},
        list \in {Sections} \union {[Sections EXCEPT ![2] = Section("K", 3, 1, use)] : use \in {None, "Beam"}} }

(* Loads on a node, a column (4, 4 and 3 long) and a girder. *)
Nodal(k, auto, p) == [on |-> Pt("a", k), auto |-> auto, p |-> p]
OnColumn(k, auto, from, to, p) ==
    [on |-> {Pt("a", k - 1), Pt("a", k)}, auto |-> auto, from |-> from, to |-> to, p |-> p]
OnGirder(k, p) == [on |-> {Pt("a", k), Pt("m", k)}, auto |-> FALSE, from |-> 0, to |-> Bay, p |-> p]

NodalDocs ==
    { [Plain EXCEPT !.nodal = x, !.load = <<None, "office", z, None>>]
      : x \in { << Nodal(2, FALSE, 1), Nodal(2, FALSE, 2), Nodal(3, TRUE, 5), Nodal(2, TRUE, 6) >>,
                << Nodal(3, FALSE, 7), Nodal(2, FALSE, 1), Nodal(3, TRUE, 5) >> },
        z \in {None, "store"} }
MemberDocs ==
    { [Plain EXCEPT !.member = y]
      : y \in { << OnColumn(2, FALSE, 0, 4, 1), OnColumn(3, TRUE, 0, 4, 5), OnGirder(2, 3) >>,
                << OnColumn(2, FALSE, 0, 4, 1), OnColumn(2, FALSE, 2, 3, 2),
                   OnColumn(2, FALSE, 2, 4, 3), OnColumn(4, FALSE, 0, 3, 8) >> } }

AllDocs == {Doc(d) : d \in FloorDocs \union SectionDocs \union NodalDocs \union MemberDocs}

Tasks == { {"slabs"}, {"secondary"}, {"sections"}, {"slabs", "loads"},
           {"slabs", "secondary", "sections", "loads"} }

(* Up, down, and both ways at once. *)
Ways == { <<2, <<3>> >>, <<2, <<3, 4>> >>, <<3, <<2, 4>> >>, <<4, <<3>> >>, <<3, <<1>> >> }

AllRequests ==
    { [from |-> way[1], to |-> way[2], targets |-> x, overwrite |-> o]
      : way \in {way \in Ways : {way[1]} \union ToSet(way[2]) \subseteq From},
        x \in Tasks, o \in BOOLEAN }
==============================================================================
