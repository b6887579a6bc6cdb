----------------------------- MODULE MCQuery -----------------------------
(* Query on small instances: the datasets and the queries clients send.    *)
EXTENDS Query, TLC

CONSTANTS P1, P2, P3, map, odom, cam, u1, u2, i1, i2, person, dog, w1, w2

TwoMaps == [p \in Projects |-> IF p = P2 THEN odom ELSE map]
Shifts == [f \in Frames |-> IF f = cam THEN 2 ELSE 0]

L(l, i) == [label |-> l, inst |-> i]
B(f, lo, hi) == [frame |-> f, lo |-> lo, hi |-> hi]
D(p, d, u, b, t, ls) ==
  [project |-> p, type |-> d, uuid |-> u, box |-> b, time |-> t, labels |-> ls]

\* Three images of one project, two with the same uuid, and a point cloud of the
\* other; two agree on an instance, one gives it another label.
Datasets ==
  {D(P1, "Image", u1, B(cam, 0, 0), 1, <<L(person, i1)>>),
   D(P1, "Image", u2, B(map, 1, 2), 2, <<L(dog, Nil), L(person, i1)>>),
   D(P1, "Image", u1, B(map, 0, 1), -1, <<L(dog, i1)>>),
   D(P2, "PointCloud", u1, B(odom, 0, 1), 2, <<L(dog, i2)>>)}

\* The transform that may arrive while the others run.
LateTransforms == {<<P1, cam>>}

NoFilter(kind, d, ps) ==
  [kind |-> kind, type |-> d, projectuuid |-> ps, boundingbox |-> None, timeinterval |-> None,
   label |-> None, instanceuuid |-> None, datauuid |-> None]

Images == NoFilter("data", "Image", None)

FbFilters ==
  {[Images EXCEPT !.boundingbox = B(map, 1, 2), !.projectuuid = <<P1>>],
   [Images EXCEPT !.boundingbox = B(cam, 0, 1), !.projectuuid = <<P1>>],
   [Images EXCEPT !.boundingbox = B(cam, 0, 0), !.timeinterval = [min |-> 0, max |-> 1],
                  !.label = {person, dog}, !.instanceuuid = {i1}, !.datauuid = {u1},
                  !.projectuuid = <<P1>>],
   [Images EXCEPT !.instanceuuid = {i2}, !.timeinterval = [min |-> 1, max |-> 2],
                  !.projectuuid = <<P1>>],
   [Images EXCEPT !.label = {}, !.projectuuid = <<P1>>],
   [Images EXCEPT !.instanceuuid = {i2}, !.datauuid = {u1, u2}, !.projectuuid = <<P1>>],
   [Images EXCEPT !.projectuuid = <<P1, P3>>],
   [NoFilter("instances", Unknown, <<P1>>) EXCEPT !.label = {dog}]}

PbFilters ==
  {[type |-> "Image", projectuuid |-> <<>>, boundingbox |-> None,
    timeinterval |-> None, label |-> {}],
   [type |-> "PointCloud", projectuuid |-> <<P2>>, boundingbox |-> B(odom, -1, 0),
    timeinterval |-> None, label |-> {dog}]}

\* The writers run the same code.
SameWriters == Permutations(Writers)
=============================================================================
