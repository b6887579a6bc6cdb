---------------------------- MODULE MCImageStore ----------------------------
(* ImageStore on small instances: the messages that are sent.              *)
EXTENDS ImageStore

CONSTANTS u1, u2

Plain == [call |-> "fbImage", uuid |-> u1, size |-> 1, truecolor |-> FALSE, project |-> TRUE,
          bb |-> FALSE, general |-> FALSE, attributes |-> "none", number |-> 0]

\* one uuid sent as an image by both services, with and without labels and with
\* another extent, boxes for it, and the same uuid as a point
Colour == [Plain EXCEPT !.truecolor = TRUE, !.general = TRUE]
Larger == [Plain EXCEPT !.size = 2, !.number = 1]
Boxed == [Plain EXCEPT !.call = "pbImage", !.bb = TRUE, !.general = TRUE]
NoProject == [Plain EXCEPT !.project = FALSE]
NoProjectPb == [NoProject EXCEPT !.call = "pbImage"]
Boxes == [Plain EXCEPT !.call = "fbBoxes", !.bb = TRUE]
Point == [Plain EXCEPT !.call = "fbPoint", !.general = TRUE, !.attributes = "some"]
PointUntyped == [Point EXCEPT !.attributes = "untyped"]
Named == [Plain EXCEPT !.call = "fbAttributes", !.attributes = "some"]
Untyped == [Named EXCEPT !.attributes = "untyped"]

MCMessages == {Plain, Colour, Larger, Boxed, NoProject, NoProjectPb, Boxes, Point, PointUntyped,
               Named, Untyped}
MCStreams == {<<Colour>>, <<NoProject, Larger, Plain>>, <<Boxed>>, <<NoProjectPb>>, <<Boxes>>,
              <<Point, PointUntyped>>, <<Untyped, Named>>}

MCSent == {[reader |-> "fbImage", filter |-> "labels", withoutData |-> FALSE],
           [reader |-> "pbImage", filter |-> "none", withoutData |-> FALSE],
           [reader |-> "fbPoint", filter |-> "none", withoutData |-> FALSE]}
=============================================================================
