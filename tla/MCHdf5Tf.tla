----------------------------- MODULE MCHdf5Tf -----------------------------
(* Hdf5Tf on small instances: the frame pairs and the transforms sent.     *)
EXTENDS Hdf5Tf

CONSTANTS map, base, link, cam, f1, f2, p1

\* map -> base_link and map -> cam: two groups
TwoPairs == {<< <<map>>, <<base, link>> >>, << <<map>>, <<cam>> >>}

OnePair == {<< <<map>>, <<cam>> >>}

\* every transform has its own stamp, translation and rotation
OwnCells == {[k \in Columns |-> v] : v \in Values \ {Zero}}
=============================================================================
