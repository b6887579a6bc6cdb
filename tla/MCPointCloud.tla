---------------------------- MODULE MCPointCloud ----------------------------
(* PointCloud on small instances: the fields clients set.                  *)
EXTENDS PointCloud

Field(name, count, datatype) == [name |-> name, count |-> count, datatype |-> datatype]
X == Field("x", 1, "FLOAT32")
Y == Field("y", 1, "FLOAT32")
Z == Field("z", 1, "FLOAT32")
Rgb == Field("rgb", 1, "FLOAT32")
Rgba == Field("rgba", 1, "UINT32")

\* colours before the coordinates with two more fields; a cloud without coordinates;
\* and a datatype that was not set
MCFieldLists ==
  {<<Rgba, X, Y, Z, Field("intensity", 2, "UINT16"), Field("normal_x", 1, "INT8")>>,
   <<Rgb>>, <<X, Y, Field("z", 1, "UNSET")>>}
MCNameLists == {<<"xyz", "rgb">>, <<"hsv">>}
MCContents == {<<FALSE, FALSE, <<-2>>>>, <<TRUE, TRUE, <<-2, NaN, 3>>>>}
Symmetry == Permutations(Handlers)
MCStarts == {<<1, 2, TRUE>>, <<2, 1, FALSE>>}
=============================================================================
