----------------------------- MODULE MCProjects -----------------------------
(* Projects on small instances. *)
EXTENDS Projects, TLC

CONSTANTS pbImage, fbImage

MCServices == <<pbImage, fbImage>>
Symmetry == Permutations(Handlers) \cup Permutations(Uuids)
=============================================================================
