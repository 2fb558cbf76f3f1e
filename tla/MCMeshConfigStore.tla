------------------------- MODULE MCMeshConfigStore --------------------------
(* Model-checking instance of MeshConfigStore. *)
EXTENDS MeshConfigStore

UnitJumps == {1}
=============================================================================
