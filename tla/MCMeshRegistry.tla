--------------------------- MODULE MCMeshRegistry ---------------------------
(* Model-checking instance of MeshRegistry. *)
EXTENDS MeshRegistry, TLC

ApprovalLists == SUBSET Approval

\* Addresses, serials and system ids are interchangeable.
RegistrySymmetry ==
    Permutations(Mac) \cup Permutations(Serial) \cup Permutations(SystemId)
=============================================================================
