----------------------------- MODULE MCMeshLink ------------------------------
(* Small instances of MeshLink for TLC. *)
EXTENDS MeshLink

CONSTANTS p1, p2

MCPeer == {p1, p2}
==============================================================================
