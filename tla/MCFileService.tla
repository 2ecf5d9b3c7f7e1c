---------------------------- MODULE MCFileService ----------------------------
(* Small instances of FileService for TLC. *)
EXTENDS FileService

CONSTANTS a, b

MCBlock == {a, b}
MCPiece == {<<a>>, <<b, b>>}
MCEncName == {2}
==============================================================================
