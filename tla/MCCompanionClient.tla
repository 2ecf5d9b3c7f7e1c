--------------------------- MODULE MCCompanionClient ---------------------------
(***************************************************************************)
(* CompanionClient for TLC: a deletion, a download of one chunk and a pull *)
(* of two empty encounter records.                                         *)
(***************************************************************************)
EXTENDS CompanionClient

CONSTANTS del, down, pull

MCCommands ==
    [o \in Op |-> CASE o = del  -> <<"delete">>
                    [] o = down -> <<"read_start", "read_chunk">>
                    [] o = pull -> <<"ls", "read_start", "read_start">>]
==============================================================================
