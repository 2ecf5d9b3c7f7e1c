------------------------------ MODULE MCPeerSync ------------------------------
(* Small instances of PeerSync for TLC. *)
EXTENDS PeerSync

CONSTANTS a, b, o, x, y

\* Pull instances: o is only in this node's files, a and b in the peer's.
PullBlock == {a, b, o}
PullOwn == {<<o>>}
PullPeer == {<<a>>, <<a, b, a>>}
PeerWithEmpty == {<<>>, <<a, b>>}
None == {}

\* Attestation instances: records 1 and 2 mention the BSSIDs x and y.
AttestBlock == {x, y}
AttestEnc == {1, 2}
AttestOwn == {<<x>>, <<x, y>>}
AttestPeer == {<<y, x>>}

\* Live instances: the same records, files of one and of two chunks.
LivePeer == {<<y>>, <<y, x, y>>}
OnlyY == {y}
==============================================================================
