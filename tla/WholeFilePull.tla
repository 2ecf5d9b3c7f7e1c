---------------------------- MODULE WholeFilePull ----------------------------
(***************************************************************************)
(* What pulling from a peer promises: files appear here one at a time,     *)
(* whole, under names that were free, each with a new manifest version;    *)
(* nothing that is here is ever replaced or removed.  Only a file the peer *)
(* changes during the session can arrive as something the peer never held  *)
(* in one piece.  PeerSync implements this (PullsWholeFiles).              *)
(***************************************************************************)
EXTENDS Integers

CONSTANTS Name, Content, EmptyFile, NoFile, VersionMod

VARIABLES
    have,     \* the files here
    version,  \* the manifest version advertised
    peer,     \* the peer's files
    changed   \* names of files the peer changed since the session started

vars == <<have, version, peer, changed>>

Init ==
    /\ have \in [Name -> Content \cup {NoFile}]
    /\ version = 0
    /\ peer \in [Name -> Content \cup {NoFile}]
    /\ changed = {}

\* A free name gets a whole file of the peer.
Adopt(n) ==
    /\ have[n] = NoFile
    /\ have'[n] \in Content \ {EmptyFile}
    /\ n \notin changed => have'[n] = peer[n]
    /\ have' = [have EXCEPT ![n] = have'[n]]
    /\ version' = (version + 1) % VersionMod
    /\ UNCHANGED <<peer, changed>>

NewSession ==
    /\ changed' = {}
    /\ UNCHANGED <<have, version, peer>>

PeerChange(n) ==
    /\ peer' = [peer EXCEPT ![n] = peer'[n]]
    /\ changed' = changed \cup {n}
    /\ UNCHANGED <<have, version>>

Next ==
    \/ \E n \in Name : Adopt(n)
    \/ NewSession
    \/ \E n \in Name : PeerChange(n)

Spec == Init /\ [][Next]_vars
==============================================================================
