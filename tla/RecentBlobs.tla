------------------------------ MODULE RecentBlobs ------------------------------
(***************************************************************************)
(* What attestations.c and attest_cache.c promise of a ring: it holds the  *)
(* latest Cap blobs in the order they came, each write that was answered   *)
(* with success survives a restart, and a write that fails or is cut off   *)
(* costs what is on flash, not what is in memory.                          *)
(***************************************************************************)
EXTENDS Naturals, Sequences

CONSTANTS Ring, Blob, Cap

VARIABLES
    mem,      \* per ring: what a walk of it visits, oldest first
    stable,   \* per ring: what a restart would find
    answer    \* to the last write

vars == <<mem, stable, answer>>

Latest(s, b) == IF Len(s) < Cap THEN Append(s, b) ELSE Append(Tail(s), b)

Init ==
    /\ mem = [r \in Ring |-> <<>>]
    /\ stable = [r \in Ring |-> <<>>]
    /\ answer = "none"

Store(r, b) ==
    /\ answer' = "stored"
    /\ mem' = [mem EXCEPT ![r] = Latest(@, b)]
    /\ stable' = [stable EXCEPT ![r] = mem'[r]]

\* Only the memory has it.
Fail(r, b) ==
    /\ answer' = "error"
    /\ mem' = [mem EXCEPT ![r] = Latest(@, b)]
    /\ \E kept \in {stable[r], <<>>} : stable' = [stable EXCEPT ![r] = kept]

Refuse(r, b) ==
    /\ answer' = "duplicate"
    /\ \E i \in DOMAIN mem[r] : mem[r][i] = b
    /\ UNCHANGED <<mem, stable>>

\* At most one ring is being rewritten.
Restart ==
    /\ answer' = "none"
    /\ mem' = stable'
    /\ \/ UNCHANGED stable
       \/ \E r \in Ring : stable' = [stable EXCEPT ![r] = <<>>]

Next ==
    \/ \E r \in Ring, b \in Blob : Store(r, b) \/ Fail(r, b) \/ Refuse(r, b)
    \/ Restart

Spec == Init /\ [][Next]_vars
==============================================================================
