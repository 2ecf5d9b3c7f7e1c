------------------------------- MODULE BlobRings -------------------------------
(***************************************************************************)
(* attestations.c ("self": what this companion's user claims) and          *)
(* attest_cache.c ("cache": what came from peers): rings of fixed slots in *)
(* memory, each written through to one file under /system/, which is       *)
(* truncated and written anew every time.                                  *)
(***************************************************************************)
EXTENDS Naturals, Sequences

CONSTANTS
    Blob,       \* signed attestations of at most a slot
    NoBlob,     \* an empty slot
    RingCap,    \* ATTESTATIONS_CAP, ATTEST_CACHE_CAP
    MaxFaults   \* bound: failed writes and power losses

ASSUME RingAssumption ==
    /\ NoBlob \notin Blob
    /\ RingCap \in Nat \ {0}
    /\ MaxFaults \in Nat

VARIABLES
    ring,     \* g_buf of each module
    disk,     \* its file, or Torn
    answer,   \* to the last write
    faults    \* bound

ringvars == <<ring, disk, answer, faults>>

RingName == {"self", "cache"}

Slot == 0 .. RingCap - 1

\* blank_buffer
Blank == [slots |-> [i \in Slot |-> NoBlob], next |-> 0, used |-> 0]

\* A file of the wrong length, which *_init takes for none.
Torn == [Blank EXCEPT !.used = RingCap + 1]

\* k modulo the capacity, for k up to twice that
Wrapped(k) == IF k < RingCap THEN k ELSE k - RingCap

\* MUTANT: the walk of a full ring starts at slot 0 too
StartAtZero(g) == 0

Start(g) == IF g.used < RingCap THEN 0 ELSE g.next

\* *_for_each, from the oldest
Contents(g) == [k \in 1 .. g.used |-> g.slots[Wrapped(Start(g) + k - 1)]]

Written(g, b) ==
    [slots |-> [g.slots EXCEPT ![g.next] = b],
     next  |-> Wrapped(g.next + 1),
     used  |-> IF g.used < RingCap THEN g.used + 1 ELSE g.used]

\* *_init
Loaded(f) == IF f = Torn THEN Blank ELSE f

\* blob_already_present; the self ring does not look
Present(r, b) ==
    r = "cache" /\ \E k \in DOMAIN Contents(ring[r]) : Contents(ring[r])[k] = b

RingInit ==
    /\ ring = [r \in RingName |-> Blank]
    /\ disk = [r \in RingName |-> Torn]
    /\ answer = "none"
    /\ faults = 0

\* attestations_write, attest_cache_write
Put(r, b) ==
    /\ ~Present(r, b)
    /\ ring' = [ring EXCEPT ![r] = Written(@, b)]
    /\ disk' = [disk EXCEPT ![r] = ring'[r]]
    /\ answer' = "stored"
    /\ UNCHANGED faults

\* fs_system_write fails to open the file, or to write all of it.
PutFails(r, b) ==
    /\ ~Present(r, b)
    /\ faults < MaxFaults
    /\ faults' = faults + 1
    /\ ring' = [ring EXCEPT ![r] = Written(@, b)]
    /\ \E left \in {disk[r], Torn} : disk' = [disk EXCEPT ![r] = left]
    /\ answer' = "error"

Duplicate(r, b) ==
    /\ Present(r, b)
    /\ answer' = "duplicate"
    /\ UNCHANGED <<ring, disk, faults>>

\* Power off and on again, maybe while one of the files is rewritten
PowerLoss ==
    /\ faults < MaxFaults
    /\ faults' = faults + 1
    /\ \/ UNCHANGED disk
       \/ \E r \in RingName : disk' = [disk EXCEPT ![r] = Torn]
    /\ ring' = [r \in RingName |-> Loaded(disk'[r])]
    /\ answer' = "none"

RingNext ==
    \/ \E r \in RingName, b \in Blob :
          Put(r, b) \/ PutFails(r, b) \/ Duplicate(r, b)
    \/ PowerLoss

------------------------------------------------------------------------------
RingState ==
    [slots : [Slot -> Blob \cup {NoBlob}], next : Slot, used : 0 .. RingCap]

\* A ring that is not full has been filled from slot 0.
WellFilled(g) ==
    /\ g.used < RingCap => g.next = g.used
    /\ \A i \in Slot : i < g.used => g.slots[i] \in Blob

RingTypeOK ==
    /\ ring \in [RingName -> RingState]
    /\ disk \in [RingName -> RingState \cup {Torn}]
    /\ answer \in {"none", "stored", "error", "duplicate"}
    /\ faults \in 0 .. MaxFaults

Recent == INSTANCE RecentBlobs WITH
    Ring   <- RingName,
    Cap    <- RingCap,
    mem    <- [r \in RingName |-> Contents(ring[r])],
    stable <- [r \in RingName |-> Contents(Loaded(disk[r]))]

\* The rings hold the latest blobs, whatever the wraparound, failed writes,
\* duplicates and power losses (attestations.c, attest_cache.c).
KeepsRecent == Recent!Spec
==============================================================================
