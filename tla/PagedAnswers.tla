----------------------------- MODULE PagedAnswers -----------------------------
(***************************************************************************)
(* Listings that do not fit one notification: ls, attest_query, scan_get.  *)
(* The node keeps nothing between two pages; the client sends back the     *)
(* offset it was given and strings the pages together, while what is       *)
(* listed changes: other sessions write attestations and files, a new scan *)
(* replaces the last.                                                      *)
(*                                                                         *)
(* A behaviour is about one kind of listing, and only its source changes;  *)
(* or about the rings by themselves, with failing writes and power losses, *)
(* which to a walk are like other writes or the end of its connection.     *)
(* encounters_get walks a ring nothing writes to any more: it has the      *)
(* shape of attest_query and is left out.                                  *)
(***************************************************************************)
EXTENDS BlobRings, SequencesExt

CONSTANTS
    Asked,      \* the blobs with a BSSID of the query
    File,       \* names, as numbers in alphabetical order
    NoFile,
    DirSize,    \* bound: directory entries
    Staged,     \* STAGE_MAX of fs_list
    PageLimit,  \* PAGE of cmd_ls
    Budget,     \* what a notification has room for, in entries
    Oversize,   \* blobs and files one notification has no room for
    MaxObs,     \* SSID_SCAN_MAX_OBS
    MaxScans    \* bound: scans

ASSUME PagedAssumption ==
    /\ Asked \subseteq Blob
    /\ File \subseteq Nat /\ NoFile \notin File
    /\ {Staged, PageLimit, Budget} \subseteq Nat \ {0}
    /\ {DirSize, MaxObs} \subseteq Nat

VARIABLES
    kind,  \* what the client walks
    dir,   \* the directory /files/
    scan,  \* s_latest: which scan, and how many observations
    walk   \* the client

vars == <<ringvars, kind, dir, scan, walk>>

Kind == {"ls", "attest", "scan", "rings"}

\* peer_sync of another node, or the app on the phone
Client == {"peer", "app"}

NoWalk == [state |-> "idle", by |-> "app", offset |-> 0, got |-> <<>>,
           first |-> <<>>, since |-> "same"]

Init ==
    /\ RingInit
    /\ kind \in Kind
    /\ dir = [i \in 1 .. DirSize |-> NoFile]
    /\ scan = [stamp |-> 0, count |-> 0]
    /\ walk = NoWalk

------------------------------------------------------------------------------
(***************************************************************************)
(* What is listed, and one page of it.                                     *)
(***************************************************************************)
\* The members of a set of numbers, in increasing order
Ascending(S) ==
    CHOOSE s \in [1 .. Cardinality(S) -> S] :
        \A i, j \in 1 .. Cardinality(S) : i < j => s[i] < s[j]

\* fs_list: the first entries of the directory that are in use
Stage(d) ==
    LET used == {i \in DOMAIN d : d[i] # NoFile}
    IN {d[i] : i \in {j \in used : Cardinality({k \in used : k < j}) < Staged}}

\* ... in alphabetical order
Listed(d) == Ascending(Stage(d))

\* attest_query_for_each: of this node's own blobs, then of those of others,
\* the ones that are asked for
Picked(s) ==
    LET asked == Ascending({i \in DOMAIN s : s[i] \in Asked})
    IN [k \in DOMAIN asked |-> s[asked[k]]]

Matching(rs) == Picked(Contents(rs["self"])) \o Picked(Contents(rs["cache"]))

Observed(sc) == [i \in 1 .. sc.count |-> <<sc.stamp, i>>]

Listing(rs, d, sc) ==
    CASE kind = "ls" -> Listed(d)
      [] kind \in {"attest", "rings"} -> Matching(rs)
      [] kind = "scan" -> Observed(sc)

Now == Listing(ring, dir, scan)

Fits(item) == kind = "scan" \/ item \notin Oversize

Limit == IF kind = "ls" /\ PageLimit < Budget THEN PageLimit ELSE Budget

\* MUTANT: one entry less, for the room next_offset takes
PageLengthShort(L, offset) ==
    CHOOSE n \in 0 .. Limit - 1 :
        /\ n = Limit - 1 \/ offset + n + 1 >= Len(L)
                         \/ ~Fits(L[offset + n + 1])
        /\ \A i \in 1 .. n : offset + i <= Len(L) /\ Fits(L[offset + i])

\* The entries of L after the first `offset` go into one answer up to the end,
\* the limit, or the first that does not fit.
PageLength(L, offset) ==
    CHOOSE n \in 0 .. Limit :
        /\ n = Limit \/ offset + n >= Len(L) \/ ~Fits(L[offset + n + 1])
        /\ \A i \in 1 .. n : offset + i <= Len(L) /\ Fits(L[offset + i])

\* MUTANT: where fs_list left off, whether all of it was sent or not
NextOffsetOfStore(L, offset, n) ==
    offset + (IF PageLimit < Len(L) - offset THEN PageLimit
                                             ELSE Len(L) - offset)

\* MUTANT: the last entry is sent again
NextOffsetAgain(L, offset, n) == offset + (IF n > 1 THEN n - 1 ELSE n)

\* next_offset after a page of n entries (cmd_ls, cmd_attest_query,
\* cmd_scan_get)
NextOffset(L, offset, n) == offset + n

\* next_offset is there: cmd_ls leaves a 0 out
HasNext(L, offset, n) ==
    /\ offset + n < Len(L)
    /\ kind = "ls" => offset + n > 0

(***************************************************************************)
(* The client.  fetchFilesPage, fetchAttestQueryPage and fetchScanPage go  *)
(* on whenever there is a next_offset; peer_sync does if it is not 0.      *)
(***************************************************************************)
StartWalk(by) ==
    /\ kind # "rings"
    /\ walk.state # "going"
    /\ by = "peer" => kind # "scan"
    /\ walk' = [NoWalk EXCEPT !.state = "going", !.by = by, !.first = Now]
    /\ UNCHANGED <<ringvars, kind, dir, scan>>

\* (L is bound by a quantifier so that TLC evaluates Now once.)
Page ==
    /\ walk.state = "going"
    /\ \E L \in {Now} :
          LET n == PageLength(L, walk.offset)
              next == NextOffset(L, walk.offset, n)
              more == /\ HasNext(L, walk.offset, n)
                      /\ walk.by = "peer" => next > 0
          IN walk' = [walk EXCEPT
                !.got = @ \o SubSeq(L, walk.offset + 1, walk.offset + n),
                !.offset = IF more THEN next ELSE 0,
                !.state = IF more THEN "going" ELSE "done"]
    /\ UNCHANGED <<ringvars, kind, dir, scan>>

\* An error answer, a timeout, the end of the connection
Abandon ==
    /\ walk.state = "going"
    /\ walk' = NoWalk
    /\ UNCHANGED <<ringvars, kind, dir, scan>>

(***************************************************************************)
(* Other sessions, and the node itself.                                    *)
(***************************************************************************)
\* L2 is L with at most one entry more.
Grown(L, L2) == L2 = L \/ \E i \in DOMAIN L2 : RemoveAt(L2, i) = L

AllFit(L) == \A i \in DOMAIN L : Fits(L[i])

\* What a change makes of the walk: its observer keeps the listing it began
\* with, as long as entries only come, and such as fit.
Noted(L2) ==
    walk' = IF walk.state # "going" \/ L2 = Now THEN walk
            ELSE IF Grown(Now, L2) /\ AllFit(L2) /\ walk.since # "lost"
                 THEN [walk EXCEPT !.since = "grown"]
            ELSE [walk EXCEPT !.since = "lost", !.first = <<>>]

PutBlob ==
    /\ kind = "attest"
    /\ \E r \in RingName, b \in Blob : Put(r, b) \/ Duplicate(r, b)
    /\ Noted(Matching(ring'))
    /\ UNCHANGED <<kind, dir, scan>>

RingStep ==
    /\ kind = "rings"
    /\ RingNext
    /\ UNCHANGED <<kind, dir, scan, walk>>

\* FatFs takes the first free directory entry.
AddFile(f) ==
    /\ kind = "ls"
    /\ \A i \in DOMAIN dir : dir[i] # f
    /\ \E i \in DOMAIN dir :
          /\ dir[i] = NoFile
          /\ \A j \in 1 .. i - 1 : dir[j] # NoFile
          /\ dir' = [dir EXCEPT ![i] = f]
    /\ Noted(Listed(dir'))
    /\ UNCHANGED <<ringvars, kind, scan>>

DeleteFile(f) ==
    /\ kind = "ls"
    /\ \E i \in DOMAIN dir : dir[i] = f /\ dir' = [dir EXCEPT ![i] = NoFile]
    /\ Noted(Listed(dir'))
    /\ UNCHANGED <<ringvars, kind, scan>>

\* ssid_scan_hal: the table in progress becomes the latest.
ScanDone ==
    /\ kind = "scan"
    /\ scan.stamp < MaxScans
    /\ \E n \in 0 .. MaxObs : scan' = [stamp |-> scan.stamp + 1, count |-> n]
    /\ Noted(Observed(scan'))
    /\ UNCHANGED <<ringvars, kind, dir>>

Next ==
    \/ \E by \in Client : StartWalk(by)
    \/ Page \/ Abandon
    \/ PutBlob \/ RingStep
    \/ \E f \in File : AddFile(f) \/ DeleteFile(f)
    \/ ScanDone

Spec == Init /\ [][Next]_vars

\* Every request of the client is answered, or its connection ends.
FairSpec == Spec /\ WF_vars(Page)

------------------------------------------------------------------------------
\* A walk of a listing that did not change returns exactly the listing, in
\* order, however it was cut into pages (cmd_ls, cmd_attest_query and their
\* clients), if every entry fits a notification.
WalkIsExact ==
    walk.state = "done" /\ walk.since = "same" /\ AllFit(walk.first) =>
        walk.got = walk.first

\* While entries only come, at any place, a walk may repeat some but skips
\* none of those it began with.
NothingSkipped ==
    walk.state = "done" /\ walk.since = "grown" =>
        ToSet(walk.first) \subseteq ToSet(walk.got)

\* A walk ends, whatever is written during it, as long as every entry of the
\* listing fits a notification.
EveryWalkEnds ==
    walk.state = "going" ~> walk.state # "going" \/ ~AllFit(Now)
==============================================================================
