------------------------------- MODULE PeerSync -------------------------------
(***************************************************************************)
(* The pull session of core/peer_sync.c: a node connected to a peer as     *)
(* BLE Central pulls every file it does not have, then asks for the        *)
(* attestations of the BSSIDs its encounter records mention.               *)
(*                                                                         *)
(* One request is outstanding at a time and the peer's command server      *)
(* (core/commands.c) keeps no state between requests, so a request, its    *)
(* answer and the handler of that answer are one step: <Phase> is the      *)
(* handler of the phase's answer, reading what the peer holds at that      *)
(* moment.  Between two steps the peer's files may change, the link may    *)
(* drop, and this node may lose power.                                     *)
(*                                                                         *)
(* The listing carries all-zero hashes (fs_list), which never match in     *)
(* fs_hash_exists: a file counts as already here by its name alone.        *)
(***************************************************************************)
EXTENDS FileStore

CONSTANTS
    VersionMod,   \* the manifest counter is a byte: 256
    PageSize,     \* PAGE of cmd_ls, PEER_SYNC_PAGE
    ChunkSize,    \* PEER_SYNC_CHUNK_SIZE, in blocks
    Bssid,        \* blocks that are BSSIDs when an encounter record has them
    EncName,      \* names of encounter records (enc_*.cbor)
    TotalMax,     \* PEER_SYNC_BSSID_TOTAL_MAX
    BatchMax,     \* PEER_SYNC_BSSID_BATCH_MAX
    OwnContent,   \* what this node's own files may hold
    PeerContent,  \* what the peer's files may hold
    PeerAttested, \* BSSIDs the peer has attestations for
    MaxChanges,   \* bound: changes of the peer's files in a behaviour
    MaxErrors,    \* bound: error answers, lost answers and dropped links
    AnswersLost,  \* whether an answer can get lost while the link stays up
    MaxCrashes    \* bound: power losses

ASSUME SyncAssumption ==
    /\ VersionMod \in Nat \ {0, 1}
    /\ PageSize \in Nat \ {0}
    /\ ChunkSize \in Nat \ {0}
    /\ Bssid \subseteq Block
    /\ EncName \subseteq Name
    /\ TotalMax \in Nat \ {0}
    /\ BatchMax \in Nat \ {0}
    /\ OwnContent \subseteq Content
    /\ PeerContent \subseteq Content
    /\ PeerAttested \subseteq Bssid
    /\ MaxChanges \in Nat
    /\ MaxErrors \in Nat
    /\ AnswersLost \in BOOLEAN
    /\ MaxCrashes \in Nat

VARIABLES
    store,    \* this node's /files/ and chunk_state
    version,  \* manifest_counter_get()
    sync,     \* g_session
    cached,   \* BSSIDs this node holds an attestation for
    remote,   \* the peer's files, as its directory shows them
    touched,  \* history: peer files changed since this session started
    failed,   \* history: this session got an error answer
    changes, errors, crashes

vars == <<store, version, sync, cached, remote, touched, failed,
          changes, errors, crashes>>

world == <<remote, touched, changes, crashes>>

\* MUTANT: a counter wider than the byte that is advertised
BumpedWide == version + 1

\* manifest_counter_bump
Bumped == (version + 1) % VersionMod

Lesser(x, y) == IF x < y THEN x ELSE y

------------------------------------------------------------------------------
(***************************************************************************)
(* struct peer_sync_session.  todo holds the entries of the current page   *)
(* from page_idx on; pending the BSSIDs from pending_next on; got the      *)
(* blobs of the current batch before attest_query_offset; lost is set when *)
(* the answer to the outstanding request will never come.                  *)
(***************************************************************************)
Phase == {"IDLE", "LS", "READ_START", "READ_CHUNK", "READ_META",
          "ATTEST_QUERY", "DONE", "ERROR"}

Entry == [name : Name, size : Nat]

SyncIdle == [phase |-> "IDLE", offset |-> 0, next |-> 0, todo |-> {},
             name |-> NoName, total |-> 0, received |-> 0, want |-> 0,
             open |-> FALSE, pending |-> {}, batch |-> {}, got |-> {},
             lost |-> FALSE]

Session == [phase : Phase, offset : Nat, next : Nat, todo : SUBSET Entry,
            name : Name \cup {NoName}, total : Nat, received : Nat,
            want : Nat, open : BOOLEAN, pending : SUBSET Bssid,
            batch : SUBSET Bssid, got : SUBSET Bssid, lost : BOOLEAN]

\* MUTANT: the session ends without giving its upload up
DroppedNever(s, st) == st

\* abort_inflight_write: the store after it
Dropped(s, st) == IF s.open THEN Aborted(st, s.name) ELSE st

(***************************************************************************)
(* gather_unknown_encounter_bssids: the first TotalMax BSSIDs, in reading  *)
(* order of the encounter records, that have no attestation here.          *)
(***************************************************************************)
MentionedAt(st, b) ==
    {p \in EncName \X (1 .. MaxChunked) :
        /\ Exists(st, p[1])
        /\ p[2] \in DOMAIN st.files[p[1]]
        /\ st.files[p[1]][p[2]] = b}

Mentioned(st) == {b \in Bssid : MentionedAt(st, b) # {}}

MentionedBefore(st, b, c) ==
    \E p \in MentionedAt(st, b) : \A q \in MentionedAt(st, c) :
        p[1] < q[1] \/ (p[1] = q[1] /\ p[2] < q[2])

\* MUTANT: the array is taken for full one entry early
GatheredShort(st) ==
    LET unknown == Mentioned(st) \ cached IN
    {b \in unknown :
        Cardinality({c \in unknown : MentionedBefore(st, c, b)}) < TotalMax - 1}

Gathered(st) ==
    LET unknown == Mentioned(st) \ cached IN
    {b \in unknown :
        Cardinality({c \in unknown : MentionedBefore(st, c, b)}) < TotalMax}

\* enter_attest_query_phase for the next batch (pending_bssids is an array;
\* which BSSIDs of pending go first is left open)
NextBatch(s) ==
    \/ /\ s.pending = {}
       /\ sync' = [s EXCEPT !.phase = "DONE"]
    \/ \E batch \in SUBSET s.pending :
          /\ batch # {}
          /\ Cardinality(batch) = Lesser(BatchMax, Cardinality(s.pending))
          /\ sync' = [s EXCEPT !.phase = "ATTEST_QUERY",
                               !.batch = batch, !.got = {}]

(***************************************************************************)
(* start_next_file_or_finish, with the session s and the store st at the   *)
(* call: the next wanted file of the page, else the next page, else the    *)
(* attestation phase.                                                      *)
(***************************************************************************)
\* MUTANT: the file need not be missing
WantedAgain(st, e) == e.size <= FreeBlocks(st)

\* MUTANT: a file that fits exactly is passed over
WantedLess(st, e) == ~Exists(st, e.name) /\ e.size < FreeBlocks(st)

\* not in fs_hash_exists, and no larger than what fs_storage_info leaves
Wanted(st, e) == ~Exists(st, e.name) /\ e.size <= FreeBlocks(st)

\* MUTANT: the same page again
SamePage(s) == [s EXCEPT !.phase = "LS", !.todo = {}]

\* ls from ls_next_offset on
NextPage(s) == [s EXCEPT !.phase = "LS", !.offset = s.next, !.todo = {}]

NextFile(s, st) ==
    LET wanted == {e \in s.todo : Wanted(st, e)} IN
    \/ \E e \in wanted :
          /\ \A other \in wanted : e.name <= other.name
          /\ sync' = [s EXCEPT
                !.phase = "READ_START",
                !.todo = {rest \in s.todo : rest.name > e.name},
                !.name = e.name, !.total = e.size,
                !.received = 0, !.open = FALSE]
    \/ /\ wanted = {}
       /\ s.next > 0
       /\ sync' = NextPage(s)
    \/ /\ wanted = {}
       /\ s.next = 0
       /\ NextBatch([s EXCEPT !.pending = Gathered(st)])

------------------------------------------------------------------------------
Init ==
    /\ \E own \in [Name -> OwnContent \cup {NoFile}] :
          store = [files |-> own, meta |-> [n \in Name |-> FALSE],
                   chunk |-> ChunkIdle]
    /\ version = 0
    /\ sync = SyncIdle
    /\ cached = {}
    /\ remote \in [Name -> PeerContent \cup {NoFile}]
    /\ touched = {}
    /\ failed = FALSE
    /\ changes = 0
    /\ errors = 0
    /\ crashes = 0

\* An answer that is an error or does not parse, or a link that drops.
Fault ==
    /\ errors < MaxErrors
    /\ errors' = errors + 1
    /\ failed' = TRUE

NoFault == UNCHANGED <<errors, failed>>

\* The handler of this phase runs: on_client_response has an answer for it.
Answered(phase) == sync.phase = phase /\ ~sync.lost

\* peer_sync_start: sends ls at offset 0
Start ==
    /\ sync.phase = "IDLE"
    /\ sync' = [SyncIdle EXCEPT !.phase = "LS"]
    /\ touched' = {}
    /\ failed' = FALSE
    /\ UNCHANGED <<store, version, cached, remote, changes, errors, crashes>>

(***************************************************************************)
(* handle_ls_response.  cmd_ls sends as many entries as fit the            *)
(* notification, at least one (see the README for links so narrow that     *)
(* none fits), and a next_offset when it stopped before the last one.      *)
(***************************************************************************)
Ls ==
    /\ Answered("LS")
    /\ LET rest == Cardinality(Listed(remote)) - sync.offset IN
       \E count \in IF rest > 0 THEN 1 .. Lesser(PageSize, rest) ELSE {0} :
          NextFile([sync EXCEPT
                      !.todo = {[name |-> n, size |-> Len(remote[n])] :
                                n \in PageNames(remote, sync.offset, count)},
                      !.next = IF count < rest THEN sync.offset + count
                                               ELSE 0],
                   store)
    /\ NoFault
    /\ UNCHANGED <<store, version, cached, world>>

LsFails ==
    /\ Answered("LS")
    /\ Fault
    /\ sync' = [sync EXCEPT !.phase = "ERROR"]
    /\ UNCHANGED <<store, version, cached, world>>

(***************************************************************************)
(* handle_read_start_response: the size read_start reports is the one that *)
(* counts; an empty file, or one the store refuses, is skipped.            *)
(***************************************************************************)
ReadStart ==
    /\ Answered("READ_START")
    /\ remote[sync.name] # NoFile
    /\ LET total == Len(remote[sync.name]) IN
       IF Startable(total)
       THEN /\ store' = Started(store, sync.name, total)
            /\ sync' = [sync EXCEPT !.phase = "READ_CHUNK", !.total = total,
                                    !.open = TRUE, !.want = ChunkSize]
       ELSE /\ NextFile([sync EXCEPT !.total = total], store)
            /\ UNCHANGED store
    /\ NoFault
    /\ UNCHANGED <<version, cached, world>>

\* The peer no longer has the file, or answers with an error, or the store
\* here has no room for a directory entry (StartResults): skip it.
ReadStartFails ==
    /\ Answered("READ_START")
    /\ Fault \/ (remote[sync.name] = NoFile /\ NoFault)
    /\ NextFile(sync, store)
    /\ UNCHANGED <<store, version, cached, world>>

(***************************************************************************)
(* handle_read_chunk_response.  The peer answers with up to want blocks    *)
(* from received on: at least one, unless its file ends there.             *)
(***************************************************************************)
\* MUTANT: every request starts at offset 0
ChunkAnswersFromStart ==
    LET file == remote[sync.name]
        most == Lesser(sync.want, Len(file))
    IN  {SubSeq(file, 1, k) : k \in IF most > 0 THEN 1 .. most ELSE {0}}

ChunkAnswers ==
    LET file == remote[sync.name]
        most == Lesser(sync.want, Len(file) - sync.received)
    IN  {SubSeq(file, sync.received + 1, sync.received + k) :
            k \in IF most > 0 THEN 1 .. most ELSE {0}}

ReadChunkMore(st, received) ==
    /\ received < sync.total
    /\ store' = st
    /\ sync' = [sync EXCEPT !.received = received,
                            !.want = Lesser(ChunkSize, sync.total - received)]
    /\ UNCHANGED version

ReadChunkLast(st, received) ==
    /\ received >= sync.total
    /\ IF Finishable(st, sync.name)
       THEN /\ store' = Finished(st, sync.name)
            /\ version' = Bumped
            /\ sync' = [sync EXCEPT !.phase = "READ_META",
                                    !.received = received, !.open = FALSE]
       ELSE /\ store' = Dropped(sync, Finished(st, sync.name))
            /\ UNCHANGED version
            /\ sync' = [sync EXCEPT !.phase = "ERROR",
                                    !.received = received, !.open = FALSE]

ReadChunk ==
    /\ Answered("READ_CHUNK")
    /\ remote[sync.name] # NoFile
    /\ \E data \in ChunkAnswers :
       \E r \in AppendResults(store, data) :
          IF r.ok
          THEN \/ ReadChunkMore(r.st, sync.received + Len(data))
               \/ ReadChunkLast(r.st, sync.received + Len(data))
          ELSE /\ store' = Dropped(sync, r.st)
               /\ sync' = [sync EXCEPT !.phase = "ERROR", !.open = FALSE]
               /\ UNCHANGED version
    /\ NoFault
    /\ UNCHANGED <<cached, world>>

\* The peer no longer has the file, or answers with an error: the whole
\* session fails.
ReadChunkFails ==
    /\ Answered("READ_CHUNK")
    /\ Fault \/ (remote[sync.name] = NoFile /\ NoFault)
    /\ store' = Dropped(sync, store)
    /\ sync' = [sync EXCEPT !.phase = "ERROR", !.open = FALSE]
    /\ UNCHANGED <<version, cached, world>>

\* handle_read_meta_response: a missing sidecar comes back as an empty map;
\* whether it could be stored here is not looked at
ReadMeta ==
    /\ Answered("READ_META")
    /\ \E r \in MetaResults(store, sync.name) : store' = r.st
    /\ NextFile(sync, store)
    /\ NoFault
    /\ UNCHANGED <<version, cached, world>>

ReadMetaFails ==
    /\ Answered("READ_META")
    /\ Fault
    /\ NextFile(sync, store)
    /\ UNCHANGED <<store, version, cached, world>>

(***************************************************************************)
(* handle_attest_query_response: cmd_attest_query sends the matching blobs *)
(* that fit, and a next_offset when there are more.                        *)
(***************************************************************************)
AttestQuery ==
    /\ Answered("ATTEST_QUERY")
    /\ LET left == (sync.batch \cap PeerAttested) \ sync.got IN
       \E blobs \in SUBSET left :
          /\ blobs = {} => left = {}
          /\ cached' = cached \cup blobs
          /\ IF blobs = left
             THEN NextBatch([sync EXCEPT !.pending = @ \ sync.batch])
             ELSE sync' = [sync EXCEPT !.got = @ \cup blobs]
    /\ NoFault
    /\ UNCHANGED <<store, version, world>>

\* A peer without attest_query answers with an error: done all the same.
AttestQueryFails ==
    /\ Answered("ATTEST_QUERY")
    /\ Fault
    /\ sync' = [sync EXCEPT !.phase = "DONE"]
    /\ UNCHANGED <<store, version, cached, world>>

(***************************************************************************)
(* The link goes down: on_client_disconnected calls peer_sync_end.  After  *)
(* DONE or ERROR on_client_response asks for it; before, it is a fault.    *)
(***************************************************************************)
End ==
    /\ store' = Dropped(sync, store)
    /\ sync' = SyncIdle
    /\ UNCHANGED <<version, cached, world>>

Close == sync.phase \in {"DONE", "ERROR"} /\ NoFault /\ End

Disconnect == sync.phase \notin {"IDLE", "DONE", "ERROR"} /\ Fault /\ End

\* An answer that never comes (a notification the peer could not send or
\* this node dropped).  Neither peer_sync.c nor main.c has a timer for it.
LoseAnswer ==
    /\ AnswersLost
    /\ sync.phase \notin {"IDLE", "DONE", "ERROR"}
    /\ ~sync.lost
    /\ Fault
    /\ sync' = [sync EXCEPT !.lost = TRUE]
    /\ UNCHANGED <<store, version, cached, world>>

\* The peer's companion adds, replaces or deletes one of its files, or an
\* upload to it starts or ends.
PeerChange ==
    /\ changes < MaxChanges
    /\ changes' = changes + 1
    /\ \E n \in Name, c \in PeerContent \cup {NoFile} :
          /\ c # remote[n]
          /\ remote' = [remote EXCEPT ![n] = c]
          /\ touched' = touched \cup {n}
    /\ UNCHANGED <<store, version, sync, cached, failed, errors, crashes>>

\* This node loses power and boots again.
Crash ==
    /\ crashes < MaxCrashes
    /\ crashes' = crashes + 1
    /\ store' \in RebootResults(store)
    /\ sync' = SyncIdle
    /\ UNCHANGED <<version, cached, remote, touched, failed, changes, errors>>

\* What happens by itself while the peer answers.
Progress ==
    \/ Start \/ Ls \/ ReadStart \/ ReadChunk \/ ReadMeta \/ AttestQuery
    \/ Close
    \/ (ReadStartFails /\ NoFault) \/ (ReadChunkFails /\ NoFault)

Next ==
    \/ Start
    \/ Ls \/ LsFails
    \/ ReadStart \/ ReadStartFails
    \/ ReadChunk \/ ReadChunkFails
    \/ ReadMeta \/ ReadMetaFails
    \/ AttestQuery \/ AttestQueryFails
    \/ Close \/ Disconnect
    \/ LoseAnswer
    \/ PeerChange
    \/ Crash

Spec == Init /\ [][Next]_vars

FairSpec == Spec /\ WF_vars(Progress)

------------------------------------------------------------------------------
\* Every variable has its type.
TypeOK ==
    /\ store \in Store
    /\ version \in 0 .. VersionMod - 1
    /\ sync \in Session
    /\ cached \subseteq Bssid
    /\ remote \in [Name -> PeerContent \cup {NoFile}]
    /\ touched \subseteq Name
    /\ failed \in BOOLEAN
    /\ changes \in 0 .. MaxChanges
    /\ errors \in 0 .. MaxErrors
    /\ crashes \in 0 .. MaxCrashes

\* The one upload slot of the store is open exactly while the session is
\* pulling a body (chunked_open), for the file the session has chosen, and
\* the three counters of the pull agree: cur_received, chunk_state.written
\* and the bytes in the file.  Every way out of the pull closes the slot.
SessionOwnsUpload ==
    /\ store.chunk.active <=> sync.open
    /\ sync.open <=> sync.phase = "READ_CHUNK"
    /\ sync.open =>
          /\ store.chunk.name = sync.name
          /\ store.chunk.slot = sync.name
          /\ store.files[sync.name] = <<>>
          /\ store.chunk.expected = sync.total
          /\ store.chunk.written = sync.received
          /\ Len(store.chunk.data) = sync.received
          /\ sync.received < sync.total

\* What has been pulled of a file the peer has not changed is its beginning,
\* and the size agreed in read_start is its size.
PulledPrefix ==
    (sync.open /\ sync.name \notin touched) =>
        /\ remote[sync.name] # NoFile
        /\ sync.total = Len(remote[sync.name])
        /\ store.chunk.data = SubSeq(remote[sync.name], 1, sync.received)

\* Outside a pull no file is empty, whatever errors and disconnects there
\* were: peer_sync_end and the error paths leave no half-written file.
NothingLeaked ==
    crashes = 0 =>
        \A n \in Name :
            store.files[n] = <<>> => sync.open /\ sync.name = n

\* A session that ends in DONE without an error answer has pulled everything:
\* every file of the peer is here, unless it is empty, larger than a chunked
\* write can be, or larger than the space left.  Paging, deduplication and
\* the space check together lose no file (handle_ls_response,
\* start_next_file_or_finish).
DoneIsComplete ==
    (sync.phase = "DONE" /\ ~failed /\ touched = {}) =>
        \A n \in Name :
            \/ remote[n] = NoFile
            \/ Exists(store, n)
            \/ ~Startable(Len(remote[n]))
            \/ Len(remote[n]) > FreeBlocks(store)

\* A session that ends in DONE without an error answer has fetched every
\* attestation the peer has for the BSSIDs in the encounter records here,
\* those pulled in this session included, as long as they are no more than
\* PEER_SYNC_BSSID_TOTAL_MAX (gather_unknown_encounter_bssids, the batches).
AttestationsFetched ==
    (sync.phase = "DONE" /\ ~failed) =>
        \/ Mentioned(store) \cap PeerAttested \subseteq cached
        \/ Cardinality(Mentioned(store)) > TotalMax

\* The disconnect that ends a session always comes: no sequence of answers of
\* a peer whose files do not change keeps the client asking for ever.
SessionEnds == sync.phase # "IDLE" ~> sync.phase = "IDLE"

\* If the nodes keep meeting, the peer's files end up here, except those that
\* are empty, too large for a chunked write, or too large for the space left.
Converges ==
    <>[](\A n \in Name :
            \/ remote[n] \in {NoFile, <<>>}
            \/ store.files[n] \notin {NoFile, <<>>}
            \/ ~Startable(Len(remote[n]))
            \/ Len(remote[n]) > FreeBlocks(store))

------------------------------------------------------------------------------
(***************************************************************************)
(* Refinement: an empty entry is a file on its way (or left by a crash).   *)
(***************************************************************************)
Have == [n \in Name |-> IF store.files[n] = <<>> THEN NoFile
                                                 ELSE store.files[n]]

Abstract == INSTANCE WholeFilePull
    WITH have <- Have, peer <- remote, changed <- touched,
         EmptyFile <- <<>>

\* A pull adopts whole files of the peer, one manifest version each, and
\* replaces or removes nothing (WholeFilePull), through error answers, lost
\* answers, disconnects, changes of the peer's files and power losses.
PullsWholeFiles == Abstract!Spec

------------------------------------------------------------------------------
\* peer_sync.c:563-567: gathering is capped, the next sync covers what did
\* not fit.
NextSyncCovers == <>(Mentioned(store) \cap PeerAttested \subseteq cached)
==============================================================================
