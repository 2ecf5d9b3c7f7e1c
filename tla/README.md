# Waxwing: models, checks and proofs

Waxwing is a mesh of small BLE nodes. Each keeps a directory of user files,
serves them to a companion phone and to other nodes, and pulls what it does
not have from the nodes it meets. Before files move between two nodes they
sign a joint *encounter record* of the meeting.

This directory holds TLA+ modules of the firmware core (`src/firmware/core`),
of its two ports (`src/firmware/pico-w/src/hw/pico-w`, `src/firmware/cardputer`)
and of the BLE client in the iOS companion, TLC configurations that check
them on small instances, and theorems checked by TLAPS for all values of the
constants. `PROJECT.json` maps every definition to the lines it
translates and lists the runs, mutants, hazards, findings and theorems.

Run a check with `tlc -config X.cfg M` and a proof with `tlapm M.tla`.

## 1. The system

On the Pico W one thread runs everything (main.c:721-727): each turn of the loop lets the BLE
stack deliver its queued events to callbacks, asks `mesh_state_tick` whether
the role has to change, and services the Wi-Fi scan and the LED. So handlers
are atomic with respect to each other, and what is hard is their *order*: a
request goes out in one callback and its answer comes in another, with other
connections, errors, disconnects and power losses in between. On the
Cardputer the radio has a task of its own that posts to queues of fixed depth,
which the loop drains stage by stage; there the order of two events is no longer
the order they happened in. On the phone everything runs on the main queue, and
the disorder comes from CoreBluetooth's callbacks, from timeouts, and from
answers that do not say which command they answer.

| Component | State | Operations | What makes it correct |
|---|---|---|---|
| user-file store (`filestore*.c/h`) | directory of FatFs, one upload slot `chunk_state` | read, write, chunked start/append/finish/abort, delete, list | an acknowledged file stays; an upload holds what was acknowledged; no half file remains |
| companion commands (`commands.c`) | none of their own | write, write_start/chunk/end, delete, write_meta, read..., queries | an answer says what happened; new content is advertised |
| manifest counter | one byte, persisted | get, bump | changes with every new content |
| peer sync (`peer_sync.c`) | the session `g`: phase, the page of names, the pull | start, on_response (one handler per phase), end | pulls whole files only, all of them, and ends |
| encounter handshake (`encounter_session.c`) | two sessions, one per direction | PROPOSE, ACCEPT, CONFIRM | both ends get the same record, the initiator first; no files before it |
| peer ledger, meeting count | a table with eviction; a counter | encounter, disconnect | agree with the records |
| mesh schedule (`mesh_state.c`) | phase, dwell timer | tick, on_connected, on_disconnected | frozen during connections, never for good |
| peer table (`peer_table.c`) | 32 slots: version, result, backoff | should_connect, record, eviction | tells the truth about past syncs |
| BLE central (`ble_client.c`) | connection state machine | scan, connect, discover, send, disconnect | agrees with the radio |
| BLE peripheral (`ble.c`) | the inbound connection, long-write buffer | advertise, deliver commands, answer | one connection; an answer may be dropped |
| glue (`main.c`) | `g_out_phase`, `g_in_confirmed`, target of the sync | the callbacks that join all of the above | the parts agree whichever connection ends how |
| attestations (`attestations.c`, `attest_cache.c`, `attest_query.c`) | two rings of slots, in memory and on flash | store, ingest, paged query | the latest blobs are kept; a paged answer is complete |
| SSID scan (`ssid_scan*.c`) | the finished table, the one in progress | tick, paged read | a report is of one scan |
| Cardputer port (`cardputer/src`) | the glue again, three event queues, `g_sync_pending` | two tasks | the parts agree although events queue, overtake each other and get dropped |
| iOS companion (`BLEManager.swift`) | connection state, one handler with a watchdog, a queue of operations | connect, disconnect, enqueue, the callbacks | the queue never stops; success means done |

Codec, identity, hash, board support, third-party code and the tools are listed
in `PROJECT.json` with the reason they are not modelled.

How they interact: a peer seen by the scan goes from `ble_client` to
`on_peer_seen`, which asks the peer table and connects. Once connected and
discovered, `main.c` runs the handshake; when it has its record it starts a
peer sync over the same characteristic. The peer's `on_peer_command` refuses
file commands until it, too, has the record. Both directions share the store,
the ledger, the meeting count and the schedule. A companion uses the same store
and the same single upload slot on a characteristic of its own.

## 2. The modules

    FileStore ──┬── FileService ── MCFileService          FileServiceProofs
       │        └── PeerSync ───── MCPeerSync             PeerSyncProofs
       │               └ implements WholeFilePull
       └── FileStoreTheorems
    PeerLedger ──── Encounter ──── MCEncounter            EncounterProofs
    MeshLink ───────────────────── MCMeshLink             MeshLinkProofs
    BlobRings ───── PagedAnswers ─ MCPagedAnswers         PagedAnswersProofs
       └ implements RecentBlobs
    Cardputer ──────────────────── MCCardputer            CardputerProofs
    CompanionClient ────────────── MCCompanionClient      CompanionClientProofs

### FileStore (operators)

A store is a value: `files` (what the directory shows), `chunk` (`chunk_state`),
`metas`. Each `fs_*` call is an operator from a store to a store, or to the set
of results it can have. Two facts about FatFs shape it. The directory entry of
an open file gets its size and first cluster only at `f_sync`/`f_close`, so a
file on its way reads as empty, and is empty after a power loss. And
the build has no file locks (`FF_FS_LOCK` 0, ffconf.h:266), so a deletion or a
rewrite takes the directory entry from under an open upload; `chunk.slot` is
the entry that the handle will write, `chunk.name` the file it was opened for.
A full volume makes `f_write` stop early without an error: bytes are
in the file that `written` does not count. `Used` sums with `SumFunction`, which
is a recursive function and so can be proved about. The `f_open` of a name that
is not there may find no room in the directory, which an upload notices only
after it has discarded the one before (`StartResults`).

Data are sequences of blocks. A block stands for a run of bytes that nothing in
the code splits; `Capacity`, `Reserve` and `MaxChunked` count blocks.

### FileService (companion)

State: the store, the manifest version, the last reply, and three history
variables for what a client has been told (`acked`, `clean`, `kept`). Actions:
`Write`, `WriteStart`, `WriteChunk`, `WriteEnd`, `Delete`, `WriteMeta`, each one
command handler from its checks to its answer, refusals and failures included; `RecordEncounter`
(`on_encounter_done` storing a record); `Reboot`. A client may send any
command at any time, and that includes starting over, repeating, and sending chunks to no
upload; the protocol in the iOS app is one behaviour among these.

### PeerSync, and WholeFilePull

One node that is Central of a peer. A step is a request, its answer by the
peer's command server, and the handler of the answer, down to sending the
next request. Between two steps the peer may change a file, answer with an
error, lose its answer (`ble_send_file_response` returns early when it cannot
notify), the link may drop, and the power may fail. Paging of `ls`,
deduplication, the space check, `read_start`, `read_chunk`, `read_meta`, and the
batches and pages of `attest_query` are all there. `remote` are the peer's
files; `touched`, `failed` and the counters of faults are history.

`WholeFilePull` is the promise: files appear one at a time, whole, under free
names, each with a new version, and nothing is replaced or removed.
`PeerSync` implements it (`PullsWholeFiles`) with a file that is still empty
mapped to no file.

### PeerLedger and Encounter

`PeerLedger` is the ledger as an abstract data type: find, insert (evicting the
lowest meeting count when full), saturating sums. `Encounter` composes several
nodes, each with an initiator session, a responder session, a ledger, a count
and its records, over links that lose, truncate and forge messages, break, and
nodes that lose power. Two nodes can be Central of each other at once. A nonce is the
number of the connection; a signature is the body it signs.

`on_encounter_done` writes the record, the meeting count and the ledger, and uses
none of the three results (main.c:210-227). So `EncounterDone` changes what is in
memory, and lets each file become what it should be, stay as it was, or be left
empty by `FA_CREATE_ALWAYS`; CONFIRM or OK goes out in all cases. `records` is
history, the encounters a node has completed; `flash` is what is stored: the
record files, the count and the ledger that the next start reads. A power loss between
two of the writes is such a failure followed by `Crash`. `setback` are the nodes that
came up with older books than they had.

### MeshLink

One node: schedule, BLE central, the inbound connection, the peer table, and
the glue. The radio's view of the outbound connection (`outbound`) is separate from
the program's (`client`, `out`, `target`), because a link breaks before the
program handles the event; likewise `inbound` has a queued event before the
program knows. Handshake and sync appear by their outcomes. The peer table has
`TableCap` slots. `pick_eviction_slot` takes the smallest `last_synced_ms`, a
32-bit millisecond count that wraps after 49 days, so the model lets it take
any entry.

### BlobRings, RecentBlobs and PagedAnswers

`BlobRings` are the two rings of attestations, each with `next` and `used`, the
copy on flash, writes that fail before or half-way through the file, the
duplicate check of the cache, and power losses. `RecentBlobs` is what they
promise: for each ring a list of the latest `Cap` blobs in memory, and the list
a restart would find, which is the same after a write that succeeded.
`BlobRings` implements it (`KeepsRecent`).

`PagedAnswers` puts a client in front: `ls`, `attest_query` or `scan_get`, asked
page by page by offset, by another node's `peer_sync` or by the app, each with
its own way to see the end. Each page is computed from the listing of that
moment, while files come and go, blobs push out others and a new scan replaces
the last. `kind` picks the listing of a behaviour; with "rings" no one asks,
and the rings have all their faults. An entry in `Oversize` does not fit a notification.
`Ascending`, the members of a set of numbers in increasing order, stands for the
insertion sort of `fs_list` and for the order in which a ring is walked.
`since` and `first` are the walk's observer: the listing it began with, and
whether it is the same, has only grown, or is lost.

### Cardputer

Two tasks: `Host`, the radio's callbacks, and `Loop`, which is at one stage `pc`
at a time and blocks inside `ble_client_connect` (CONNECT, DISCOVER). The queues
`evts`, `bleEvts` and `cmds` drop what does not fit. `adv` has both what
`ble.cpp` believes and what the radio does, because `ble_client_connect` stops
the radio behind its back. Handshake and sync appear by their messages and
outcomes; `seen` is history for the properties.

### CompanionClient

`BLEManager`: the connection as the app shows it, against the link and the
callbacks under way; `handler`, `watchdog`, `inFlight` and `pending` are the
queue; `outcome` is what the caller of each operation has been told, where
"unsure" is a success reported on a link on which a command was given up
before. An answer carries the command it belongs to only for the properties:
`AnswerArrives` judges it by the fields it has, as the handlers do, and the next
command has to pass the guards of `sendFileCommand` (`CanSend`). `Pulls` are operations like
`pullV2Encounters`, which goes on with its next file when one fails and then reports
how many it has added: "added" is the outcome of a pull whatever has failed, unless
it was the listing. The callbacks of services, characteristics,
subscription and identity may come late and in any state of the app, as long
as the link is up.

## 3. What is checked

| Run | Instance | Distinct states | Shows |
|---|---|---|---|
| `file_service` | 2 names, 2 blocks, uploads of at most 3, volume of 5 with 1 reserved, counter mod 4, 6 commands, 1 power loss | 86 841 | `AckedFilesKept`, `UploadHoldsAcked`, `NewContentIsAdvertised` |
| `peer_sync` | 3 names, pages of 2, chunks of 2, volume of 6, 1 change, 1 error, lost answers, 1 power loss | 758 113 | `SessionOwnsUpload`, `PulledPrefix`, `NothingLeaked`, `DoneIsComplete`, `PullsWholeFiles` |
| `peer_sync_live` | 3 names, 2 of them encounter records, 2 BSSIDs in batches of 1, 1 error or disconnect | 101 907 | `SessionEnds`, `Converges`, `AttestationsFetched` |
| `encounter` | 2 nodes, 2 connections, 3 faults of any kind | 2 003 769 | `InitiatorCompletesFirst`, `OneRecordPerLink`, `ServedAfterRecord`, `LedgerFollowsRecords`, `LifetimesGrow` |
| `mesh_link` | 2 peers, 2 versions each, a table of 1 slot | 118 784 | `SessionOverLink`, `ThawsWhenAlone`, `RecordsWhatItSynced`, `KeepsReachable`, `KeepsScanning` |
| `cardputer` | 2 peers, queues of 2, 2 and 1, 3 connections, 2 of them inbound | 4 357 175 | `RecordsWhatItSynced`, `PendingAttemptEnds`, `SessionIsHeld`, `ThawsWhenAlone`, `ServedAfterRecord` |
| `paged_answers` | rings of 2 for 3 blobs, a directory of 4 with 3 staged, pages of 2, 2 scans of up to 3, 1 fault | 179 909 | `WalkIsExact`, `NothingSkipped`, `EveryWalkEnds`, `KeepsRecent` |
| `companion` | a deletion, a download and a pull of 1, 2 and 3 commands | 884 914 | `NeverWedged`, `TrueReports`, `ReadyIsReal`, `EveryOperationEnds` |

Each module has a type invariant as well; those of the rings and of the walks
are part of the invariants proved of them. Every property has a mutant in
`PROJECT.json`: one definition of the model changed the way a plausible slip
in the code would change it, which makes TLC report that property.

Why these bounds are enough. *FileService*: an upload has to be opened, filled,
overtaken by a command on its own file, overtaken by one on the other, and
finished: six commands; the volume of 5 is smaller than two full files, so
a write and an upload both meet the end of it. *PeerSync*: three names with
pages of two give a second page, a file of three blocks with chunks of two
gives a short last chunk, the volume of 6 makes the space check refuse
or just admit a file, depending on what the node starts with. In the live
instance records come with the pull, so BSSIDs to ask for appear during the
session, and two of them with batches of one need a second query. *Encounter*:
two connections give two successive encounters of one pair (ledger and
lifetimes) or two crossing ones; three faults break a handshake, fail the writes of an
encounter, and lose power after it. `LedgerCap` 1 has room for the one other node. `MaxTotal` 1 makes
totals saturate at once. *MeshLink*: the second peer is seen while the
first is being synced, which is what the shared target globals are exposed to,
and recording it evicts the first; nothing else is bounded, so this run
covers all behaviours of two peers. *Cardputer*: a queue of two overflows with
two sightings, or with a sighting and an event, and with the third event of the
Peripheral; at the last connection sightings stop; three connections allow two
inbound links at once beside, or before and after, an outbound one. *PagedAnswers*: a third
blob wraps a ring of two; both rings together take two pages; a staged
directory of three has two pages, and a fourth file is beyond the stage.
*CompanionClient*: one operation runs while two wait, each is enqueued
once and in any order; connections are not bounded. The pull has a listing and two
empty files, so one file can fail with another to come and with none; a
second chunk would be answered like the first and add nothing but length.

Deadlock is off in the configurations where the bounds or, in PeerSync, a lost
answer stop the system.

### Where code and documents disagree

Four runs expect a violation; each checks one statement of a document or a
comment, and TLC finds how the code breaks it.

| Run | Statement | What happens |
|---|---|---|
| `finish_without_file` | filestore.h:80-81: finish returns the bytes written, or removes the partial file and fails | delete or rewrite the file during its upload: `write_end` answers ok and the file is not there |
| `starved_bssids` | peer_sync.c:565-566: what did not fit, the next sync covers | gathering starts from the first record each time: BSSIDs nobody can resolve fill the list every time |
| `count_goes_back` | meeting_count.h:33-35: a count that goes back is a fraud | a responder signs the count it copied when the link came up, after it signed higher ones as initiator |
| `cardputer_frozen` | mesh_state.h:75-76: frozen until the matching disconnect | a link drops while `ble_client_connect` finishes with it: Disconnected is handled before Connected, and the schedule is frozen without a connection |

Other divergences, seen while modelling, that have no run:

- A lost answer or a file that shrinks at the peer leaves a session asking or
  waiting for ever; PEER_SYNC_PLAN.md:485 promises a watchdog, and there is none
  (peer_sync.c:470, 728). `PeerSyncLive.cfg` with `MaxChanges = 1` violates
  `SessionEnds`; with `AnswersLost = TRUE` TLC reports the deadlock, or, with
  CHECK_DEADLOCK FALSE, the same property.
- A power loss during an upload leaves an empty file (filestore_fatfs.c:394 opens with
  `FA_CREATE_ALWAYS`), and every later sync finds the name and never pulls it.
  `WholeFilePull` takes an empty file for none, and `Converges` is checked without power
  losses, so no property reports it.
- A failed write of an encounter's record is only printed (main.c:210-212): count and ledger
  move and CONFIRM goes out, so a responder can hold the only stored copy.
  `InitiatorCompletesFirst` is therefore about completion. A ledger or count file that a power
  loss cuts short reads as nothing at the next start; `LedgerFollowsRecords` says what is true then.
- With one slot fewer than peers, the ledger evicts the entry with the lowest meeting
  count, that of the connected peer too (peer_ledger.c:140). The properties of the ledger are
  about one with room.
- With one connection in each direction the end of either thaws the schedule
  (mesh_state.c:101), and the node scans during the other, against
  PEER_SYNC_PLAN.md:489. `MeshLink` reaches such states: the invariant that
  the phase is CONNECTED whenever `client` or `inbound` is up does not hold of it.
- `cmd_delete` does not bump the manifest counter (commands.c:348), which
  manifest_counter.h:19-20 says of every change of the files.
- `fs_chunked_start` replaces an open upload (filestore_fatfs.c:385), which
  filestore.h:68 says it refuses.
- Cardputer: `ble_start_advertising` may run while a Central is connected
  (`g_advertising_active` is cleared by onConnect); a second Central then shares the handshake
  session and the gate of the first, and either disconnect resets both.
  `ServedAfterRecord` there excludes that case by `seen.readvertised`. A dropped
  disconnect of the Peripheral leaves `g_resp_done` set for the next Central:
  excluded by `seen.dropped`.
- Cardputer: a peer notifies all its subscribers, so a second answer can arrive
  after a sync is over and while its link closes. If another peer was seen in
  between, `g_sync_peer_tpk` is that peer's, and main.cpp:588 records a success
  for a peer that was never synced. Hence the premise of `RecordsWhatItSynced`.
- Cardputer: a dropped Disconnected leaves `g_sync_pending` set for good: hence the
  premise of `PendingAttemptEnds`. And a Connected that was overtaken starts a sync
  session that nobody ends: the next `start_peer_sync` overwrites `g_sync` with the null of a
  refused start, and `peer_sync_start` refuses all later ones. `SessionIsHeld` says that
  this is the one way to a session in use that main.cpp does not hold, and that one
  that has ended is never held.
- An entry too large for a notification: `peer_sync` takes the empty page at
  offset 0 for the end, the app asks for `attest_query` and `scan_get` again for ever, and at a later
  offset everybody does (commands.c:177, 447, 683). Hence `AllFit` in `EveryWalkEnds`.
- The app merges pages of two scans under the stamp of the first; the comment
  at BLEManager.swift:647-649 takes pinning the stamp to prevent that.
- A blob whose file write failed stays in the ring in memory, and the retry is
  answered as a duplicate (attest_cache.c:77) though nothing is on flash yet.
- The app takes a late answer, after its watchdog, for the answer to the next
  command, and the shift lasts for the connection. Hence "unsure" in `outcome`.

### Fairness

*PeerSync* (`peer_sync_live`): weak fairness of `Progress`, the disjunction of
the session's own steps, the peer's answers and the disconnect after DONE or
ERROR. The run loop never stops delivering events, so an enabled step is
taken, and a connected peer answers. It is one fairness condition, not one per action: the
code has no choice of its own between them. The faults have none.
`Converges` also needs that the nodes keep meeting, which is `Start` in `Progress`.

*MeshLink* (`mesh_link`): weak fairness for the outcomes of discovery,
handshake and sync and for the delivery of queued events, for the same reason,
and for the end of an inbound connection. Its owner is another node or phone
that leaves at some time. The wait for it is part of what the property assumes:
a phone that stays for ever keeps the node from being found, in the code
as well. The coin at the end of a dwell is fair: strong fairness for either
side, because a connection may interrupt any number of dwells.
Nothing is assumed about the completion of a connect: `ble_client` has no
timeout there. `KeepsScanning` therefore has the premise that no connect is
pending for ever, and `KeepsReachable` holds without it.

The fairness of a sync's outcome in MeshLink is `SessionEnds` of PeerSync, and it
inherits its limit: with lost answers or shrinking files it fails.

*PagedAnswers* (`paged_answers`): weak fairness of `Page`. A client that goes on
has a request out, and the node answers each request; if not, the walk is
abandoned. Changes of the listing are not limited to any fair share: a walk ends although others
write all the time, because the listings are bounded and the offset grows.

*CompanionClient* (`companion`): weak fairness of `Watchdog`, a work item on the
main queue with a deadline. Nothing is assumed of the node, the
radio or CoreBluetooth: every operation ends by the watchdogs alone.

## 4. What is proved

Every invariant and every action property of the runs above is a theorem, with both
refinements; about 11 500 obligations in eight modules, none left open. The assumptions are the
named ASSUMEs of the modules: constants are naturals (positive where a size of zero
makes no sense), the counter has at least two values, contents are sequences of
blocks, an operation of the app has at least one command, special values are not
ordinary ones, and the nodes of `Encounter` are finitely many, as keys of 32 bytes are.

*FileStoreTheorems*: types of every `fs_*` operator, and what each leaves alone:
no call changes a file other than the one named and those the open upload
can reach. The proofs below cite these. The rest of the module is about sums: the
space used is a sum over all names, and `SumChanges` says that a change of one file
changes it by that much. The library's induction theorems take an operator as a
parameter, which the provers cannot instantiate, so these proofs go through
`LeastNat` instead: a set of naturals that is not empty has a least member,
applied to the sizes for which the claim would fail. `PartsExist` shows in that way that
the recursive function behind `SumFunction` exists at all.

*FileServiceProofs* (`TypeCorrect`, `FilesKept`, `UploadsHold`, `Advertised`,
`Invariant`). `AckedFilesKept` is not inductive: an upload whose handle
dangles could overwrite an acknowledged file. `InFlightUnkept` says why not: neither
the file an upload is for, nor the one whose entry it holds, is a file the
client may rely on. The invariant is the types, `UploadHoldsAcked`,
`InFlightUnkept` and `AckedFilesKept`.

*PeerSyncProofs* has three invariants, each resting on the one before.
- The pull (`TypeCorrect`, `OwnsUpload`, `PullsPrefixes`, `NoneLeaked`,
  `Implements`, `Invariant`). The central fact is `SessionOwnsUpload`: the slot is open
  exactly in READ_CHUNK, for the session's file, and the three counters of the
  pull agree. With it `PulledPrefix` carries over from chunk to chunk, and the
  last chunk makes the prefix the file. `NameIsFree` (the chosen name is
  still unused when the upload opens) is what makes the refinement map a pull to
  `Adopt` and never to a replacement; `NameChosen` gives it a name to be about.
  `Implements` shows that the initial states map to initial states and each
  step to `Adopt`, `NewSession`, `PeerChange` or a stutter. `NoneLeaked` has the extra
  assumption that no file of the node is empty at first.
- The listing (`DoneHasAll`). A file is `Settled` if it is here, or no upload could
  take it, or the space left is too small for it. `Paged` says phase by phase which files are:
  before a page is asked for, all that sort before its offset; during a pull, all up to the
  end of the page except those still in `todo` and the one being pulled; after the
  last page, all. Settled files stay settled because no step of a session frees space
  (`Grown`, from `UsedChanges` and the sums above), and that needs `IdleUpload`:
  nothing lies in the slot outside an upload.
- The questions (`AttestationsArrive`). While batches are asked for, what the records
  mention and the peer has is held already or still pending (`Covered`), and a batch
  leaves `pending` only when its last page is in.

*MeshLinkProofs* (`TypeCorrect`, `Agreement`, `NeverFrozenAlone`, `RecordsAreTrue`).
`RecordsWhatItSynced` needs `TargetIsLinked`: while there is an outbound
connection, the globals filled by `on_peer_seen` name its peer and the version
it advertised. That depends on `on_peer_seen` being called only while
scanning, which the agreement of `client` and `outbound` provides.

*EncounterProofs* (`TypeCorrect`, `InitiatorsCompleteFirst`, `OneRecordEach`,
`AdmissionPaid`, `EncounterInvariant`; `LedgersFollow`, `LifetimesGrowOn`,
`BooksInvariant`). The properties speak of two nodes and a
history; what makes them inductive is that the number of a connection, which the
initiator puts into its half as a nonce, ties four things together: the message on
the wire of that connection, the session of its Central, the session of
its Peripheral, and the records. `LinkIds` bounds the numbers in use,
`OwnProposal` says that what a Central waits with is what it proposed,
`Requests` and `Responders` say what each message and each responder session
carries, `RecordedLinks` that records are of links that have been,
`FilesCompleted` that nothing is stored but what has been completed, and
`CrashesAreFaults` bounds the counter of power losses, for its type.

The second invariant is about the books, in memory and on flash. `Counted`: the own count,
either way, is at most the number of encounters, and in memory it is that number unless a
power loss has set the node back (`setback`). `Responses` and `Totals`: the lifetime a node signs as responder, in a record or in an
ACCEPT that waits for its CONFIRM, is at most what its ledger has now, and the records before it
are outgrown; without the waiting ACCEPT, `LifetimesGrow` would not survive the next
step. `LedgerPeers` and `FlashSound`, for a ledger that has room for all other nodes (the premise
of `LedgerFollowsRecords` itself), say that nothing is evicted, that the peers `main.c`
knows are in it, and that what is on flash says nothing the encounters do not say: so a
node that comes up with it claims nothing wrong, however old it is.

*CardputerProofs* (`TypeCorrect`, `SuccessesAreTrue`, `AttemptsAreEnded`,
`SessionsAreHeld`, `ScheduleThaws`, `ServesAfterRecord`, `Invariant`), for any
depth of the queues and any number of connections. The invariant is about the order
of what is queued. `OneAttempt`: from the call of `ble_client_connect` to the event
that ends the connection there is no second one, and each kind of event is queued at
most once, sightings in front, responses before the disconnect. `OneAnswer`: a response
under way is the one asked for, from the peer in `g_sync_peer_tpk`.
`IdleBetween`: the glue is idle between connections, so the session in use is its own
until a Connected is overtaken.
`LastBleEvent`, `CentralSaid` and `OneInbound` do the same for the Peripheral, and with
them `Gate`, the strengthening of `ServedAfterRecord`: a responder session that
is done, or whose CONFIRM is under way, belongs to the only connection the queued commands
can be of, unless the disconnect that resets it comes before any of them. Each part
has the premise under which the code keeps it (nothing dropped, nothing overtaken, no
answer nobody asked for, no second Central); the properties have the same ones, and
section 3 tells what happens without.

*PagedAnswersProofs* (`RingsInShape`, `RingsKeepRecent`; `ListedIs`,
`WalkInvariant`, `WalksAreExact`, `WalksSkipNothing`). For the rings, the invariant is
their types and `WellFilled`: a ring that is not full has been filled from slot 0. The
work is in `WrittenContents`, the lemma that the slots read from the oldest, after
a write that may wrap, are the list before with its first dropped and the new one
appended.

For the walks it is `Follows`. Of a listing that stays the same the
client has got the part up to its offset; of one to which entries come, each entry it
began with is got, or still after the offset, because what comes in front moves the others
towards the end (`GrownKeeps`). At the end of a walk that is the property, if the end
is the end of the listing: a page of entries that fit is empty only there
(`PageLengthIs`, `FollowsPage`). `AscendingIs` shows that the order `Ascending`
chooses exists, by `LeastNat` again, and `ListedIs` that `ls` lists exactly the staged
files, each once.

*CompanionClientProofs* (`TypeCorrect`, `QueueNeverWedged`, `ReportsAreTrue`,
`ReadyNodesAreReal`, `ClientInvariant`). `TrueReports` needs to know what can be in the
air: on a link where nothing was given up, at most one command or answer is
(`OneAtATime`), it is the one the handler waits for, and all before it have been
executed (`Done`, from which pulls are exempt: they skip files that fail); together `Attuned`. `LinkSane` has the rest about links that are
down.

Only model-checked: the six liveness properties (`SessionEnds`, `Converges`,
`KeepsReachable`, `KeepsScanning`, `EveryWalkEnds`, `EveryOperationEnds`), because
fairness is out of the prover's reach, and the four violations.

## 5. What the models leave out

- A handler is atomic; a power loss happens between callbacks (inside
  `on_encounter_done`, see section 2). The write of the manifest counter succeeds.
- Clusters lost to a broken chain are not counted; `.h8` sidecars are left out (`fs_get_hash` has no
  caller and `fs_list` reports zero hashes).
- In PeerSync `fs_list` shows all files, a link is wide enough for one entry
  of a page, and attestations only accumulate; PagedAnswers and BlobRings have the 64 staged
  names, the narrow link and the overwritten blobs.
- A peer sync and a companion do not work on one store at once.
- Encounter: all nodes run this firmware and have an identity and a peer
  characteristic; a node has one inbound connection; all bytes of a connection are
  one unit of the ledger's totals.
- MeshLink: time is abstracted, a dwell or backoff ends at any moment; the
  GATT queries are one step; the node starts when the radio is up; a companion
  and a peer inbound are the same.
- PagedAnswers: an entry fits a notification or not, and `Budget` of them do at
  once; a page is computed and received in one step. `encounters_get` is left
  out: it walks a ring nothing writes any more (encounters.c).
- Cardputer: its store on the SD card, companion commands, the display;
  backoffs end at any moment; a queued answer to a command of another link is told
  apart only by what the receiver waits for. A connect that fails posts one Disconnected;
  that the stack calls `onDisconnect` within it, for a second one right behind, is left
  out. `recorded` are completed encounters; whether `fs_write` stored them is ignored
  there too (main.cpp:304-306).
- CompanionClient: Bluetooth does not get switched off (no code path resets the
  queue then); the node list and the scan; what is in the files, and how
  many a pull has added; a callback of a link that is down. A view that asks for an operation in
  the completion of another asks just before it.
- FatFs, Monocypher and the CBOR codec stay outside. They are two thirds of the
  implementation's lines, so that the map, which names only lines a definition
  translates, covers a small share of the whole.

## 6. Plan

Done: the store, the companion's file commands, the pull and its abstract
specification, the handshake with ledger and counts, the links around the
schedule, the rings and the paged answers, the Cardputer's two tasks, the
companion's client; proofs of every safety property the runs check.

To come:

1. An abstract specification of the outbound connection that `MeshLink` and `Cardputer`
   both implement, and a proof that they do.
2. What `MeshLink` assumes of a sync and an encounter, stated as lemmas about
   `PeerSync` and `Encounter`: that a session which is not DONE records no success,
   and that no step after a record takes it back.
3. PeerSync and FileService on one store, where the name checked at `ls` can be
   taken before the upload opens (peer_sync.c:249) and either side discards the
   other's upload (filestore_fatfs.c:385).
4. An instance of Encounter with more peers than slots (peer_ledger.c:140).
