------------------------------ MODULE FileStore ------------------------------
(***************************************************************************)
(* The user-file store under /files/ (core/filestore.h, implemented by     *)
(* hw/pico-w/filestore_fatfs.c on FatFs) as an abstract data type: a store *)
(* value and one operator per fs_* call.  The modules that own a store     *)
(* variable (FileService, PeerSync) apply these operators.                 *)
(*                                                                         *)
(* A file is a sequence of blocks; a block stands for a run of bytes that  *)
(* the protocol never splits.  files[n] is what the directory entry of n   *)
(* shows to f_stat, f_read and f_readdir: FatFs writes size and first      *)
(* cluster into the entry only on f_sync / f_close, so a file open for a   *)
(* chunked write reads as empty until it is finished.                      *)
(***************************************************************************)
EXTENDS Integers, Sequences, FiniteSets, Functions

CONSTANTS
    NameCount,  \* file names are 1 .. NameCount, in alphabetical order
    Block,      \* the data a file can be made of
    NoFile,     \* what files[n] is when /files/ has no entry n
    MaxChunked, \* MAX_CHUNKED_SIZE: largest chunked write
    Capacity,   \* blocks the volume can hold
    Reserve     \* STORAGE_RESERVE: blocks fs_storage_info hides

ASSUME StoreAssumption ==
    /\ NameCount \in Nat \ {0}
    /\ NoFile \notin Seq(Block)
    /\ MaxChunked \in Nat
    /\ Capacity \in Nat
    /\ Reserve \in Nat

Name == 1 .. NameCount
Content == Seq(Block)
NoName == 0

(***************************************************************************)
(* chunk_state.  slot is the file whose directory entry the open FIL will  *)
(* write on f_sync: the upload's own name, or NoName once that entry has   *)
(* been unlinked, or another file that was created in the freed entry (the *)
(* build has FF_FS_LOCK = 0, so FatFs does not stop any of this).          *)
(***************************************************************************)
ChunkIdle == [active |-> FALSE, name |-> NoName, slot |-> NoName,
              expected |-> 0, written |-> 0, data |-> <<>>]

ChunkState == [active : BOOLEAN, name : Name \cup {NoName},
               slot : Name \cup {NoName}, expected : Nat, written : Nat,
               data : Content]

Store == [files : [Name -> Content \cup {NoFile}],
          meta : [Name -> BOOLEAN],   \* has a .meta sidecar
          chunk : ChunkState]

(***************************************************************************)
(* Queries.                                                                *)
(***************************************************************************)
\* fs_file_size(n) >= 0
Exists(st, n) == st.files[n] # NoFile

\* A file being written counts by what it has got so far.
Used(st) ==
    Len(st.chunk.data)
    + SumFunction([n \in Name |-> IF Exists(st, n) THEN Len(st.files[n]) ELSE 0])

\* free_out of fs_storage_info
FreeBlocks(st) ==
    IF Capacity - Used(st) > Reserve THEN Capacity - Used(st) - Reserve ELSE 0

\* f_write finds clusters for d
Fits(st, d) == Used(st) + Len(d) <= Capacity

(***************************************************************************)
(* Directory primitives of FatFs, as filestore_fatfs.c uses them.          *)
(***************************************************************************)
\* f_sync / f_close of the open upload: its entry gets the data written.
Synced(st) ==
    IF st.chunk.slot = NoName THEN st
    ELSE [st EXCEPT !.files[st.chunk.slot] = st.chunk.data]

\* f_unlink: the entry goes, and an open upload that pointed at it dangles.
Unlinked(st, n) ==
    [st EXCEPT !.files[n] = NoFile,
               !.chunk.slot = IF @ = n THEN NoName ELSE @]

\* Entries an open upload may point at after file n has been created: a new
\* file can take the directory entry an unlink has freed.
SlotsAfterCreate(st, n) ==
    IF st.chunk.active /\ st.chunk.slot = NoName /\ ~Exists(st, n)
    THEN {NoName, n}
    ELSE {st.chunk.slot}

(***************************************************************************)
(* Chunked write.                                                          *)
(***************************************************************************)
\* MUTANT: an abort that closes the file and leaves it there
DiscardedKept(st) == [Synced(st) EXCEPT !.chunk = ChunkIdle]

\* fs_chunked_abort(NULL) and the last part of fs_chunked_abort(name)
Discarded(st) ==
    [Unlinked(Synced(st), st.chunk.name) EXCEPT !.chunk = ChunkIdle]

\* fs_chunked_abort(name): only for the upload's own name
Aborted(st, n) ==
    IF st.chunk.active /\ st.chunk.name = n THEN Discarded(st) ELSE st

\* fs_chunked_start accepts this size
Startable(total) == total # 0 /\ total <= MaxChunked

\* A stale upload is discarded before anything else is done.
Cleared(st) == IF st.chunk.active THEN Discarded(st) ELSE st

\* fs_chunked_start(n, total) returns 0: the file of that name is truncated.
Started(st, n, total) ==
    [Cleared(st) EXCEPT
        !.files[n] = <<>>,
        !.chunk = [active |-> TRUE, name |-> n, slot |-> n,
                   expected |-> total, written |-> 0, data |-> <<>>]]

\* fs_chunked_start(n, total): the possible results.  The f_open of a new file
\* fails when the directory has no room for its entry; the stale upload is
\* gone by then.
StartResults(st, n, total) ==
    IF ~Startable(total)
    THEN {[st |-> st, ok |-> FALSE]}
    ELSE {[st |-> Started(st, n, total), ok |-> TRUE]}
         \cup (IF Exists(Cleared(st), n) THEN {}
               ELSE {[st |-> Cleared(st), ok |-> FALSE]})

\* MUTANT: f_write's FR_OK taken for success, whatever it wrote
AppendResultsUnchecked(st, d) ==
    IF ~st.chunk.active
    THEN {[st |-> st, ok |-> FALSE]}
    ELSE IF st.chunk.written + Len(d) > st.chunk.expected
    THEN {[st |-> Discarded(st), ok |-> FALSE]}
    ELSE {[st |-> [st EXCEPT !.chunk.data = @ \o SubSeq(d, 1, k),
                             !.chunk.written = @ + Len(d)],
           ok |-> TRUE] : k \in IF Fits(st, d) THEN {Len(d)}
                                ELSE 0 .. Len(d) - 1}

\* fs_chunked_append(d): the possible results, each with the return code.
\* When the volume fills up f_write stops early without an error: the bytes
\* it wrote stay in the file, but are not counted.
AppendResults(st, d) ==
    IF ~st.chunk.active
    THEN {[st |-> st, ok |-> FALSE]}
    ELSE IF st.chunk.written + Len(d) > st.chunk.expected
    THEN {[st |-> Discarded(st), ok |-> FALSE]}
    ELSE IF Fits(st, d)
    THEN {[st |-> [st EXCEPT !.chunk.data = @ \o d,
                             !.chunk.written = @ + Len(d)],
           ok |-> TRUE]}
    ELSE {[st |-> [st EXCEPT !.chunk.data = @ \o SubSeq(d, 1, k)],
           ok |-> FALSE] : k \in 0 .. Len(d) - 1}

\* fs_chunked_finish(n) returns >= 0
Finishable(st, n) ==
    /\ st.chunk.active
    /\ st.chunk.name = n
    /\ st.chunk.written = st.chunk.expected

\* fs_chunked_finish(n): nothing for a foreign name, the unlink of a short
\* file, or the commit.
Finished(st, n) ==
    IF Finishable(st, n)
    THEN [Synced(st) EXCEPT !.chunk = ChunkIdle]
    ELSE Aborted(st, n)

(***************************************************************************)
(* Single-shot write, delete, sidecar, reboot.                             *)
(***************************************************************************)
\* MUTANT: the same in fs_write
WriteResultsUnchecked(st, n, d) ==
    LET room == [st EXCEPT !.files[n] = NoFile]
        lengths == IF Fits(room, d) THEN {Len(d)} ELSE 0 .. Len(d) - 1
    IN  {[st |-> [st EXCEPT !.files[n] = SubSeq(d, 1, p[1]),
                            !.chunk.slot = p[2]],
          ok |-> TRUE] : p \in lengths \X SlotsAfterCreate(st, n)}

\* fs_write(n, d): create or truncate, write, sync.  p[1] blocks of d get
\* written, all of them if they fit; p[2] is the upload's slot afterwards.
\* The f_open of a new file may fail here too.
WriteResults(st, n, d) ==
    LET room == [st EXCEPT !.files[n] = NoFile]
        lengths == IF Fits(room, d) THEN {Len(d)} ELSE 0 .. Len(d) - 1
    IN  {[st |-> [st EXCEPT !.files[n] = SubSeq(d, 1, p[1]),
                            !.chunk.slot = p[2]],
          ok |-> p[1] = Len(d)] :
            p \in lengths \X SlotsAfterCreate(st, n)}
        \cup (IF Exists(st, n) THEN {} ELSE {[st |-> st, ok |-> FALSE]})

\* fs_delete(n) of an existing file: the entry and its sidecar
Deleted(st, n) == [Unlinked(st, n) EXCEPT !.meta[n] = FALSE]

\* fs_write_meta(n, _): the file itself need not exist
WithMeta(st, n) == [st EXCEPT !.meta[n] = TRUE]

\* It fails when the volume is full, with or without a sidecar left behind.
MetaResults(st, n) ==
    {[st |-> WithMeta(st, n), ok |-> TRUE], [st |-> st, ok |-> FALSE],
     [st |-> WithMeta(st, n), ok |-> FALSE]}

\* Power loss: chunk_state lives in RAM, the directory entries on flash.  The
\* entry f_open created for an upload without data may still be unwritten.
RebootResults(st) ==
    LET kept == [st EXCEPT !.chunk = ChunkIdle] IN
    {kept}
    \cup
    {[kept EXCEPT !.files[n] = NoFile] :
        n \in IF st.chunk.active /\ st.chunk.data = <<>>
              THEN {st.chunk.slot} \cap {m \in Name : st.files[m] = <<>>}
              ELSE {}}

(***************************************************************************)
(* fs_list: the existing names in alphabetical order, cut at an offset.    *)
(* A page is a set of names; their order is the order of the names.        *)
(***************************************************************************)
Listed(files) == {n \in Name : files[n] # NoFile}

\* Position of n in the sorted listing, from 0
Rank(files, n) == Cardinality({m \in Listed(files) : m < n})

PageNames(files, offset, count) ==
    {n \in Listed(files) : Rank(files, n) \in offset .. offset + count - 1}
==============================================================================
