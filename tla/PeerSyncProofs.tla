---------------------------- MODULE PeerSyncProofs ----------------------------
(***************************************************************************)
(* PeerSync: types, the invariants of a pull, and the refinement of        *)
(* WholeFilePull.  A pull can only clobber a file if a name is taken while *)
(* it is being opened: NameIsFree excludes it, and makes SessionOwnsUpload *)
(* and PulledPrefix inductive enough for the refinement.                   *)
(***************************************************************************)
EXTENDS PeerSync, FileStoreTheorems, FiniteSetTheorems, SequenceTheorems

\* The file about to be pulled is not here, and nothing of it has been pulled:
\* nothing happens to this node's files between the check and
\* fs_chunked_start.
NameIsFree ==
    sync.phase = "READ_START" =>
        store.files[sync.name] = NoFile /\ sync.received = 0

\* The chosen file has a name.
NameChosen ==
    sync.phase \in {"READ_START", "READ_CHUNK", "READ_META"} =>
        sync.name \in Name

IInv ==
    TypeOK /\ SessionOwnsUpload /\ PulledPrefix /\ NameIsFree /\ NameChosen

------------------------------------------------------------------------------
(* Choosing what to do next. *)

\* The batches asked for are BSSIDs, and do not touch the pull.
LEMMA NextBatchShape ==
  ASSUME NEW s \in Session, NextBatch(s)
  PROVE  /\ sync' \in Session
         /\ sync'.phase \in {"DONE", "ATTEST_QUERY"}
         /\ sync'.open = s.open
  <1>1. CASE sync' = [s EXCEPT !.phase = "DONE"]
    BY <1>1 DEF Session, Phase
  <1>2. CASE \E batch \in SUBSET s.pending :
               sync' = [s EXCEPT !.phase = "ATTEST_QUERY",
                                 !.batch = batch, !.got = {}]
    BY <1>2 DEF Session, Phase
  <1> QED
    BY <1>1, <1>2 DEF NextBatch

\* start_next_file_or_finish settles on a file that is not here, a page, a
\* batch, or DONE.
LEMMA NextFileShape ==
  ASSUME NEW s \in Session, NEW st, NextFile(s, st)
  PROVE  /\ sync' \in Session
         /\ sync'.phase \in {"READ_START", "LS", "ATTEST_QUERY", "DONE"}
         /\ s.open = FALSE => sync'.open = FALSE
         /\ sync'.phase = "READ_START" =>
               /\ sync'.name \in Name
               /\ st.files[sync'.name] = NoFile
               /\ sync'.received = 0
  <1> DEFINE wanted == {e \in s.todo : Wanted(st, e)}
  <1>1. CASE \E e \in wanted :
               sync' = [s EXCEPT
                  !.phase = "READ_START",
                  !.todo = {rest \in s.todo : rest.name > e.name},
                  !.name = e.name, !.total = e.size,
                  !.received = 0, !.open = FALSE]
    <2>1. PICK e \in wanted :
             sync' = [s EXCEPT
                  !.phase = "READ_START",
                  !.todo = {rest \in s.todo : rest.name > e.name},
                  !.name = e.name, !.total = e.size,
                  !.received = 0, !.open = FALSE]
      BY <1>1
    <2>2. e \in Entry /\ Wanted(st, e)
      BY DEF Session
    <2>3. e.name \in Name /\ e.size \in Nat /\ st.files[e.name] = NoFile
      BY <2>2 DEF Entry, Wanted, Exists
    <2>4. {rest \in s.todo : rest.name > e.name} \in SUBSET Entry
      BY DEF Session
    <2> HIDE DEF wanted
    <2> QED
      BY <2>1, <2>3, <2>4 DEF Session, Phase
  <1>2. CASE sync' = NextPage(s)
    BY <1>2 DEF Session, Phase, NextPage
  <1>3. CASE NextBatch([s EXCEPT !.pending = Gathered(st)])
    <2>1. Gathered(st) \subseteq Bssid
      BY DEF Gathered, Mentioned
    <2>2. [s EXCEPT !.pending = Gathered(st)] \in Session
      BY <2>1 DEF Session
    <2>3. [s EXCEPT !.pending = Gathered(st)].open = s.open
      BY DEF Session
    <2> QED
      BY <1>3, <2>2, <2>3, NextBatchShape
  <1> QED
    BY <1>1, <1>2, <1>3 DEF NextFile

\* abort_inflight_write keeps the store well formed.
LEMMA DroppedType ==
  ASSUME NEW st \in Store, NEW s
  PROVE  Dropped(s, st) \in Store
  BY AbortedType DEF Dropped

\* The idle session has the types of a session.
LEMMA IdleType ==
  /\ SyncIdle \in Session
  /\ [SyncIdle EXCEPT !.phase = "LS"] \in Session
  BY DEF SyncIdle, Session, Phase, NoName

------------------------------------------------------------------------------
(* Types. *)

\* The initial state has the types of PeerSync.
LEMMA InitTypeOK == Init => TypeOK
  <1> SUFFICES ASSUME Init PROVE TypeOK
    OBVIOUS
  <1>1. OwnContent \subseteq Content
    BY SyncAssumption
  <1>2. store \in Store
    BY <1>1, ChunkIdleType DEF Init, Store
  <1>3. version \in 0 .. VersionMod - 1
    BY SyncAssumption DEF Init
  <1>4. /\ changes \in 0 .. MaxChanges
        /\ errors \in 0 .. MaxErrors
        /\ crashes \in 0 .. MaxCrashes
    BY SyncAssumption DEF Init
  <1>5. /\ sync \in Session
        /\ cached \subseteq Bssid
        /\ remote \in [Name -> PeerContent \cup {NoFile}]
        /\ touched \subseteq Name
        /\ failed \in BOOLEAN
    BY IdleType DEF Init
  <1> QED
    BY <1>2, <1>3, <1>4, <1>5 DEF TypeOK

\* The parts of the state every handler treats the same way.
LEMMA RestType ==
  ASSUME TypeOK
  PROVE  /\ Bumped \in 0 .. VersionMod - 1
         /\ Fault => errors' \in 0 .. MaxErrors /\ failed' \in BOOLEAN
         /\ NoFault => errors' \in 0 .. MaxErrors /\ failed' \in BOOLEAN
         /\ UNCHANGED world =>
               /\ remote' \in [Name -> PeerContent \cup {NoFile}]
               /\ touched' \subseteq Name
               /\ changes' \in 0 .. MaxChanges
               /\ crashes' \in 0 .. MaxCrashes
  <1>1. VersionMod \in Nat /\ VersionMod > 1
    BY SyncAssumption
  <1>2. version + 1 < VersionMod \/ version + 1 = VersionMod
    BY <1>1 DEF TypeOK
  <1>3. Bumped \in 0 .. VersionMod - 1
    BY <1>1, <1>2 DEF TypeOK, Bumped
  <1>4. UNCHANGED world =>
               /\ remote' \in [Name -> PeerContent \cup {NoFile}]
               /\ touched' \subseteq Name
               /\ changes' \in 0 .. MaxChanges
               /\ crashes' \in 0 .. MaxCrashes
    BY DEF world, TypeOK
  <1>5. Fault => errors' \in 0 .. MaxErrors /\ failed' \in BOOLEAN
    BY SyncAssumption DEF TypeOK, Fault
  <1>6. NoFault => errors' \in 0 .. MaxErrors /\ failed' \in BOOLEAN
    BY DEF TypeOK, NoFault
  <1> QED
    BY <1>3, <1>4, <1>5, <1>6

\* A page of the listing consists of entries.
LEMMA PageType ==
  ASSUME TypeOK, NEW offset, NEW count
  PROVE  {[name |-> n, size |-> Len(remote[n])] :
             n \in PageNames(remote, offset, count)} \in SUBSET Entry
  <1> SUFFICES ASSUME NEW n \in PageNames(remote, offset, count)
               PROVE  [name |-> n, size |-> Len(remote[n])] \in Entry
    OBVIOUS
  <1>1. n \in Name /\ remote[n] # NoFile
    BY DEF PageNames, Listed
  <1>2. remote[n] \in Content
    BY <1>1, SyncAssumption DEF TypeOK
  <1> QED
    BY <1>1, <1>2 DEF Entry, Content

\* The directory is finite, so a page has a length.
LEMMA ListedFinite ==
  ASSUME NEW f
  PROVE  Cardinality(Listed(f)) \in Nat
  <1>1. IsFiniteSet(1 .. NameCount)
    BY FS_Interval, StoreAssumption
  <1>2. Listed(f) \subseteq 1 .. NameCount
    BY DEF Listed, Name
  <1>3. IsFiniteSet(Listed(f))
    BY <1>1, <1>2, FS_Subset
  <1> QED
    BY <1>3, FS_CardinalityType

\* handle_ls_response calls start_next_file_or_finish with a well-formed
\* session.
LEMMA LsShape ==
  ASSUME TypeOK, Ls
  PROVE  \E s \in Session : s.open = sync.open /\ NextFile(s, store)
  <1> DEFINE rest == Cardinality(Listed(remote)) - sync.offset
  <1> DEFINE paged(count) ==
        [sync EXCEPT
            !.todo = {[name |-> n, size |-> Len(remote[n])] :
                      n \in PageNames(remote, sync.offset, count)},
            !.next = IF count < rest THEN sync.offset + count ELSE 0]
  <1>1. PICK count \in IF rest > 0 THEN 1 .. Lesser(PageSize, rest) ELSE {0} :
            NextFile(paged(count), store)
    BY DEF Ls
  <1>2. sync \in Session /\ sync.offset \in Nat
    BY DEF TypeOK, Session
  <1>3. rest \in Int /\ PageSize \in Nat
    BY <1>2, ListedFinite, SyncAssumption
  <1>4. count \in Nat
    BY <1>3 DEF Lesser
  <1>5. {[name |-> n, size |-> Len(remote[n])] :
            n \in PageNames(remote, sync.offset, count)} \in SUBSET Entry
    BY PageType
  <1>6. (IF count < rest THEN sync.offset + count ELSE 0) \in Nat
    BY <1>2, <1>4
  <1>7. paged(count) \in Session /\ paged(count).open = sync.open
    <2> HIDE DEF rest
    <2> QED
      BY <1>2, <1>5, <1>6 DEF Session
  <1> QED
    BY <1>1, <1>7

\* A piece of a file has the length asked for.
LEMMA PieceShape ==
  ASSUME NEW f \in Seq(Block), NEW i \in Nat, NEW k \in Nat, i + k <= Len(f)
  PROVE  /\ SubSeq(f, i + 1, i + k) \in Seq(Block)
         /\ Len(SubSeq(f, i + 1, i + k)) = k
  OBVIOUS

\* A beginning and the piece after it are a longer beginning.
LEMMA ExtendPrefix ==
  ASSUME NEW f \in Seq(Block), NEW i \in Nat, NEW j \in Nat,
         i <= j, j <= Len(f)
  PROVE  SubSeq(f, 1, i) \o SubSeq(f, i + 1, j) = SubSeq(f, 1, j)
  <1>1. /\ 1 \in 1 .. Len(f) + 1
        /\ i \in 1 - 1 .. Len(f)
        /\ j \in i .. Len(f)
    OBVIOUS
  <1> QED
    BY <1>1, ConcatAdjacentSubSeq

\* What read_chunk answers with is a piece of the peer's file, from the
\* blocks received so far on.
LEMMA AnswerShape ==
  ASSUME TypeOK, sync.name \in Name, remote[sync.name] # NoFile,
         NEW data \in ChunkAnswers
  PROVE  /\ remote[sync.name] \in Content
         /\ data \in Content
         /\ Len(data) \in Nat
         /\ data = SubSeq(remote[sync.name], sync.received + 1,
                          sync.received + Len(data))
         /\ sync.received <= Len(remote[sync.name]) =>
               sync.received + Len(data) <= Len(remote[sync.name])
  <1> DEFINE file == remote[sync.name]
  <1> DEFINE most == Lesser(sync.want, Len(file) - sync.received)
  <1>1. file \in Content
    BY SyncAssumption DEF TypeOK
  <1>2. file \in Seq(Block) /\ Len(file) \in Nat
    BY <1>1 DEF Content
  <1>3. sync.received \in Nat /\ sync.want \in Nat
    BY DEF TypeOK, Session
  <1>4. most \in Int /\ most <= Len(file) - sync.received
    BY <1>2, <1>3 DEF Lesser
  <1>5. PICK k \in IF most > 0 THEN 1 .. most ELSE {0} :
            data = SubSeq(file, sync.received + 1, sync.received + k)
    BY DEF ChunkAnswers
  <1> HIDE DEF file, most
  <1>6. /\ k \in Nat
        /\ k > 0 => sync.received + k <= Len(file)
    BY <1>2, <1>3, <1>4, <1>5
  <1>7. data \in Seq(Block) /\ Len(data) = k
    <2>1. CASE k = 0
      <3>1. data = <<>>
        BY <1>3, <1>5, <2>1, SubSeqEmpty
      <3> QED
        BY <2>1, <3>1
    <2>2. CASE k > 0
      BY <1>2, <1>3, <1>5, <1>6, <2>2, PieceShape
    <2> QED
      BY <1>6, <2>1, <2>2
  <1>8. sync.received <= Len(file) => sync.received + Len(data) <= Len(file)
    BY <1>2, <1>3, <1>6, <1>7
  <1> QED
    BY <1>1, <1>5, <1>6, <1>7, <1>8 DEF file, Content

\* The handlers of read_chunk answers return well-formed stores and sessions.
LEMMA ReadChunkType ==
  ASSUME TypeOK, NameChosen, ReadChunk
  PROVE  /\ store' \in Store
         /\ sync' \in Session
         /\ version' \in 0 .. VersionMod - 1
  <1>0. /\ store \in Store
        /\ sync \in Session
        /\ version \in 0 .. VersionMod - 1
        /\ Bumped \in 0 .. VersionMod - 1
        /\ sync.name \in Name
        /\ remote[sync.name] # NoFile
        /\ sync.total \in Nat
        /\ sync.received \in Nat
    BY RestType DEF TypeOK, NameChosen, ReadChunk, Answered, Session
  <1>a. PICK data \in ChunkAnswers : \E r \in AppendResults(store, data) :
          IF r.ok
          THEN \/ ReadChunkMore(r.st, sync.received + Len(data))
               \/ ReadChunkLast(r.st, sync.received + Len(data))
          ELSE /\ store' = Dropped(sync, r.st)
               /\ sync' = [sync EXCEPT !.phase = "ERROR", !.open = FALSE]
               /\ UNCHANGED version
    BY DEF ReadChunk
  <1>1. PICK r \in AppendResults(store, data) :
          IF r.ok
          THEN \/ ReadChunkMore(r.st, sync.received + Len(data))
               \/ ReadChunkLast(r.st, sync.received + Len(data))
          ELSE /\ store' = Dropped(sync, r.st)
               /\ sync' = [sync EXCEPT !.phase = "ERROR", !.open = FALSE]
               /\ UNCHANGED version
    BY <1>a
  <1>2. data \in Content /\ Len(data) \in Nat
    BY <1>0, AnswerShape
  <1>3. r.st \in Store /\ r.ok \in BOOLEAN
    BY <1>0, <1>2, AppendType
  <1> DEFINE received == sync.received + Len(data)
  <1>4. received \in Nat
    BY <1>0, <1>2
  <1> HIDE DEF received
  <1>5. CASE ReadChunkMore(r.st, received)
    <2>1. Lesser(ChunkSize, sync.total - received) \in Nat
      BY <1>0, <1>4, <1>5, SyncAssumption DEF Lesser, ReadChunkMore
    <2>2. /\ store' = r.st
          /\ version' = version
          /\ sync' = [sync EXCEPT !.received = received,
                            !.want = Lesser(ChunkSize, sync.total - received)]
      BY <1>5 DEF ReadChunkMore
    <2>3. sync' \in Session
      BY <1>0, <1>4, <2>1, <2>2 DEF Session
    <2> QED
      BY <1>0, <1>3, <2>2, <2>3
  <1>6. CASE ReadChunkLast(r.st, received)
    <2>1. Finished(r.st, sync.name) \in Store
      BY <1>3, FinishedType
    <2>2. Dropped(sync, Finished(r.st, sync.name)) \in Store
      BY <2>1, DroppedType
    <2>3. CASE Finishable(r.st, sync.name)
      <3>1. /\ store' = Finished(r.st, sync.name)
            /\ version' = Bumped
            /\ sync' = [sync EXCEPT !.phase = "READ_META",
                                    !.received = received, !.open = FALSE]
        BY <1>6, <2>3 DEF ReadChunkLast
      <3> QED
        BY <1>0, <1>4, <2>1, <3>1 DEF Session, Phase
    <2>4. CASE ~Finishable(r.st, sync.name)
      <3>1. /\ store' = Dropped(sync, Finished(r.st, sync.name))
            /\ version' = version
            /\ sync' = [sync EXCEPT !.phase = "ERROR",
                                    !.received = received, !.open = FALSE]
        BY <1>6, <2>4 DEF ReadChunkLast
      <3> QED
        BY <1>0, <1>4, <2>2, <3>1 DEF Session, Phase
    <2> QED
      BY <2>3, <2>4
  <1>7. CASE /\ store' = Dropped(sync, r.st)
             /\ sync' = [sync EXCEPT !.phase = "ERROR", !.open = FALSE]
             /\ UNCHANGED version
    BY <1>0, <1>3, <1>7, DroppedType DEF Session, Phase
  <1> QED
    BY <1>1, <1>3, <1>5, <1>6, <1>7 DEF received

\* Every step keeps the types.
LEMMA NextTypeOK ==
  ASSUME TypeOK, NameChosen, [Next]_vars
  PROVE  TypeOK'
  <1>0. /\ store \in Store
        /\ version \in 0 .. VersionMod - 1
        /\ sync \in Session
        /\ cached \subseteq Bssid
        /\ failed \in BOOLEAN
        /\ errors \in 0 .. MaxErrors
    BY DEF TypeOK
  <1> DEFINE Mine ==
        /\ store' \in Store
        /\ version' \in 0 .. VersionMod - 1
        /\ sync' \in Session
        /\ cached' \subseteq Bssid
  <1> DEFINE Steady ==
        /\ UNCHANGED world
        /\ Fault \/ NoFault
  <1>1. ASSUME Mine, Steady PROVE TypeOK'
    BY <1>1, RestType DEF TypeOK
  <1>2. CASE Start
    BY <1>2, IdleType DEF Start, TypeOK
  <1>3. CASE Ls
    <2>1. sync' \in Session
      BY <1>3, LsShape, NextFileShape
    <2> QED
      BY <1>0, <1>1, <1>3, <2>1 DEF Ls
  <1>4. CASE LsFails \/ LoseAnswer \/ AttestQueryFails
    <2>0. /\ [sync EXCEPT !.phase = "ERROR"] \in Session
          /\ [sync EXCEPT !.phase = "DONE"] \in Session
          /\ [sync EXCEPT !.lost = TRUE] \in Session
      BY <1>0 DEF Session, Phase
    <2>1. sync' \in Session
      BY <1>4, <2>0 DEF LsFails, LoseAnswer, AttestQueryFails
    <2> QED
      BY <1>0, <1>1, <1>4, <2>1 DEF LsFails, LoseAnswer, AttestQueryFails
  <1>5. CASE ReadStart
    <2> DEFINE total == Len(remote[sync.name])
    <2>1. sync.name \in Name /\ remote[sync.name] # NoFile
      BY <1>5 DEF NameChosen, ReadStart, Answered
    <2>2. total \in Nat
      BY <2>1, SyncAssumption DEF TypeOK, Content
    <2> HIDE DEF total
    <2>3. CASE Startable(total)
      <3>1. /\ store' = Started(store, sync.name, total)
            /\ sync' = [sync EXCEPT !.phase = "READ_CHUNK", !.total = total,
                                    !.open = TRUE, !.want = ChunkSize]
        BY <1>5, <2>3 DEF ReadStart, total
      <3>2. store' \in Store
        BY <1>0, <2>1, <2>2, <3>1, StartedType
      <3>3. sync' \in Session
        BY <1>0, <2>2, <3>1, SyncAssumption DEF Session, Phase
      <3> QED
        BY <1>0, <1>1, <1>5, <3>2, <3>3 DEF ReadStart
    <2>4. CASE ~Startable(total)
      <3>1. store' = store /\ NextFile([sync EXCEPT !.total = total], store)
        BY <1>5, <2>4 DEF ReadStart, total
      <3>2. [sync EXCEPT !.total = total] \in Session
        BY <1>0, <2>2 DEF Session
      <3>3. sync' \in Session
        BY <3>1, <3>2, NextFileShape
      <3> QED
        BY <1>0, <1>1, <1>5, <3>1, <3>3 DEF ReadStart
    <2> QED
      BY <2>3, <2>4
  <1>6. CASE ReadStartFails \/ ReadMetaFails
    <2>1. sync' \in Session
      BY <1>0, <1>6, NextFileShape DEF ReadStartFails, ReadMetaFails
    <2> QED
      BY <1>0, <1>1, <1>6, <2>1 DEF ReadStartFails, ReadMetaFails
  <1>7. CASE ReadChunk
    BY <1>0, <1>1, <1>7, ReadChunkType DEF ReadChunk
  <1>8. CASE ReadChunkFails
    <2>1. store' \in Store /\ sync' \in Session
      BY <1>0, <1>8, DroppedType DEF ReadChunkFails, Session, Phase
    <2> QED
      BY <1>0, <1>1, <1>8, <2>1 DEF ReadChunkFails
  <1>9. CASE ReadMeta
    <2>1. store' \in Store /\ sync' \in Session
      BY <1>0, <1>9, MetaShape, NextFileShape DEF ReadMeta
    <2> QED
      BY <1>0, <1>1, <1>9, <2>1 DEF ReadMeta
  <1>10. CASE AttestQuery
    <2>1. PICK blobs \in SUBSET ((sync.batch \cap PeerAttested) \ sync.got) :
            /\ cached' = cached \cup blobs
            /\ \/ NextBatch([sync EXCEPT !.pending = @ \ sync.batch])
               \/ sync' = [sync EXCEPT !.got = @ \cup blobs]
      BY <1>10 DEF AttestQuery
    <2>2. blobs \subseteq Bssid
      BY <1>0 DEF Session
    <2>3. [sync EXCEPT !.pending = @ \ sync.batch] \in Session
      BY <1>0 DEF Session
    <2>4. [sync EXCEPT !.got = @ \cup blobs] \in Session
      BY <1>0, <2>2 DEF Session
    <2>5. sync' \in Session
      BY <2>1, <2>3, <2>4, NextBatchShape
    <2> QED
      BY <1>0, <1>1, <1>10, <2>1, <2>2, <2>5 DEF AttestQuery
  <1>11. CASE Close \/ Disconnect
    <2>1. store' \in Store /\ sync' \in Session
      BY <1>0, <1>11, DroppedType, IdleType DEF Close, Disconnect, End
    <2> QED
      BY <1>0, <1>1, <1>11, <2>1 DEF Close, Disconnect, End
  <1>12. CASE PeerChange
    <2>1. changes' \in 0 .. MaxChanges
      BY <1>12, SyncAssumption DEF PeerChange, TypeOK
    <2>2. remote' \in [Name -> PeerContent \cup {NoFile}] /\ touched' \subseteq Name
      BY <1>12 DEF PeerChange, TypeOK
    <2> QED
      BY <1>12, <2>1, <2>2 DEF PeerChange, TypeOK
  <1>13. CASE Crash
    <2>1. crashes' \in 0 .. MaxCrashes
      BY <1>13, SyncAssumption DEF Crash, TypeOK
    <2>2. store' \in Store
      BY <1>0, <1>13, RebootType DEF Crash
    <2> QED
      BY <1>13, <2>1, <2>2, IdleType DEF Crash, TypeOK
  <1>14. CASE UNCHANGED vars
    BY <1>14 DEF vars, TypeOK
  <1> QED
    BY <1>2, <1>3, <1>4, <1>5, <1>6, <1>7, <1>8, <1>9, <1>10, <1>11, <1>12,
       <1>13, <1>14 DEF Next

------------------------------------------------------------------------------
(* What one answer to read_chunk does to the files. *)

\* More to come: the upload grew by a piece of the peer's file.
Grows ==
    /\ store'.files = store.files
    /\ SameUpload(store.chunk, store'.chunk)
    /\ store'.chunk.written = sync'.received
    /\ Len(store'.chunk.data) = sync'.received
    /\ sync'.received < sync.total
    /\ sync'.received >= sync.received
    /\ sync'.todo = sync.todo /\ sync'.next = sync.next
    /\ sync'.phase = "READ_CHUNK"
    /\ sync'.open
    /\ sync'.name = sync.name
    /\ sync'.total = sync.total
    /\ sync.name \notin touched =>
          store'.chunk.data = SubSeq(remote[sync.name], 1, sync'.received)
    /\ version' = version

\* The file is here, with a new manifest version.
Commits ==
    /\ ~store'.chunk.active
    /\ store'.chunk.data = <<>>
    /\ Len(store'.files[sync.name]) >= sync.received
    /\ sync'.todo = sync.todo /\ sync'.next = sync.next
    /\ \A n \in Name : n # sync.name => store'.files[n] = store.files[n]
    /\ store'.files[sync.name] \in Content \ {<<>>}
    /\ sync.name \notin touched =>
          store'.files[sync.name] = remote[sync.name]
    /\ version' = Bumped
    /\ sync'.phase = "READ_META"
    /\ sync'.open = FALSE
    /\ sync'.name = sync.name

\* The session failed and the partial file is gone.
GivesUp ==
    /\ ~store'.chunk.active
    /\ store'.chunk.data = <<>>
    /\ \A n \in Name :
          store'.files[n] = IF n = sync.name THEN NoFile ELSE store.files[n]
    /\ version' = version
    /\ sync'.phase = "ERROR"
    /\ sync'.open = FALSE

\* abort_inflight_write of the session's own upload removes that file only.
LEMMA DroppedUpload ==
  ASSUME NEW st \in Store, sync.open, st.chunk.active,
         st.chunk.name = sync.name, st.chunk.slot = sync.name
  PROVE  /\ ~Dropped(sync, st).chunk.active
         /\ Dropped(sync, st).chunk.data = <<>>
         /\ \A n \in Name : Dropped(sync, st).files[n] =
               IF n = sync.name THEN NoFile ELSE st.files[n]
  <1>1. Dropped(sync, st) = Discarded(st)
    BY DEF Dropped, Aborted
  <1> QED
    BY <1>1, DiscardedFiles DEF ChunkIdle

\* An answer to read_chunk extends the partial file, completes it, or ends
\* the session.
LEMMA ReadChunkStep ==
  ASSUME IInv, ReadChunk
  PROVE  Grows \/ Commits \/ GivesUp
  <1>0. /\ store \in Store
        /\ sync \in Session
        /\ sync.name \in Name
        /\ remote[sync.name] # NoFile
        /\ sync.total \in Nat
        /\ sync.received \in Nat
        /\ sync.open
        /\ TypeOK
    BY DEF IInv, TypeOK, NameChosen, ReadChunk, Answered, Session,
           SessionOwnsUpload
  <1>1. /\ store.chunk.active
        /\ store.chunk.name = sync.name
        /\ store.chunk.slot = sync.name
        /\ store.files[sync.name] = <<>>
        /\ store.chunk.expected = sync.total
        /\ store.chunk.written = sync.received
        /\ Len(store.chunk.data) = sync.received
        /\ sync.received < sync.total
        /\ store.chunk.data \in Content
    BY <1>0 DEF IInv, SessionOwnsUpload, Store, ChunkState
  <1>a. PICK data \in ChunkAnswers : \E r \in AppendResults(store, data) :
          IF r.ok
          THEN \/ ReadChunkMore(r.st, sync.received + Len(data))
               \/ ReadChunkLast(r.st, sync.received + Len(data))
          ELSE /\ store' = Dropped(sync, r.st)
               /\ sync' = [sync EXCEPT !.phase = "ERROR", !.open = FALSE]
               /\ UNCHANGED version
    BY DEF ReadChunk
  <1>b. PICK r \in AppendResults(store, data) :
          IF r.ok
          THEN \/ ReadChunkMore(r.st, sync.received + Len(data))
               \/ ReadChunkLast(r.st, sync.received + Len(data))
          ELSE /\ store' = Dropped(sync, r.st)
               /\ sync' = [sync EXCEPT !.phase = "ERROR", !.open = FALSE]
               /\ UNCHANGED version
    BY <1>a
  <1> DEFINE received == sync.received + Len(data)
  <1>2. /\ data \in Content
        /\ Len(data) \in Nat
        /\ received \in Nat
        /\ remote[sync.name] \in Content
        /\ data = SubSeq(remote[sync.name], sync.received + 1, received)
        /\ sync.received <= Len(remote[sync.name]) =>
              received <= Len(remote[sync.name])
    BY <1>0, AnswerShape
  <1>3. r.st \in Store /\ r.ok \in BOOLEAN
    BY <1>0, <1>2, AppendType
  \* The piece continues what has been pulled of an unchanged file.
  <1>4. ASSUME sync.name \notin touched
        PROVE  /\ store.chunk.data \o data =
                     SubSeq(remote[sync.name], 1, received)
               /\ sync.total = Len(remote[sync.name])
    <2>1. /\ sync.total = Len(remote[sync.name])
          /\ store.chunk.data = SubSeq(remote[sync.name], 1, sync.received)
      BY <1>0, <1>4 DEF IInv, PulledPrefix
    <2>2. /\ remote[sync.name] \in Seq(Block)
          /\ received \in Nat
          /\ sync.received <= received
          /\ received <= Len(remote[sync.name])
      BY <1>0, <1>1, <1>2, <2>1 DEF Content
    <2> HIDE DEF received
    <2>3. SubSeq(remote[sync.name], 1, sync.received)
             \o SubSeq(remote[sync.name], sync.received + 1, received)
          = SubSeq(remote[sync.name], 1, received)
      BY <1>0, <2>2, ExtendPrefix
    <2> QED
      BY <1>2, <2>1, <2>3
  <1> HIDE DEF received
  <1>5. CASE ~r.ok
    <2>1. /\ store' = Dropped(sync, r.st)
          /\ sync' = [sync EXCEPT !.phase = "ERROR", !.open = FALSE]
          /\ version' = version
      BY <1>5, <1>b
    <2>2. sync'.phase = "ERROR" /\ sync'.open = FALSE
      BY <1>0, <2>1 DEF Session
    <2>3. CASE r.st = Discarded(store)
      <3>1. ~r.st.chunk.active /\ r.st.chunk.data = <<>>
        BY <1>0, <2>3, DiscardedFiles DEF ChunkIdle
      <3>2. store' = r.st
        BY <2>1, <3>1 DEF Dropped, Aborted
      <3>3. \A n \in Name : store'.files[n] =
               IF n = sync.name THEN NoFile ELSE store.files[n]
        BY <1>0, <1>1, <2>3, <3>2, DiscardedFiles
      <3> QED
        BY <2>1, <2>2, <3>1, <3>2, <3>3 DEF GivesUp
    <2>4. CASE r.st.files = store.files /\ SameUpload(store.chunk, r.st.chunk)
      <3>1. /\ r.st.chunk.active
            /\ r.st.chunk.name = sync.name
            /\ r.st.chunk.slot = sync.name
        BY <1>1, <2>4 DEF SameUpload
      <3>2. /\ ~store'.chunk.active
            /\ store'.chunk.data = <<>>
            /\ \A n \in Name : store'.files[n] =
                  IF n = sync.name THEN NoFile ELSE r.st.files[n]
        BY <1>0, <1>3, <2>1, <3>1, DroppedUpload
      <3> QED
        BY <2>1, <2>2, <2>4, <3>2 DEF GivesUp
    <2> QED
      BY <1>0, <1>1, <1>2, <1>5, <2>3, <2>4, AppendFiles
  <1>6. CASE r.ok
    <2>1. /\ store.chunk.written + Len(data) <= store.chunk.expected
          /\ r.st.files = store.files
          /\ SameUpload(store.chunk, r.st.chunk)
          /\ r.st.chunk.data = store.chunk.data \o data
          /\ r.st.chunk.written = store.chunk.written + Len(data)
      BY <1>0, <1>2, <1>6, AppendFiles
    <2>2. /\ received <= sync.total
          /\ r.st.chunk.written = received
          /\ r.st.chunk.expected = sync.total
          /\ Len(r.st.chunk.data) = received
          /\ r.st.chunk.data \in Content
      BY <1>1, <1>2, <2>1, AppendContent DEF received, SameUpload
    <2>3. CASE ReadChunkMore(r.st, received)
      <3>1. /\ store' = r.st
            /\ version' = version
            /\ received < sync.total
            /\ sync' = [sync EXCEPT !.received = received,
                            !.want = Lesser(ChunkSize, sync.total - received)]
        BY <2>3 DEF ReadChunkMore
      <3>2. /\ sync'.received = received
            /\ sync'.phase = "READ_CHUNK"
            /\ sync'.open
            /\ sync'.name = sync.name
            /\ sync'.total = sync.total
            /\ sync'.todo = sync.todo /\ sync'.next = sync.next
        BY <1>0, <3>1 DEF Session, IInv, SessionOwnsUpload
      <3>3. sync'.received >= sync.received
        BY <1>0, <1>2, <3>2 DEF received
      <3> QED
        BY <1>4, <2>1, <2>2, <3>1, <3>2, <3>3 DEF Grows
    <2>4. CASE ReadChunkLast(r.st, received)
      <3>1. received = sync.total /\ received > 0
        BY <1>0, <1>1, <1>2, <2>2, <2>4 DEF ReadChunkLast
      <3>2. Finishable(r.st, sync.name)
        BY <1>1, <2>1, <2>2, <3>1 DEF Finishable, SameUpload
      <3>3. /\ store' = Finished(r.st, sync.name)
            /\ version' = Bumped
            /\ sync' = [sync EXCEPT !.phase = "READ_META",
                                    !.received = received, !.open = FALSE]
        BY <2>4, <3>2 DEF ReadChunkLast
      <3>4. /\ store'.chunk = ChunkIdle
            /\ \A n \in Name : store'.files[n] =
                  IF n = r.st.chunk.slot THEN r.st.chunk.data
                  ELSE r.st.files[n]
        BY <1>0, <1>3, <3>2, <3>3, FinishedFiles
      <3>5. r.st.chunk.slot = sync.name
        BY <1>1, <2>1 DEF SameUpload
      <3>6. store'.files[sync.name] = r.st.chunk.data
        BY <1>0, <3>4, <3>5
      <3>7. r.st.chunk.data # <<>>
        BY <2>2, <3>1
      <3>8. ASSUME sync.name \notin touched
            PROVE  r.st.chunk.data = remote[sync.name]
        <4>1. /\ r.st.chunk.data =
                    SubSeq(remote[sync.name], 1, Len(remote[sync.name]))
              /\ remote[sync.name] \in Seq(Block)
          BY <1>2, <1>4, <2>1, <3>1, <3>8 DEF Content
        <4> QED
          BY <4>1, SubSeqFull
      <3>9. /\ sync'.phase = "READ_META"
            /\ sync'.open = FALSE
            /\ sync'.name = sync.name
            /\ sync'.todo = sync.todo /\ sync'.next = sync.next
        BY <1>0, <3>3 DEF Session
      <3>10. /\ ~store'.chunk.active
             /\ \A n \in Name :
                   n # sync.name => store'.files[n] = store.files[n]
        BY <2>1, <3>4, <3>5 DEF ChunkIdle
      <3>11. /\ store'.chunk.data = <<>>
             /\ Len(store'.files[sync.name]) >= sync.received
        <4>1. received >= sync.received
          BY <1>0, <1>2 DEF received
        <4> QED
          BY <2>2, <3>4, <3>6, <4>1 DEF ChunkIdle
      <3> QED
        BY <2>2, <3>3, <3>6, <3>7, <3>8, <3>9, <3>10, <3>11 DEF Commits
    <2> QED
      BY <1>6, <1>b, <2>3, <2>4 DEF received
  <1> QED
    BY <1>3, <1>5, <1>6

------------------------------------------------------------------------------
(* The invariant of a pull. *)

\* What the steps below have to establish.
Kept == SessionOwnsUpload' /\ PulledPrefix' /\ NameIsFree' /\ NameChosen'

\* The steps after which no pull is open.
LEMMA ClosedKeeps ==
  ASSUME ~store'.chunk.active, sync'.open = FALSE,
         sync'.phase # "READ_CHUNK", NameIsFree', NameChosen'
  PROVE  Kept
  <1>1. ~(sync'.open)
    OBVIOUS
  <1> QED
    BY <1>1 DEF Kept, SessionOwnsUpload, PulledPrefix

\* After start_next_file_or_finish no pull is open.
LEMMA NextFileKeeps ==
  ASSUME IInv, NEW s \in Session, s.open = FALSE, NextFile(s, store),
         store'.files = store.files, ~store'.chunk.active
  PROVE  Kept
  <1>1. /\ sync'.phase \in {"READ_START", "LS", "ATTEST_QUERY", "DONE"}
        /\ sync'.open = FALSE
        /\ sync'.phase = "READ_START" =>
              /\ sync'.name \in Name
              /\ store'.files[sync'.name] = NoFile
              /\ sync'.received = 0
    BY NextFileShape
  <1> QED
    BY <1>1, ClosedKeeps DEF NameIsFree, NameChosen

\* Where the session stands, in one phase or another.
LEMMA PullClosed ==
  ASSUME IInv, sync.phase # "READ_CHUNK"
  PROVE  /\ sync \in Session
         /\ sync.open = FALSE
         /\ ~store.chunk.active
  BY DEF IInv, TypeOK, Session, SessionOwnsUpload

\* abort_inflight_write leaves no upload behind and removes the partial file.
LEMMA DroppedShape ==
  ASSUME IInv
  PROVE  /\ ~Dropped(sync, store).chunk.active
         /\ \A n \in Name : Dropped(sync, store).files[n] =
               IF sync.open /\ n = sync.name THEN NoFile ELSE store.files[n]
  <1>1. store \in Store /\ sync.open \in BOOLEAN
    BY DEF IInv, TypeOK, Session
  <1>2. CASE sync.open
    <2>1. /\ store.chunk.active
          /\ store.chunk.name = sync.name
          /\ store.chunk.slot = sync.name
      BY <1>2 DEF IInv, SessionOwnsUpload
    <2> QED
      BY <1>1, <1>2, <2>1, DroppedUpload
  <1>3. CASE ~sync.open
    BY <1>3 DEF Dropped, IInv, SessionOwnsUpload
  <1> QED
    BY <1>2, <1>3

\* handle_read_start_response opens the upload for a file that is not here.
LEMMA ReadStartKeeps ==
  ASSUME IInv, ReadStart
  PROVE  Kept
  <1> DEFINE total == Len(remote[sync.name])
  <1>0. /\ store \in Store
        /\ sync \in Session
        /\ sync.name \in Name
        /\ remote[sync.name] \in Content
        /\ sync.open = FALSE
        /\ ~store.chunk.active
    BY PullClosed, SyncAssumption
       DEF IInv, TypeOK, NameChosen, ReadStart, Answered
  <1>1. total \in Nat
    BY <1>0 DEF Content
  <1> HIDE DEF total
  <1>2. CASE Startable(total)
    <2>1. /\ store' = Started(store, sync.name, total)
          /\ sync' = [sync EXCEPT !.phase = "READ_CHUNK", !.total = total,
                                  !.open = TRUE, !.want = ChunkSize]
          /\ remote' = remote
      BY <1>2 DEF ReadStart, total, world
    <2>2. /\ store'.chunk = [active |-> TRUE, name |-> sync.name,
                             slot |-> sync.name, expected |-> total,
                             written |-> 0, data |-> <<>>]
          /\ store'.files[sync.name] = <<>>
      BY <1>0, <1>1, <2>1, StartedFiles
    <2>3. /\ sync'.phase = "READ_CHUNK"
          /\ sync'.open = TRUE
          /\ sync'.name = sync.name
          /\ sync'.total = total
          /\ sync'.received = sync.received
      BY <1>0, <2>1 DEF Session
    <2>4. sync.received = 0
      BY DEF IInv, NameIsFree, ReadStart, Answered
    <2>5. SessionOwnsUpload'
      BY <1>1, <1>2, <2>2, <2>3, <2>4 DEF SessionOwnsUpload, Startable
    <2>6. PulledPrefix'
      <3>1. SubSeq(remote[sync.name], 1, 0) = <<>>
        BY SubSeqEmpty
      <3>2. remote[sync.name] # NoFile
        BY DEF ReadStart
      <3> QED
        BY <2>1, <2>2, <2>3, <2>4, <3>1, <3>2 DEF PulledPrefix, total
    <2>7. NameIsFree' /\ NameChosen'
      BY <1>0, <2>3 DEF NameIsFree, NameChosen
    <2> QED
      BY <2>5, <2>6, <2>7 DEF Kept
  <1>3. CASE ~Startable(total)
    <2>1. store' = store /\ NextFile([sync EXCEPT !.total = total], store)
      BY <1>3 DEF ReadStart, total
    <2>2. /\ [sync EXCEPT !.total = total] \in Session
          /\ [sync EXCEPT !.total = total].open = FALSE
      BY <1>0, <1>1 DEF Session
    <2> QED
      BY <1>0, <2>1, <2>2, NextFileKeeps
  <1> QED
    BY <1>2, <1>3

\* The answer to a read_chunk keeps the pull in order.
LEMMA ReadChunkKeeps ==
  ASSUME IInv, ReadChunk
  PROVE  Kept
  <1>0. /\ sync.name \in Name
        /\ remote' = remote
        /\ touched' = touched
        /\ sync.open
        /\ remote[sync.name] # NoFile
    BY DEF IInv, NameChosen, ReadChunk, Answered, world, SessionOwnsUpload
  <1>1. CASE Grows
    <2>1. SessionOwnsUpload'
      BY <1>0, <1>1
         DEF IInv, SessionOwnsUpload, Grows, SameUpload
    <2>2. PulledPrefix'
      BY <1>0, <1>1 DEF IInv, PulledPrefix, Grows
    <2>3. NameIsFree' /\ NameChosen'
      BY <1>0, <1>1 DEF NameIsFree, NameChosen, Grows
    <2> QED
      BY <2>1, <2>2, <2>3 DEF Kept
  <1>2. CASE Commits
    BY <1>0, <1>2, ClosedKeeps DEF Commits, NameIsFree, NameChosen
  <1>3. CASE GivesUp
    BY <1>3, ClosedKeeps DEF GivesUp, NameIsFree, NameChosen
  <1> QED
    BY <1>1, <1>2, <1>3, ReadChunkStep

\* The session, the store and the peer's files decide the invariant.
LEMMA SameKeeps ==
  ASSUME IInv, store' = store, remote' = remote, touched' = touched,
         sync' \in {sync, [sync EXCEPT !.lost = TRUE],
                    [sync EXCEPT !.got = sync'.got]}
  PROVE  Kept
  <1>1. /\ sync'.phase = sync.phase
        /\ sync'.open = sync.open
        /\ sync'.name = sync.name
        /\ sync'.total = sync.total
        /\ sync'.received = sync.received
    BY DEF IInv, TypeOK, Session
  <1> QED
    BY <1>1 DEF IInv, Kept, SessionOwnsUpload, PulledPrefix, NameIsFree,
                NameChosen

\* Every step keeps the invariant.
LEMMA NextIInv == IInv /\ [Next]_vars => IInv'
  <1> SUFFICES ASSUME IInv, [Next]_vars PROVE Kept
    BY NextTypeOK DEF IInv, Kept
  <1>0. sync \in Session
    BY DEF IInv, TypeOK
  <1>1. CASE Start
    <2>1. sync'.phase = "LS" /\ sync'.open = FALSE
      BY <1>1 DEF Start, SyncIdle
    <2>2. ~store.chunk.active /\ store' = store
      BY <1>1, PullClosed DEF Start
    <2> QED
      BY <2>1, <2>2, ClosedKeeps DEF NameIsFree, NameChosen
  <1>2. CASE Ls
    <2>1. PICK s \in Session : s.open = sync.open /\ NextFile(s, store)
      BY <1>2, LsShape DEF IInv
    <2>2. sync.open = FALSE /\ ~store.chunk.active /\ store' = store
      BY <1>2, PullClosed DEF Ls, Answered
    <2> QED
      BY <2>1, <2>2, NextFileKeeps
  <1>3. CASE LsFails \/ AttestQueryFails
    <2>1. /\ sync'.phase \in {"ERROR", "DONE"}
          /\ sync'.open = FALSE
          /\ ~store.chunk.active
          /\ store' = store
      BY <1>3, PullClosed DEF LsFails, AttestQueryFails, Answered, Session
    <2> QED
      BY <2>1, ClosedKeeps DEF NameIsFree, NameChosen
  <1>4. CASE ReadStart
    BY <1>4, ReadStartKeeps
  <1>5. CASE ReadStartFails \/ ReadMetaFails
    <2>1. /\ sync.open = FALSE
          /\ ~store.chunk.active
          /\ store' = store
          /\ NextFile(sync, store)
      BY <1>5, PullClosed DEF ReadStartFails, ReadMetaFails, Answered
    <2> QED
      BY <1>0, <2>1, NextFileKeeps
  <1>6. CASE ReadChunk
    BY <1>6, ReadChunkKeeps
  <1>7. CASE ReadChunkFails
    <2>1. ~store'.chunk.active
      BY <1>7, DroppedShape DEF ReadChunkFails
    <2>2. sync'.phase = "ERROR" /\ sync'.open = FALSE
      BY <1>0, <1>7 DEF ReadChunkFails, Session
    <2> QED
      BY <2>1, <2>2, ClosedKeeps DEF NameIsFree, NameChosen
  <1>8. CASE ReadMeta
    <2>1. /\ sync.open = FALSE
          /\ ~store.chunk.active
          /\ NextFile(sync, store)
      BY <1>8, PullClosed DEF ReadMeta, Answered
    <2>2. store'.files = store.files /\ ~store'.chunk.active
      BY <1>8, <2>1, MetaShape DEF ReadMeta, IInv, TypeOK
    <2> QED
      BY <1>0, <2>1, <2>2, NextFileKeeps
  <1>9. CASE AttestQuery
    <2>1. sync.open = FALSE /\ ~store.chunk.active /\ store' = store
      BY <1>9, PullClosed DEF AttestQuery, Answered
    <2>2. CASE NextBatch([sync EXCEPT !.pending = @ \ sync.batch])
      <3>1. /\ [sync EXCEPT !.pending = @ \ sync.batch] \in Session
            /\ [sync EXCEPT !.pending = @ \ sync.batch].open = FALSE
        BY <1>0, <2>1 DEF Session
      <3>2. sync'.phase \in {"DONE", "ATTEST_QUERY"} /\ sync'.open = FALSE
        BY <2>2, <3>1, NextBatchShape
      <3> QED
        BY <2>1, <3>2, ClosedKeeps DEF NameIsFree, NameChosen
    <2>3. CASE \E blobs : sync' = [sync EXCEPT !.got = @ \cup blobs]
      <3>1. sync'.phase = "ATTEST_QUERY" /\ sync'.open = FALSE
        BY <1>0, <1>9, <2>1, <2>3 DEF AttestQuery, Answered, Session
      <3> QED
        BY <2>1, <3>1, ClosedKeeps DEF NameIsFree, NameChosen
    <2> QED
      BY <1>9, <2>2, <2>3 DEF AttestQuery
  <1>10. CASE Close \/ Disconnect
    <2>1. ~store'.chunk.active
      BY <1>10, DroppedShape DEF Close, Disconnect, End
    <2>2. sync'.phase = "IDLE" /\ sync'.open = FALSE
      BY <1>10 DEF Close, Disconnect, End, SyncIdle
    <2> QED
      BY <2>1, <2>2, ClosedKeeps DEF NameIsFree, NameChosen
  <1>11. CASE LoseAnswer
    BY <1>11, SameKeeps DEF LoseAnswer, world
  <1>12. CASE PeerChange
    <2>1. PICK n \in Name :
            /\ remote' = [remote EXCEPT ![n] = remote'[n]]
            /\ touched' = touched \cup {n}
            /\ store' = store /\ sync' = sync
      BY <1>12 DEF PeerChange, IInv, TypeOK
    <2>2. ASSUME sync.open, sync.name \notin touched'
          PROVE  sync.name \notin touched /\ remote'[sync.name] = remote[sync.name]
      BY <2>1, <2>2 DEF IInv, TypeOK, NameChosen, SessionOwnsUpload
    <2>3. PulledPrefix'
      BY <2>1, <2>2 DEF IInv, PulledPrefix
    <2> QED
      BY <2>1, <2>3 DEF IInv, Kept, SessionOwnsUpload, NameIsFree, NameChosen
  <1>13. CASE Crash
    <2>1. ~store'.chunk.active
      BY <1>13, RebootFiles DEF Crash, IInv, TypeOK, ChunkIdle
    <2>2. sync'.phase = "IDLE" /\ sync'.open = FALSE
      BY <1>13 DEF Crash, SyncIdle
    <2> QED
      BY <2>1, <2>2, ClosedKeeps DEF NameIsFree, NameChosen
  <1>14. CASE UNCHANGED vars
    BY <1>14, SameKeeps DEF vars
  <1> QED
    BY <1>1, <1>2, <1>3, <1>4, <1>5, <1>6, <1>7, <1>8, <1>9, <1>10, <1>11,
       <1>12, <1>13, <1>14 DEF Next

\* Nothing is being pulled when the node boots.
LEMMA InitIInv == Init => IInv
  <1> SUFFICES ASSUME Init PROVE IInv
    OBVIOUS
  <1>1. /\ sync.phase = "IDLE"
        /\ ~sync.open
        /\ ~store.chunk.active
    BY DEF Init, SyncIdle, ChunkIdle
  <1> QED
    BY <1>1, InitTypeOK
       DEF IInv, SessionOwnsUpload, PulledPrefix, NameIsFree, NameChosen

\* The inductive invariant of a pull session.
THEOREM Invariant == Spec => []IInv
  <1> QED
    BY InitIInv, NextIInv, PTL DEF Spec

\* The types of PeerSync hold for every directory, page and chunk size.
THEOREM TypeCorrect == Spec => []TypeOK
  <1>1. IInv => TypeOK
    BY DEF IInv
  <1> QED
    BY <1>1, Invariant, PTL

\* The session and the store agree on the pull, however answers, errors,
\* disconnects, changes at the peer and power losses follow each other.
THEOREM OwnsUpload == Spec => []SessionOwnsUpload
  <1>1. IInv => SessionOwnsUpload
    BY DEF IInv
  <1> QED
    BY <1>1, Invariant, PTL

\* What has been pulled of an unchanged file is its beginning.
THEOREM PullsPrefixes == Spec => []PulledPrefix
  <1>1. IInv => PulledPrefix
    BY DEF IInv
  <1> QED
    BY <1>1, Invariant, PTL
------------------------------------------------------------------------------
(* A pull implements WholeFilePull. *)

\* What Have shows of a file: nothing when it is empty or missing.
LEMMA HaveValue ==
  /\ Have = [n \in Name |-> Have[n]]
  /\ Have' = [n \in Name |-> Have'[n]]
  /\ \A n \in Name :
        /\ Have[n] = IF store.files[n] = <<>> THEN NoFile ELSE store.files[n]
        /\ Have'[n] = IF store'.files[n] = <<>> THEN NoFile
                      ELSE store'.files[n]
  BY DEF Have

\* A step that touches no file but empty ones does not show.
LEMMA HaveSame ==
  ASSUME \A n \in Name : \/ store'.files[n] = store.files[n]
                         \/ /\ store.files[n] \in {<<>>, NoFile}
                            /\ store'.files[n] \in {<<>>, NoFile}
  PROVE  Have' = Have
  <1>1. \A n \in Name : Have'[n] = Have[n]
    BY HaveValue, StoreAssumption
  <1> QED
    BY <1>1, HaveValue

\* abort_inflight_write removes an empty entry.
LEMMA DroppedHave ==
  ASSUME IInv, store' = Dropped(sync, store)
  PROVE  Have' = Have
  <1>1. sync.open => store.files[sync.name] = <<>>
    BY DEF IInv, SessionOwnsUpload
  <1> QED
    BY <1>1, DroppedShape, HaveSame

\* The last answer of a pull adopts the file.
LEMMA CommitsAdopts ==
  ASSUME IInv, ReadChunk, Commits
  PROVE  Abstract!Adopt(sync.name)
  <1>1. /\ sync.name \in Name
        /\ store.files[sync.name] = <<>>
        /\ remote' = remote
        /\ touched' = touched
    BY DEF IInv, NameChosen, ReadChunk, Answered, world, SessionOwnsUpload
  <1>2. Have[sync.name] = NoFile
    BY <1>1, HaveValue
  <1>3. /\ Have'[sync.name] = store'.files[sync.name]
        /\ Have'[sync.name] \in Content \ {<<>>}
    BY <1>1, HaveValue DEF Commits
  <1>4. \A n \in Name : n # sync.name => Have'[n] = Have[n]
    BY HaveValue DEF Commits
  <1>5. Have' = [Have EXCEPT ![sync.name] = Have'[sync.name]]
    BY <1>1, <1>4, HaveValue
  <1>6. sync.name \notin touched => Have'[sync.name] = remote[sync.name]
    BY <1>3 DEF Commits
  <1>7. version' = (version + 1) % VersionMod
    BY DEF Commits, Bumped
  <1> QED
    BY <1>1, <1>2, <1>3, <1>5, <1>6, <1>7 DEF Abstract!Adopt

\* Every step is an adoption, a new session, a change at the peer, or does
\* not show.
LEMMA NextImplements ==
  ASSUME IInv, [Next]_vars
  PROVE  [Abstract!Next]_(Abstract!vars)
  <1> DEFINE Hidden ==
        Have' = Have /\ version' = version /\ UNCHANGED <<remote, touched>>
  <1>0. ASSUME Hidden PROVE UNCHANGED Abstract!vars
    BY <1>0 DEF Abstract!vars
  <1>1. ASSUME store' = store PROVE Have' = Have
    BY <1>1 DEF Have
  <1>2. CASE Start
    <2>1. Have' = Have /\ touched' = {} /\ UNCHANGED <<version, remote>>
      BY <1>1, <1>2 DEF Start
    <2> QED
      BY <2>1 DEF Abstract!Next, Abstract!NewSession
  <1>3. CASE Ls \/ LsFails \/ ReadStartFails \/ ReadMetaFails
             \/ AttestQuery \/ AttestQueryFails \/ LoseAnswer
    BY <1>0, <1>1, <1>3
       DEF Ls, LsFails, ReadStartFails, ReadMetaFails, AttestQuery,
           AttestQueryFails, LoseAnswer, world
  <1>4. CASE ReadStart
    <2>1. /\ store \in Store
          /\ sync.name \in Name
          /\ store.files[sync.name] = NoFile
          /\ ~store.chunk.active
          /\ Len(remote[sync.name]) \in Nat
      <3>1. /\ store \in Store
            /\ sync.name \in Name
            /\ store.files[sync.name] = NoFile
            /\ remote[sync.name] # NoFile
        BY <1>4 DEF IInv, TypeOK, NameChosen, NameIsFree, ReadStart, Answered
      <3>2. remote[sync.name] \in Content
        BY <3>1, SyncAssumption DEF IInv, TypeOK
      <3>3. ~store.chunk.active
        BY <1>4, PullClosed DEF ReadStart, Answered
      <3> QED
        BY <3>1, <3>2, <3>3 DEF Content
    <2>2. CASE store' = Started(store, sync.name, Len(remote[sync.name]))
      <3> DEFINE total == Len(remote[sync.name])
      <3>0. total \in Nat /\ store' = Started(store, sync.name, total)
        BY <2>1, <2>2
      <3> HIDE DEF total
      <3>1. \A n \in Name : store'.files[n] =
               IF n = sync.name THEN <<>> ELSE store.files[n]
        <4>1. \A n \in Name : Started(store, sync.name, total).files[n] =
                 IF n = sync.name THEN <<>>
                 ELSE IF store.chunk.active THEN Discarded(store).files[n]
                 ELSE store.files[n]
          BY <2>1, <3>0, StartedFiles
        <4> QED
          BY <2>1, <3>0, <4>1
      <3>2. Have' = Have
        BY <2>1, <3>1, HaveSame
      <3> QED
        BY <1>0, <1>4, <3>2 DEF ReadStart, world
    <2>3. CASE store' = store
      BY <1>0, <1>1, <1>4, <2>3 DEF ReadStart, world
    <2> QED
      BY <1>4, <2>2, <2>3 DEF ReadStart
  <1>5. CASE ReadChunk
    <2>1. UNCHANGED <<remote, touched>>
      BY <1>5 DEF ReadChunk, world
    <2>2. sync.name \in Name /\ store.files[sync.name] = <<>>
      BY <1>5 DEF IInv, NameChosen, ReadChunk, Answered, SessionOwnsUpload
    <2>3. CASE Grows
      <3>1. Have' = Have
        BY <2>3, HaveSame DEF Grows
      <3> QED
        BY <1>0, <2>1, <2>3, <3>1 DEF Grows
    <2>4. CASE Commits
      BY <1>5, <2>2, <2>4, CommitsAdopts DEF Abstract!Next
    <2>5. CASE GivesUp
      <3>1. Have' = Have
        BY <2>2, <2>5, HaveSame DEF GivesUp
      <3> QED
        BY <1>0, <2>1, <2>5, <3>1 DEF GivesUp
    <2> QED
      BY <1>5, <2>3, <2>4, <2>5, ReadChunkStep
  <1>6. CASE ReadChunkFails \/ Close \/ Disconnect
    <2>1. Have' = Have
      BY <1>6, DroppedHave DEF ReadChunkFails, Close, Disconnect, End
    <2> QED
      BY <1>0, <1>6, <2>1 DEF ReadChunkFails, Close, Disconnect, End, world
  <1>7. CASE ReadMeta
    <2>1. store'.files = store.files
      BY <1>7, MetaShape DEF ReadMeta, IInv, TypeOK
    <2>2. Have' = Have
      BY <2>1, HaveSame
    <2> QED
      BY <1>0, <1>7, <2>2 DEF ReadMeta, world
  <1>8. CASE PeerChange
    <2>1. PICK n \in Name :
            /\ remote' = [remote EXCEPT ![n] = remote'[n]]
            /\ touched' = touched \cup {n}
      BY <1>8 DEF PeerChange, IInv, TypeOK
    <2>2. Have' = Have /\ version' = version
      BY <1>1, <1>8 DEF PeerChange
    <2> QED
      BY <2>1, <2>2 DEF Abstract!Next, Abstract!PeerChange
  <1>9. CASE Crash
    <2>1. \A n \in Name : \/ store'.files[n] = store.files[n]
                          \/ /\ store.files[n] = <<>>
                             /\ store'.files[n] = NoFile
      BY <1>9, RebootFiles DEF Crash, IInv, TypeOK
    <2>2. Have' = Have
      BY <2>1, HaveSame
    <2> QED
      BY <1>0, <1>9, <2>2 DEF Crash
  <1>10. CASE UNCHANGED vars
    BY <1>0, <1>1, <1>10 DEF vars
  <1> QED
    BY <1>2, <1>3, <1>4, <1>5, <1>6, <1>7, <1>8, <1>9, <1>10 DEF Next

\* A booting node shows the files it has, and the peer its own.
LEMMA InitImplements == Init => Abstract!Init
  <1> SUFFICES ASSUME Init PROVE Abstract!Init
    OBVIOUS
  <1>1. Have \in [Name -> Content \cup {NoFile}]
    <2>1. \A n \in Name : Have[n] \in Content \cup {NoFile}
      BY InitTypeOK, HaveValue DEF TypeOK, Store
    <2> QED
      BY <2>1, HaveValue
  <1>2. remote \in [Name -> Content \cup {NoFile}]
    BY SyncAssumption DEF Init
  <1> QED
    BY <1>1, <1>2 DEF Init, Abstract!Init

\* Whatever errors, lost answers, disconnects, changes at the peer and power
\* losses there are, a pull adopts whole files under free names, one manifest
\* version each, and replaces or removes nothing.
THEOREM Implements == Spec => PullsWholeFiles
  <1>1. IInv /\ [Next]_vars => [Abstract!Next]_(Abstract!vars)
    BY NextImplements
  <1> QED
    BY <1>1, InitImplements, Invariant, PTL
       DEF Spec, PullsWholeFiles, Abstract!Spec
------------------------------------------------------------------------------
(* No half-written file is left behind. *)

\* A file that is not there is not an empty one.
LEMMA NotEmpty == NoFile # <<>>
  <1>1. <<>> \in Seq(Block)
    OBVIOUS
  <1> QED
    BY <1>1, StoreAssumption

\* A step that adds no empty entry outside the pull leaves none behind.
LEMMA StillNoneLeaked ==
  ASSUME NothingLeaked, crashes' = crashes,
         \A n \in Name : store'.files[n] = <<>> =>
            \/ sync'.open /\ sync'.name = n
            \/ store.files[n] = <<>> /\ ~(sync.open /\ sync.name = n)
  PROVE  NothingLeaked'
  BY DEF NothingLeaked

\* Every step but a power loss leaves no empty entry outside a pull.
LEMMA NextNothingLeaked ==
  ASSUME IInv, NothingLeaked, [Next]_vars
  PROVE  NothingLeaked'
  <1>1. CASE store' = store /\ ~sync.open /\ crashes' = crashes
    BY <1>1, StillNoneLeaked
  <1>2. CASE Start \/ Ls \/ LsFails \/ ReadStartFails \/ ReadMetaFails
             \/ AttestQuery \/ AttestQueryFails
    <2>1. sync.open = FALSE
      BY <1>2, PullClosed
         DEF Start, Ls, LsFails, ReadStartFails, ReadMetaFails, AttestQuery,
             AttestQueryFails, Answered
    <2> QED
      BY <1>1, <1>2, <2>1
         DEF Start, Ls, LsFails, ReadStartFails, ReadMetaFails, AttestQuery,
             AttestQueryFails, world
  <1>3. CASE ReadStart
    <2> DEFINE total == Len(remote[sync.name])
    <2>1. /\ store \in Store
          /\ sync \in Session
          /\ sync.name \in Name
          /\ remote[sync.name] # NoFile
          /\ crashes' = crashes
      BY <1>3 DEF IInv, TypeOK, NameChosen, ReadStart, Answered, world
    <2>2. remote[sync.name] \in Content
      BY <2>1, SyncAssumption DEF IInv, TypeOK
    <2>3. sync.open = FALSE /\ ~store.chunk.active
      BY <1>3, PullClosed DEF ReadStart, Answered
    <2>4. total \in Nat
      BY <2>2 DEF Content
    <2> HIDE DEF total
    <2>5. CASE /\ store' = Started(store, sync.name, total)
               /\ sync' = [sync EXCEPT !.phase = "READ_CHUNK",
                                       !.total = total, !.open = TRUE,
                                       !.want = ChunkSize]
      <3>1. sync'.open = TRUE /\ sync'.name = sync.name
        BY <2>1, <2>5 DEF Session
      <3>2. \A n \in Name : Started(store, sync.name, total).files[n] =
               IF n = sync.name THEN <<>>
               ELSE IF store.chunk.active THEN Discarded(store).files[n]
               ELSE store.files[n]
        BY <2>1, <2>4, StartedFiles
      <3>3. \A n \in Name : store'.files[n] =
               IF n = sync.name THEN <<>> ELSE store.files[n]
        BY <2>3, <2>5, <3>2
      <3> QED
        BY <2>1, <2>3, <3>1, <3>3, StillNoneLeaked
    <2>6. CASE store' = store
      BY <1>1, <2>1, <2>3, <2>6
    <2> QED
      BY <1>3, <2>5, <2>6 DEF ReadStart, total
  <1>4. CASE ReadChunk
    <2>1. /\ sync.open
          /\ sync.name \in Name
          /\ crashes' = crashes
      BY <1>4 DEF IInv, NameChosen, ReadChunk, Answered, world,
                  SessionOwnsUpload
    <2>2. CASE Grows
      BY <2>1, <2>2, StillNoneLeaked DEF Grows
    <2>3. CASE Commits
      BY <2>1, <2>3, StillNoneLeaked DEF Commits
    <2>4. CASE GivesUp
      <3>1. NoFile # <<>>
        BY NotEmpty
      <3>2. \A n \in Name : store'.files[n] = <<>> =>
               store.files[n] = <<>> /\ ~(sync.open /\ sync.name = n)
        BY <2>4, <3>1 DEF GivesUp
      <3> QED
        BY <2>1, <3>2, StillNoneLeaked
    <2> QED
      BY <1>4, <2>2, <2>3, <2>4, ReadChunkStep
  <1>5. CASE ReadChunkFails \/ Close \/ Disconnect
    <2>1. store' = Dropped(sync, store) /\ crashes' = crashes
      BY <1>5 DEF ReadChunkFails, Close, Disconnect, End, world
    <2>2. \A n \in Name : store'.files[n] =
             IF sync.open /\ n = sync.name THEN NoFile ELSE store.files[n]
      BY <2>1, DroppedShape
    <2>3. NoFile # <<>>
      BY NotEmpty
    <2>4. \A n \in Name : store'.files[n] = <<>> =>
             store.files[n] = <<>> /\ ~(sync.open /\ sync.name = n)
      BY <2>2, <2>3
    <2> QED
      BY <2>1, <2>4, StillNoneLeaked
  <1>6. CASE ReadMeta
    <2>1. store'.files = store.files /\ crashes' = crashes
      BY <1>6, MetaShape DEF ReadMeta, IInv, TypeOK, world
    <2>2. sync.open = FALSE
      BY <1>6, PullClosed DEF ReadMeta, Answered
    <2> QED
      BY <2>1, <2>2, StillNoneLeaked
  <1>7. CASE LoseAnswer
    <2>1. sync'.open = sync.open /\ sync'.name = sync.name
      BY <1>7 DEF LoseAnswer, IInv, TypeOK, Session
    <2> QED
      BY <1>7, <2>1 DEF LoseAnswer, NothingLeaked, world
  <1>8. CASE PeerChange \/ UNCHANGED vars
    BY <1>8 DEF PeerChange, vars, NothingLeaked
  <1>9. CASE Crash
    <2>1. crashes' # 0
      BY <1>9 DEF Crash, IInv, TypeOK
    <2> QED
      BY <2>1 DEF NothingLeaked
  <1> QED
    BY <1>2, <1>3, <1>4, <1>5, <1>6, <1>7, <1>8, <1>9 DEF Next

\* If the node starts without empty files, none is left outside a pull by
\* error answers, a full volume, disconnects or the end of the session.
THEOREM NoneLeaked ==
  ASSUME <<>> \notin OwnContent
  PROVE  Spec => []NothingLeaked
  <1>1. Init => NothingLeaked
    <2> SUFFICES ASSUME Init, NEW n \in Name PROVE store.files[n] # <<>>
      BY DEF NothingLeaked
    <2>1. PICK own \in [Name -> OwnContent \cup {NoFile}] : store.files = own
      BY DEF Init
    <2>2. NoFile # <<>>
      BY NotEmpty
    <2> QED
      BY <2>1, <2>2
  <1>2. IInv /\ NothingLeaked /\ [Next]_vars => NothingLeaked'
    BY NextNothingLeaked
  <1> QED
    BY <1>1, <1>2, Invariant, PTL DEF Spec
------------------------------------------------------------------------------
(***************************************************************************)
(* A session that ends in DONE has pulled everything.  While it asks for a *)
(* page the files before it are settled; while it pulls a file of a page   *)
(* those of the page are settled, still to look at, or the one pulled;     *)
(* after the last page all are.  What is settled stays so, because no step *)
(* of a pull removes a file or frees space.                                *)
(***************************************************************************)
\* Nothing is owed for a file of the peer: it is here, or cannot be taken.
Settled(r, st, n) ==
    \/ Exists(st, n)
    \/ ~Startable(Len(r[n]))
    \/ Len(r[n]) > FreeBlocks(st)

\* The entries of the page still to look at are the peer's files.
TruePage(r, s) ==
    \A e \in s.todo : e.name \in Listed(r) /\ e.size = Len(r[e.name])

\* The files up to the end of the page, n aside, are settled or in the page.
UpToPage(r, s, st, n) ==
    \A m \in Listed(r) \ {n} :
        s.next = 0 \/ Rank(r, m) < s.next =>
            Settled(r, st, m) \/ \E e \in s.todo : e.name = m

Paged(r, s, st) ==
    /\ s.phase = "LS" =>
          \A n \in Listed(r) : Rank(r, n) < s.offset => Settled(r, st, n)
    /\ s.phase = "READ_START" => TruePage(r, s) /\ UpToPage(r, s, st, s.name)
    /\ s.phase \in {"READ_CHUNK", "READ_META"} =>
          TruePage(r, s) /\ UpToPage(r, s, st, NoName)
    /\ s.phase \in {"ATTEST_QUERY", "DONE"} =>
          \A n \in Listed(r) : Settled(r, st, n)

PagedInv == ~failed /\ touched = {} => Paged(remote, sync, store)

\* A file of the listing is at a place before the end of it.
LEMMA RankBound ==
  ASSUME NEW f, NEW n \in Listed(f)
  PROVE  /\ Rank(f, n) \in Nat
         /\ Rank(f, n) < Cardinality(Listed(f))
  <1> DEFINE before == {m \in Listed(f) : m < n}
  <1>1. IsFiniteSet(Listed(f))
    <2>1. IsFiniteSet(1 .. NameCount) /\ Listed(f) \subseteq 1 .. NameCount
      BY FS_Interval, StoreAssumption DEF Listed, Name
    <2> QED
      BY <2>1, FS_Subset
  <1>2. n \notin before
    BY StoreAssumption DEF Listed, Name
  <1>3. before \subseteq Listed(f) /\ before # Listed(f)
    BY <1>2
  <1> HIDE DEF before
  <1>4. /\ IsFiniteSet(before)
        /\ Cardinality(before) <= Cardinality(Listed(f))
        /\ Cardinality(before) = Cardinality(Listed(f)) => before = Listed(f)
    BY <1>1, <1>3, FS_Subset
  <1>5. Cardinality(before) \in Nat /\ Cardinality(Listed(f)) \in Nat
    BY <1>1, <1>4, FS_CardinalityType
  <1>6. Rank(f, n) = Cardinality(before)
    BY DEF Rank, before
  <1> QED
    BY <1>3, <1>4, <1>5, <1>6

\* What a file takes.
Size(f) == IF f = NoFile THEN 0 ELSE Len(f)

\* What the upload and a file it has been written to take together.
LEMMA UsedChanges ==
  ASSUME NEW st \in Store, NEW st2 \in Store, NEW n \in Name,
         \A m \in Name \ {n} : st2.files[m] = st.files[m]
  PROVE  /\ Used(st) \in Nat
         /\ Used(st2) = Used(st) - Len(st.chunk.data) - Size(st.files[n])
                                 + Len(st2.chunk.data) + Size(st2.files[n])
  <1> DEFINE sizes(s) == [m \in Name |->
                            IF Exists(s, m) THEN Len(s.files[m]) ELSE 0]
  <1>1. IsFiniteSet(Name)
    BY FS_Interval, StoreAssumption DEF Name
  <1>2. ASSUME NEW s \in Store
        PROVE  /\ sizes(s) \in [Name -> Nat]
               /\ Len(s.chunk.data) \in Nat
               /\ Used(s) = Len(s.chunk.data)
                            + SumFunctionOnSet(sizes(s), Name)
    <2>1. \A m \in Name : Exists(s, m) => Len(s.files[m]) \in Nat
      BY DEF Store, Content, Exists
    <2>2. s.chunk.data \in Seq(Block)
      BY DEF Store, ChunkState, Content
    <2>3. DOMAIN sizes(s) = Name
      OBVIOUS
    <2> QED
      BY <2>1, <2>2, <2>3 DEF Used, SumFunction
  <1>3. /\ sizes(st)[n] = Size(st.files[n])
        /\ sizes(st2)[n] = Size(st2.files[n])
        /\ \A m \in Name \ {n} : sizes(st2)[m] = sizes(st)[m]
    BY DEF Exists, Size
  <1>4. /\ sizes(st) \in [Name -> Nat] /\ sizes(st2) \in [Name -> Nat]
        /\ Len(st.chunk.data) \in Nat /\ Len(st2.chunk.data) \in Nat
        /\ Used(st) = Len(st.chunk.data) + SumFunctionOnSet(sizes(st), Name)
        /\ Used(st2) = Len(st2.chunk.data)
                       + SumFunctionOnSet(sizes(st2), Name)
    BY <1>2
  <1> HIDE DEF sizes
  <1>5. /\ SumFunctionOnSet(sizes(st), Name) \in Nat
        /\ SumFunctionOnSet(sizes(st2), Name) =
              SumFunctionOnSet(sizes(st), Name) - sizes(st)[n] + sizes(st2)[n]
    BY <1>1, <1>3, <1>4, SumChanges
  <1>6. sizes(st)[n] \in Nat /\ sizes(st2)[n] \in Nat
    BY <1>4
  <1> DEFINE w == Len(st.chunk.data)
             w2 == Len(st2.chunk.data)
             f == Size(st.files[n])
             f2 == Size(st2.files[n])
             sum == SumFunctionOnSet(sizes(st), Name)
             sum2 == SumFunctionOnSet(sizes(st2), Name)
  <1>7. /\ w \in Nat /\ w2 \in Nat /\ f \in Nat /\ f2 \in Nat
        /\ sum \in Nat
        /\ Used(st) = w + sum
        /\ Used(st2) = w2 + sum2
        /\ sum2 = sum - f + f2
    BY <1>3, <1>4, <1>5, <1>6
  <1> HIDE DEF w, w2, f, f2, sum, sum2
  <1>8. Used(st) \in Nat /\ Used(st2) = Used(st) - w - f + w2 + f2
    BY <1>7
  <1> QED
    BY <1>8 DEF w, w2, f, f2

\* The files and the space of a store, while nothing is removed or freed.
Grown(st, st2) ==
    /\ \A n \in Name : Exists(st, n) => Exists(st2, n)
    /\ FreeBlocks(st2) <= FreeBlocks(st)

\* Files are sequences of blocks, or not there.
Directory == [Name -> Content \cup {NoFile}]

\* The free space is a number, and shrinks when more is used.
LEMMA GrownByUse ==
  ASSUME NEW st \in Store, NEW st2 \in Store,
         \A n \in Name : Exists(st, n) => Exists(st2, n),
         Used(st) \in Nat, Used(st2) \in Nat, Used(st2) >= Used(st)
  PROVE  Grown(st, st2)
  BY StoreAssumption DEF Grown, FreeBlocks

\* What is settled stays so.
LEMMA StaysSettled ==
  ASSUME NEW st \in Store, NEW st2 \in Store, Grown(st, st2),
         NEW r \in Directory, NEW n \in Listed(r), Settled(r, st, n)
  PROVE  Settled(r, st2, n)
  <1>1. n \in Name /\ Len(r[n]) \in Nat
    BY DEF Directory, Listed, Content
  <1>2. FreeBlocks(st2) \in Int /\ FreeBlocks(st) \in Int
    <2>1. n \in Name /\ Used(st) \in Nat /\ Used(st2) \in Nat
      BY <1>1, UsedChanges
    <2> QED
      BY <2>1, StoreAssumption DEF FreeBlocks
  <1>3. CASE Exists(st, n)
    BY <1>1, <1>3 DEF Grown, Settled
  <1>4. CASE ~Startable(Len(r[n]))
    BY <1>4 DEF Settled
  <1>5. CASE Len(r[n]) > FreeBlocks(st)
    BY <1>1, <1>2, <1>5 DEF Grown, Settled
  <1> QED
    BY <1>3, <1>4, <1>5 DEF Settled

\* start_next_file_or_finish leaves nothing behind: what it passes over is
\* settled.
LEMMA NextFilePaged ==
  ASSUME NEW r \in Directory, NEW s \in Session, NEW st \in Store,
         TruePage(r, s), UpToPage(r, s, st, NoName), NextFile(s, st)
  PROVE  Paged(r, sync', st)
  <1> DEFINE wanted == {e \in s.todo : Wanted(st, e)}
  <1>1. ASSUME NEW e \in s.todo, ~Wanted(st, e)
        PROVE  Settled(r, st, e.name)
    <2>1. e.name \in Listed(r) /\ e.size = Len(r[e.name])
      BY DEF TruePage
    <2>2. Len(r[e.name]) \in Nat
      BY <2>1 DEF Directory, Listed, Content
    <2>3. FreeBlocks(st) \in Int
      <3>1. e.name \in Name
        BY <2>1 DEF Listed
      <3>2. Used(st) \in Nat
        BY <3>1, UsedChanges
      <3> QED
        BY <3>2, StoreAssumption DEF FreeBlocks
    <2> QED
      BY <1>1, <2>1, <2>2, <2>3 DEF Wanted, Settled
  <1>2. \A n \in Listed(r) : n \in Name /\ n # NoName
    BY DEF Listed, Name, NoName
  <1>3. ASSUME NEW e \in wanted,
               \A other \in wanted : e.name <= other.name,
               sync' = [s EXCEPT
                  !.phase = "READ_START",
                  !.todo = {rest \in s.todo : rest.name > e.name},
                  !.name = e.name, !.total = e.size,
                  !.received = 0, !.open = FALSE]
        PROVE  Paged(r, sync', st)
    <2>1. /\ sync'.phase = "READ_START"
          /\ sync'.todo = {rest \in s.todo : rest.name > e.name}
          /\ sync'.name = e.name
          /\ sync'.next = s.next
      BY <1>3 DEF Session
    <2>2. TruePage(r, sync')
      BY <2>1 DEF TruePage
    <2>3. ASSUME NEW m \in Listed(r) \ {e.name},
                 s.next = 0 \/ Rank(r, m) < s.next
          PROVE  Settled(r, st, m) \/ \E f \in sync'.todo : f.name = m
      <3>1. Settled(r, st, m) \/ \E f \in s.todo : f.name = m
        BY <1>2, <2>3 DEF UpToPage
      <3>2. ASSUME NEW f \in s.todo, f.name = m
            PROVE  Settled(r, st, m) \/ f \in sync'.todo
        <4>1. f.name \in Nat /\ e.name \in Nat /\ f.name # e.name
          <5>1. e \in s.todo
            OBVIOUS
          <5>2. f.name \in Name /\ e.name \in Name
            BY <5>1 DEF Session, Entry
          <5> QED
            BY <3>2, <5>2, StoreAssumption DEF Name
        <4>2. CASE Wanted(st, f)
          <5>1. e.name <= f.name
            BY <1>3, <4>2
          <5> QED
            BY <2>1, <4>1, <5>1
        <4>3. CASE ~Wanted(st, f)
          BY <1>1, <3>2, <4>3
        <4> QED
          BY <4>2, <4>3
      <3> QED
        BY <3>1, <3>2
    <2>4. UpToPage(r, sync', st, sync'.name)
      BY <2>1, <2>3 DEF UpToPage
    <2> QED
      BY <2>1, <2>2, <2>4 DEF Paged
  <1>4. ASSUME wanted = {}, NEW m \in Listed(r),
               s.next = 0 \/ Rank(r, m) < s.next
        PROVE  Settled(r, st, m)
    <2>1. Settled(r, st, m) \/ \E f \in s.todo : f.name = m
      BY <1>2, <1>4 DEF UpToPage
    <2> QED
      BY <1>1, <1>4, <2>1
  <1>5. CASE wanted = {} /\ s.next > 0 /\ sync' = NextPage(s)
    <2>1. sync'.phase = "LS" /\ sync'.offset = s.next
      BY <1>5 DEF NextPage, Session
    <2> QED
      BY <1>4, <1>5, <2>1 DEF Paged
  <1>6. CASE /\ wanted = {}
             /\ s.next = 0
             /\ NextBatch([s EXCEPT !.pending = Gathered(st)])
    <2>1. Gathered(st) \subseteq Bssid
      BY DEF Gathered, Mentioned
    <2>2. [s EXCEPT !.pending = Gathered(st)] \in Session
      BY <2>1 DEF Session
    <2>3. sync'.phase \in {"DONE", "ATTEST_QUERY"}
      BY <1>6, <2>2, NextBatchShape
    <2> QED
      BY <1>4, <1>6, <2>3 DEF Paged
  <1> QED
    BY <1>3, <1>5, <1>6 DEF NextFile

\* The same page, and a store nothing was removed from.
LEMMA PageStays ==
  ASSUME NEW r \in Directory, NEW s, NEW s2, s2.todo = s.todo,
         s2.next = s.next, NEW st \in Store, NEW st2 \in Store, Grown(st, st2),
         NEW n, TruePage(r, s), UpToPage(r, s, st, n)
  PROVE  TruePage(r, s2) /\ UpToPage(r, s2, st2, n)
  <1>1. TruePage(r, s2)
    BY DEF TruePage
  <1>2. ASSUME NEW m \in Listed(r) \ {n}, s2.next = 0 \/ Rank(r, m) < s2.next
        PROVE  Settled(r, st2, m) \/ \E e \in s2.todo : e.name = m
    <2>1. Settled(r, st, m) \/ \E e \in s.todo : e.name = m
      BY <1>2 DEF UpToPage
    <2> QED
      BY <2>1, StaysSettled
  <1> QED
    BY <1>1, <1>2 DEF UpToPage

\* The same files and the same upload: nothing changes.
LEMMA SameGrown ==
  ASSUME NEW st \in Store, NEW st2 \in Store, st2.files = st.files,
         st2.chunk = st.chunk
  PROVE  Grown(st, st2)
  <1>1. 1 \in Name
    BY StoreAssumption DEF Name
  <1>2. /\ Used(st) \in Nat
        /\ Used(st2) = Used(st) - Len(st.chunk.data) - Size(st.files[1])
                                + Len(st.chunk.data) + Size(st.files[1])
    BY <1>1, UsedChanges
  <1>3. Len(st.chunk.data) \in Nat /\ Size(st.files[1]) \in Nat
    <2>1. /\ st.chunk.data \in Seq(Block)
          /\ st.files[1] # NoFile => st.files[1] \in Seq(Block)
      BY <1>1 DEF Store, ChunkState, Content
    <2> QED
      BY <2>1 DEF Size
  <1>4. Used(st2) = Used(st)
    BY <1>2, <1>3
  <1> QED
    BY <1>2, <1>4, GrownByUse DEF Exists

\* handle_ls_response: the page continues the listing where the last ended.
LEMMA LsPaged ==
  ASSUME TypeOK, sync.phase = "LS", Paged(remote, sync, store), Ls
  PROVE  Paged(remote, sync', store)
  <1> DEFINE rest == Cardinality(Listed(remote)) - sync.offset
             names(count) == PageNames(remote, sync.offset, count)
             paged(count) ==
               [sync EXCEPT
                  !.todo = {[name |-> n, size |-> Len(remote[n])] :
                            n \in PageNames(remote, sync.offset, count)},
                  !.next = IF count < rest THEN sync.offset + count ELSE 0]
  <1>1. PICK count \in IF rest > 0 THEN 1 .. Lesser(PageSize, rest) ELSE {0} :
            NextFile(paged(count), store)
    BY DEF Ls
  <1>2. sync \in Session /\ sync.offset \in Nat /\ store \in Store
    BY DEF TypeOK, Session
  <1>3. rest \in Int /\ PageSize \in Nat
    BY <1>2, ListedFinite, SyncAssumption
  <1>4. count \in Nat
    BY <1>3 DEF Lesser
  <1>5. {[name |-> n, size |-> Len(remote[n])] :
            n \in PageNames(remote, sync.offset, count)} \in SUBSET Entry
    BY PageType
  <1>6. (IF count < rest THEN sync.offset + count ELSE 0) \in Nat
    BY <1>2, <1>4
  <1> DEFINE s == paged(count)
  <1>7. /\ s \in Session
        /\ s.todo = {[name |-> n, size |-> Len(remote[n])] :
                     n \in PageNames(remote, sync.offset, count)}
        /\ s.next = IF count < rest THEN sync.offset + count ELSE 0
    <2> HIDE DEF rest
    <2> QED
      BY <1>2, <1>5, <1>6 DEF Session
  <1>8. remote \in Directory
    BY SyncAssumption DEF TypeOK, Directory
  <1>9. NextFile(s, store)
    BY <1>1
  <1> HIDE DEF s
  <1>10. TruePage(remote, s)
    BY <1>7 DEF TruePage, PageNames
  <1>11. ASSUME NEW m \in Listed(remote), s.next = 0 \/ Rank(remote, m) < s.next
         PROVE  Settled(remote, store, m) \/ \E e \in s.todo : e.name = m
    <2>1. /\ Rank(remote, m) \in Nat
          /\ Rank(remote, m) < Cardinality(Listed(remote))
      BY RankBound
    <2>2. Cardinality(Listed(remote)) \in Nat
      BY ListedFinite
    <2>3. Rank(remote, m) < sync.offset + count
      <3>1. CASE count < rest
        BY <1>2, <1>4, <1>7, <1>11, <2>1, <3>1
      <3>2. CASE ~(count < rest)
        <4>1. rest <= count
          BY <1>3, <1>4, <3>2
        <4> QED
          BY <1>2, <1>4, <2>1, <2>2, <4>1
      <3> QED
        BY <3>1, <3>2
    <2>4. CASE Rank(remote, m) < sync.offset
      BY <2>4 DEF Paged
    <2>5. CASE ~(Rank(remote, m) < sync.offset)
      <3>1. Rank(remote, m) \in sync.offset .. sync.offset + count - 1
        BY <1>2, <1>4, <2>1, <2>3, <2>5
      <3>2. m \in PageNames(remote, sync.offset, count)
        BY <3>1 DEF PageNames
      <3>3. /\ [name |-> m, size |-> Len(remote[m])] \in s.todo
            /\ [name |-> m, size |-> Len(remote[m])].name = m
        BY <1>7, <3>2
      <3> QED
        BY <3>3
    <2> QED
      BY <2>4, <2>5
  <1>12. UpToPage(remote, s, store, NoName)
    BY <1>11 DEF UpToPage
  <1> QED
    BY <1>2, <1>7, <1>8, <1>9, <1>10, <1>12, NextFilePaged

\* Opening the file takes no space.
LEMMA StartedGrown ==
  ASSUME NEW st \in Store, NEW n \in Name, NEW total \in Nat,
         ~st.chunk.active, st.chunk.data = <<>>, st.files[n] = NoFile
  PROVE  Grown(st, Started(st, n, total)) /\ Exists(Started(st, n, total), n)
  <1> DEFINE st2 == Started(st, n, total)
  <1>1. st2 \in Store
    BY StartedType
  <1>2. /\ st2.chunk.data = <<>>
        /\ st2.files[n] = <<>>
        /\ \A m \in Name \ {n} : st2.files[m] = st.files[m]
    <2>1. st2.chunk = [active |-> TRUE, name |-> n, slot |-> n,
                       expected |-> total, written |-> 0, data |-> <<>>]
      BY StartedFiles
    <2>2. \A m \in Name : st2.files[m] =
             IF m = n THEN <<>>
             ELSE IF st.chunk.active THEN Discarded(st).files[m]
             ELSE st.files[m]
      BY StartedFiles
    <2> HIDE DEF st2
    <2> QED
      BY <2>1, <2>2
  <1> HIDE DEF st2
  <1>3. /\ Used(st) \in Nat
        /\ Used(st2) = Used(st) - Len(st.chunk.data) - Size(st.files[n])
                                + Len(st2.chunk.data) + Size(st2.files[n])
    BY <1>1, <1>2, UsedChanges
  <1>4. Size(st.files[n]) = 0 /\ Size(st2.files[n]) = 0
    BY <1>2, NotEmpty DEF Size
  <1>5. Used(st2) = Used(st)
    BY <1>2, <1>3, <1>4
  <1>6. Exists(st2, n) /\ \A m \in Name : Exists(st, m) => Exists(st2, m)
    BY <1>2, NotEmpty DEF Exists
  <1>7. Grown(st, st2)
    BY <1>1, <1>3, <1>5, <1>6, GrownByUse
  <1> QED
    BY <1>6, <1>7 DEF st2

\* Nothing lies in the upload slot outside an upload.
IdleUpload == ~store.chunk.active => store.chunk.data = <<>>

\* An answer to read_chunk that does not end the session takes space.
LEMMA ReadChunkGrown ==
  ASSUME IInv, ReadChunk, store' \in Store, Grows \/ Commits
  PROVE  Grown(store, store')
  <1>1. /\ sync.name \in Name
        /\ store \in Store
        /\ store.files[sync.name] = <<>>
        /\ Len(store.chunk.data) = sync.received
        /\ sync.received \in Nat
    BY DEF IInv, TypeOK, NameChosen, ReadChunk, Answered, Session,
           SessionOwnsUpload
  <1>2. \A m \in Name \ {sync.name} : store'.files[m] = store.files[m]
    BY DEF Grows, Commits
  <1>3. /\ Used(store) \in Nat
        /\ Used(store') = Used(store)
              - Len(store.chunk.data) - Size(store.files[sync.name])
              + Len(store'.chunk.data) + Size(store'.files[sync.name])
    BY <1>1, <1>2, UsedChanges
  <1>4. Size(store.files[sync.name]) = 0
    BY <1>1, NotEmpty DEF Size
  <1>5. /\ Len(store'.chunk.data) \in Nat /\ Size(store'.files[sync.name]) \in Nat
        /\ Len(store'.chunk.data) + Size(store'.files[sync.name])
              >= sync.received
    <2>1. CASE Grows
      <3>1. /\ Len(store'.chunk.data) = sync'.received
            /\ sync'.received >= sync.received
            /\ store'.files[sync.name] = <<>>
        BY <1>1, <2>1 DEF Grows
      <3>2. Size(store'.files[sync.name]) = 0
        BY <3>1, NotEmpty DEF Size
      <3>3. Len(store'.chunk.data) \in Nat
        BY DEF Store, ChunkState, Content
      <3> QED
        BY <1>1, <3>1, <3>2, <3>3
    <2>2. CASE Commits
      <3>1. /\ Len(store'.chunk.data) = 0
            /\ Len(store'.files[sync.name]) >= sync.received
            /\ store'.files[sync.name] \in Content
        BY <2>2 DEF Commits
      <3>2. /\ Len(store'.files[sync.name]) \in Nat
            /\ store'.files[sync.name] # NoFile
        BY <3>1, StoreAssumption DEF Content
      <3>3. Size(store'.files[sync.name]) = Len(store'.files[sync.name])
        BY <3>2 DEF Size
      <3> QED
        BY <1>1, <3>1, <3>2, <3>3
    <2> QED
      BY <2>1, <2>2
  <1>6. Used(store') \in Nat /\ Used(store') >= Used(store)
    <2> DEFINE w == Len(store'.chunk.data)
               f == Size(store'.files[sync.name])
               used == Used(store')
    <2>1. /\ w \in Nat /\ f \in Nat /\ w + f >= sync.received
          /\ used = Used(store) - sync.received - 0 + w + f
      BY <1>1, <1>3, <1>4, <1>5
    <2> HIDE DEF w, f, used
    <2>2. used \in Nat /\ used >= Used(store)
      BY <1>1, <1>3, <2>1
    <2> QED
      BY <2>2 DEF used
  <1>7. \A m \in Name : Exists(store, m) => Exists(store', m)
    <2>1. store'.files[sync.name] # NoFile
      <3>1. CASE Grows
        BY <1>1, <3>1, NotEmpty DEF Grows
      <3>2. CASE Commits
        BY <3>2, StoreAssumption DEF Commits, Content
      <3> QED
        BY <3>1, <3>2
    <2> QED
      BY <1>2, <2>1 DEF Exists
  <1> QED
    BY <1>1, <1>3, <1>6, <1>7, GrownByUse

\* Every step keeps the idle upload slot empty.
LEMMA NextIdleUpload ==
  ASSUME IInv, IdleUpload, [Next]_vars
  PROVE  IdleUpload'
  <1>0. store \in Store /\ sync \in Session
    BY DEF IInv, TypeOK
  <1>1. ASSUME store'.chunk = store.chunk
        PROVE  IdleUpload'
    BY <1>1 DEF IdleUpload
  <1>2. CASE Start \/ Ls \/ LsFails \/ ReadStartFails \/ ReadMetaFails
             \/ AttestQuery \/ AttestQueryFails \/ LoseAnswer \/ PeerChange
    BY <1>1, <1>2
       DEF Start, Ls, LsFails, ReadStartFails, ReadMetaFails, AttestQuery,
           AttestQueryFails, LoseAnswer, PeerChange
  <1>3. CASE ReadStart
    <2> DEFINE total == Len(remote[sync.name])
    <2>1. store' = Started(store, sync.name, total) \/ store' = store
      BY <1>3 DEF ReadStart
    <2>2. sync.name \in Name /\ total \in Nat
      <3>1. sync.name \in Name /\ remote[sync.name] # NoFile
        BY <1>3 DEF IInv, NameChosen, ReadStart, Answered
      <3>2. remote[sync.name] \in Content
        BY <3>1, SyncAssumption DEF IInv, TypeOK
      <3> QED
        BY <3>1, <3>2 DEF Content
    <2> HIDE DEF total
    <2>3. Started(store, sync.name, total).chunk =
             [active |-> TRUE, name |-> sync.name, slot |-> sync.name,
              expected |-> total, written |-> 0, data |-> <<>>]
      BY <1>0, <2>2, StartedFiles
    <2>4. Started(store, sync.name, total).chunk.data = <<>>
      BY <2>3
    <2> QED
      BY <1>1, <2>1, <2>4 DEF IdleUpload
  <1>4. CASE ReadChunk
    <2>1. CASE Grows
      <3>1. store.chunk.active
        BY <1>4 DEF IInv, SessionOwnsUpload, ReadChunk, Answered
      <3> QED
        BY <2>1, <3>1 DEF Grows, SameUpload, IdleUpload
    <2>2. CASE Commits \/ GivesUp
      BY <2>2 DEF Commits, GivesUp, IdleUpload
    <2> QED
      BY <1>4, <2>1, <2>2, ReadChunkStep
  <1>5. CASE ReadChunkFails \/ Close \/ Disconnect
    <2>1. store' = Dropped(sync, store)
      BY <1>5 DEF ReadChunkFails, Close, Disconnect, End
    <2>2. store' = Discarded(store) \/ store' = store
      BY <2>1 DEF Dropped, Aborted
    <2>3. Discarded(store).chunk.data = <<>>
      BY <1>0, DiscardedFiles DEF ChunkIdle
    <2> QED
      BY <1>1, <2>2, <2>3 DEF IdleUpload
  <1>6. CASE ReadMeta
    <2>1. store'.chunk = store.chunk
      BY <1>0, <1>6, MetaShape DEF ReadMeta
    <2> QED
      BY <1>1, <2>1
  <1>7. CASE Crash
    <2>1. store'.chunk = ChunkIdle
      BY <1>0, <1>7, RebootFiles DEF Crash
    <2> QED
      BY <2>1 DEF IdleUpload, ChunkIdle
  <1>8. CASE UNCHANGED vars
    BY <1>1, <1>8 DEF vars
  <1> QED
    BY <1>2, <1>3, <1>4, <1>5, <1>6, <1>7, <1>8 DEF Next

\* The same session, and a store nothing was removed from.
LEMMA PagedStays ==
  ASSUME NEW r \in Directory, NEW s, NEW st \in Store, NEW st2 \in Store,
         Grown(st, st2), Paged(r, s, st)
  PROVE  Paged(r, s, st2)
  <1>1. \A n \in Listed(r) : Settled(r, st, n) => Settled(r, st2, n)
    BY StaysSettled
  <1>2. \A n : TruePage(r, s) /\ UpToPage(r, s, st, n)
                  => UpToPage(r, s, st2, n)
    BY <1>1 DEF UpToPage
  <1> QED
    BY <1>1, <1>2 DEF Paged

\* What an answer to read_chunk leaves of the page.
LEMMA ReadChunkPaged ==
  ASSUME IInv, IInv', ReadChunk, Paged(remote, sync, store)
  PROVE  Paged(remote, sync', store')
  <1>1. /\ sync.phase = "READ_CHUNK"
        /\ store \in Store /\ store' \in Store
        /\ remote \in Directory
    BY SyncAssumption DEF ReadChunk, Answered, IInv, TypeOK, Directory
  <1>2. TruePage(remote, sync) /\ UpToPage(remote, sync, store, NoName)
    BY <1>1 DEF Paged
  <1>3. CASE Grows \/ Commits
    <2>1. Grown(store, store')
      BY <1>1, <1>3, ReadChunkGrown
    <2>2. /\ sync'.todo = sync.todo /\ sync'.next = sync.next
          /\ sync'.phase \in {"READ_CHUNK", "READ_META"}
      BY <1>3 DEF Grows, Commits
    <2>3. TruePage(remote, sync') /\ UpToPage(remote, sync', store', NoName)
      BY <1>1, <1>2, <2>1, <2>2, PageStays
    <2> QED
      BY <2>2, <2>3 DEF Paged
  <1>4. CASE GivesUp
    BY <1>4 DEF GivesUp, Paged
  <1> QED
    BY <1>3, <1>4, ReadChunkStep

\* Opening a file settles it; one the store refuses is settled already.
LEMMA ReadStartPaged ==
  ASSUME IInv, IInv', IdleUpload, ReadStart, Paged(remote, sync, store)
  PROVE  Paged(remote, sync', store')
  <1> DEFINE total == Len(remote[sync.name])
  <1>1. /\ sync.phase = "READ_START" /\ sync \in Session
        /\ store \in Store /\ store' \in Store
        /\ remote \in Directory
        /\ sync.name \in Name /\ remote[sync.name] # NoFile
        /\ store.files[sync.name] = NoFile
    BY SyncAssumption
       DEF ReadStart, Answered, IInv, TypeOK, Directory, NameChosen, NameIsFree
  <1>2. TruePage(remote, sync) /\ UpToPage(remote, sync, store, sync.name)
    BY <1>1 DEF Paged
  <1>3. total \in Nat
    BY <1>1 DEF Directory, Content
  <1>4. ~store.chunk.active /\ store.chunk.data = <<>>
    BY <1>1, PullClosed DEF IdleUpload
  <1>5. CASE Startable(total)
    <2>1. /\ store' = Started(store, sync.name, total)
          /\ sync' = [sync EXCEPT !.phase = "READ_CHUNK", !.total = total,
                                  !.open = TRUE, !.want = ChunkSize]
      BY <1>5 DEF ReadStart
    <2>2. /\ sync'.phase = "READ_CHUNK"
          /\ sync'.todo = sync.todo /\ sync'.next = sync.next
      BY <1>1, <2>1 DEF Session
    <2> HIDE DEF total
    <2>3. Grown(store, store') /\ Exists(store', sync.name)
      BY <1>1, <1>3, <1>4, <2>1, StartedGrown
    <2>4. TruePage(remote, sync') /\ UpToPage(remote, sync', store', sync.name)
      BY <1>1, <1>2, <2>2, <2>3, PageStays
    <2>5. UpToPage(remote, sync', store', NoName)
      BY <2>3, <2>4 DEF UpToPage, Settled
    <2> QED
      BY <2>2, <2>4, <2>5 DEF Paged
  <1>6. CASE ~Startable(total)
    <2> DEFINE s == [sync EXCEPT !.total = total]
    <2>1. NextFile(s, store) /\ store' = store
      BY <1>6 DEF ReadStart
    <2> HIDE DEF total
    <2>2. s \in Session /\ s.todo = sync.todo /\ s.next = sync.next
      BY <1>1, <1>3 DEF Session
    <2> HIDE DEF s
    <2>3. TruePage(remote, s)
      BY <1>2, <2>2 DEF TruePage
    <2>4. UpToPage(remote, s, store, NoName)
      BY <1>2, <1>6, <2>2 DEF UpToPage, Settled, total
    <2> QED
      BY <1>1, <2>1, <2>2, <2>3, <2>4, NextFilePaged
  <1> QED
    BY <1>5, <1>6

\* Every step keeps the account of what has been settled.
LEMMA NextPaged ==
  ASSUME IInv, IInv', IdleUpload, PagedInv, [Next]_vars
  PROVE  PagedInv'
  <1>0. /\ store \in Store /\ store' \in Store
        /\ sync \in Session
        /\ remote \in Directory
        /\ TypeOK
    BY SyncAssumption DEF IInv, TypeOK, Directory
  <1>1. ASSUME failed' = failed, touched' = touched, remote' = remote,
               Paged(remote, sync, store) => Paged(remote, sync', store')
        PROVE  PagedInv'
    BY <1>1 DEF PagedInv
  <1>2. ASSUME Fault
        PROVE  PagedInv'
    BY <1>2 DEF Fault, PagedInv
  <1>3. CASE Start
    <2>1. sync'.phase = "LS" /\ sync'.offset = 0 /\ remote' = remote
      BY <1>3 DEF Start, SyncIdle
    <2>2. \A n \in Listed(remote) : ~(Rank(remote, n) < 0)
      BY RankBound
    <2> QED
      BY <2>1, <2>2 DEF PagedInv, Paged
  <1>4. CASE Ls
    <2>1. sync.phase = "LS" /\ store' = store
      BY <1>4 DEF Ls, Answered
    <2> QED
      BY <1>0, <1>1, <1>4, <2>1, LsPaged DEF Ls, NoFault, world
  <1>5. CASE ReadStart
    BY <1>1, <1>5, ReadStartPaged DEF ReadStart, NoFault, world
  <1>6. CASE ReadStartFails
    <2>1. CASE Fault
      BY <1>2, <2>1
    <2>2. CASE remote[sync.name] = NoFile /\ NoFault
      <3>1. /\ sync.phase = "READ_START"
            /\ store' = store
            /\ NextFile(sync, store)
            /\ UNCHANGED <<failed, touched, remote>>
        BY <1>6, <2>2 DEF ReadStartFails, Answered, NoFault, world
      <3>2. sync.name \notin Listed(remote)
        BY <2>2 DEF Listed
      <3>3. ASSUME Paged(remote, sync, store)
            PROVE  Paged(remote, sync', store)
        <4>1. TruePage(remote, sync) /\ UpToPage(remote, sync, store, sync.name)
          BY <3>1, <3>3 DEF Paged
        <4>2. UpToPage(remote, sync, store, NoName)
          BY <3>2, <4>1 DEF UpToPage
        <4> QED
          BY <1>0, <3>1, <4>1, <4>2, NextFilePaged
      <3> QED
        BY <1>1, <3>1, <3>3
    <2> QED
      BY <1>6, <2>1, <2>2 DEF ReadStartFails
  <1>7. CASE ReadChunk
    BY <1>1, <1>7, ReadChunkPaged DEF ReadChunk, NoFault, world
  <1>8. CASE ReadMeta
    <2>1. /\ sync.phase = "READ_META"
          /\ NextFile(sync, store)
          /\ UNCHANGED <<failed, touched, remote>>
      BY <1>8 DEF ReadMeta, Answered, NoFault, world
    <2>2. store'.files = store.files /\ store'.chunk = store.chunk
      BY <1>0, <1>8, MetaShape DEF ReadMeta
    <2>3. Grown(store, store')
      BY <1>0, <2>2, SameGrown
    <2>4. ASSUME Paged(remote, sync, store)
          PROVE  Paged(remote, sync', store')
      <3>1. TruePage(remote, sync) /\ UpToPage(remote, sync, store, NoName)
        BY <2>1, <2>4 DEF Paged
      <3>2. Paged(remote, sync', store)
        BY <1>0, <2>1, <3>1, NextFilePaged
      <3> QED
        BY <1>0, <2>3, <3>2, PagedStays
    <2> QED
      BY <1>1, <2>1, <2>4
  <1>9. CASE AttestQuery
    <2>1. /\ sync.phase = "ATTEST_QUERY"
          /\ UNCHANGED <<store, failed, touched, remote>>
      BY <1>9 DEF AttestQuery, Answered, NoFault, world
    <2>2. sync'.phase \in {"ATTEST_QUERY", "DONE"}
      <3>1. CASE NextBatch([sync EXCEPT !.pending = @ \ sync.batch])
        <4>1. [sync EXCEPT !.pending = @ \ sync.batch] \in Session
          BY <1>0 DEF Session
        <4> QED
          BY <3>1, <4>1, NextBatchShape
      <3>2. CASE \E blobs : sync' = [sync EXCEPT !.got = @ \cup blobs]
        BY <1>0, <2>1, <3>2 DEF Session
      <3> QED
        BY <1>9, <3>1, <3>2 DEF AttestQuery
    <2> QED
      BY <1>1, <2>1, <2>2 DEF Paged
  <1>10. CASE LsFails \/ ReadMetaFails \/ AttestQueryFails \/ LoseAnswer
              \/ Disconnect
    BY <1>2, <1>10
       DEF LsFails, ReadMetaFails, AttestQueryFails, LoseAnswer, Disconnect
  <1>11. CASE ReadChunkFails
    <2>1. sync'.phase = "ERROR"
      BY <1>0, <1>11 DEF ReadChunkFails, Session
    <2> QED
      BY <1>1, <1>2, <1>11, <2>1 DEF ReadChunkFails, NoFault, world, Paged
  <1>12. CASE Close
    BY <1>1, <1>12 DEF Close, End, NoFault, world, SyncIdle, Paged
  <1>13. CASE PeerChange
    BY <1>13 DEF PeerChange, PagedInv
  <1>14. CASE Crash
    BY <1>1, <1>14 DEF Crash, SyncIdle, Paged
  <1>15. CASE UNCHANGED vars
    BY <1>1, <1>15 DEF vars
  <1> QED
    BY <1>3, <1>4, <1>5, <1>6, <1>7, <1>8, <1>9, <1>10, <1>11, <1>12, <1>13,
       <1>14, <1>15 DEF Next

\* A session that ends in DONE without an error answer has pulled every file
\* of a peer whose files stayed the same, unless it is empty, too large for a
\* chunked write, or too large for the space left: paging, deduplication and
\* the space check together lose none.
THEOREM DoneHasAll == Spec => []DoneIsComplete
  <1>1. Init => IdleUpload /\ PagedInv
    BY DEF Init, ChunkIdle, IdleUpload, SyncIdle, PagedInv, Paged
  <1>2. IInv /\ IInv' /\ (IdleUpload /\ PagedInv) /\ [Next]_vars
           => (IdleUpload /\ PagedInv)'
    BY NextIdleUpload, NextPaged
  <1>3. PagedInv => DoneIsComplete
    <2> SUFFICES ASSUME PagedInv, sync.phase = "DONE", ~failed, touched = {},
                        NEW n \in Name, remote[n] # NoFile
                 PROVE  Settled(remote, store, n)
      BY DEF DoneIsComplete, Settled
    <2> QED
      BY DEF PagedInv, Paged, Listed
  <1> QED
    BY <1>1, <1>2, <1>3, Invariant, PTL DEF Spec

------------------------------------------------------------------------------
(***************************************************************************)
(* A session that ends in DONE has asked for everything: the BSSIDs still  *)
(* pending are all those mentioned here, held by the peer and not yet held *)
(* here.                                                                   *)
(***************************************************************************)
\* What the pending BSSIDs do not cover is held, or the peer has nothing on
\* it; or there were too many.
Covered(st, pending, held) ==
    \/ Mentioned(st) \cap PeerAttested \subseteq held \cup pending
    \/ Cardinality(Mentioned(st)) > TotalMax

\* While batches are asked for
Asking(st, s, held) ==
    /\ Covered(st, s.pending, held)
    /\ s.batch \subseteq s.pending
    /\ s.got \subseteq held

AskingInv ==
    ~failed =>
        /\ sync.phase = "ATTEST_QUERY" => Asking(store, sync, cached)
        /\ sync.phase = "DONE" => Covered(store, {}, cached)

\* What encounter records mention is finite.
LEMMA MentionedFinite ==
  ASSUME NEW st
  PROVE  IsFiniteSet(Mentioned(st))
  <1> DEFINE S == {p \in EncName \X (1 .. MaxChunked) :
                     /\ Exists(st, p[1])
                     /\ p[2] \in DOMAIN st.files[p[1]]
                     /\ st.files[p[1]][p[2]] \in Bssid}
             f == [p \in S |-> st.files[p[1]][p[2]]]
  <1>1. IsFiniteSet(EncName)
    <2>1. IsFiniteSet(1 .. NameCount) /\ EncName \subseteq 1 .. NameCount
      BY FS_Interval, StoreAssumption, SyncAssumption DEF Name
    <2> QED
      BY <2>1, FS_Subset
  <1>2. IsFiniteSet(1 .. MaxChunked)
    BY FS_Interval, StoreAssumption
  <1>3. IsFiniteSet(EncName \X (1 .. MaxChunked))
    BY <1>1, <1>2, FS_Product
  <1>4. IsFiniteSet(S)
    BY <1>3, FS_Subset
  <1>5. f \in [S -> Mentioned(st)]
    <2> SUFFICES ASSUME NEW p \in S
                 PROVE  st.files[p[1]][p[2]] \in Mentioned(st)
      OBVIOUS
    <2>1. p \in MentionedAt(st, st.files[p[1]][p[2]])
      BY DEF MentionedAt
    <2> QED
      BY <2>1 DEF Mentioned
  <1>6. \A b \in Mentioned(st) : \E p \in S : f[p] = b
    <2> SUFFICES ASSUME NEW b \in Mentioned(st)
                 PROVE  \E p \in S : f[p] = b
      OBVIOUS
    <2>1. PICK p \in MentionedAt(st, b) : TRUE
      BY DEF Mentioned
    <2>2. p \in S /\ f[p] = b
      BY <2>1 DEF MentionedAt, Mentioned
    <2> QED
      BY <2>2
  <1> HIDE DEF S, f
  <1>7. f \in Surjection(S, Mentioned(st))
    BY <1>5, <1>6 DEF Surjection
  <1> QED
    BY <1>4, <1>7, FS_Surjection

\* If no more than TotalMax are mentioned, gathering leaves none out.
LEMMA GatheredCovers ==
  ASSUME NEW st
  PROVE  Covered(st, Gathered(st), cached)
  <1> SUFFICES ASSUME ~(Cardinality(Mentioned(st)) > TotalMax),
                      NEW b \in Mentioned(st), b \notin cached
               PROVE  b \in Gathered(st)
    BY DEF Covered
  <1> DEFINE unknown == Mentioned(st) \ cached
             before == {c \in unknown : MentionedBefore(st, c, b)}
  <1>1. ~MentionedBefore(st, b, b)
    <2> SUFFICES ASSUME NEW p \in MentionedAt(st, b),
                        p[1] < p[1] \/ (p[1] = p[1] /\ p[2] < p[2])
                 PROVE  FALSE
      BY DEF MentionedBefore
    <2>1. p[1] \in EncName /\ p[2] \in 1 .. MaxChunked
      BY DEF MentionedAt
    <2>2. \A n \in EncName : n \in Nat
      BY SyncAssumption, StoreAssumption DEF Name
    <2>3. \A i \in 1 .. MaxChunked : i \in Nat
      BY StoreAssumption
    <2>4. p[1] \in Nat /\ p[2] \in Nat
      BY <2>1, <2>2, <2>3
    <2> QED
      BY <2>4
  <1>2. /\ IsFiniteSet(Mentioned(st))
        /\ before \subseteq Mentioned(st)
        /\ b \notin before
    BY <1>1, MentionedFinite
  <1>3. before # Mentioned(st)
    BY <1>2
  <1>4. b \in Bssid /\ b \in unknown
    BY DEF Mentioned
  <1> HIDE DEF before
  <1>5. /\ Cardinality(before) \in Nat
        /\ Cardinality(Mentioned(st)) \in Nat
        /\ Cardinality(before) <= Cardinality(Mentioned(st))
        /\ Cardinality(before) # Cardinality(Mentioned(st))
    BY <1>2, <1>3, FS_Subset, FS_CardinalityType
  <1>6. Cardinality(before) < TotalMax
    BY <1>5, SyncAssumption
  <1> QED
    BY <1>4, <1>6 DEF Gathered, before

\* The next batch is of the pending ones; without any, nothing is left.
LEMMA NextBatchAsking ==
  ASSUME NEW s \in Session, NEW st, NEW held,
         Covered(st, s.pending, held), NextBatch(s)
  PROVE  /\ sync'.phase = "ATTEST_QUERY" => Asking(st, sync', held)
         /\ sync'.phase = "DONE" => Covered(st, {}, held)
  <1>1. CASE s.pending = {} /\ sync' = [s EXCEPT !.phase = "DONE"]
    <2>1. sync'.phase = "DONE"
      BY <1>1 DEF Session
    <2>2. Covered(st, {}, held)
      BY <1>1
    <2> QED
      BY <2>1, <2>2
  <1>2. CASE \E batch \in SUBSET s.pending :
               sync' = [s EXCEPT !.phase = "ATTEST_QUERY",
                                 !.batch = batch, !.got = {}]
    <2>1. /\ sync'.phase = "ATTEST_QUERY"
          /\ sync'.pending = s.pending
          /\ sync'.batch \subseteq s.pending
          /\ sync'.got = {}
      BY <1>2 DEF Session
    <2> QED
      BY <2>1 DEF Asking
  <1> QED
    BY <1>1, <1>2 DEF NextBatch

\* start_next_file_or_finish asks for all of them.
LEMMA NextFileAsking ==
  ASSUME NEW s \in Session, NEW st, NextFile(s, st)
  PROVE  /\ sync'.phase = "ATTEST_QUERY" => Asking(st, sync', cached)
         /\ sync'.phase = "DONE" => Covered(st, {}, cached)
  <1>1. CASE NextBatch([s EXCEPT !.pending = Gathered(st)])
    <2> DEFINE t == [s EXCEPT !.pending = Gathered(st)]
    <2>1. Gathered(st) \subseteq Bssid
      BY DEF Gathered, Mentioned
    <2>2. t \in Session /\ t.pending = Gathered(st)
      BY <2>1 DEF Session
    <2>3. NextBatch(t)
      BY <1>1
    <2> HIDE DEF t
    <2> QED
      BY <2>2, <2>3, GatheredCovers, NextBatchAsking
  <1>2. CASE sync' = NextPage(s)
    BY <1>2 DEF NextPage, Session
  <1>3. CASE \E e \in s.todo :
               sync' = [s EXCEPT
                  !.phase = "READ_START",
                  !.todo = {rest \in s.todo : rest.name > e.name},
                  !.name = e.name, !.total = e.size,
                  !.received = 0, !.open = FALSE]
    BY <1>3 DEF Session
  <1> QED
    BY <1>1, <1>2, <1>3 DEF NextFile

\* The same files mention the same BSSIDs.
LEMMA SameMentions ==
  ASSUME NEW st, NEW st2, st2.files = st.files, NEW pending, NEW held
  PROVE  Covered(st2, pending, held) <=> Covered(st, pending, held)
  <1>1. \A b : MentionedAt(st2, b) = MentionedAt(st, b)
    BY DEF MentionedAt, Exists
  <1>2. Mentioned(st2) = Mentioned(st)
    BY <1>1 DEF Mentioned
  <1> QED
    BY <1>2 DEF Covered

\* An answer to attest_query takes from what is pending only what is held now
\* or the peer does not have.
LEMMA AttestQueryAsking ==
  ASSUME TypeOK, AttestQuery, Asking(store, sync, cached)
  PROVE  /\ sync'.phase = "ATTEST_QUERY" => Asking(store, sync', cached')
         /\ sync'.phase = "DONE" => Covered(store, {}, cached')
  <1> DEFINE left == (sync.batch \cap PeerAttested) \ sync.got
  <1>1. PICK blobs \in SUBSET left :
          /\ cached' = cached \cup blobs
          /\ IF blobs = left
             THEN NextBatch([sync EXCEPT !.pending = @ \ sync.batch])
             ELSE sync' = [sync EXCEPT !.got = @ \cup blobs]
    BY DEF AttestQuery
  <1>2. sync \in Session /\ sync.phase = "ATTEST_QUERY"
    BY DEF TypeOK, AttestQuery, Answered
  <1>3. CASE blobs = left
    <2> DEFINE t == [sync EXCEPT !.pending = @ \ sync.batch]
    <2>1. t \in Session /\ t.pending = sync.pending \ sync.batch
      BY <1>2 DEF Session
    <2>2. NextBatch(t)
      BY <1>1, <1>3
    <2>3. Covered(store, t.pending, cached')
      BY <1>1, <1>3, <2>1 DEF Covered, Asking
    <2> HIDE DEF t
    <2> QED
      BY <2>1, <2>2, <2>3, NextBatchAsking
  <1>4. CASE blobs # left
    <2>1. /\ sync'.phase = "ATTEST_QUERY"
          /\ sync'.pending = sync.pending
          /\ sync'.batch = sync.batch
          /\ sync'.got = sync.got \cup blobs
      BY <1>1, <1>2, <1>4 DEF Session
    <2> QED
      BY <1>1, <2>1 DEF Covered, Asking
  <1> QED
    BY <1>3, <1>4

\* Every step keeps track of what is still to ask for.
LEMMA NextAsking ==
  ASSUME IInv, AskingInv, [Next]_vars
  PROVE  AskingInv'
  <1>0. TypeOK /\ store \in Store /\ sync \in Session
    BY DEF IInv, TypeOK
  <1>1. ASSUME Fault
        PROVE  AskingInv'
    BY <1>1 DEF Fault, AskingInv
  <1>2. ASSUME NEW s \in Session, NextFile(s, store), cached' = cached,
               store'.files = store.files
        PROVE  AskingInv'
    <2>1. /\ sync'.phase = "ATTEST_QUERY" => Asking(store, sync', cached)
          /\ sync'.phase = "DONE" => Covered(store, {}, cached)
      BY <1>2, NextFileAsking
    <2> QED
      BY <1>2, <2>1, SameMentions DEF AskingInv, Asking
  <1>3. ASSUME sync'.phase \notin {"ATTEST_QUERY", "DONE"}
        PROVE  AskingInv'
    BY <1>3 DEF AskingInv
  <1>4. CASE Start
    BY <1>3, <1>4 DEF Start, SyncIdle
  <1>5. CASE Ls
    BY <1>0, <1>2, <1>5, LsShape DEF Ls
  <1>6. CASE ReadStart
    <2> DEFINE total == Len(remote[sync.name])
    <2>1. CASE Startable(total)
      <3>1. sync'.phase = "READ_CHUNK"
        BY <1>0, <1>6, <2>1 DEF ReadStart, Session
      <3> QED
        BY <1>3, <3>1
    <2>2. CASE ~Startable(total)
      <3>1. /\ NextFile([sync EXCEPT !.total = total], store)
            /\ store' = store /\ cached' = cached
        BY <1>6, <2>2 DEF ReadStart
      <3>2. total \in Nat
        <4>1. sync.name \in Name /\ remote[sync.name] # NoFile
          BY <1>6 DEF IInv, NameChosen, ReadStart, Answered
        <4>2. remote[sync.name] \in Content
          BY <4>1, SyncAssumption DEF IInv, TypeOK
        <4> QED
          BY <4>2 DEF Content
      <3> HIDE DEF total
      <3>3. [sync EXCEPT !.total = total] \in Session
        BY <1>0, <3>2 DEF Session
      <3> QED
        BY <1>2, <3>1, <3>3
    <2> QED
      BY <2>1, <2>2
  <1>7. CASE ReadStartFails
    BY <1>0, <1>2, <1>7 DEF ReadStartFails
  <1>8. CASE ReadChunk
    BY <1>3, <1>8, ReadChunkStep DEF Grows, Commits, GivesUp
  <1>9. CASE ReadMeta
    <2>1. store'.files = store.files
      BY <1>0, <1>9, MetaShape DEF ReadMeta
    <2> QED
      BY <1>0, <1>2, <1>9, <2>1 DEF ReadMeta
  <1>10. CASE AttestQuery
    <2>1. /\ sync.phase = "ATTEST_QUERY"
          /\ UNCHANGED <<store, failed>>
      BY <1>10 DEF AttestQuery, Answered, NoFault
    <2> QED
      BY <1>0, <1>10, <2>1, AttestQueryAsking DEF AskingInv
  <1>11. CASE LsFails \/ ReadMetaFails \/ AttestQueryFails \/ LoseAnswer
              \/ Disconnect
    BY <1>1, <1>11
       DEF LsFails, ReadMetaFails, AttestQueryFails, LoseAnswer, Disconnect
  <1>12. CASE ReadChunkFails
    <2>1. sync'.phase = "ERROR"
      BY <1>0, <1>12 DEF ReadChunkFails, Session
    <2> QED
      BY <1>3, <2>1
  <1>13. CASE Close \/ Crash
    BY <1>3, <1>13 DEF Close, End, Crash, SyncIdle
  <1>14. CASE PeerChange \/ UNCHANGED vars
    BY <1>14 DEF PeerChange, vars, AskingInv
  <1> QED
    BY <1>4, <1>5, <1>6, <1>7, <1>8, <1>9, <1>10, <1>11, <1>12, <1>13,
       <1>14 DEF Next

\* A session that ends in DONE without an error answer has every attestation
\* the peer has for what the encounter records here mention, those pulled in
\* the session included, unless they mention more than
\* PEER_SYNC_BSSID_TOTAL_MAX: batches and pages of answers lose none.
THEOREM AttestationsArrive == Spec => []AttestationsFetched
  <1>1. Init => AskingInv
    BY DEF Init, SyncIdle, AskingInv
  <1>2. AskingInv => AttestationsFetched
    BY DEF AskingInv, Covered, AttestationsFetched
  <1>3. IInv /\ AskingInv /\ [Next]_vars => AskingInv'
    BY NextAsking
  <1> QED
    BY <1>1, <1>2, <1>3, Invariant, PTL DEF Spec
==============================================================================
