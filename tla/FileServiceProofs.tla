-------------------------- MODULE FileServiceProofs --------------------------
(***************************************************************************)
(* FileService: the store is well formed, acknowledged files are kept.     *)
(* The invariant is inductive because an upload that is abandoned can only *)
(* take down files that no acknowledgement covers (InFlightUnkept).        *)
(***************************************************************************)
EXTENDS FileService, FileStoreTheorems

\* The next manifest version is a version, and another one.
LEMMA BumpedType ==
  ASSUME NEW v \in 0 .. VersionMod - 1
  PROVE  /\ (v + 1) % VersionMod \in 0 .. VersionMod - 1
         /\ (v + 1) % VersionMod # v
  <1>1. VersionMod \in Nat /\ VersionMod > 1
    BY ServiceAssumption
  <1>2. CASE v + 1 < VersionMod
    BY <1>1, <1>2
  <1>3. CASE v + 1 = VersionMod
    BY <1>1, <1>3
  <1> QED
    BY <1>1, <1>2, <1>3

\* No content is the absence of a file.
LEMMA ContentIsFile == NoFile \notin Content
  BY StoreAssumption DEF Content

\* The names an upload can still change, spelled out.
LEMMA InFlightNames ==
  ASSUME TypeOK, InFlightUnkept, NEW n \in Name, kept[n] # NoFile,
         store.chunk.active
  PROVE  n # store.chunk.name /\ n # store.chunk.slot
  BY DEF InFlightUnkept, InFlight

IInv == TypeOK /\ UploadHoldsAcked /\ InFlightUnkept /\ AckedFilesKept

------------------------------------------------------------------------------
(* Types. *)

\* The initial state has the types of FileService.
LEMMA InitTypeOK == Init => TypeOK
  <1>1. <<>> \in Content
    BY DEF Content
  <1> QED
    BY <1>1, ChunkIdleType, ServiceAssumption DEF Init, TypeOK, Store

\* What a client may keep after a write has its type.
LEMMA KeptType ==
  ASSUME kept \in [Name -> Content \cup {NoFile}],
         NEW n \in Name, NEW d \in Content, NEW r
  PROVE  KeptAfterWrite(r, n, d) \in [Name -> Content \cup {NoFile}]
  BY DEF KeptAfterWrite

\* Every command and every power loss keeps the types.
LEMMA NextTypeOK == TypeOK /\ [Next]_vars => TypeOK'
  <1> SUFFICES ASSUME TypeOK, [Next]_vars PROVE TypeOK'
    OBVIOUS
  <1> USE DEF TypeOK
  <1>0. /\ Bumped \in 0 .. VersionMod - 1
        /\ Command => commands' \in 0 .. MaxCommands /\ reboots' = reboots
        /\ \A ok \in BOOLEAN : Answer(ok) \in {"ok", "error", "none"}
    BY BumpedType, ServiceAssumption DEF Bumped, Command, Answer
  <1>1. ASSUME NEW n \in Name, NEW d \in Piece, Write(n, d) PROVE TypeOK'
    <2>1. d \in Content
      BY ServiceAssumption
    <2> QED
      BY <1>0, <1>1, <2>1, WriteType, KeptType DEF Write
  <1>2. ASSUME NEW n \in Name, NEW total \in 0 .. MaxChunked + 1,
               WriteStart(n, total)
        PROVE TypeOK'
    <2>1. total \in Nat /\ <<>> \in Content
      BY StoreAssumption DEF Content
    <2>2. PICK r \in StartResults(store, n, total) :
              /\ store' = r.st
              /\ reply' = Answer(r.ok)
              /\ \/ acked' = <<>> /\ clean' = TRUE
                    /\ kept' = [kept EXCEPT ![n] = NoFile]
                 \/ UNCHANGED <<acked, clean, kept>>
      BY <1>2 DEF WriteStart
    <2>3. store' \in Store /\ reply' \in {"ok", "error"}
      <3>1. /\ store \in Store /\ Started(store, n, total) \in Store
            /\ Discarded(store) \in Store
        BY <2>1, StartedType, DiscardedType
      <3>2. CASE r = [st |-> Started(store, n, total), ok |-> TRUE]
        BY <2>2, <3>1, <3>2 DEF Answer
      <3>3. CASE r = [st |-> store, ok |-> FALSE]
        BY <2>2, <3>1, <3>3 DEF Answer
      <3>4. CASE r = [st |-> Discarded(store), ok |-> FALSE]
        BY <2>2, <3>1, <3>4 DEF Answer
      <3> QED
        BY <2>1, <3>1, <3>2, <3>3, <3>4, StartShape
    <2> QED
      BY <1>0, <1>2, <2>1, <2>2, <2>3 DEF WriteStart
  <1>3. ASSUME NEW d \in Piece, WriteChunk(d) PROVE TypeOK'
    <2>1. d \in Content
      BY ServiceAssumption
    <2> QED
      BY <1>0, <1>3, <2>1, AppendType, AppendContent
         DEF WriteChunk
  <1>4. ASSUME NEW n \in Name, WriteEnd(n) PROVE TypeOK'
    <2>1. store' \in Store
      BY <1>4, FinishedType DEF WriteEnd
    <2> QED
      BY <1>0, <1>4, <2>1 DEF WriteEnd, Finishable
  <1>5. ASSUME NEW n \in Name, Delete(n) PROVE TypeOK'
    <2>1. store' \in Store
      BY <1>5, DeletedType DEF Delete
    <2> QED
      BY <1>0, <1>5, <2>1 DEF Delete, Exists
  <1>6. ASSUME NEW n \in Name, WriteMeta(n) PROVE TypeOK'
    <2>1. store' \in Store /\ reply' \in {"ok", "error", "none"}
      BY <1>0, <1>6, MetaShape DEF WriteMeta
    <2> QED
      BY <1>0, <1>6, <2>1 DEF WriteMeta
  <1>7. ASSUME NEW n \in EncName, NEW d \in Piece, RecordEncounter(n, d)
        PROVE TypeOK'
    <2>1. n \in Name /\ d \in Content
      BY ServiceAssumption
    <2> QED
      BY <1>0, <1>7, <2>1, WriteType, KeptType DEF RecordEncounter
  <1>8. ASSUME Reboot PROVE TypeOK'
    <2>1. <<>> \in Content
      BY DEF Content
    <2>2. reboots' \in 0 .. MaxReboots
      BY <1>8, ServiceAssumption DEF Reboot
    <2>3. store' \in Store
      BY <1>8, RebootType DEF Reboot
    <2> QED
      BY <1>8, <2>1, <2>2, <2>3 DEF Reboot
  <1>9. CASE UNCHANGED vars
    BY <1>9 DEF vars
  <1> QED
    BY <1>1, <1>2, <1>3, <1>4, <1>5, <1>6, <1>7, <1>8, <1>9 DEF Next

\* The types of FileService hold for every number of names, every data and
\* every volume.
THEOREM TypeCorrect == Spec => []TypeOK
  <1> QED
    BY InitTypeOK, NextTypeOK, PTL DEF Spec

------------------------------------------------------------------------------
(* Acknowledged files are kept. *)

\* The invariant holds before the first command.
LEMMA InitIInv == Init => IInv
  <1> SUFFICES ASSUME Init PROVE IInv
    OBVIOUS
  <1>1. store.chunk.active = FALSE
    BY DEF Init, ChunkIdle
  <1>2. \A n \in Name : kept[n] = NoFile
    BY DEF Init
  <1> QED
    BY <1>1, <1>2, InitTypeOK
       DEF IInv, UploadHoldsAcked, InFlightUnkept, AckedFilesKept, InFlight

\* A write answered with ok, or not, through an upload's slot or not.
LEMMA WriteKeeps ==
  ASSUME IInv, NEW n \in Name, NEW d \in Content,
         NEW r \in WriteResults(store, n, d),
         store' = r.st, kept' = KeptAfterWrite(r, n, d),
         UNCHANGED <<acked, clean>>
  PROVE  UploadHoldsAcked' /\ InFlightUnkept' /\ AckedFilesKept'
  <1> USE DEF IInv
  <1>1. store \in Store
    BY DEF TypeOK
  <1>2. /\ store'.chunk.active = store.chunk.active
        /\ store'.chunk.name = store.chunk.name
        /\ store'.chunk.slot \in {store.chunk.slot, NoName, n}
        /\ store'.chunk.expected = store.chunk.expected
        /\ store'.chunk.written = store.chunk.written
        /\ store'.chunk.data = store.chunk.data
    BY <1>1, WriteFiles
  <1>3. UploadHoldsAcked'
    BY <1>2 DEF UploadHoldsAcked
  <1>4. /\ kept'[n] = IF r.ok /\ n \notin InFlight(r.st) THEN d ELSE NoFile
        /\ \A m \in Name : m # n => kept'[m] = kept[m]
    BY DEF TypeOK, KeptAfterWrite
  <1>5. InFlightUnkept'
    <2> SUFFICES ASSUME NEW m \in InFlight(store') \cap Name
                 PROVE  kept'[m] = NoFile
      BY DEF InFlightUnkept
    <2>1. CASE m = n
      BY <1>4, <2>1
    <2>2. CASE m # n
      <3>1. NoName \notin Name
        BY DEF NoName, Name
      <3>2. m \in InFlight(store)
        BY <1>2, <2>2, <3>1 DEF InFlight
      <3> QED
        BY <1>4, <2>2, <3>2 DEF InFlightUnkept
    <2> QED
      BY <2>1, <2>2
  <1>6. AckedFilesKept'
    <2> SUFFICES ASSUME NEW m \in Name, kept'[m] # NoFile
                 PROVE  store'.files[m] = kept'[m]
      BY DEF AckedFilesKept
    <2>0. /\ r.ok => r.st.files[n] = d
          /\ \A j \in Name : j # n => r.st.files[j] = store.files[j]
      BY <1>1, WriteFiles
    <2>1. CASE m = n
      BY <1>4, <2>0, <2>1
    <2>2. CASE m # n
      BY <1>4, <2>0, <2>2 DEF AckedFilesKept
    <2> QED
      BY <2>1, <2>2
  <1> QED
    BY <1>3, <1>5, <1>6

\* fs_chunked_abort takes down nothing a client may rely on.
LEMMA DiscardKeeps ==
  ASSUME IInv, store.chunk.active, NEW m \in Name, kept[m] # NoFile
  PROVE  Discarded(store).files[m] = kept[m]
  <1>1. m # store.chunk.name /\ m # store.chunk.slot
    BY InFlightNames DEF IInv
  <1> QED
    BY <1>1, DiscardedFiles DEF IInv, TypeOK, AckedFilesKept

\* cmd_write_start keeps the invariant, a stale upload discarded included.
LEMMA WriteStartKeeps ==
  ASSUME IInv, NEW n \in Name, NEW total \in Nat, WriteStart(n, total)
  PROVE  UploadHoldsAcked' /\ InFlightUnkept' /\ AckedFilesKept'
  <1> USE DEF IInv
  <1>0. PICK r \in StartResults(store, n, total) :
            /\ store' = r.st
            /\ IF r.ok
               THEN /\ acked' = <<>>
                    /\ clean' = TRUE
                    /\ kept' = [kept EXCEPT ![n] = NoFile]
               ELSE UNCHANGED <<acked, clean, kept>>
    BY DEF WriteStart
  <1>1. CASE r = [st |-> store, ok |-> FALSE]
    BY <1>0, <1>1 DEF UploadHoldsAcked, InFlightUnkept, InFlight, AckedFilesKept
  <1>3. CASE store.chunk.active /\ r = [st |-> Discarded(store), ok |-> FALSE]
    <2>1. /\ store' = Discarded(store)
          /\ UNCHANGED <<acked, clean, kept>>
      BY <1>0, <1>3
    <2>2. ~store'.chunk.active
      BY <2>1, DiscardedFiles DEF TypeOK, ChunkIdle
    <2>3. UploadHoldsAcked' /\ InFlightUnkept'
      BY <2>2 DEF UploadHoldsAcked, InFlightUnkept, InFlight
    <2>4. AckedFilesKept'
      BY <1>3, <2>1, DiscardKeeps DEF AckedFilesKept
    <2> QED
      BY <2>3, <2>4
  <1>2. CASE r = [st |-> Started(store, n, total), ok |-> TRUE]
    <2>1. /\ store' = Started(store, n, total)
          /\ acked' = <<>>
          /\ clean' = TRUE
          /\ kept' = [kept EXCEPT ![n] = NoFile]
      BY <1>0, <1>2
    <2>2. store'.chunk = [active |-> TRUE, name |-> n, slot |-> n,
                          expected |-> total, written |-> 0, data |-> <<>>]
      BY <2>1, StartedFiles DEF TypeOK
    <2>3. UploadHoldsAcked'
      BY <2>1, <2>2 DEF UploadHoldsAcked
    <2>4. InFlightUnkept'
      BY <2>1, <2>2 DEF InFlightUnkept, InFlight, TypeOK
    <2>5. AckedFilesKept'
      <3> SUFFICES ASSUME NEW m \in Name, kept'[m] # NoFile
                   PROVE  store'.files[m] = kept'[m]
        BY DEF AckedFilesKept
      <3>1. m # n /\ kept'[m] = kept[m]
        BY <2>1 DEF TypeOK
      <3>2. store'.files[m] = IF store.chunk.active
                              THEN Discarded(store).files[m]
                              ELSE store.files[m]
        BY <2>1, <3>1, StartedFiles DEF TypeOK
      <3> QED
        BY <3>1, <3>2, DiscardKeeps DEF AckedFilesKept
    <2> QED
      BY <2>3, <2>4, <2>5
  <1> QED
    BY <1>1, <1>2, <1>3, StartShape DEF TypeOK

\* cmd_write_chunk keeps the invariant: all of the chunk counts, or none.
LEMMA WriteChunkKeeps ==
  ASSUME IInv, NEW d \in Content, WriteChunk(d)
  PROVE  UploadHoldsAcked' /\ InFlightUnkept' /\ AckedFilesKept'
  <1> USE DEF IInv
  <1>1. PICK r \in AppendResults(store, d) :
            /\ store' = r.st
            /\ acked' = IF r.ok THEN acked \o d ELSE acked
            /\ clean' = (clean /\ r.ok)
    BY DEF WriteChunk
  <1>2. kept' = kept
    BY DEF WriteChunk
  <1>3. /\ store \in Store
        /\ store.chunk \in ChunkState
        /\ acked \in Content
        /\ Len(d) \in Nat
    BY DEF TypeOK, Store, Content
  <1>4. r.ok \in BOOLEAN
    BY <1>3, AppendType
  <1>5. CASE ~store.chunk.active /\ r.st = store /\ ~r.ok
    BY <1>1, <1>2, <1>5 DEF UploadHoldsAcked, InFlightUnkept, AckedFilesKept
  <1>6. CASE store.chunk.active /\ r.st = Discarded(store) /\ ~r.ok
    <2>1. ~store'.chunk.active
      BY <1>1, <1>3, <1>6, DiscardedFiles DEF ChunkIdle
    <2>2. UploadHoldsAcked' /\ InFlightUnkept'
      BY <2>1 DEF UploadHoldsAcked, InFlightUnkept, InFlight
    <2>3. AckedFilesKept'
      BY <1>1, <1>2, <1>6, DiscardKeeps DEF AckedFilesKept
    <2> QED
      BY <2>2, <2>3
  <1>7. CASE /\ store.chunk.active
             /\ store.chunk.written + Len(d) <= store.chunk.expected
             /\ r.st.files = store.files
             /\ SameUpload(store.chunk, r.st.chunk)
             /\ r.st.chunk.data = store.chunk.data \o d
             /\ r.st.chunk.written = store.chunk.written + Len(d)
             /\ r.ok
    <2>1. /\ acked' = acked \o d
          /\ Len(acked') = Len(acked) + Len(d)
          /\ clean' = clean
      BY <1>1, <1>3, <1>7, AppendContent DEF TypeOK
    <2>2. UploadHoldsAcked'
      BY <1>1, <1>7, <2>1 DEF UploadHoldsAcked, SameUpload
    <2>3. InFlightUnkept' /\ AckedFilesKept'
      BY <1>1, <1>2, <1>7
         DEF InFlightUnkept, InFlight, AckedFilesKept, SameUpload
    <2> QED
      BY <2>2, <2>3
  <1>8. CASE /\ store.chunk.active
             /\ r.st.files = store.files
             /\ SameUpload(store.chunk, r.st.chunk)
             /\ r.st.chunk.written = store.chunk.written
             /\ ~r.ok
    <2>1. acked' = acked /\ ~clean'
      BY <1>1, <1>8
    <2> QED
      BY <1>1, <1>2, <1>8, <2>1
         DEF UploadHoldsAcked, InFlightUnkept, InFlight, AckedFilesKept,
             SameUpload
  <1> QED
    BY <1>3, <1>5, <1>6, <1>7, <1>8, AppendFiles

\* cmd_write_end keeps the invariant, whether it commits, aborts or refuses.
LEMMA WriteEndKeeps ==
  ASSUME IInv, NEW n \in Name, WriteEnd(n)
  PROVE  UploadHoldsAcked' /\ InFlightUnkept' /\ AckedFilesKept'
  <1> USE DEF IInv
  <1>1. acked' = acked /\ clean' = clean /\ store' = Finished(store, n)
    BY DEF WriteEnd
  <1>2. CASE Finishable(store, n)
    <2>1. /\ ~store'.chunk.active
          /\ \A m \in Name : store'.files[m] =
                IF m = store.chunk.slot THEN store.chunk.data
                ELSE store.files[m]
      BY <1>1, <1>2, FinishedFiles DEF TypeOK, ChunkIdle
    <2>2. kept' = [kept EXCEPT ![n] =
                     IF clean /\ store.chunk.slot = n THEN acked ELSE NoFile]
      BY <1>2 DEF WriteEnd
    <2>3. UploadHoldsAcked' /\ InFlightUnkept'
      BY <2>1 DEF UploadHoldsAcked, InFlightUnkept, InFlight
    <2>4. ASSUME NEW m \in Name, kept'[m] # NoFile
          PROVE  store'.files[m] = kept'[m]
      <3>1. CASE m = n
        BY <1>2, <2>1, <2>2, <2>4, <3>1
           DEF TypeOK, Finishable, UploadHoldsAcked
      <3>2. CASE m # n
        <4>1. kept'[m] = kept[m] /\ kept[m] # NoFile
          BY <2>2, <2>4, <3>2 DEF TypeOK
        <4>2. m # store.chunk.slot
          BY <1>2, <4>1, InFlightNames DEF Finishable
        <4> QED
          BY <2>1, <4>1, <4>2 DEF AckedFilesKept
      <3> QED
        BY <3>1, <3>2
    <2> QED
      BY <2>3, <2>4 DEF AckedFilesKept
  <1>3. CASE ~Finishable(store, n)
    <2>1. kept' = kept /\ store' = Aborted(store, n)
      BY <1>1, <1>3 DEF WriteEnd, Finished
    <2>2. CASE store.chunk.active /\ store.chunk.name = n
      <3>1. store' = Discarded(store) /\ ~store'.chunk.active
        BY <2>1, <2>2, DiscardedFiles DEF Aborted, TypeOK, ChunkIdle
      <3>2. UploadHoldsAcked' /\ InFlightUnkept'
        BY <3>1 DEF UploadHoldsAcked, InFlightUnkept, InFlight
      <3>3. AckedFilesKept'
        BY <2>1, <2>2, <3>1, DiscardKeeps DEF AckedFilesKept
      <3> QED
        BY <3>2, <3>3
    <2>3. CASE ~(store.chunk.active /\ store.chunk.name = n)
      BY <1>1, <2>1, <2>3
         DEF Aborted, UploadHoldsAcked, InFlightUnkept, AckedFilesKept
    <2> QED
      BY <2>2, <2>3
  <1> QED
    BY <1>2, <1>3

\* cmd_delete keeps the invariant, also when it unlinks an open upload.
LEMMA DeleteKeeps ==
  ASSUME IInv, NEW n \in Name, Delete(n)
  PROVE  UploadHoldsAcked' /\ InFlightUnkept' /\ AckedFilesKept'
  <1> USE DEF IInv
  <1>1. CASE ~Exists(store, n)
    BY <1>1 DEF Delete, UploadHoldsAcked, InFlightUnkept, AckedFilesKept
  <1>2. CASE Exists(store, n)
    <2>1. /\ store' = Deleted(store, n)
          /\ kept' = [kept EXCEPT ![n] = NoFile]
          /\ acked' = acked /\ clean' = clean
      BY <1>2 DEF Delete
    <2>2. \A m \in Name : store'.files[m] =
             IF m = n THEN NoFile ELSE store.files[m]
      BY <2>1, DeletedFiles DEF TypeOK
    <2>3. /\ store'.chunk.active = store.chunk.active
          /\ store'.chunk.name = store.chunk.name
          /\ store'.chunk.slot \in {store.chunk.slot, NoName}
          /\ store'.chunk.expected = store.chunk.expected
          /\ store'.chunk.written = store.chunk.written
          /\ store'.chunk.data = store.chunk.data
      BY <2>1, DeletedFiles DEF TypeOK
    <2>4. UploadHoldsAcked'
      BY <2>1, <2>3 DEF UploadHoldsAcked
    <2>5. InFlightUnkept'
      <3>1. NoName \notin Name
        BY DEF NoName, Name
      <3>2. InFlight(store') \cap Name \subseteq InFlight(store)
        BY <2>3, <3>1 DEF InFlight
      <3> QED
        BY <2>1, <3>2 DEF InFlightUnkept, TypeOK
    <2>6. AckedFilesKept'
      BY <2>1, <2>2 DEF AckedFilesKept, TypeOK
    <2> QED
      BY <2>4, <2>5, <2>6
  <1> QED
    BY <1>1, <1>2

\* A power loss keeps the invariant.
LEMMA RebootKeeps ==
  ASSUME IInv, Reboot
  PROVE  UploadHoldsAcked' /\ InFlightUnkept' /\ AckedFilesKept'
  <1> USE DEF IInv
  <1>1. store' \in RebootResults(store) /\ kept' = kept
    BY DEF Reboot
  <1>2. ~store'.chunk.active
    BY <1>1, RebootFiles DEF TypeOK, ChunkIdle
  <1>3. UploadHoldsAcked' /\ InFlightUnkept'
    BY <1>2 DEF UploadHoldsAcked, InFlightUnkept, InFlight
  <1>4. ASSUME NEW m \in Name, kept'[m] # NoFile
        PROVE  store'.files[m] = kept'[m]
    <2>1. ~(store.chunk.active /\ m = store.chunk.slot)
      BY <1>1, <1>4, InFlightNames
    <2>2. store'.files[m] = store.files[m]
      BY <1>1, <2>1, RebootFiles DEF TypeOK
    <2> QED
      BY <1>1, <1>4, <2>2 DEF AckedFilesKept
  <1> QED
    BY <1>3, <1>4 DEF AckedFilesKept

\* Every command and every power loss keeps the invariant.
LEMMA NextIInv == IInv /\ [Next]_vars => IInv'
  <1> SUFFICES ASSUME IInv, [Next]_vars
               PROVE  UploadHoldsAcked' /\ InFlightUnkept' /\ AckedFilesKept'
    BY NextTypeOK DEF IInv
  <1>1. ASSUME NEW n \in Name, NEW d \in Content,
               \/ Write(n, d)
               \/ RecordEncounter(n, d)
        PROVE  UploadHoldsAcked' /\ InFlightUnkept' /\ AckedFilesKept'
    BY <1>1, WriteKeeps DEF Write, RecordEncounter
  <1>2. ASSUME NEW n \in Name, NEW total \in 0 .. MaxChunked + 1,
               WriteStart(n, total)
        PROVE  UploadHoldsAcked' /\ InFlightUnkept' /\ AckedFilesKept'
    <2>1. total \in Nat
      BY StoreAssumption
    <2> QED
      BY <1>2, <2>1, WriteStartKeeps
  <1>3. ASSUME NEW n \in Name, WriteMeta(n)
        PROVE  UploadHoldsAcked' /\ InFlightUnkept' /\ AckedFilesKept'
    <2>1. store'.files = store.files /\ store'.chunk = store.chunk
      BY <1>3, MetaShape DEF WriteMeta, IInv, TypeOK
    <2> QED
      BY <1>3, <2>1 DEF IInv, WriteMeta, UploadHoldsAcked, InFlightUnkept,
                        InFlight, AckedFilesKept
  <1>4. CASE UNCHANGED vars
    BY <1>4 DEF vars, IInv, UploadHoldsAcked, InFlightUnkept, InFlight,
                AckedFilesKept
  <1>5. EncName \subseteq Name /\ Piece \subseteq Content
    BY ServiceAssumption
  <1> QED
    BY <1>1, <1>2, <1>3, <1>4, <1>5, WriteChunkKeeps, WriteEndKeeps,
       DeleteKeeps, RebootKeeps DEF Next

\* The inductive invariant of the file commands.
THEOREM Invariant == Spec => []IInv
  <1> QED
    BY InitIInv, NextIInv, PTL DEF Spec

\* Files the node has acknowledged are kept, whatever the commands, their
\* number, the names and the volume.
THEOREM FilesKept == Spec => []AckedFilesKept
  <1>1. IInv => AckedFilesKept
    BY DEF IInv
  <1> QED
    BY <1>1, Invariant, PTL

\* An open upload holds what was acknowledged, counted correctly.
THEOREM UploadsHold == Spec => []UploadHoldsAcked
  <1>1. IInv => UploadHoldsAcked
    BY DEF IInv
  <1> QED
    BY <1>1, Invariant, PTL

------------------------------------------------------------------------------
(* New content is advertised. *)

\* What NewContentIsAdvertised excludes, for one step and one file.
Silent(n) ==
    \/ store'.files[n] \in {store.files[n], NoFile, <<>>}
    \/ store.chunk.slot = n /\ store.chunk.name # n
    \/ reply' = "error"
    \/ version' # version

\* fs_chunked_abort brings no new content into a file, but into the one a
\* dangling handle points at.
LEMMA DiscardSilent ==
  ASSUME TypeOK, NEW n \in Name, store'.files[n] = Discarded(store).files[n]
  PROVE  Silent(n)
  BY DiscardedFiles DEF Silent, TypeOK

\* No command brings new content into a file that is no encounter record
\* without a bump, an error answer, or the upload's own handle.
LEMMA StepSilent ==
  ASSUME TypeOK, Next, NEW n \in Name \ EncName
  PROVE  Silent(n)
  <1> USE DEF TypeOK
  <1>1. Bumped # version
    BY BumpedType DEF Bumped
  <1>2. ASSUME NEW m \in Name, NEW d \in Piece, Write(m, d) PROVE Silent(n)
    <2>1. PICK r \in WriteResults(store, m, d) :
              /\ store' = r.st
              /\ reply' = Answer(r.ok)
              /\ version' = IF r.ok THEN Bumped ELSE version
      BY <1>2 DEF Write
    <2>2. r.ok \in BOOLEAN
      BY WriteType, ServiceAssumption
    <2> QED
      BY <1>1, <2>1, <2>2 DEF Silent, Answer
  <1>3. ASSUME NEW m \in Name, NEW total \in 0 .. MaxChunked + 1,
               WriteStart(m, total)
        PROVE  Silent(n)
    <2>0. total \in Nat
      BY StoreAssumption
    <2>1. PICK r \in StartResults(store, m, total) :
              store' = r.st /\ reply' = Answer(r.ok)
      BY <1>3 DEF WriteStart
    <2>2. CASE r.st = store
      BY <2>1, <2>2 DEF Silent
    <2>3. CASE r.st = Discarded(store)
      BY <2>1, <2>3, DiscardSilent DEF Silent
    <2>4. CASE r.st = Started(store, m, total)
      <3>1. \A x \in Name : Started(store, m, total).files[x] =
                IF x = m THEN <<>>
                ELSE IF store.chunk.active THEN Discarded(store).files[x]
                ELSE store.files[x]
        <4> HIDE DEF TypeOK
        <4> QED
          BY <2>0, StartedFiles DEF TypeOK
      <3>2. store'.files[n] =
              IF n = m THEN <<>>
              ELSE IF store.chunk.active THEN Discarded(store).files[n]
              ELSE store.files[n]
        <4> HIDE DEF TypeOK
        <4> QED
          BY <2>1, <2>4, <3>1
      <3> QED
        BY <3>2, DiscardSilent DEF Silent
    <2>5. \/ r.st = store \/ r.st = Discarded(store)
          \/ r.st = Started(store, m, total)
      BY <2>0, StartShape
    <2> QED
      BY <2>2, <2>3, <2>4, <2>5
  <1>4. ASSUME NEW d \in Piece, WriteChunk(d) PROVE Silent(n)
    <2>1. PICK r \in AppendResults(store, d) :
              store' = r.st /\ reply' = Answer(r.ok)
      BY <1>4 DEF WriteChunk
    <2>2. \/ r.st = store
          \/ r.st = Discarded(store)
          \/ r.st.files = store.files
      BY AppendFiles, ServiceAssumption
    <2> QED
      BY <2>1, <2>2, DiscardSilent DEF Silent
  <1>5. ASSUME NEW m \in Name, WriteEnd(m) PROVE Silent(n)
    BY <1>1, <1>5 DEF WriteEnd, Silent, Answer
  <1>6. ASSUME NEW m \in Name, Delete(m) PROVE Silent(n)
    BY <1>6, DeletedFiles DEF Delete, Silent
  <1>7. ASSUME NEW m \in Name, WriteMeta(m) PROVE Silent(n)
    BY <1>7, MetaShape DEF WriteMeta, Silent
  <1>8. ASSUME NEW m \in EncName, NEW d \in Piece, RecordEncounter(m, d)
        PROVE  Silent(n)
    BY <1>8, WriteFiles, ServiceAssumption DEF RecordEncounter, Silent
  <1>9. ASSUME Reboot PROVE Silent(n)
    BY <1>9, RebootFiles DEF Reboot, Silent
  <1> QED
    BY <1>2, <1>3, <1>4, <1>5, <1>6, <1>7, <1>8, <1>9 DEF Next

\* Content that peers could pull comes with a new manifest version.
THEOREM Advertised == Spec => NewContentIsAdvertised
  <1>1. TypeOK /\ [Next]_vars
        => [\A n \in Name \ EncName :
              (/\ store'.files[n] \notin {store.files[n], NoFile, <<>>}
               /\ store.chunk.slot = n => store.chunk.name = n
               /\ reply' # "error")
              => version' # version]_vars
    BY StepSilent DEF Silent
  <1> QED
    BY <1>1, TypeCorrect, PTL DEF Spec, NewContentIsAdvertised
==============================================================================
