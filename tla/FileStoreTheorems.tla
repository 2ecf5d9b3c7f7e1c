-------------------------- MODULE FileStoreTheorems --------------------------
(* The operations of FileStore return well-formed stores. *)
EXTENDS FileStore, FiniteSetTheorems, WellFoundedInduction, TLAPS

\* An idle upload slot is well formed.
LEMMA ChunkIdleType == ChunkIdle \in ChunkState
  <1>1. <<>> \in Content
    BY DEF Content
  <1> QED
    BY <1>1 DEF ChunkIdle, ChunkState, NoName

\* The beginning of a content is a content.
LEMMA PrefixType ==
  ASSUME NEW d \in Content, NEW k \in 0 .. Len(d)
  PROVE  SubSeq(d, 1, k) \in Content /\ Len(SubSeq(d, 1, k)) = k
  BY DEF Content

\* Appending keeps contents contents (fs_chunked_append).
LEMMA AppendContent ==
  ASSUME NEW c \in Content, NEW d \in Content
  PROVE  c \o d \in Content /\ Len(c \o d) = Len(c) + Len(d)
  BY DEF Content

\* f_sync keeps the store well formed.
LEMMA SyncedType ==
  ASSUME NEW st \in Store
  PROVE  Synced(st) \in Store
  BY DEF Synced, Store, ChunkState

\* f_unlink keeps the store well formed.
LEMMA UnlinkedType ==
  ASSUME NEW st \in Store, NEW n \in Name \cup {NoName}
  PROVE  Unlinked(st, n) \in Store
  BY DEF Unlinked, Store, ChunkState, NoName

\* fs_chunked_abort keeps the store well formed.
LEMMA DiscardedType ==
  ASSUME NEW st \in Store
  PROVE  Discarded(st) \in Store
  <1>1. Synced(st) \in Store
    BY SyncedType
  <1>2. st.chunk.name \in Name \cup {NoName}
    BY DEF Store, ChunkState
  <1>3. Unlinked(Synced(st), st.chunk.name) \in Store
    BY <1>1, <1>2, UnlinkedType
  <1> QED
    BY <1>3, ChunkIdleType DEF Discarded, Store

\* fs_chunked_abort(n) keeps the store well formed.
LEMMA AbortedType ==
  ASSUME NEW st \in Store, NEW n
  PROVE  Aborted(st, n) \in Store
  BY DiscardedType DEF Aborted

\* fs_chunked_start keeps the store well formed.
LEMMA StartedType ==
  ASSUME NEW st \in Store, NEW n \in Name, NEW total \in Nat
  PROVE  Started(st, n, total) \in Store
  <1> DEFINE base == IF st.chunk.active THEN Discarded(st) ELSE st
  <1> DEFINE upload == [active |-> TRUE, name |-> n, slot |-> n,
                        expected |-> total, written |-> 0, data |-> <<>>]
  <1>1. base \in Store
    BY DiscardedType
  <1>2. <<>> \in Content
    BY DEF Content
  <1>3. upload \in ChunkState
    BY <1>2 DEF ChunkState
  <1>4. [base EXCEPT !.files[n] = <<>>, !.chunk = upload] \in Store
    BY <1>1, <1>2, <1>3 DEF Store
  <1> QED
    BY <1>4 DEF Started, Cleared

\* fs_chunked_start succeeds, or leaves the store as it is, or without the
\* stale upload.
LEMMA StartShape ==
  ASSUME NEW st \in Store, NEW n \in Name, NEW total \in Nat,
         NEW r \in StartResults(st, n, total)
  PROVE  \/ r = [st |-> Started(st, n, total), ok |-> TRUE]
         \/ r = [st |-> st, ok |-> FALSE]
         \/ st.chunk.active /\ r = [st |-> Discarded(st), ok |-> FALSE]
  BY DEF StartResults, Cleared

\* fs_chunked_append keeps the store well formed.
LEMMA AppendType ==
  ASSUME NEW st \in Store, NEW d \in Content, NEW r \in AppendResults(st, d)
  PROVE  r.st \in Store /\ r.ok \in BOOLEAN
  <1>1. CASE r = [st |-> st, ok |-> FALSE]
    BY <1>1
  <1>2. CASE r = [st |-> Discarded(st), ok |-> FALSE]
    BY <1>2, DiscardedType
  <1>3. CASE r = [st |-> [st EXCEPT !.chunk.data = @ \o d,
                                    !.chunk.written = @ + Len(d)],
                  ok |-> TRUE]
    <2> DEFINE c == [st.chunk EXCEPT !.data = @ \o d, !.written = @ + Len(d)]
    <2>1. /\ Len(d) \in Nat
          /\ st.chunk \in ChunkState
          /\ st.chunk.data \in Content
          /\ st.chunk.written \in Nat
      BY DEF Content, Store, ChunkState
    <2>2. /\ st.chunk.data \o d \in Content
          /\ st.chunk.written + Len(d) \in Nat
      BY <2>1, AppendContent
    <2>3. c \in ChunkState
      BY <2>1, <2>2 DEF ChunkState
    <2>4. r.st = [st EXCEPT !.chunk = c] /\ r.ok = TRUE
      BY <1>3 DEF Store, ChunkState
    <2> QED
      BY <2>3, <2>4 DEF Store
  <1>4. CASE \E k \in 0 .. Len(d) - 1 :
               r = [st |-> [st EXCEPT !.chunk.data = @ \o SubSeq(d, 1, k)],
                    ok |-> FALSE]
    <2>1. PICK k \in 0 .. Len(d) - 1 :
               r = [st |-> [st EXCEPT !.chunk.data = @ \o SubSeq(d, 1, k)],
                    ok |-> FALSE]
      BY <1>4
    <2>2. SubSeq(d, 1, k) \in Content
      BY PrefixType DEF Content
    <2> QED
      BY <2>1, <2>2, AppendContent DEF Store, ChunkState
  <1> QED
    BY <1>1, <1>2, <1>3, <1>4 DEF AppendResults

\* fs_chunked_finish keeps the store well formed.
LEMMA FinishedType ==
  ASSUME NEW st \in Store, NEW n
  PROVE  Finished(st, n) \in Store
  <1>1. Synced(st) \in Store
    BY SyncedType
  <1>2. [Synced(st) EXCEPT !.chunk = ChunkIdle] \in Store
    BY <1>1, ChunkIdleType DEF Store
  <1> QED
    BY <1>2, AbortedType DEF Finished

\* What the result r of an fs_write that opened its file looks like.
Stored(st, n, d, r) ==
    \E k \in 0 .. Len(d), s \in SlotsAfterCreate(st, n) :
        /\ r.st = [st EXCEPT !.files[n] = SubSeq(d, 1, k), !.chunk.slot = s]
        /\ r.ok = (k = Len(d))

\* fs_write stores the beginning of its data, all of it when it succeeds,
\* unless f_open fails.
LEMMA WriteShape ==
  ASSUME NEW st \in Store, NEW n \in Name, NEW d \in Content,
         NEW r \in WriteResults(st, n, d)
  PROVE  Stored(st, n, d, r) \/ r = [st |-> st, ok |-> FALSE]
  <1> DEFINE lengths ==
        IF Fits([st EXCEPT !.files[n] = NoFile], d)
        THEN {Len(d)} ELSE 0 .. Len(d) - 1
  <1> DEFINE Result(k, s) ==
        [st |-> [st EXCEPT !.files[n] = SubSeq(d, 1, k), !.chunk.slot = s],
         ok |-> k = Len(d)]
  <1>1. lengths \subseteq 0 .. Len(d)
    BY DEF Content
  <1>2. \/ r \in {Result(p[1], p[2]) : p \in lengths \X SlotsAfterCreate(st, n)}
        \/ r = [st |-> st, ok |-> FALSE]
    <2> DEFINE written == {Result(p[1], p[2]) :
                              p \in lengths \X SlotsAfterCreate(st, n)}
    <2>1. \/ r \in written
          \/ r \in (IF Exists(st, n) THEN {} ELSE {[st |-> st, ok |-> FALSE]})
      BY DEF WriteResults
    <2> HIDE DEF written
    <2>2. r \in written \/ r \in {[st |-> st, ok |-> FALSE]}
      BY <2>1
    <2> QED
      BY <2>2 DEF written
  <1> SUFFICES ASSUME r # [st |-> st, ok |-> FALSE]
               PROVE  Stored(st, n, d, r)
    OBVIOUS
  <1>3. PICK p \in lengths \X SlotsAfterCreate(st, n) : r = Result(p[1], p[2])
    <2> HIDE DEF Result, lengths
    <2> QED
      BY <1>2
  <1>4. p[1] \in lengths /\ p[2] \in SlotsAfterCreate(st, n)
    BY <1>3
  <1>5. p[1] \in 0 .. Len(d)
    BY <1>1, <1>4
  <1>6. /\ r.st = [st EXCEPT !.files[n] = SubSeq(d, 1, p[1]),
                             !.chunk.slot = p[2]]
        /\ r.ok = (p[1] = Len(d))
    BY <1>3
  <1> QED
    BY <1>4, <1>5, <1>6 DEF Stored

\* An upload's slot after a file has been created is a name or none.
LEMMA SlotsType ==
  ASSUME NEW st \in Store, NEW n \in Name, NEW s \in SlotsAfterCreate(st, n)
  PROVE  s \in {st.chunk.slot, NoName, n} /\ s \in Name \cup {NoName}
  BY DEF SlotsAfterCreate, Store, ChunkState

\* fs_write keeps the store well formed.
LEMMA WriteType ==
  ASSUME NEW st \in Store, NEW n \in Name, NEW d \in Content,
         NEW r \in WriteResults(st, n, d)
  PROVE  r.st \in Store /\ r.ok \in BOOLEAN
  <1>1. CASE r = [st |-> st, ok |-> FALSE]
    BY <1>1
  <1>2. CASE Stored(st, n, d, r)
    <2>1. PICK k \in 0 .. Len(d), s \in SlotsAfterCreate(st, n) :
              /\ r.st = [st EXCEPT !.files[n] = SubSeq(d, 1, k), !.chunk.slot = s]
              /\ r.ok = (k = Len(d))
      BY <1>2 DEF Stored
    <2>2. SubSeq(d, 1, k) \in Content
      BY PrefixType
    <2>3. [st.files EXCEPT ![n] = SubSeq(d, 1, k)]
              \in [Name -> Content \cup {NoFile}]
      BY <2>2 DEF Store
    <2>4. [st.chunk EXCEPT !.slot = s] \in ChunkState
      BY SlotsType DEF Store, ChunkState
    <2>5. r.st = [st EXCEPT !.files = [st.files EXCEPT ![n] = SubSeq(d, 1, k)],
                            !.chunk = [st.chunk EXCEPT !.slot = s]]
      BY <2>1 DEF Store, ChunkState
    <2> QED
      BY <2>1, <2>3, <2>4, <2>5 DEF Store
  <1> QED
    BY <1>1, <1>2, WriteShape

\* fs_delete keeps the store well formed.
LEMMA DeletedType ==
  ASSUME NEW st \in Store, NEW n \in Name
  PROVE  Deleted(st, n) \in Store
  BY UnlinkedType DEF Deleted, Store

\* fs_write_meta keeps the store well formed.
LEMMA WithMetaType ==
  ASSUME NEW st \in Store, NEW n
  PROVE  WithMeta(st, n) \in Store
  BY DEF WithMeta, Store

\* Whatever comes of it, it touches neither the files nor the upload.
LEMMA MetaShape ==
  ASSUME NEW st \in Store, NEW n, NEW r \in MetaResults(st, n)
  PROVE  /\ r.st \in Store /\ r.ok \in BOOLEAN
         /\ r.st.files = st.files /\ r.st.chunk = st.chunk
  <1>0. \/ r = [st |-> WithMeta(st, n), ok |-> TRUE]
        \/ r = [st |-> st, ok |-> FALSE]
        \/ r = [st |-> WithMeta(st, n), ok |-> FALSE]
    BY DEF MetaResults
  <1>1. r.st \in {st, WithMeta(st, n)} /\ r.ok \in BOOLEAN
    <2>1. CASE r = [st |-> WithMeta(st, n), ok |-> TRUE]
      BY <2>1
    <2>2. CASE r = [st |-> st, ok |-> FALSE]
      BY <2>2
    <2>3. CASE r = [st |-> WithMeta(st, n), ok |-> FALSE]
      BY <2>3
    <2> QED
      BY <1>0, <2>1, <2>2, <2>3
  <1>2. WithMeta(st, n).files = st.files /\ WithMeta(st, n).chunk = st.chunk
    BY DEF WithMeta, Store
  <1> QED
    BY <1>1, <1>2, WithMetaType

\* A reboot leaves a well-formed store.
LEMMA RebootType ==
  ASSUME NEW st \in Store, NEW next \in RebootResults(st)
  PROVE  next \in Store
  <1> DEFINE kept == [st EXCEPT !.chunk = ChunkIdle]
  <1>1. kept \in Store
    BY ChunkIdleType DEF Store
  <1>2. ASSUME NEW n \in Name
        PROVE  [kept EXCEPT !.files[n] = NoFile] \in Store
    BY <1>1 DEF Store
  <1>3. CASE next = kept
    BY <1>1, <1>3
  <1>4. CASE \E n \in Name : next = [kept EXCEPT !.files[n] = NoFile]
    BY <1>2, <1>4
  <1> QED
    BY <1>3, <1>4 DEF RebootResults

------------------------------------------------------------------------------
(* What the operations do to the files. *)

\* f_sync gives the upload's directory entry its data.
LEMMA SyncedFiles ==
  ASSUME NEW st \in Store
  PROVE  /\ Synced(st).chunk = st.chunk
         /\ Synced(st).meta = st.meta
         /\ \A m \in Name : Synced(st).files[m] =
                IF m = st.chunk.slot THEN st.chunk.data ELSE st.files[m]
  <1>1. NoName \notin Name
    BY DEF NoName, Name
  <1>2. st.chunk.slot \in Name \cup {NoName}
    BY DEF Store, ChunkState
  <1>3. CASE st.chunk.slot = NoName
    BY <1>1, <1>3 DEF Synced
  <1>4. CASE st.chunk.slot # NoName
    BY <1>2, <1>4 DEF Synced, Store
  <1> QED
    BY <1>3, <1>4

\* fs_chunked_abort disturbs no file but the upload's own, and the one its
\* handle points at.
LEMMA DiscardedFiles ==
  ASSUME NEW st \in Store
  PROVE  /\ Discarded(st).chunk = ChunkIdle
         /\ Discarded(st).meta = st.meta
         /\ \A m \in Name : Discarded(st).files[m] =
                IF m = st.chunk.name THEN NoFile
                ELSE IF m = st.chunk.slot THEN st.chunk.data
                ELSE st.files[m]
  <1> DEFINE base == Synced(st)
  <1>1. base \in Store /\ base.meta = st.meta /\ base.chunk = st.chunk
    BY SyncedType DEF Synced, Store
  <1>2. \A m \in Name : base.files[m] =
            IF m = st.chunk.slot THEN st.chunk.data ELSE st.files[m]
    BY SyncedFiles
  <1>3. /\ Unlinked(base, st.chunk.name).meta = base.meta
        /\ \A m \in Name : Unlinked(base, st.chunk.name).files[m] =
              IF m = st.chunk.name THEN NoFile ELSE base.files[m]
        /\ Unlinked(base, st.chunk.name) \in Store
    <2>1. st.chunk.name \in Name \cup {NoName}
      BY DEF Store, ChunkState
    <2>2. Unlinked(base, st.chunk.name) \in Store
      BY <1>1, <2>1, UnlinkedType
    <2> HIDE DEF base
    <2> QED
      BY <1>1, <2>2 DEF Unlinked, Store
  <1> HIDE DEF base
  <1>4. Discarded(st) = [Unlinked(base, st.chunk.name) EXCEPT !.chunk = ChunkIdle]
    BY DEF Discarded, base
  <1> QED
    BY <1>1, <1>2, <1>3, <1>4 DEF Store

\* fs_chunked_start truncates the file and opens the slot for it; of the
\* other files it disturbs those of a stale upload.
LEMMA StartedFiles ==
  ASSUME NEW st \in Store, NEW n \in Name, NEW total \in Nat
  PROVE  /\ Started(st, n, total).chunk =
                [active |-> TRUE, name |-> n, slot |-> n,
                 expected |-> total, written |-> 0, data |-> <<>>]
         /\ Started(st, n, total).meta = st.meta
         /\ \A m \in Name : Started(st, n, total).files[m] =
                IF m = n THEN <<>>
                ELSE IF st.chunk.active THEN Discarded(st).files[m]
                ELSE st.files[m]
  <1>1. Discarded(st) \in Store
    BY DiscardedType
  <1>2. Discarded(st).meta = st.meta
    BY DiscardedFiles
  <1> QED
    BY <1>1, <1>2 DEF Started, Cleared, Store

\* A finish that succeeds disturbs no file but the one the handle points at,
\* which gets the data; it frees the slot.
LEMMA FinishedFiles ==
  ASSUME NEW st \in Store, NEW n \in Name, Finishable(st, n)
  PROVE  /\ Finished(st, n).chunk = ChunkIdle
         /\ Finished(st, n).meta = st.meta
         /\ \A m \in Name : Finished(st, n).files[m] =
                IF m = st.chunk.slot THEN st.chunk.data ELSE st.files[m]
  <1>1. Synced(st) \in Store
    BY SyncedType
  <1>2. Finished(st, n) = [Synced(st) EXCEPT !.chunk = ChunkIdle]
    BY DEF Finished
  <1> QED
    BY <1>1, <1>2, SyncedFiles DEF Store

\* What the chunk state keeps but for its data, and its count.
SameUpload(old, new) ==
    /\ new.active = old.active
    /\ new.name = old.name
    /\ new.slot = old.slot
    /\ new.expected = old.expected

\* fs_chunked_append touches no directory entry, unless it aborts the upload;
\* it counts all of the data, or none and leaves the beginning of it behind.
LEMMA AppendFiles ==
  ASSUME NEW st \in Store, NEW d \in Content, NEW r \in AppendResults(st, d)
  PROVE  \/ /\ ~st.chunk.active
            /\ r.st = st
            /\ ~r.ok
         \/ /\ st.chunk.active
            /\ r.st = Discarded(st)
            /\ ~r.ok
         \/ /\ st.chunk.active
            /\ st.chunk.written + Len(d) <= st.chunk.expected
            /\ r.st.files = st.files
            /\ r.st.meta = st.meta
            /\ SameUpload(st.chunk, r.st.chunk)
            /\ r.st.chunk.data = st.chunk.data \o d
            /\ r.st.chunk.written = st.chunk.written + Len(d)
            /\ r.ok
         \/ /\ st.chunk.active
            /\ ~Fits(st, d)
            /\ r.st.files = st.files
            /\ r.st.meta = st.meta
            /\ SameUpload(st.chunk, r.st.chunk)
            /\ r.st.chunk.written = st.chunk.written
            /\ ~r.ok
  <1>1. Len(d) \in Nat
    BY DEF Content
  <1>2. /\ st.chunk.written \in Nat
        /\ st.chunk.expected \in Nat
    BY DEF Store, ChunkState
  <1>3. CASE ~st.chunk.active
    BY <1>3 DEF AppendResults
  <1>4. CASE st.chunk.active /\ st.chunk.written + Len(d) > st.chunk.expected
    BY <1>4 DEF AppendResults
  <1>5. CASE /\ st.chunk.active
             /\ ~(st.chunk.written + Len(d) > st.chunk.expected)
             /\ Fits(st, d)
    <2>1. r = [st |-> [st EXCEPT !.chunk.data = @ \o d,
                                 !.chunk.written = @ + Len(d)],
               ok |-> TRUE]
      BY <1>5 DEF AppendResults
    <2>2. /\ r.st.files = st.files
          /\ r.st.meta = st.meta
          /\ SameUpload(st.chunk, r.st.chunk)
          /\ r.st.chunk.data = st.chunk.data \o d
          /\ r.st.chunk.written = st.chunk.written + Len(d)
      BY <2>1 DEF Store, ChunkState, SameUpload
    <2>3. st.chunk.written + Len(d) <= st.chunk.expected
      BY <1>1, <1>2, <1>5
    <2>4. r.ok
      BY <2>1
    <2> QED
      BY <1>5, <2>2, <2>3, <2>4
  <1>6. CASE /\ st.chunk.active
             /\ ~(st.chunk.written + Len(d) > st.chunk.expected)
             /\ ~Fits(st, d)
    <2>1. PICK k \in 0 .. Len(d) - 1 :
            r = [st |-> [st EXCEPT !.chunk.data = @ \o SubSeq(d, 1, k)],
                 ok |-> FALSE]
      BY <1>6 DEF AppendResults
    <2>2. /\ r.st.files = st.files
          /\ r.st.meta = st.meta
          /\ SameUpload(st.chunk, r.st.chunk)
          /\ r.st.chunk.written = st.chunk.written
      BY <2>1 DEF Store, ChunkState, SameUpload
    <2>3. ~r.ok
      BY <2>1
    <2> QED
      BY <1>6, <2>2, <2>3
  <1> QED
    BY <1>3, <1>4, <1>5, <1>6

\* A reboot idles the slot and can lose the entry of an upload without data.
LEMMA RebootFiles ==
  ASSUME NEW st \in Store, NEW next \in RebootResults(st)
  PROVE  /\ next.chunk = ChunkIdle
         /\ next.meta = st.meta
         /\ \A m \in Name :
               \/ next.files[m] = st.files[m]
               \/ /\ next.files[m] = NoFile
                  /\ st.chunk.active
                  /\ m = st.chunk.slot
                  /\ st.files[m] = <<>>
                  /\ st.chunk.data = <<>>
  BY DEF RebootResults, Store

\* f_unlink removes one file; a handle that pointed at it points nowhere.
LEMMA DeletedFiles ==
  ASSUME NEW st \in Store, NEW n \in Name
  PROVE  /\ Deleted(st, n).chunk.slot =
               IF st.chunk.slot = n THEN NoName ELSE st.chunk.slot
         /\ Deleted(st, n).chunk.active = st.chunk.active
         /\ Deleted(st, n).chunk.name = st.chunk.name
         /\ Deleted(st, n).chunk.expected = st.chunk.expected
         /\ Deleted(st, n).chunk.written = st.chunk.written
         /\ Deleted(st, n).chunk.data = st.chunk.data
         /\ \A m \in Name : Deleted(st, n).files[m] =
                IF m = n THEN NoFile ELSE st.files[m]
  BY DEF Deleted, Unlinked, Store, ChunkState

\* fs_write changes one file, and the open upload at most in its slot.
LEMMA WriteFiles ==
  ASSUME NEW st \in Store, NEW n \in Name, NEW d \in Content,
         NEW r \in WriteResults(st, n, d)
  PROVE  /\ r.ok => r.st.files[n] = d
         /\ \A m \in Name : m # n => r.st.files[m] = st.files[m]
         /\ r.st.chunk.slot \in {st.chunk.slot, NoName, n}
         /\ r.st.chunk.active = st.chunk.active
         /\ r.st.chunk.name = st.chunk.name
         /\ r.st.chunk.expected = st.chunk.expected
         /\ r.st.chunk.written = st.chunk.written
         /\ r.st.chunk.data = st.chunk.data
  <1>1. CASE r = [st |-> st, ok |-> FALSE]
    BY <1>1
  <1>2. CASE Stored(st, n, d, r)
    <2>1. PICK k \in 0 .. Len(d), s \in SlotsAfterCreate(st, n) :
              /\ r.st = [st EXCEPT !.files[n] = SubSeq(d, 1, k), !.chunk.slot = s]
              /\ r.ok = (k = Len(d))
      BY <1>2 DEF Stored
    <2>2. s \in {st.chunk.slot, NoName, n}
      BY SlotsType
    <2>3. SubSeq(d, 1, Len(d)) = d
      BY DEF Content
    <2>4. r.st.files[n] = SubSeq(d, 1, k)
      BY <2>1 DEF Store
    <2>5. \A m \in Name : m # n => r.st.files[m] = st.files[m]
      BY <2>1 DEF Store
    <2>6. /\ r.st.chunk.slot = s
          /\ r.st.chunk.active = st.chunk.active
          /\ r.st.chunk.name = st.chunk.name
          /\ r.st.chunk.expected = st.chunk.expected
          /\ r.st.chunk.written = st.chunk.written
          /\ r.st.chunk.data = st.chunk.data
      BY <2>1 DEF Store, ChunkState
    <2> QED
      BY <2>1, <2>2, <2>3, <2>4, <2>5, <2>6
  <1> QED
    BY <1>1, <1>2, WriteShape

------------------------------------------------------------------------------
(* The sum of the sizes. *)

\* A set of natural numbers has a least member.
LEMMA LeastNat ==
  ASSUME NEW T, T \subseteq Nat, T # {}
  PROVE  \E x \in T : \A y \in T : x <= y
  <1>1. PICK x \in T : \A y \in T : ~ (<<y, x>> \in OpToRel(<, Nat))
    BY NatLessThanWellFounded, WFMin
  <1>2. ASSUME NEW y \in T PROVE ~(y < x)
    BY <1>1 DEF OpToRel
  <1>3. ASSUME NEW y \in T PROVE x <= y
    <2>1. x \in Nat /\ y \in Nat
      OBVIOUS
    <2>2. ~(y < x)
      BY <1>2
    <2> QED
      BY <2>1, <2>2
  <1> QED
    BY <1>3

\* One step of a sum.
Part(f, h, s) == IF s = {} THEN 0
                 ELSE LET x == CHOOSE x \in s : TRUE IN f[x] + h[s \ {x}]

Parts(f, S) == CHOOSE h : h = [s \in SUBSET S |-> Part(f, h, s)]

LEMMA SumOfParts ==
  ASSUME NEW f, NEW S
  PROVE  SumFunctionOnSet(f, S) = Parts(f, S)[S]
  BY DEF SumFunctionOnSet, FoldFunctionOnSet, MapThenFoldSet, Parts, Part

LEMMA PartsExist ==
  ASSUME NEW f, NEW S, IsFiniteSet(S)
  PROVE  \A s \in SUBSET S : Parts(f, S)[s] = Part(f, Parts(f, S), s)
  <1> DEFINE Good(h, k) == /\ h = [s \in SUBSET S |-> h[s]]
                           /\ \A s \in SUBSET S :
                                 Cardinality(s) <= k => h[s] = Part(f, h, s)
             Never == {k \in Nat : ~\E h : Good(h, k)}
  <1>1. \A s \in SUBSET S : IsFiniteSet(s) /\ Cardinality(s) \in Nat
    BY FS_Subset, FS_CardinalityType
  <1>2. \E h : Good(h, 0)
    <2> DEFINE z == [s \in SUBSET S |-> 0]
    <2>1. ASSUME NEW s \in SUBSET S, Cardinality(s) <= 0
          PROVE  z[s] = Part(f, z, s)
      <3>1. s = {}
        BY <1>1, <2>1, FS_EmptySet
      <3> QED
        BY <3>1 DEF Part
    <2>2. Good(z, 0)
      BY <2>1
    <2> QED
      BY <2>2
  <1>3. ASSUME NEW k \in Nat, NEW h, Good(h, k)
        PROVE  \E g : Good(g, k + 1)
    <2> DEFINE g == [s \in SUBSET S |->
                       IF Cardinality(s) <= k THEN h[s] ELSE Part(f, h, s)]
    <2>1. ASSUME NEW s \in SUBSET S, Cardinality(s) <= k + 1
          PROVE  g[s] = Part(f, h, s)
      BY <1>3, <2>1
    <2>2. ASSUME NEW s \in SUBSET S, Cardinality(s) <= k + 1, s # {}
          PROVE  g[s \ {CHOOSE x \in s : TRUE}] = h[s \ {CHOOSE x \in s : TRUE}]
      <3> DEFINE x == CHOOSE x \in s : TRUE
      <3>1. x \in s
        BY <2>2
      <3> HIDE DEF x
      <3>2. Cardinality(s \ {x}) = Cardinality(s) - 1
        BY <1>1, <3>1, FS_RemoveElement
      <3>3. s \ {x} \in SUBSET S /\ Cardinality(s \ {x}) <= k
        BY <1>1, <2>2, <3>2
      <3>4. g[s \ {x}] = h[s \ {x}]
        BY <3>3
      <3> QED
        BY <3>4 DEF x
    <2>3. g = [s \in SUBSET S |-> g[s]]
      OBVIOUS
    <2> HIDE DEF g
    <2>4. ASSUME NEW s \in SUBSET S, Cardinality(s) <= k + 1
          PROVE  g[s] = Part(f, g, s)
      <3>1. g[s] = Part(f, h, s)
        BY <2>1, <2>4
      <3>2. Part(f, h, s) = Part(f, g, s)
        BY <2>2, <2>4 DEF Part
      <3> QED
        BY <3>1, <3>2
    <2> QED
      BY <2>3, <2>4
  <1>4. Never = {}
    <2> SUFFICES ASSUME Never # {}
                 PROVE  FALSE
      OBVIOUS
    <2>1. PICK k \in Never : \A m \in Never : k <= m
      BY LeastNat
    <2>2. k # 0
      BY <1>2, <2>1
    <2>3. k - 1 \in Nat /\ k - 1 \notin Never /\ (k - 1) + 1 = k
      <3>1. k \in Nat
        OBVIOUS
      <3> HIDE DEF Never
      <3> QED
        BY <2>1, <2>2, <3>1
    <2>4. PICK h : Good(h, k - 1)
      BY <2>3
    <2> HIDE DEF Good
    <2>5. \E g : Good(g, (k - 1) + 1)
      BY <1>3, <2>3, <2>4
    <2> QED
      BY <2>1, <2>3, <2>5
  <1>5. PICK h : Good(h, Cardinality(S))
    BY <1>1, <1>4
  <1>6. \A s \in SUBSET S : Cardinality(s) <= Cardinality(S)
    BY FS_Subset
  <1>7. h = [s \in SUBSET S |-> Part(f, h, s)]
    BY <1>5, <1>6
  <1>8. Parts(f, S) = [s \in SUBSET S |-> Part(f, Parts(f, S), s)]
    BY <1>7 DEF Parts
  <1> QED
    BY <1>8

\* A sum changes by what one of its terms changes.
LEMMA SumChanges ==
  ASSUME NEW S, IsFiniteSet(S), NEW f \in [S -> Nat], NEW g \in [S -> Nat],
         NEW a \in S, \A x \in S \ {a} : g[x] = f[x]
  PROVE  /\ SumFunctionOnSet(f, S) \in Nat
         /\ SumFunctionOnSet(g, S) = SumFunctionOnSet(f, S) - f[a] + g[a]
  <1> DEFINE F == Parts(f, S)
             G == Parts(g, S)
             Right(s) == /\ F[s] \in Nat
                         /\ a \in s => G[s] = F[s] - f[a] + g[a]
                         /\ a \notin s => G[s] = F[s]
             Wrong == {s \in SUBSET S : ~Right(s)}
             Sizes == {Cardinality(s) : s \in Wrong}
  <1>1. \A s \in SUBSET S : IsFiniteSet(s) /\ Cardinality(s) \in Nat
    BY FS_Subset, FS_CardinalityType
  <1>2. \A s \in SUBSET S : F[s] = Part(f, F, s) /\ G[s] = Part(g, G, s)
    BY PartsExist
  <1> HIDE DEF F, G
  <1>3. Wrong = {}
    <2> SUFFICES ASSUME Wrong # {}
                 PROVE  FALSE
      OBVIOUS
    <2>1. Sizes \subseteq Nat /\ Sizes # {}
      BY <1>1
    <2>2. PICK k \in Sizes : \A m \in Sizes : k <= m
      <3> HIDE DEF Sizes
      <3> QED
        BY <2>1, LeastNat
    <2>3. PICK s \in Wrong : \A t \in Wrong : Cardinality(s) <= Cardinality(t)
      BY <2>2
    <2>4. s \in SUBSET S /\ ~Right(s)
      OBVIOUS
    <2>5. CASE s = {}
      <3>1. F[s] = 0 /\ G[s] = 0
        BY <1>2, <2>4, <2>5 DEF Part
      <3> QED
        BY <2>4, <2>5, <3>1
    <2>6. CASE s # {}
      <3> DEFINE x == CHOOSE x \in s : TRUE
                 r == s \ {x}
      <3>1. x \in s
        BY <2>6
      <3>2. F[s] = f[x] + F[r] /\ G[s] = g[x] + G[r]
        BY <1>2, <2>4, <2>6 DEF Part
      <3> HIDE DEF x
      <3>3. Cardinality(r) = Cardinality(s) - 1
        BY <1>1, <2>4, <3>1, FS_RemoveElement
      <3>4. r \in SUBSET S /\ ~(Cardinality(s) <= Cardinality(r))
        BY <1>1, <2>4, <3>3
      <3>5. Right(r)
        BY <2>3, <3>4
      <3>6. f[x] \in Nat /\ g[x] \in Nat /\ f[a] \in Nat /\ g[a] \in Nat
        BY <2>4, <3>1
      <3>7. CASE x = a
        <4>1. F[r] \in Nat /\ G[r] = F[r] /\ a \in s
          BY <3>1, <3>5, <3>7
        <4> QED
          BY <2>4, <3>2, <3>6, <3>7, <4>1
      <3>8. CASE x # a
        <4>1. g[x] = f[x] /\ (a \in r <=> a \in s)
          BY <2>4, <3>1, <3>8
        <4> QED
          BY <2>4, <3>2, <3>5, <3>6, <4>1
      <3> QED
        BY <3>7, <3>8
    <2> QED
      BY <2>5, <2>6
  <1>4. Right(S)
    BY <1>3
  <1> QED
    BY <1>4, SumOfParts DEF F, G
==============================================================================
