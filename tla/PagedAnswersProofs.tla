-------------------------- MODULE PagedAnswersProofs --------------------------
(***************************************************************************)
(* The rings of PagedAnswers hold the latest blobs, for every capacity and *)
(* every set of blobs.  One lemma carries it: what a walk visits after a   *)
(* write is what it visited before without the oldest, and the new blob.   *)
(* It needs that a ring which is not full has been filled from slot 0.     *)
(*                                                                         *)
(* A walk of a listing that does not change returns it, and one of a       *)
(* listing to which entries only come skips none, for every page size.     *)
(* The invariant says how far a walk has got of the listing as it is now.  *)
(***************************************************************************)
EXTENDS PagedAnswers, SequenceTheorems, FiniteSetTheorems,
        WellFoundedInduction, TLAPS

IInv ==
    /\ RingTypeOK
    /\ \A r \in RingName : WellFilled(ring[r])
    /\ \A r \in RingName : disk[r] # Torn => WellFilled(disk[r])

------------------------------------------------------------------------------
(* One ring. *)

\* Going round stays among the slots.
LEMMA WrappedInSlot ==
  ASSUME NEW k \in 0 .. 2 * RingCap - 1
  PROVE  Wrapped(k) \in Slot
  BY RingAssumption DEF Wrapped, Slot

\* An empty ring has its type, nothing in it, and is not a torn file.
LEMMA BlankShape ==
  /\ Blank \in RingState
  /\ WellFilled(Blank)
  /\ Contents(Blank) = <<>>
  /\ Blank # Torn
  <1>1. Blank \in RingState
    BY RingAssumption DEF Blank, RingState, Slot
  <1>2. WellFilled(Blank)
    BY RingAssumption DEF Blank, WellFilled, Slot
  <1>3. Contents(Blank) = <<>>
    BY DEF Contents, Blank
  <1>4. Blank # Torn
    BY RingAssumption DEF Blank, Torn
  <1> QED
    BY <1>1, <1>2, <1>3, <1>4

\* No ring is a torn file.
LEMMA RingNotTorn ==
  ASSUME NEW g \in RingState
  PROVE  g # Torn
  BY RingAssumption DEF RingState, Torn, Blank

\* A walk visits as many blobs as the ring has.
LEMMA ContentsShape ==
  ASSUME NEW g \in RingState, WellFilled(g)
  PROVE  /\ Contents(g) \in Seq(Blob)
         /\ Len(Contents(g)) = g.used
         /\ \A k \in 1 .. g.used :
               Contents(g)[k] = g.slots[Wrapped(Start(g) + k - 1)]
  <1>1. /\ g.used \in 0 .. RingCap /\ g.next \in 0 .. RingCap - 1
        /\ RingCap \in Nat \ {0}
    BY RingAssumption DEF RingState, Slot
  <1>2. ASSUME NEW k \in 1 .. g.used
        PROVE  g.slots[Wrapped(Start(g) + k - 1)] \in Blob
    <2>1. CASE g.used < RingCap
      <3>1. Wrapped(Start(g) + k - 1) = k - 1
        BY <1>1, <2>1 DEF Wrapped, Start
      <3>2. k - 1 \in Slot /\ k - 1 < g.used
        BY <1>1 DEF Slot
      <3> QED
        BY <3>1, <3>2 DEF WellFilled
    <2>2. CASE ~(g.used < RingCap)
      <3>1. Wrapped(Start(g) + k - 1) \in Slot
        BY <1>1, <2>2 DEF Wrapped, Start, Slot
      <3>2. \A i \in Slot : i < g.used
        BY <1>1, <2>2 DEF Slot
      <3> QED
        BY <3>1, <3>2 DEF WellFilled
    <2> QED
      BY <2>1, <2>2
  <1> QED
    BY <1>1, <1>2 DEF Contents

\* A write keeps a ring well filled.
LEMMA WrittenShape ==
  ASSUME NEW g \in RingState, WellFilled(g), NEW b \in Blob
  PROVE  /\ Written(g, b) \in RingState
         /\ WellFilled(Written(g, b))
  <1>1. /\ g.used \in 0 .. RingCap /\ g.next \in Slot
        /\ g.slots \in [Slot -> Blob \cup {NoBlob}]
        /\ RingCap \in Nat \ {0}
    BY RingAssumption DEF RingState
  <1>2. /\ Written(g, b).slots = [g.slots EXCEPT ![g.next] = b]
        /\ Written(g, b).next = Wrapped(g.next + 1)
        /\ Written(g, b).used =
              (IF g.used < RingCap THEN g.used + 1 ELSE g.used)
    BY DEF Written
  <1>3. Wrapped(g.next + 1) \in Slot
    BY <1>1 DEF Wrapped, Slot
  <1>4. Written(g, b) \in RingState
    BY <1>1, <1>3 DEF Written, RingState
  <1>5. ASSUME Written(g, b).used < RingCap
        PROVE  Written(g, b).next = Written(g, b).used
    BY <1>1, <1>2, <1>5 DEF WellFilled, Wrapped
  <1>6. ASSUME NEW i \in Slot, i < Written(g, b).used
        PROVE  Written(g, b).slots[i] \in Blob
    <2>1. CASE i = g.next
      BY <1>1, <1>2, <2>1
    <2>2. CASE i # g.next
      <3>1. i < g.used
        BY <1>1, <1>2, <1>6, <2>2 DEF WellFilled, Slot
      <3> QED
        BY <1>1, <1>2, <2>2, <3>1 DEF WellFilled
    <2> QED
      BY <2>1, <2>2
  <1> QED
    BY <1>4, <1>5, <1>6 DEF WellFilled

\* A walk after a write visits the latest blobs.
LEMMA WrittenContents ==
  ASSUME NEW g \in RingState, WellFilled(g), NEW b \in Blob
  PROVE  Contents(Written(g, b)) = Recent!Latest(Contents(g), b)
  <1> DEFINE W == Written(g, b)
             s == Contents(g)
  <1>1. /\ g.used \in 0 .. RingCap /\ g.next \in 0 .. RingCap - 1
        /\ g.slots \in [Slot -> Blob \cup {NoBlob}]
        /\ RingCap \in Nat \ {0}
    BY RingAssumption DEF RingState, Slot
  <1>2. /\ W.slots = [g.slots EXCEPT ![g.next] = b]
        /\ W.next = Wrapped(g.next + 1)
        /\ W.used = (IF g.used < RingCap THEN g.used + 1 ELSE g.used)
    BY DEF Written
  <1>3. /\ s \in Seq(Blob) /\ Len(s) = g.used
        /\ \A k \in 1 .. g.used : s[k] = g.slots[Wrapped(Start(g) + k - 1)]
    BY ContentsShape
  <1>4. /\ Contents(W) \in Seq(Blob) /\ Len(Contents(W)) = W.used
        /\ \A k \in 1 .. W.used :
              Contents(W)[k] = W.slots[Wrapped(Start(W) + k - 1)]
    BY WrittenShape, ContentsShape
  <1> HIDE DEF W, s
  <1>5. CASE g.used < RingCap
    <2>1. g.next = g.used /\ Start(g) = 0 /\ Start(W) = 0
      BY <1>1, <1>2, <1>5 DEF WellFilled, Start, Wrapped
    <2>2. /\ Append(s, b) \in Seq(Blob)
          /\ Len(Append(s, b)) = g.used + 1
          /\ \A k \in 1 .. g.used + 1 :
                Append(s, b)[k] = IF k = g.used + 1 THEN b ELSE s[k]
      BY <1>1, <1>3
    <2>3. ASSUME NEW k \in 1 .. g.used + 1
          PROVE  Contents(W)[k] = Append(s, b)[k]
      <3>1. /\ Wrapped(0 + k - 1) = k - 1
            /\ k - 1 \in Slot
        BY <1>1, <1>5 DEF Wrapped, Slot
      <3>2. Contents(W)[k] = W.slots[k - 1]
        BY <1>1, <1>2, <1>4, <1>5, <2>1, <3>1
      <3>3. CASE k = g.used + 1
        <4>1. k - 1 = g.next
          BY <1>1, <2>1, <3>3
        <4> QED
          BY <1>1, <1>2, <2>2, <3>1, <3>2, <3>3, <4>1
      <3>4. CASE k # g.used + 1
        <4>1. k \in 1 .. g.used /\ k - 1 # g.next
          BY <1>1, <2>1, <3>4
        <4>2. s[k] = g.slots[k - 1]
          BY <1>3, <2>1, <3>1, <4>1
        <4> QED
          BY <1>1, <1>2, <2>2, <3>1, <3>2, <3>4, <4>1, <4>2
      <3> QED
        BY <3>3, <3>4
    <2>4. Contents(W) = Append(s, b)
      <3>1. Len(Contents(W)) = g.used + 1
        BY <1>2, <1>4, <1>5
      <3> QED
        BY <1>4, <2>2, <2>3, <3>1, SeqEqual
    <2> QED
      BY <1>3, <1>5, <2>4 DEF Recent!Latest, W, s
  <1>6. CASE ~(g.used < RingCap)
    <2>1. /\ g.used = RingCap /\ W.used = RingCap
          /\ Start(g) = g.next /\ Start(W) = Wrapped(g.next + 1)
      BY <1>1, <1>2, <1>6 DEF Start
    <2>2. s # <<>>
      BY <1>1, <1>3, <2>1
    <2>3. /\ Tail(s) \in Seq(Blob) /\ Len(Tail(s)) = RingCap - 1
          /\ \A k \in 1 .. RingCap - 1 : Tail(s)[k] = s[k + 1]
      BY <1>1, <1>3, <2>1, <2>2, HeadTailProperties
    <2>4. /\ Append(Tail(s), b) \in Seq(Blob)
          /\ Len(Append(Tail(s), b)) = RingCap
          /\ \A k \in 1 .. RingCap :
                Append(Tail(s), b)[k] = IF k = RingCap THEN b ELSE s[k + 1]
      <3>1. /\ Append(Tail(s), b) \in Seq(Blob)
            /\ Len(Append(Tail(s), b)) = RingCap - 1 + 1
            /\ \A k \in 1 .. RingCap - 1 + 1 :
                  Append(Tail(s), b)[k] =
                      IF k = RingCap - 1 + 1 THEN b ELSE Tail(s)[k]
        BY <1>1, <2>3
      <3>2. RingCap - 1 + 1 = RingCap
        BY <1>1
      <3> QED
        BY <1>1, <2>3, <3>1, <3>2
    <2>5. ASSUME NEW k \in 1 .. RingCap
          PROVE  Contents(W)[k] = Append(Tail(s), b)[k]
      <3>1. /\ Wrapped(Wrapped(g.next + 1) + k - 1) = Wrapped(g.next + k)
                \/ k = RingCap
            /\ k = RingCap =>
                  Wrapped(Wrapped(g.next + 1) + k - 1) = g.next
            /\ k # RingCap => /\ Wrapped(g.next + k) # g.next
                              /\ Wrapped(g.next + k) \in Slot
        BY <1>1 DEF Wrapped, Slot
      <3>2. Contents(W)[k] = W.slots[Wrapped(Wrapped(g.next + 1) + k - 1)]
        BY <1>4, <2>1
      <3>3. CASE k = RingCap
        <4>1. g.next \in Slot
          BY <1>1 DEF Slot
        <4> QED
          BY <1>1, <1>2, <2>4, <3>1, <3>2, <3>3, <4>1
      <3>4. CASE k # RingCap
        <4>1. k + 1 \in 1 .. g.used /\ g.next + (k + 1) - 1 = g.next + k
          BY <1>1, <2>1, <3>4
        <4>2. s[k + 1] = g.slots[Wrapped(g.next + k)]
          BY <1>3, <2>1, <4>1
        <4>3. Contents(W)[k] = g.slots[Wrapped(g.next + k)]
          BY <1>1, <1>2, <3>1, <3>2, <3>4
        <4> QED
          BY <2>4, <3>4, <4>2, <4>3
      <3> QED
        BY <3>3, <3>4
    <2>6. Contents(W) = Append(Tail(s), b)
      <3>1. Len(Contents(W)) = RingCap
        BY <1>4, <2>1
      <3> QED
        BY <1>4, <2>4, <2>5, <3>1, SeqEqual
    <2> QED
      BY <1>3, <1>6, <2>6 DEF Recent!Latest, W, s
  <1> QED
    BY <1>5, <1>6

------------------------------------------------------------------------------
(* Steps. *)

\* All rings are empty at first.
LEMMA InitIInv == Init => IInv
  <1> SUFFICES ASSUME Init
               PROVE  IInv
    OBVIOUS
  <1>1. Torn \in RingState \cup {Torn} /\ Blank \in RingState
    BY BlankShape
  <1> QED
    BY <1>1, BlankShape, RingAssumption DEF Init, RingInit, IInv, RingTypeOK

\* A write, whether the file got it or not.
LEMMA PutStep ==
  ASSUME IInv, NEW r \in RingName, NEW b \in Blob,
         ring' = [ring EXCEPT ![r] = Written(@, b)],
         disk' \in {[disk EXCEPT ![r] = f] : f \in {ring'[r], disk[r], Torn}},
         answer' \in {"stored", "error"},
         faults' \in 0 .. MaxFaults
  PROVE  IInv'
  <1>1. ring[r] \in RingState /\ WellFilled(ring[r])
    BY DEF IInv, RingTypeOK
  <1>2. Written(ring[r], b) \in RingState /\ WellFilled(Written(ring[r], b))
    BY <1>1, WrittenShape
  <1>3. ring' \in [RingName -> RingState] /\ ring'[r] = Written(ring[r], b)
    BY <1>2 DEF IInv, RingTypeOK
  <1>4. \A q \in RingName : WellFilled(ring'[q])
    BY <1>2 DEF IInv, RingTypeOK
  <1>5. PICK f \in {ring'[r], disk[r], Torn} : disk' = [disk EXCEPT ![r] = f]
    OBVIOUS
  <1>6. disk' \in [RingName -> RingState \cup {Torn}]
    BY <1>2, <1>3, <1>5 DEF IInv, RingTypeOK
  <1>7. \A q \in RingName : disk'[q] # Torn => WellFilled(disk'[q])
    BY <1>2, <1>3, <1>5 DEF IInv, RingTypeOK
  <1> QED
    BY <1>3, <1>4, <1>6, <1>7 DEF IInv, RingTypeOK

\* A restart finds rings that are well filled.
LEMMA PowerLossStep ==
  ASSUME IInv, PowerLoss
  PROVE  IInv'
  <1>1. /\ disk' \in [RingName -> RingState \cup {Torn}]
        /\ \A q \in RingName : disk'[q] # Torn => WellFilled(disk'[q])
    BY DEF PowerLoss, IInv, RingTypeOK
  <1>2. \A q \in RingName : /\ Loaded(disk'[q]) \in RingState
                            /\ WellFilled(Loaded(disk'[q]))
    BY <1>1, BlankShape DEF Loaded
  <1>3. /\ ring' = [q \in RingName |-> Loaded(disk'[q])]
        /\ answer' = "none"
        /\ faults' \in 0 .. MaxFaults
    BY RingAssumption DEF PowerLoss, IInv, RingTypeOK
  <1> QED
    BY <1>1, <1>2, <1>3 DEF IInv, RingTypeOK

\* What the steps of PagedAnswers do to the rings.
LEMMA RingSteps ==
  ASSUME [Next]_vars
  PROVE  \/ \E r \in RingName, b \in Blob :
               Put(r, b) \/ PutFails(r, b) \/ Duplicate(r, b)
         \/ PowerLoss
         \/ UNCHANGED ringvars
  BY DEF Next, vars, StartWalk, Page, Abandon, PutBlob, RingStep, RingNext,
         AddFile, DeleteFile, ScanDone

\* Every step keeps the rings in shape.
LEMMA NextIInv ==
  ASSUME IInv, [Next]_vars
  PROVE  IInv'
  <1>1. ASSUME NEW r \in RingName, NEW b \in Blob, Put(r, b)
        PROVE  IInv'
    BY <1>1, PutStep DEF Put, IInv, RingTypeOK
  <1>2. ASSUME NEW r \in RingName, NEW b \in Blob, PutFails(r, b)
        PROVE  IInv'
    <2>1. faults' \in 0 .. MaxFaults
      BY <1>2, RingAssumption DEF PutFails, IInv, RingTypeOK
    <2> QED
      BY <1>2, <2>1, PutStep DEF PutFails
  <1>3. ASSUME NEW r \in RingName, NEW b \in Blob, Duplicate(r, b)
        PROVE  IInv'
    BY <1>3 DEF Duplicate, IInv, RingTypeOK
  <1>4. CASE PowerLoss
    BY <1>4, PowerLossStep
  <1>5. CASE UNCHANGED ringvars
    BY <1>5 DEF ringvars, IInv, RingTypeOK
  <1> QED
    BY <1>1, <1>2, <1>3, <1>4, <1>5, RingSteps

\* Rings have their types, and one that is not full has been filled from slot
\* 0: a file read back at boot is either such a ring or taken for none.
THEOREM RingsInShape == Spec => []IInv
  BY InitIInv, NextIInv, PTL DEF Spec

------------------------------------------------------------------------------
(* The refinement. *)

\* What is read back from a ring's file is the ring.
LEMMA LoadedRing ==
  ASSUME NEW g \in RingState
  PROVE  Loaded(g) = g
  BY RingNotTorn DEF Loaded

\* Empty rings are empty lists.
LEMMA InitImplements == Init => Recent!Init
  BY BlankShape DEF Init, RingInit, Recent!Init, Loaded

\* A write that succeeds stores the blob in memory and on flash.
LEMMA PutImplements ==
  ASSUME IInv, NEW r \in RingName, NEW b \in Blob, Put(r, b)
  PROVE  Recent!Store(r, b)
  <1>1. /\ ring[r] \in RingState /\ WellFilled(ring[r])
        /\ ring \in [RingName -> RingState]
        /\ disk \in [RingName -> RingState \cup {Torn}]
    BY DEF IInv, RingTypeOK
  <1>2. /\ ring' = [ring EXCEPT ![r] = Written(ring[r], b)]
        /\ disk' = [disk EXCEPT ![r] = Written(ring[r], b)]
        /\ answer' = "stored"
    BY <1>1 DEF Put
  <1>3. Contents(Written(ring[r], b)) = Recent!Latest(Contents(ring[r]), b)
    BY <1>1, WrittenContents
  <1>4. Loaded(Written(ring[r], b)) = Written(ring[r], b)
    BY <1>1, WrittenShape, LoadedRing
  <1> QED
    BY <1>1, <1>2, <1>3, <1>4 DEF Recent!Store

\* A write that fails is in memory only.
LEMMA PutFailsImplements ==
  ASSUME IInv, NEW r \in RingName, NEW b \in Blob, PutFails(r, b)
  PROVE  Recent!Fail(r, b)
  <1>1. /\ ring[r] \in RingState /\ WellFilled(ring[r])
        /\ ring \in [RingName -> RingState]
        /\ disk \in [RingName -> RingState \cup {Torn}]
    BY DEF IInv, RingTypeOK
  <1>2. PICK left \in {disk[r], Torn} : disk' = [disk EXCEPT ![r] = left]
    BY DEF PutFails
  <1>3. /\ ring' = [ring EXCEPT ![r] = Written(ring[r], b)]
        /\ answer' = "error"
    BY <1>1 DEF PutFails
  <1>4. Contents(Written(ring[r], b)) = Recent!Latest(Contents(ring[r]), b)
    BY <1>1, WrittenContents
  <1>5. Contents(Loaded(left)) \in {Contents(Loaded(disk[r])), <<>>}
    BY BlankShape DEF Loaded
  <1> QED
    BY <1>1, <1>2, <1>3, <1>4, <1>5 DEF Recent!Fail

\* A duplicate is there already.
LEMMA DuplicateImplements ==
  ASSUME IInv, NEW r \in RingName, NEW b \in Blob, Duplicate(r, b)
  PROVE  Recent!Refuse(r, b)
  BY DEF Duplicate, Present, Recent!Refuse

\* A restart finds what is on flash.
LEMMA PowerLossImplements ==
  ASSUME IInv, PowerLoss
  PROVE  Recent!Restart
  <1>1. /\ disk \in [RingName -> RingState \cup {Torn}]
        /\ ring' = [q \in RingName |-> Loaded(disk'[q])]
        /\ answer' = "none"
    BY DEF IInv, RingTypeOK, PowerLoss
  <1>2. Contents(Loaded(Torn)) = <<>>
    BY BlankShape DEF Loaded
  <1>3. CASE UNCHANGED disk
    BY <1>1, <1>3 DEF Recent!Restart
  <1>4. CASE \E r \in RingName : disk' = [disk EXCEPT ![r] = Torn]
    <2>1. PICK r \in RingName : disk' = [disk EXCEPT ![r] = Torn]
      BY <1>4
    <2>2. [q \in RingName |-> Contents(Loaded(disk'[q]))]
            = [[q \in RingName |-> Contents(Loaded(disk[q]))]
                 EXCEPT ![r] = <<>>]
      BY <1>1, <1>2, <2>1
    <2>3. [q \in RingName |-> Contents(ring'[q])]
            = [q \in RingName |-> Contents(Loaded(disk'[q]))]
      BY <1>1
    <2> QED
      BY <1>1, <2>2, <2>3 DEF Recent!Restart
  <1> QED
    BY <1>3, <1>4 DEF PowerLoss

\* The rings hold the latest blobs in the order they came: in memory all of
\* them, on flash up to the last write that did not fail, whatever the
\* wraparound, failed writes, duplicates and power losses.
THEOREM RingsKeepRecent == Spec => KeepsRecent
  <1>1. ASSUME IInv, [Next]_vars
        PROVE  [Recent!Next]_(Recent!vars)
    <2>1. ASSUME NEW r \in RingName, NEW b \in Blob,
                 Put(r, b) \/ PutFails(r, b) \/ Duplicate(r, b)
          PROVE  Recent!Next
      BY <1>1, <2>1, PutImplements, PutFailsImplements, DuplicateImplements
         DEF Recent!Next
    <2>2. CASE PowerLoss
      BY <1>1, <2>2, PowerLossImplements DEF Recent!Next
    <2>3. CASE UNCHANGED ringvars
      BY <2>3 DEF ringvars, Recent!vars
    <2> QED
      BY <1>1, <2>1, <2>2, <2>3, RingSteps
  <1> QED
    BY <1>1, InitImplements, RingsInShape, PTL
       DEF Spec, KeepsRecent, Recent!Spec

------------------------------------------------------------------------------
(* Listings and their pages. *)

\* A set of naturals that is not empty has a least member.
LEMMA LeastNat ==
  ASSUME NEW T, T \subseteq Nat, T # {}
  PROVE  \E x \in T : \A y \in T : x <= y
  <1>1. PICK x \in T : \A y \in T : ~ (<<y, x>> \in OpToRel(<, Nat))
    BY NatLessThanWellFounded, WFMin
  <1>2. ASSUME NEW y \in T PROVE ~(y < x)
    BY <1>1 DEF OpToRel
  <1>3. ASSUME NEW y \in T PROVE x <= y
    <2>1. x \in Nat /\ y \in Nat
      OBVIOUS
    <2>2. ~(y < x)
      BY <1>2
    <2> QED
      BY <2>1, <2>2
  <1> QED
    BY <1>3

\* s lists the members of S in increasing order.
Increasing(s, S) ==
    /\ s \in [1 .. Cardinality(S) -> S]
    /\ \A i, j \in 1 .. Cardinality(S) : i < j => s[i] < s[j]

\* A finite set of naturals can be put in increasing order: its least member,
\* and then the others.
LEMMA IncreasingExists ==
  ASSUME NEW S \in SUBSET Nat, IsFiniteSet(S)
  PROVE  \E s : Increasing(s, S)
  <1> DEFINE Never == {T \in SUBSET S : ~ \E s : Increasing(s, T)}
             Sizes == {Cardinality(T) : T \in Never}
  <1>1. \A T \in SUBSET S : IsFiniteSet(T) /\ Cardinality(T) \in Nat
    BY FS_Subset, FS_CardinalityType
  <1>2. SUFFICES ASSUME Never # {}
                 PROVE  FALSE
    OBVIOUS
  <1>3. Sizes \subseteq Nat /\ Sizes # {}
    BY <1>1, <1>2
  <1>4. PICK n \in Sizes : \A k \in Sizes : n <= k
    <2> HIDE DEF Sizes
    <2> QED
      BY <1>3, LeastNat
  <1>5. PICK T \in Never : n = Cardinality(T)
    OBVIOUS
  <1>6. \A U \in SUBSET S : Cardinality(U) < n => \E s : Increasing(s, U)
    <2>1. ASSUME NEW U \in SUBSET S, Cardinality(U) < n, U \in Never
          PROVE  FALSE
      BY <1>1, <1>3, <1>4, <2>1
    <2> QED
      BY <2>1
  <1>7. CASE T = {}
    <2>1. Cardinality(T) = 0
      BY <1>7, FS_EmptySet
    <2>2. \A k \in 1 .. Cardinality(T) : FALSE
      BY <2>1
    <2> DEFINE e == [k \in 1 .. Cardinality(T) |-> k]
    <2>3. e \in [1 .. Cardinality(T) -> T]
      BY <2>2
    <2>4. Increasing(e, T)
      <3> HIDE DEF e
      <3> QED
        BY <2>2, <2>3 DEF Increasing
    <2> QED
      BY <2>4
  <1>8. CASE T # {}
    <2>1. PICK m \in T : \A y \in T : m <= y
      BY <1>8, LeastNat
    <2>2. Cardinality(T \ {m}) = n - 1 /\ n \in Nat
      BY <1>1, <1>5, FS_RemoveElement
    <2>3. PICK s : Increasing(s, T \ {m})
      BY <1>6, <2>2
    <2>4. n # 0
      BY <1>1, <1>5, <1>8, FS_EmptySet
    <2> DEFINE t == [k \in 1 .. n |-> IF k = 1 THEN m ELSE s[k - 1]]
    <2>5. \A k \in 2 .. n : k - 1 \in 1 .. n - 1 /\ s[k - 1] \in T \ {m}
      <3>1. s \in [1 .. n - 1 -> T \ {m}]
        BY <2>2, <2>3 DEF Increasing
      <3>2. \A k \in 2 .. n : k - 1 \in 1 .. n - 1
        BY <2>2
      <3> QED
        BY <3>1, <3>2
    <2>6. \A y \in T \ {m} : m < y
      BY <2>1
    <2>7. t \in [1 .. n -> T]
      BY <2>2, <2>5
    <2>8. ASSUME NEW i \in 1 .. n, NEW j \in 1 .. n, i < j
          PROVE  t[i] < t[j]
      <3>1. t[j] = s[j - 1] /\ j \in 2 .. n /\ s[j - 1] \in T \ {m}
        <4>1. j \in 2 .. n /\ j # 1
          BY <2>2, <2>8
        <4>2. t[j] = s[j - 1]
          BY <4>1
        <4> QED
          BY <2>5, <4>1, <4>2
      <3>2. CASE i = 1
        BY <2>6, <3>1, <3>2
      <3>3. CASE i # 1
        <4>1. t[i] = s[i - 1] /\ i - 1 \in 1 .. n - 1 /\ j - 1 \in 1 .. n - 1
                 /\ i - 1 < j - 1
          BY <2>2, <2>8, <3>3
        <4> QED
          BY <2>2, <2>3, <3>1, <4>1 DEF Increasing
      <3> QED
        BY <3>2, <3>3
    <2>9. Increasing(t, T)
      <3> HIDE DEF t
      <3> QED
        BY <1>5, <2>7, <2>8 DEF Increasing
    <2> QED
      BY <2>9
  <1> QED
    BY <1>7, <1>8

\* Ascending is that order.
LEMMA AscendingIs ==
  ASSUME NEW S \in SUBSET Nat, IsFiniteSet(S)
  PROVE  /\ Increasing(Ascending(S), S)
         /\ Cardinality(S) \in Nat
         /\ Ascending(S) \in Seq(S)
         /\ Len(Ascending(S)) = Cardinality(S)
  <1>1. Cardinality(S) \in Nat
    BY FS_CardinalityType
  <1>2. Increasing(Ascending(S), S)
    BY IncreasingExists DEF Increasing, Ascending
  <1> QED
    BY <1>1, <1>2 DEF Increasing

\* L is a sequence, whatever its entries.
IsSeq(L) == L \in Seq(ToSet(L))

\* What is built with an entry per place is a sequence.
LEMMA BuiltSeq ==
  ASSUME NEW n \in Nat, NEW L, DOMAIN L = 1 .. n, L = [k \in 1 .. n |-> L[k]]
  PROVE  IsSeq(L) /\ Len(L) = n
  <1>1. L \in [1 .. n -> ToSet(L)]
    BY DEF ToSet
  <1> QED
    BY <1>1 DEF IsSeq

\* The blobs picked are a sequence of blobs.
LEMMA PickedSeq ==
  ASSUME NEW s \in Seq(Blob)
  PROVE  Picked(s) \in Seq(Blob)
  <1> DEFINE I == {i \in DOMAIN s : s[i] \in Asked}
  <1>1. I \in SUBSET Nat /\ IsFiniteSet(I)
    <2>1. DOMAIN s = 1 .. Len(s) /\ Len(s) \in Nat
      OBVIOUS
    <2>2. IsFiniteSet(1 .. Len(s))
      BY <2>1, FS_Interval
    <2> QED
      BY <2>1, <2>2, FS_Subset
  <1> DEFINE a == Ascending(I)
  <1>2. a \in Seq(I)
    BY <1>1, AscendingIs
  <1>3. \A i \in I : s[i] \in Blob
    OBVIOUS
  <1> HIDE DEF I, a
  <1>4. DOMAIN a = 1 .. Len(a) /\ Len(a) \in Nat /\ \A k \in DOMAIN a : a[k] \in I
    BY <1>2
  <1>5. [k \in DOMAIN a |-> s[a[k]]] \in Seq(Blob)
    BY <1>3, <1>4
  <1>6. Picked(s) = [k \in DOMAIN a |-> s[a[k]]]
    BY DEF Picked, a, I
  <1> QED
    BY <1>5, <1>6

\* The files of a directory are finitely many.
LEMMA StageSet ==
  ASSUME NEW d \in [1 .. DirSize -> File \cup {NoFile}]
  PROVE  Stage(d) \in SUBSET Nat /\ IsFiniteSet(Stage(d))
  <1> DEFINE used == {i \in DOMAIN d : d[i] # NoFile}
             J == {j \in used : Cardinality({k \in used : k < j}) < Staged}
             f == [j \in J |-> d[j]]
  <1>1. IsFiniteSet(J)
    <2>1. DirSize \in Int
      BY PagedAssumption
    <2>2. IsFiniteSet(1 .. DirSize)
      BY <2>1, FS_Interval
    <2>3. J \subseteq 1 .. DirSize
      OBVIOUS
    <2> QED
      BY <2>2, <2>3, FS_Subset
  <1>2. Stage(d) = {d[j] : j \in J}
    BY DEF Stage
  <1>3. \A j \in J : d[j] \in File
    OBVIOUS
  <1> HIDE DEF J
  <1>4. f \in Surjection(J, Stage(d))
    BY <1>2 DEF Surjection
  <1>5. Stage(d) \in SUBSET Nat
    BY <1>2, <1>3, PagedAssumption
  <1> QED
    BY <1>1, <1>4, <1>5, FS_Surjection

\* fs_list lists exactly the files it has staged, each once and in order.  With
\* WalksAreExact it is what a client's ls returns.
THEOREM ListedIs ==
  ASSUME NEW d \in [1 .. DirSize -> File \cup {NoFile}]
  PROVE  /\ ToSet(Listed(d)) = Stage(d)
         /\ \A i, j \in DOMAIN Listed(d) : i < j => Listed(d)[i] < Listed(d)[j]
  <1> DEFINE S == Stage(d)
             n == Cardinality(S)
             s == Listed(d)
  <1>1. S \in SUBSET Nat /\ IsFiniteSet(S)
    BY StageSet
  <1>2. n \in Nat /\ n = Cardinality(S)
    BY <1>1, FS_CardinalityType
  <1>3. s \in [1 .. n -> S] /\ \A i, j \in 1 .. n : i < j => s[i] < s[j]
    BY <1>1, AscendingIs DEF Listed, Increasing
  <1> HIDE DEF S, s, n
  <1>4. ASSUME NEW i \in 1 .. n, NEW j \in 1 .. n, s[i] = s[j]
        PROVE  i = j
    <2>1. s[i] \in Nat
      BY <1>1, <1>3
    <2>2. i \in Nat /\ j \in Nat
      BY <1>2
    <2>3. ~(s[i] < s[j]) /\ ~(s[j] < s[i])
      BY <1>4, <2>1
    <2>4. (i < j => s[i] < s[j]) /\ (j < i => s[j] < s[i])
      BY <1>3
    <2> QED
      BY <2>2, <2>3, <2>4
  <1>5. s \in Injection(1 .. n, S)
    BY <1>3, <1>4 DEF Injection, IsInjective
  <1>6. Cardinality(1 .. n) = n
    <2>1. n \in Int /\ 1 \in Int /\ n \in Nat
      BY <1>2
    <2>2. Cardinality(1 .. n) = IF 1 > n THEN 0 ELSE n - 1 + 1
      BY <2>1, FS_Interval
    <2> QED
      BY <2>1, <2>2
  <1>7. s \in Surjection(1 .. n, S)
    BY <1>1, <1>2, <1>5, <1>6, FS_Injection
  <1>8. ToSet(s) = S
    BY <1>3, <1>7 DEF Surjection, ToSet
  <1> QED
    BY <1>2, <1>3, <1>8 DEF s, S, n

\* A listing is a sequence.
LEMMA ListingSeq ==
  ASSUME NEW rs \in [RingName -> RingState],
         \A r \in RingName : WellFilled(rs[r]),
         NEW d \in [1 .. DirSize -> File \cup {NoFile}],
         NEW sc, sc.count \in Nat,
         kind \in Kind
  PROVE  IsSeq(Listing(rs, d, sc))
  <1>1. IsSeq(Listed(d))
    <2>1. Listed(d) \in Seq(Stage(d))
      BY StageSet, AscendingIs DEF Listed
    <2> QED
      BY <2>1 DEF IsSeq, ToSet
  <1>2. IsSeq(Matching(rs))
    <2>1. \A r \in RingName : Contents(rs[r]) \in Seq(Blob)
      BY ContentsShape
    <2>2. Picked(Contents(rs["self"])) \in Seq(Blob)
      BY <2>1, PickedSeq DEF RingName
    <2>3. Picked(Contents(rs["cache"])) \in Seq(Blob)
      BY <2>1, PickedSeq DEF RingName
    <2>4. Matching(rs) \in Seq(Blob)
      BY <2>2, <2>3, ConcatProperties DEF Matching
    <2> QED
      BY <2>4 DEF IsSeq, ToSet
  <1>3. IsSeq(Observed(sc))
    BY BuiltSeq DEF Observed
  <1> QED
    BY <1>1, <1>2, <1>3 DEF Listing, Kind

------------------------------------------------------------------------------
(* A walk and the listing. *)

\* How a walk stands to the listing: what it has got of one that stays the
\* same is its beginning, up to the offset; while entries only come, an entry
\* it began with is got already or still after the offset.
Follows(w, L) ==
    /\ w.state = "going" => kind # "rings"
    /\ w.state = "going" /\ w.since = "same" =>
          /\ w.first = L
          /\ w.offset \in 0 .. Len(L)
          /\ w.got = SubSeq(L, 1, w.offset)
    /\ w.state = "going" /\ w.since = "grown" =>
          /\ AllFit(L)
          /\ w.offset \in 0 .. Len(L)
          /\ IsSeq(w.got)
          /\ \A x \in ToSet(w.first) :
                x \in ToSet(w.got) \/ \E i \in w.offset + 1 .. Len(L) : L[i] = x
    /\ w.state = "done" /\ w.since = "same" /\ AllFit(w.first) =>
          w.got = w.first
    /\ w.state = "done" /\ w.since = "grown" =>
          ToSet(w.first) \subseteq ToSet(w.got)

\* The places and the entries of a sequence.
LEMMA SeqFacts ==
  ASSUME NEW L, IsSeq(L)
  PROVE  /\ Len(L) \in Nat
         /\ DOMAIN L = 1 .. Len(L)
         /\ L \in Seq(ToSet(L))
         /\ \A x : x \in ToSet(L) <=> \E i \in 1 .. Len(L) : L[i] = x
  <1>1. L \in Seq(ToSet(L))
    BY DEF IsSeq
  <1>2. Len(L) \in Nat /\ DOMAIN L = 1 .. Len(L)
    BY <1>1
  <1>3. \A x : x \in ToSet(L) <=> \E i \in 1 .. Len(L) : L[i] = x
    BY <1>2 DEF ToSet
  <1> QED
    BY <1>1, <1>2, <1>3

\* Any sequence is one of its own entries.
LEMMA IsSeqOf ==
  ASSUME NEW S, NEW s \in Seq(S)
  PROVE  IsSeq(s)
  <1>1. Len(s) \in Nat /\ DOMAIN s = 1 .. Len(s)
           /\ s = [i \in 1 .. Len(s) |-> s[i]]
    OBVIOUS
  <1> QED
    BY <1>1, BuiltSeq

\* A page has room for an entry.
LEMMA LimitIs == Limit \in Nat /\ Limit > 0
  BY PagedAssumption DEF Limit

\* A page has as many entries as fit.
LEMMA PageLengthIs ==
  ASSUME NEW L, IsSeq(L), NEW o \in 0 .. Len(L),
         NEW n, n = PageLength(L, o)
  PROVE  /\ n \in 0 .. Limit
         /\ o + n <= Len(L)
         /\ n = Limit \/ o + n >= Len(L) \/ ~Fits(L[o + n + 1])
  <1> DEFINE Stop(m) == m = Limit \/ o + m >= Len(L) \/ ~Fits(L[o + m + 1])
             Stops == {m \in 0 .. Limit : Stop(m)}
  <1>1. Len(L) \in Nat /\ Limit \in Nat /\ o \in Nat
    BY SeqFacts, LimitIs
  <1>2. Stops \subseteq Nat /\ Limit \in Stops
    BY <1>1
  <1>3. PICK m \in Stops : \A k \in Stops : m <= k
    <2> HIDE DEF Stops
    <2> QED
      BY <1>2, LeastNat
  <1>4. m \in 0 .. Limit /\ Stop(m)
    OBVIOUS
  <1>5. ASSUME NEW i \in 1 .. m
        PROVE  o + i <= Len(L) /\ Fits(L[o + i])
    <2>1. i - 1 \in 0 .. Limit /\ ~ (m <= i - 1)
      BY <1>1, <1>4
    <2>2. ~Stop(i - 1)
      BY <1>3, <2>1
    <2>3. o + (i - 1) + 1 = o + i
      BY <1>1
    <2>4. ~(o + (i - 1) >= Len(L)) /\ Fits(L[o + i])
      BY <2>2, <2>3
    <2> QED
      BY <1>1, <2>4
  <1> DEFINE Page1(k) == /\ Stop(k)
                         /\ \A i \in 1 .. k : o + i <= Len(L) /\ Fits(L[o + i])
  <1>6. Page1(m)
    BY <1>4, <1>5
  <1>7. n = CHOOSE k \in 0 .. Limit : Page1(k)
    BY DEF PageLength
  <1> HIDE DEF Page1
  <1>8. n \in 0 .. Limit /\ Page1(n)
    BY <1>4, <1>6, <1>7
  <1> USE DEF Page1
  <1>9. o + n <= Len(L)
    <2>1. CASE n = 0
      BY <1>1, <2>1
    <2>2. CASE n # 0
      <3>1. n \in 1 .. n
        BY <1>1, <1>8, <2>2
      <3> QED
        BY <1>8, <3>1
    <2> QED
      BY <2>1, <2>2
  <1> QED
    BY <1>8, <1>9

\* A walk that is not going does not depend on the listing.
LEMMA FollowsIdle ==
  ASSUME NEW w, w.state # "going", NEW L, NEW L2, Follows(w, L)
  PROVE  Follows(w, L2)
  BY DEF Follows

\* A walk begins.
LEMMA FollowsStart ==
  ASSUME NEW L, IsSeq(L), kind # "rings", NEW w,
         w.state = "going", w.since = "same", w.first = L, w.offset = 0,
         w.got = <<>>
  PROVE  Follows(w, L)
  <1>1. SubSeq(L, 1, 0) = <<>>
    BY SubSeqEmpty
  <1>2. 0 \in 0 .. Len(L)
    BY SeqFacts
  <1> QED
    BY <1>1, <1>2 DEF Follows

\* A page of a listing is appended to what was got.
LEMMA PageGot ==
  ASSUME NEW L, IsSeq(L), NEW o \in 0 .. Len(L), NEW n \in Nat,
         o + n <= Len(L), NEW p, p = SubSeq(L, o + 1, o + n)
  PROVE  /\ SubSeq(L, 1, o) \o p = SubSeq(L, 1, o + n)
         /\ IsSeq(p)
         /\ \A i \in o + 1 .. o + n : L[i] \in ToSet(p)
  <1>1. /\ Len(L) \in Nat /\ o \in Nat /\ L \in Seq(ToSet(L))
        /\ \A i \in 1 .. Len(L) : L[i] \in ToSet(L)
    BY SeqFacts
  <1>2. SubSeq(L, 1, o) \o p = SubSeq(L, 1, o + n)
    <2>1. 1 \in 1 .. Len(L) + 1 /\ o \in 1 - 1 .. Len(L) /\ o + n \in o .. Len(L)
      BY <1>1
    <2> QED
      BY <1>1, <2>1, ConcatAdjacentSubSeq
  <1>3. /\ p \in Seq(ToSet(L))
        /\ Len(p) = IF o + 1 <= o + n THEN (o + n) - (o + 1) + 1 ELSE 0
        /\ \A i \in 1 .. (o + n) - (o + 1) + 1 : p[i] = L[(o + 1) + i - 1]
    <2>1. o + 1 \in Int /\ o + n \in Int
      BY <1>1
    <2>2. \A i \in o + 1 .. o + n : L[i] \in ToSet(L)
      BY <1>1
    <2> QED
      BY <2>1, <2>2, SubSeqProperties
  <1>4. Len(p) = n
    BY <1>1, <1>3
  <1>5. IsSeq(p)
    BY <1>3, IsSeqOf
  <1>6. ASSUME NEW i \in o + 1 .. o + n
        PROVE  L[i] \in ToSet(p)
    <2>1. i - o \in 1 .. n /\ (o + 1) + (i - o) - 1 = i
          /\ (o + n) - (o + 1) + 1 = n
      BY <1>1
    <2>2. p[i - o] = L[i]
      BY <1>3, <2>1
    <2>3. i - o \in DOMAIN p
      BY <1>3, <1>4, <2>1
    <2> QED
      BY <2>2, <2>3 DEF ToSet
  <1> QED
    BY <1>2, <1>5, <1>6

\* The entries of two sequences put together.
LEMMA ConcatSet ==
  ASSUME NEW s, NEW t, IsSeq(s), IsSeq(t)
  PROVE  IsSeq(s \o t) /\ ToSet(s \o t) = ToSet(s) \cup ToSet(t)
  <1> DEFINE U == ToSet(s) \cup ToSet(t)
  <1>1. s \in Seq(U) /\ t \in Seq(U)
    BY SeqMonotonic DEF IsSeq
  <1>2. /\ s \o t \in Seq(U)
        /\ Len(s \o t) = Len(s) + Len(t)
        /\ \A i \in 1 .. Len(s) + Len(t) :
              (s \o t)[i] = IF i <= Len(s) THEN s[i] ELSE t[i - Len(s)]
    BY <1>1, ConcatProperties
  <1>3. DOMAIN (s \o t) = 1 .. Len(s) + Len(t)
    BY <1>2
  <1>4. ToSet(s \o t) \subseteq U
    BY <1>2, <1>3 DEF ToSet
  <1>5. ASSUME NEW i \in 1 .. Len(s)
        PROVE  s[i] \in ToSet(s \o t)
    <2>1. i \in 1 .. Len(s) + Len(t) /\ i <= Len(s)
      BY <1>1
    <2>2. (s \o t)[i] = s[i]
      BY <1>2, <2>1
    <2> QED
      BY <1>3, <2>1, <2>2 DEF ToSet
  <1>6. ASSUME NEW i \in 1 .. Len(t)
        PROVE  t[i] \in ToSet(s \o t)
    <2>1. /\ Len(s) + i \in 1 .. Len(s) + Len(t)
          /\ ~(Len(s) + i <= Len(s)) /\ (Len(s) + i) - Len(s) = i
      BY <1>1
    <2>2. (s \o t)[Len(s) + i] = t[i]
      BY <1>2, <2>1
    <2> QED
      BY <1>3, <2>1, <2>2 DEF ToSet
  <1>7. U \subseteq ToSet(s \o t)
    <2>1. DOMAIN s = 1 .. Len(s) /\ DOMAIN t = 1 .. Len(t)
      BY <1>1
    <2>2. \A x \in ToSet(s) : x \in ToSet(s \o t)
      BY <1>5, <2>1 DEF ToSet
    <2>3. \A x \in ToSet(t) : x \in ToSet(s \o t)
      BY <1>6, <2>1 DEF ToSet
    <2> QED
      BY <2>2, <2>3
  <1>8. ToSet(s \o t) = U
    BY <1>4, <1>7
  <1> QED
    BY <1>2, <1>8 DEF IsSeq

\* After a page of n entries there is another.
GoesOn(w, L, n) ==
    /\ w.offset + n < Len(L)
    /\ kind = "ls" => w.offset + n > 0
    /\ w.by = "peer" => w.offset + n > 0

\* A page: what was got of the beginning grows by it, and the walk ends only
\* at the end of the listing, if all of it fits.
LEMMA FollowsPage ==
  ASSUME NEW L, IsSeq(L), NEW w, Follows(w, L), w.state = "going",
         NEW n, n = PageLength(L, w.offset),
         NEW w2, w2.first = w.first, w2.since = w.since,
         w2.got = w.got \o SubSeq(L, w.offset + 1, w.offset + n),
         GoesOn(w, L, n) => w2.offset = w.offset + n /\ w2.state = "going",
         ~GoesOn(w, L, n) => w2.state = "done"
  PROVE  Follows(w2, L)
  <1> DEFINE o == w.offset
             p == SubSeq(L, w.offset + 1, w.offset + n)
  <1>1. /\ Len(L) \in Nat /\ L \in Seq(ToSet(L)) /\ DOMAIN L = 1 .. Len(L)
        /\ \A x \in ToSet(L) : \E i \in 1 .. Len(L) : L[i] = x
    BY SeqFacts
  <1>2. CASE w.since \notin {"same", "grown"}
    BY <1>2 DEF Follows
  <1>3. ASSUME w.since \in {"same", "grown"}
        PROVE  /\ o \in 0 .. Len(L) /\ o \in Nat
               /\ n \in Nat /\ n \in 0 .. Limit /\ o + n <= Len(L)
               /\ n = Limit \/ o + n >= Len(L) \/ ~Fits(L[o + n + 1])
    <2>1. o \in 0 .. Len(L)
      BY <1>3 DEF Follows
    <2>2. /\ n \in 0 .. Limit /\ o + n <= Len(L)
          /\ n = Limit \/ o + n >= Len(L) \/ ~Fits(L[o + n + 1])
      BY <2>1, PageLengthIs
    <2> QED
      BY <1>1, <2>1, <2>2, LimitIs
  <1>4. ASSUME w.since \in {"same", "grown"}, AllFit(L), ~GoesOn(w, L, n)
        PROVE  o + n = Len(L)
    <2>1. SUFFICES ASSUME o + n < Len(L)
                   PROVE  FALSE
      BY <1>1, <1>3, <1>4
    <2>2. ~(o + n > 0)
      BY <1>4, <2>1 DEF GoesOn
    <2>3. n # Limit
      BY <1>3, <1>4, <2>2, LimitIs
    <2>4. o + n + 1 \in DOMAIN L
      <3>1. /\ Len(L) \in Nat /\ DOMAIN L = 1 .. Len(L)
            /\ o \in Nat /\ n \in Nat
        BY <1>1, <1>3, <1>4
      <3> HIDE DEF o
      <3> QED
        BY ONLY <2>1, <3>1
    <2>5. Fits(L[o + n + 1])
      BY <1>4, <2>4 DEF AllFit
    <2> QED
      BY <1>1, <1>3, <1>4, <2>1, <2>3, <2>5
  <1>5. ASSUME w.since \in {"same", "grown"}
        PROVE  /\ SubSeq(L, 1, o) \o p = SubSeq(L, 1, o + n)
               /\ IsSeq(p)
               /\ \A i \in o + 1 .. o + n : L[i] \in ToSet(p)
    <2>1. o \in 0 .. Len(L) /\ n \in Nat /\ o + n <= Len(L)
      BY <1>3, <1>5
    <2>2. IsSeq(L) /\ p = SubSeq(L, o + 1, o + n)
      OBVIOUS
    <2> HIDE DEF o, p
    <2> QED
      BY ONLY <2>1, <2>2, PageGot
  <1>6. CASE w.since = "same"
    <2>1. w.first = L /\ w.got = SubSeq(L, 1, o)
      BY <1>6 DEF Follows
    <2>2. w2.got = SubSeq(L, 1, o + n)
      BY <1>5, <1>6, <2>1
    <2>3. CASE GoesOn(w, L, n)
      <3>1. o + n \in 0 .. Len(L)
        BY <1>1, <1>3, <1>6
      <3> QED
        BY <1>6, <2>1, <2>2, <2>3, <3>1 DEF Follows
    <2>4. CASE ~GoesOn(w, L, n)
      <3>1. ASSUME AllFit(L)
            PROVE  w2.got = L
        BY <1>1, <1>4, <1>6, <2>2, <2>4, <3>1, SubSeqFull
      <3> QED
        BY <1>6, <2>1, <2>4, <3>1 DEF Follows
    <2> QED
      BY <2>3, <2>4
  <1>7. CASE w.since = "grown"
    <2>1. /\ AllFit(L) /\ IsSeq(w.got)
          /\ \A x \in ToSet(w.first) :
                x \in ToSet(w.got) \/ \E i \in o + 1 .. Len(L) : L[i] = x
      BY <1>7 DEF Follows
    <2>2. IsSeq(w2.got) /\ ToSet(w2.got) = ToSet(w.got) \cup ToSet(p)
      BY <1>5, <1>7, <2>1, ConcatSet
    <2>3. CASE GoesOn(w, L, n)
      <3>1. o + n \in 0 .. Len(L)
        BY <1>1, <1>3, <1>7
      <3>2. ASSUME NEW x \in ToSet(w.first)
            PROVE  \/ x \in ToSet(w2.got)
                   \/ \E i \in o + n + 1 .. Len(L) : L[i] = x
        <4>1. CASE x \in ToSet(w.got)
          BY <2>2, <4>1
        <4>2. CASE \E i \in o + 1 .. Len(L) : L[i] = x
          <5>1. PICK i \in o + 1 .. Len(L) : L[i] = x
            BY <4>2
          <5>2. i \in o + 1 .. o + n \/ i \in o + n + 1 .. Len(L)
            BY <1>1, <1>3, <1>7
          <5> QED
            BY <1>5, <1>7, <2>2, <5>1, <5>2
        <4> QED
          BY <2>1, <4>1, <4>2
      <3> QED
        BY <1>7, <2>1, <2>2, <2>3, <3>1, <3>2 DEF Follows
    <2>4. CASE ~GoesOn(w, L, n)
      <3>1. o + n = Len(L)
        BY <1>4, <1>7, <2>1, <2>4
      <3>2. ToSet(w.first) \subseteq ToSet(w2.got)
        BY <1>5, <1>7, <2>1, <2>2, <3>1
      <3> QED
        BY <1>7, <2>4, <3>2 DEF Follows
    <2> QED
      BY <2>3, <2>4
  <1> QED
    BY <1>2, <1>6, <1>7

\* Taking an entry out moves the later ones down by one.
LEMMA RemoveAtIs ==
  ASSUME NEW L, IsSeq(L), NEW i \in DOMAIN L, NEW s, s = RemoveAt(L, i)
  PROVE  /\ Len(s) = Len(L) - 1
         /\ \A k \in 1 .. Len(L) - 1 : s[k] = IF k < i THEN L[k] ELSE L[k + 1]
  <1>1. /\ Len(L) \in Nat /\ i \in 1 .. Len(L)
        /\ \A k \in 1 .. Len(L) : L[k] \in ToSet(L)
    BY SeqFacts
  <1> DEFINE a == SubSeq(L, 1, i - 1)
             c == SubSeq(L, i + 1, Len(L))
  <1>2. /\ a \in Seq(ToSet(L)) /\ Len(a) = i - 1
        /\ \A k \in 1 .. i - 1 : a[k] = L[k]
    <2>1. \A k \in 1 .. i - 1 : L[k] \in ToSet(L)
      BY <1>1
    <2>2. /\ a \in Seq(ToSet(L))
          /\ Len(a) = IF 1 <= i - 1 THEN (i - 1) - 1 + 1 ELSE 0
          /\ \A k \in 1 .. (i - 1) - 1 + 1 : a[k] = L[1 + k - 1]
      BY <1>1, <2>1, SubSeqProperties
    <2>3. (i - 1) - 1 + 1 = i - 1 /\ \A k \in 1 .. i - 1 : 1 + k - 1 = k
      BY <1>1
    <2>4. Len(a) = i - 1
      BY <1>1, <2>2
    <2> QED
      BY <2>2, <2>3, <2>4
  <1>3. /\ c \in Seq(ToSet(L)) /\ Len(c) = Len(L) - i
        /\ \A k \in 1 .. Len(L) - i : c[k] = L[i + k]
    <2>1. \A k \in i + 1 .. Len(L) : L[k] \in ToSet(L)
      BY <1>1
    <2>2. /\ c \in Seq(ToSet(L))
          /\ Len(c) = IF i + 1 <= Len(L) THEN Len(L) - (i + 1) + 1 ELSE 0
          /\ \A k \in 1 .. Len(L) - (i + 1) + 1 : c[k] = L[(i + 1) + k - 1]
      BY <1>1, <2>1, SubSeqProperties
    <2>3. /\ Len(L) - (i + 1) + 1 = Len(L) - i
          /\ \A k \in 1 .. Len(L) - i : (i + 1) + k - 1 = i + k
      BY <1>1
    <2>4. Len(c) = Len(L) - i
      BY <1>1, <2>2
    <2> QED
      BY <2>2, <2>3, <2>4
  <1>4. s = a \o c
    BY DEF RemoveAt
  <1> HIDE DEF a, c
  <1>5. /\ Len(s) = Len(a) + Len(c)
        /\ \A k \in 1 .. Len(a) + Len(c) :
              s[k] = IF k <= Len(a) THEN a[k] ELSE c[k - Len(a)]
    BY <1>2, <1>3, <1>4, ConcatProperties
  <1>6. Len(a) + Len(c) = Len(L) - 1
    BY <1>1, <1>2, <1>3
  <1>7. ASSUME NEW k \in 1 .. Len(L) - 1
        PROVE  s[k] = IF k < i THEN L[k] ELSE L[k + 1]
    <2>1. CASE k < i
      <3>1. k \in 1 .. i - 1 /\ k <= Len(a)
        BY <1>1, <1>2, <2>1
      <3> QED
        BY <1>2, <1>5, <1>6, <2>1, <3>1
    <2>2. CASE ~(k < i)
      <3>1. /\ k - Len(a) \in 1 .. Len(L) - i /\ ~(k <= Len(a))
            /\ i + (k - Len(a)) = k + 1
        BY <1>1, <1>2, <2>2
      <3> QED
        BY <1>3, <1>5, <1>6, <2>2, <3>1
    <2> QED
      BY <2>1, <2>2
  <1> QED
    BY <1>5, <1>6, <1>7

\* Another entry moves those after it towards the end.
LEMMA GrownKeeps ==
  ASSUME NEW L, IsSeq(L), NEW L2, IsSeq(L2), Grown(L, L2),
         NEW o \in 0 .. Len(L)
  PROVE  /\ o \in 0 .. Len(L2)
         /\ \A x : (\E i \in o + 1 .. Len(L) : L[i] = x)
                      => \E i \in o + 1 .. Len(L2) : L2[i] = x
  <1>1. /\ Len(L) \in Nat /\ Len(L2) \in Nat /\ o \in Nat
        /\ DOMAIN L2 = 1 .. Len(L2)
    BY SeqFacts
  <1>2. CASE L2 = L
    BY <1>2
  <1>3. ASSUME NEW j \in DOMAIN L2, RemoveAt(L2, j) = L
        PROVE  /\ o \in 0 .. Len(L2)
               /\ \A x : (\E i \in o + 1 .. Len(L) : L[i] = x)
                            => \E i \in o + 1 .. Len(L2) : L2[i] = x
    <2>1. /\ Len(L) = Len(L2) - 1
          /\ \A k \in 1 .. Len(L2) - 1 : L[k] = IF k < j THEN L2[k] ELSE L2[k + 1]
      BY <1>3, RemoveAtIs
    <2>2. o \in 0 .. Len(L2)
      BY <1>1, <2>1
    <2>3. ASSUME NEW i \in o + 1 .. Len(L)
          PROVE  \E k \in o + 1 .. Len(L2) : L2[k] = L[i]
      <3>1. i \in 1 .. Len(L2) - 1 /\ i \in o + 1 .. Len(L2)
               /\ i + 1 \in o + 1 .. Len(L2)
        BY <1>1, <2>1
      <3> QED
        BY <2>1, <3>1
    <2> QED
      BY <2>2, <2>3
  <1> QED
    BY <1>2, <1>3 DEF Grown

\* The listing has one entry more, and all of it fits.
LEMMA FollowsGrown ==
  ASSUME NEW L, IsSeq(L), NEW L2, IsSeq(L2), Grown(L, L2), AllFit(L2),
         NEW w, Follows(w, L), w.state = "going", w.since \in {"same", "grown"},
         NEW w2, w2.state = "going", w2.since = "grown", w2.first = w.first,
         w2.got = w.got, w2.offset = w.offset
  PROVE  Follows(w2, L2)
  <1>1. /\ Len(L) \in Nat
        /\ \A x \in ToSet(L) : \E i \in 1 .. Len(L) : L[i] = x
    BY SeqFacts
  <1>2. w.offset \in 0 .. Len(L)
    BY DEF Follows
  <1>3. /\ IsSeq(w.got)
        /\ \A x \in ToSet(w.first) :
              x \in ToSet(w.got)
                 \/ \E i \in w.offset + 1 .. Len(L) : L[i] = x
    <2>1. CASE w.since = "grown"
      BY <2>1 DEF Follows
    <2>2. CASE w.since = "same"
      <3>1. w.first = L /\ w.got = SubSeq(L, 1, w.offset)
        BY <2>2 DEF Follows
      <3>2. /\ 0 \in 0 .. Len(L) /\ w.offset \in Nat
            /\ 0 + w.offset <= Len(L)
            /\ w.got = SubSeq(L, 0 + 1, 0 + w.offset)
            /\ 0 + 1 = 1 /\ 0 + w.offset = w.offset
        BY <1>1, <1>2, <3>1
      <3>3. IsSeq(w.got) /\ \A i \in 0 + 1 .. 0 + w.offset : L[i] \in ToSet(w.got)
        BY <3>2, PageGot
      <3>4. ASSUME NEW i \in 1 .. Len(L)
            PROVE  i \in 0 + 1 .. 0 + w.offset \/ i \in w.offset + 1 .. Len(L)
        BY <1>1, <1>2
      <3> QED
        BY <1>1, <3>1, <3>3, <3>4
    <2> QED
      BY <2>1, <2>2
  <1>4. /\ w.offset \in 0 .. Len(L2)
        /\ \A x : (\E i \in w.offset + 1 .. Len(L) : L[i] = x)
                     => \E i \in w.offset + 1 .. Len(L2) : L2[i] = x
    <2> DEFINE o == w.offset
    <2>1. o \in 0 .. Len(L)
      BY <1>2
    <2> HIDE DEF o
    <2>2. /\ o \in 0 .. Len(L2)
          /\ \A x : (\E i \in o + 1 .. Len(L) : L[i] = x)
                       => \E i \in o + 1 .. Len(L2) : L2[i] = x
      BY <2>1, GrownKeeps
    <2> QED
      BY <2>2 DEF o
  <1> QED
    BY <1>3, <1>4 DEF Follows

------------------------------------------------------------------------------
(* Steps of the walk. *)

\* Types of the listings and of the walk.
DataOK ==
    /\ kind \in Kind
    /\ dir \in [1 .. DirSize -> File \cup {NoFile}]
    /\ scan.count \in Nat
    /\ walk = [state |-> walk.state, by |-> walk.by, offset |-> walk.offset,
               got |-> walk.got, first |-> walk.first, since |-> walk.since]
    /\ walk.since \in {"same", "grown", "lost"}

WalkInv == DataOK /\ Follows(walk, Now)

\* The listing is a sequence.
LEMMA NowSeq ==
  ASSUME IInv, DataOK
  PROVE  IsSeq(Now)
  BY ListingSeq DEF IInv, RingTypeOK, DataOK, Now

\* No step changes what kind of listing the behaviour is about.
LEMMA FollowsAfter ==
  ASSUME kind' = kind, NEW w2, w2 = walk', NEW L2, L2 = Now', Follows(w2, L2)
  PROVE  Follows(walk, Now)'
  <1>1. AllFit(Now)' <=> AllFit(L2)
    BY DEF AllFit, Fits
  <1>2. AllFit(walk.first)' <=> AllFit(w2.first)
    BY DEF AllFit, Fits
  <1> QED
    BY <1>1, <1>2 DEF Follows

\* No walk is going at first.
LEMMA InitWalk == Init => WalkInv
  <1> SUFFICES ASSUME Init
               PROVE  WalkInv
    OBVIOUS
  <1>1. DataOK
    BY DEF Init, DataOK, NoWalk
  <1>2. walk.state = "idle"
    BY DEF Init, NoWalk
  <1> QED
    BY <1>1, <1>2 DEF WalkInv, Follows

\* A change of what is listed.
LEMMA NotedStep ==
  ASSUME IInv, WalkInv, IInv', kind' = kind,
         dir' \in [1 .. DirSize -> File \cup {NoFile}], scan'.count \in Nat,
         NEW L2, L2 = Now', Noted(L2)
  PROVE  WalkInv'
  <1> DEFINE L == Now
             w == walk
             w2 == walk'
  <1>1. DataOK'
    <2>1. walk' \in {walk, [walk EXCEPT !.since = "grown"],
                     [walk EXCEPT !.since = "lost", !.first = <<>>]}
      BY DEF Noted
    <2> QED
      BY <2>1 DEF WalkInv, DataOK
  <1>2. IsSeq(L) /\ IsSeq(L2)
    <2>1. IsSeq(L)
      BY NowSeq DEF WalkInv
    <2>2. IsSeq(Now)'
      <3>1. /\ ring' \in [RingName -> RingState]
            /\ \A r \in RingName : WellFilled(ring'[r])
            /\ kind \in Kind
        BY DEF IInv, RingTypeOK, WalkInv, DataOK
      <3>2. IsSeq(Listing(ring', dir', scan'))
        BY <3>1, ListingSeq
      <3>3. Listing(ring', dir', scan') = Now'
        BY DEF Listing, Now
      <3> QED
        BY <3>2, <3>3 DEF IsSeq, ToSet
    <2> QED
      BY <2>1, <2>2 DEF IsSeq, ToSet
  <1>3. Follows(w, L)
    BY DEF WalkInv
  <1>4. Follows(w2, L2)
    <2>1. CASE w.state # "going"
      BY <1>3, <2>1, FollowsIdle DEF Noted
    <2>2. CASE w.state = "going" /\ L2 = L
      BY <1>3, <2>2 DEF Noted
    <2>3. CASE /\ w.state = "going" /\ L2 # L /\ w.since # "lost"
               /\ Grown(L, L2) /\ AllFit(L2)
      <3>1. w2 = [w EXCEPT !.since = "grown"]
        BY <2>3 DEF Noted
      <3>2. /\ w2.state = "going" /\ w2.since = "grown"
            /\ w2.first = w.first /\ w2.got = w.got /\ w2.offset = w.offset
            /\ w.since \in {"same", "grown"}
        BY <2>3, <3>1 DEF WalkInv, DataOK
      <3> HIDE DEF w, w2, L
      <3> QED
        BY <1>2, <1>3, <2>3, <3>2, FollowsGrown
    <2>4. CASE /\ w.state = "going" /\ L2 # L
               /\ ~ (w.since # "lost" /\ Grown(L, L2) /\ AllFit(L2))
      <3>1. w2 = [w EXCEPT !.since = "lost", !.first = <<>>]
        BY <2>4 DEF Noted
      <3>2. w2.since = "lost" /\ w2.state = "going" /\ kind # "rings"
        BY <1>3, <2>4, <3>1 DEF WalkInv, DataOK, Follows
      <3> QED
        BY <3>2 DEF Follows
    <2> QED
      BY <2>1, <2>2, <2>3, <2>4
  <1>5. Follows(walk, Now)'
    BY <1>4, FollowsAfter
  <1> QED
    BY <1>1, <1>5 DEF WalkInv

\* Steps that leave the listing alone.
LEMMA StartStep ==
  ASSUME IInv, WalkInv, NEW by \in Client, StartWalk(by)
  PROVE  WalkInv'
  <1>1. /\ walk' = [NoWalk EXCEPT !.state = "going", !.by = by, !.first = Now]
        /\ kind' = kind /\ dir' = dir /\ scan' = scan /\ Now' = Now
        /\ kind # "rings"
    BY DEF StartWalk, ringvars, Now, Listing
  <1>2. DataOK'
    BY <1>1 DEF WalkInv, DataOK, NoWalk
  <1>3. IsSeq(Now)
    BY NowSeq DEF WalkInv
  <1> DEFINE w == walk'
             L == Now
  <1>4. /\ w.state = "going" /\ w.since = "same" /\ w.first = L
        /\ w.offset = 0 /\ w.got = <<>>
    BY <1>1 DEF NoWalk
  <1>5. Follows(w, L)
    <2> HIDE DEF w, L
    <2>1. IsSeq(L)
      BY <1>3 DEF L
    <2> QED
      BY <1>1, <1>4, <2>1, FollowsStart
  <1>6. Follows(walk, Now)'
    BY <1>1, <1>5, FollowsAfter
  <1> QED
    BY <1>2, <1>6 DEF WalkInv

\* A page is sent: the listing stays as it is.
LEMMA PageStep ==
  ASSUME IInv, WalkInv, Page
  PROVE  WalkInv'
  <1> DEFINE L == Now
             w == walk
             w2 == walk'
             n == PageLength(L, w.offset)
             more == /\ HasNext(L, w.offset, n)
                     /\ w.by = "peer" => NextOffset(L, w.offset, n) > 0
  <1>1. /\ w.state = "going"
        /\ kind' = kind /\ dir' = dir /\ scan' = scan /\ Now' = L
        /\ w2 = [w EXCEPT
              !.got = @ \o SubSeq(L, w.offset + 1, w.offset + n),
              !.offset = IF more THEN NextOffset(L, w.offset, n) ELSE 0,
              !.state = IF more THEN "going" ELSE "done"]
    BY DEF Page, ringvars, Now, Listing
  <1>2. DataOK'
    BY <1>1 DEF WalkInv, DataOK
  <1>3. IsSeq(L) /\ Follows(w, L)
    BY NowSeq DEF WalkInv
  <1>4. more <=> GoesOn(w, L, n)
    BY DEF HasNext, NextOffset, GoesOn
  <1>5. walk = [state |-> walk.state, by |-> walk.by, offset |-> walk.offset,
                got |-> walk.got, first |-> walk.first, since |-> walk.since]
    BY DEF WalkInv, DataOK
  <1>6. /\ w2.first = w.first /\ w2.since = w.since
        /\ w2.got = w.got \o SubSeq(L, w.offset + 1, w.offset + n)
        /\ GoesOn(w, L, n) => w2.offset = w.offset + n /\ w2.state = "going"
        /\ ~GoesOn(w, L, n) => w2.state = "done"
    <2> HIDE DEF more, n, L
    <2> QED
      BY <1>1, <1>4, <1>5 DEF NextOffset
  <1>7. Follows(w2, L)
    <2>1. n = PageLength(L, w.offset) /\ w.state = "going"
      BY <1>1
    <2> HIDE DEF n, L, w, w2
    <2> QED
      BY ONLY <1>3, <1>6, <2>1, FollowsPage
  <1>8. Follows(walk, Now)'
    BY <1>1, <1>7, FollowsAfter
  <1> QED
    BY <1>2, <1>8 DEF WalkInv

\* Every step keeps the walk in order.
LEMMA NextWalk ==
  ASSUME IInv, WalkInv, [Next]_vars
  PROVE  WalkInv'
  <1>1. IInv'
    BY NextIInv
  <1>2. ASSUME NEW by \in Client, StartWalk(by)
        PROVE  WalkInv'
    BY <1>2, StartStep
  <1>3. CASE Page
    BY <1>3, PageStep
  <1>4. CASE Abandon
    <2>1. /\ walk' = NoWalk /\ kind' = kind /\ dir' = dir /\ scan' = scan
      BY <1>4 DEF Abandon
    <2>2. DataOK'
      BY <2>1 DEF WalkInv, DataOK, NoWalk
    <2>3. walk'.state = "idle"
      BY <2>1 DEF NoWalk
    <2> QED
      BY <2>2, <2>3 DEF WalkInv, Follows
  <1>5. CASE PutBlob
    <2>1. /\ kind = "attest" /\ kind' = kind /\ dir' = dir /\ scan' = scan
          /\ Noted(Matching(ring'))
      BY <1>5 DEF PutBlob
    <2>2. Matching(ring') = Now'
      BY <2>1 DEF Now, Listing
    <2>3. dir' \in [1 .. DirSize -> File \cup {NoFile}] /\ scan'.count \in Nat
      BY <2>1 DEF WalkInv, DataOK
    <2> QED
      BY <1>1, <2>1, <2>2, <2>3, NotedStep
  <1>6. CASE RingStep
    <2>1. /\ kind = "rings" /\ kind' = kind /\ dir' = dir /\ scan' = scan
          /\ walk' = walk
      BY <1>6 DEF RingStep
    <2>2. DataOK'
      BY <2>1 DEF WalkInv, DataOK
    <2>3. walk.state # "going" /\ Follows(walk, Now)
      BY <2>1 DEF WalkInv, Follows
    <2>4. Follows(walk', Now')
      BY <2>1, <2>3, FollowsIdle
    <2> QED
      BY <2>1, <2>2, <2>4, FollowsAfter DEF WalkInv
  <1>7. ASSUME NEW f \in File, AddFile(f)
        PROVE  WalkInv'
    <2>1. /\ kind = "ls" /\ kind' = kind /\ scan' = scan
          /\ Noted(Listed(dir'))
          /\ \E i \in DOMAIN dir : dir' = [dir EXCEPT ![i] = f]
      BY <1>7 DEF AddFile
    <2>2. Listed(dir') = Now'
      BY <2>1 DEF Now, Listing
    <2>3. dir' \in [1 .. DirSize -> File \cup {NoFile}] /\ scan'.count \in Nat
      BY <2>1 DEF WalkInv, DataOK
    <2> QED
      BY <1>1, <2>1, <2>2, <2>3, NotedStep
  <1>8. ASSUME NEW f \in File, DeleteFile(f)
        PROVE  WalkInv'
    <2>1. /\ kind = "ls" /\ kind' = kind /\ scan' = scan
          /\ Noted(Listed(dir'))
          /\ \E i \in DOMAIN dir : dir' = [dir EXCEPT ![i] = NoFile]
      BY <1>8 DEF DeleteFile
    <2>2. Listed(dir') = Now'
      BY <2>1 DEF Now, Listing
    <2>3. dir' \in [1 .. DirSize -> File \cup {NoFile}] /\ scan'.count \in Nat
      BY <2>1 DEF WalkInv, DataOK
    <2> QED
      BY <1>1, <2>1, <2>2, <2>3, NotedStep
  <1>9. CASE ScanDone
    <2>1. /\ kind = "scan" /\ kind' = kind /\ dir' = dir
          /\ Noted(Observed(scan'))
          /\ \E k \in 0 .. MaxObs : scan' = [stamp |-> scan.stamp + 1, count |-> k]
      BY <1>9 DEF ScanDone
    <2>2. Observed(scan') = Now'
      BY <2>1 DEF Now, Listing
    <2>3. dir' \in [1 .. DirSize -> File \cup {NoFile}] /\ scan'.count \in Nat
      BY <2>1, PagedAssumption DEF WalkInv, DataOK
    <2> QED
      BY <1>1, <2>1, <2>2, <2>3, NotedStep
  <1>10. CASE UNCHANGED vars
    <2>1. /\ ring' = ring /\ kind' = kind /\ dir' = dir /\ scan' = scan
          /\ walk' = walk /\ Now' = Now
      BY <1>10 DEF vars, ringvars, Now, Listing
    <2>2. DataOK'
      BY <2>1 DEF WalkInv, DataOK
    <2>3. Follows(walk', Now')
      BY <2>1 DEF WalkInv
    <2> QED
      BY <2>1, <2>2, <2>3, FollowsAfter DEF WalkInv
  <1> QED
    BY <1>2, <1>3, <1>4, <1>5, <1>6, <1>7, <1>8, <1>9, <1>10 DEF Next

\* However a listing is cut into pages and whatever is written between them,
\* a walk has its beginning up to the offset, or what it began with is got or
\* still to come (cmd_ls, cmd_attest_query, cmd_scan_get and their clients).
THEOREM WalkInvariant == Spec => []WalkInv
  <1>1. Init => IInv /\ WalkInv
    BY InitIInv, InitWalk
  <1>2. IInv /\ WalkInv /\ [Next]_vars => (IInv /\ WalkInv)'
    BY NextIInv, NextWalk
  <1> QED
    BY <1>1, <1>2, PTL DEF Spec

\* A walk of a listing that did not change returns exactly the listing, in
\* order, for every page size (next_offset of cmd_ls, cmd_attest_query and
\* cmd_scan_get), if every entry fits a notification.
THEOREM WalksAreExact == Spec => []WalkIsExact
  <1>1. WalkInv => WalkIsExact
    BY DEF WalkInv, Follows, WalkIsExact
  <1> QED
    BY <1>1, WalkInvariant, PTL

\* A walk of a listing to which entries only came, at any place, skips none of
\* those it began with (attestations and files written between two pages).
THEOREM WalksSkipNothing == Spec => []NothingSkipped
  <1>1. WalkInv => NothingSkipped
    BY DEF WalkInv, Follows, NothingSkipped
  <1> QED
    BY <1>1, WalkInvariant, PTL
==============================================================================
