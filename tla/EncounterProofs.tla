---------------------------- MODULE EncounterProofs ----------------------------
(***************************************************************************)
(* The safety of the signed encounter, for every set of nodes, every       *)
(* number of connections and faults, and every size of the ledger.         *)
(*                                                                         *)
(* The number of a connection, which stands for the initiator's nonce,     *)
(* ties everything together: it belongs to one Central, its wire, the      *)
(* halves that travel there and the one record made of them.               *)
(*                                                                         *)
(* The second half is about a node's books: what its meeting count, its    *)
(* ledger and the lifetimes it signs have to do with its records.          *)
(***************************************************************************)
EXTENDS Encounter, SequenceTheorems, FiniteSetTheorems, TLAPS

\* A connection has one Central, and a wire knows whose it is.
LinkIds ==
    /\ \A i \in Node :
          /\ out[i].link <= links
          /\ out[i].phase # "IDLE" => out[i].link # 0
          /\ out[i].peer # NoNode => out[i].link # 0
    /\ \A j \in Node :
          /\ wire[j].link <= links
          /\ wire[j].from # j
          /\ wire[j].from # NoNode => wire[j].link # 0
    /\ \A i, k \in Node : out[i].link = out[k].link /\ out[i].link # 0 => i = k
    /\ \A i, j \in Node :
          out[i].peer = j /\ out[i].link = wire[j].link => wire[j].from = i

\* The half a Central proposes is its own, with the number of its connection.
OwnProposal ==
    \A i \in Node : out[i].phase = "HANDSHAKE" =>
        /\ out[i].me \in Half
        /\ out[i].me.node = i
        /\ out[i].me.nonce = out[i].link

\* What travels to a Peripheral: a proposal of this connection, or a
\* confirmation whose sender has the record.
Requests ==
    \A j \in Node :
        /\ wire[j].req.type = "PROPOSE" =>
              /\ wire[j].req.half.nonce = wire[j].link
              /\ wire[j].req.half.node = wire[j].from
        /\ wire[j].req.type = "CONFIRM" =>
              wire[j].req.sig.body \in records[wire[j].req.sig.by]

\* The responder session is about this connection.
Responders ==
    \A j \in Node :
        /\ wire[j].from = NoNode => inb[j] = InbIdle /\ wire[j].req = Silence
        /\ inb[j].armed => inb[j].me \in Half /\ inb[j].me.node = j
        /\ inb[j].state = "AWAIT_CONFIRM" =>
              /\ inb[j].armed
              /\ inb[j].rec \in Record
              /\ inb[j].rec.b.node = j
              /\ inb[j].rec.a.nonce = wire[j].link
              /\ inb[j].rec.a.node = wire[j].from
        /\ inb[j].done => \E r \in records[j] :
              /\ r.a.nonce = wire[j].link
              /\ r.a.node = wire[j].from
              /\ r.b.node = j

\* A connection with a record is past its handshake.
RecordedLinks ==
    \A n \in Node : \A r \in records[n] :
        /\ r.a.nonce <= links
        /\ \A i \in Node : out[i].link = r.a.nonce =>
              out[i].phase \notin {"OPENING", "HANDSHAKE"}

CrashesAreFaults == crashes <= faults

\* InitiatorCompletesFirst, of what is completed
CompletedFirst ==
    \A n \in Node : \A r \in records[n] : r \in records[r.a.node]

\* Only on_encounter_done stores records.
FilesCompleted == \A n \in Node : flash[n].files \subseteq records[n]

IInv ==
    /\ TypeOK
    /\ FilesCompleted
    /\ CrashesAreFaults
    /\ LinkIds
    /\ OwnProposal
    /\ Requests
    /\ Responders
    /\ RecordedLinks
    /\ CompletedFirst
    /\ OneRecordPerLink
    /\ ServedAfterRecord

------------------------------------------------------------------------------
(* The ledger. *)

\* Running totals stop at MaxTotal.
LEMMA SatAddType ==
  ASSUME NEW x \in 0 .. MaxTotal, NEW y \in Nat
  PROVE  SatAdd(x, y) \in 0 .. MaxTotal
  BY LedgerAssumption DEF SatAdd

\* A ledger with a slot for p is a ledger.
LEMMA UpsertedType ==
  ASSUME NEW l \in Ledger, NEW p \in Node
  PROVE  Upserted(l, p) \in Ledger
  <1>1. FirstContact(p) \in LedgerEntry
    BY LedgerAssumption DEF FirstContact, LedgerEntry
  <1> HIDE DEF LedgerEntry, FirstContact
  <1>2. l \in Seq(LedgerEntry) /\ Len(l) <= LedgerCap
    BY DEF Ledger
  <1>3. CASE Knows(l, p)
    BY <1>3 DEF Upserted
  <1>4. CASE ~Knows(l, p) /\ Len(l) < LedgerCap
    <2>1. /\ Append(l, FirstContact(p)) \in Seq(LedgerEntry)
          /\ Len(Append(l, FirstContact(p))) = Len(l) + 1
      BY <1>1, <1>2
    <2> QED
      BY <1>2, <1>4, <2>1, LedgerAssumption DEF Upserted, Ledger
  <1>5. CASE ~Knows(l, p) /\ ~(Len(l) < LedgerCap)
    <2> DEFINE u == [l EXCEPT ![Victim(l)] = FirstContact(p)]
    <2>1. u \in Seq(LedgerEntry) /\ Len(u) = Len(l)
      <3>1. CASE Victim(l) \in 1 .. Len(l)
        BY <1>1, <1>2, <3>1, ExceptSeq
      <3>2. CASE Victim(l) \notin 1 .. Len(l)
        <4>1. DOMAIN l = 1 .. Len(l)
          BY <1>2
        <4>2. l = [i \in DOMAIN l |-> l[i]]
          BY <1>2
        <4>3. u = [i \in DOMAIN l |-> l[i]]
          BY <3>2, <4>1
        <4> QED
          BY <1>2, <4>2, <4>3
      <3> QED
        BY <3>1, <3>2
    <2> QED
      BY <1>2, <1>5, <2>1 DEF Upserted, Ledger
  <1> QED
    BY <1>3, <1>4, <1>5

\* peer_ledger_apply leaves a ledger behind.
LEMMA AppliedType ==
  ASSUME NEW l \in Ledger, NEW p \in Node, NEW delta \in Nat, NEW c \in Nat
  PROVE  Applied(l, p, delta, c) \in Ledger
  <1> DEFINE u == Upserted(l, p)
             e(i) == IF u[i].peer # p THEN u[i]
                     ELSE [u[i] EXCEPT !.total = SatAdd(@, delta),
                                       !.met = IF c > @ THEN c ELSE @]
  <1>1. u \in Seq(LedgerEntry) /\ Len(u) <= LedgerCap
    BY UpsertedType DEF Ledger
  <1>2. Applied(l, p, delta, c) = [i \in DOMAIN u |-> e(i)]
    BY Zenon DEF Applied
  <1> HIDE DEF u
  <1>3. DOMAIN u = 1 .. Len(u) /\ Len(u) \in Nat
    BY <1>1
  <1>4. ASSUME NEW i \in 1 .. Len(u)
        PROVE  e(i) \in LedgerEntry
    <2>1. u[i] \in LedgerEntry
      BY <1>1
    <2>2. u[i].total \in 0 .. MaxTotal /\ u[i].met \in Nat
      BY <2>1 DEF LedgerEntry
    <2>3. SatAdd(u[i].total, delta) \in 0 .. MaxTotal
      BY <2>2, SatAddType
    <2>4. (IF c > u[i].met THEN c ELSE u[i].met) \in Nat
      BY <2>2
    <2>5. \A t \in 0 .. MaxTotal, m \in Nat :
              [u[i] EXCEPT !.total = t, !.met = m] \in LedgerEntry
      BY <2>1 DEF LedgerEntry
    <2>6. [u[i] EXCEPT !.total = SatAdd(@, delta),
                       !.met = IF c > @ THEN c ELSE @] \in LedgerEntry
      BY <2>3, <2>4, <2>5
    <2> QED
      BY <2>1, <2>6
  <1> HIDE DEF e
  <1> DEFINE v == [i \in 1 .. Len(u) |-> e(i)]
  <1>5. v \in Seq(LedgerEntry) /\ Len(v) = Len(u)
    BY <1>3, <1>4
  <1> QED
    BY <1>1, <1>2, <1>3, <1>5 DEF Ledger

\* A total the ledger answers is one.
LEMMA LifetimeType ==
  ASSUME NEW l \in Ledger, NEW p
  PROVE  Lifetime(l, p) \in 0 .. MaxTotal
  <1>1. CASE Knows(l, p)
    <2> DEFINE i == CHOOSE i \in DOMAIN l : l[i].peer = p
    <2>1. i \in DOMAIN l
      BY <1>1 DEF Knows
    <2> HIDE DEF i
    <2>2. l[i] \in LedgerEntry
      BY <2>1 DEF Ledger
    <2> QED
      BY <1>1, <2>2 DEF Lifetime, LedgerEntry, i
  <1>2. CASE ~Knows(l, p)
    BY <1>2, LedgerAssumption DEF Lifetime
  <1> QED
    BY <1>1, <1>2

------------------------------------------------------------------------------
(* Types. *)

\* The messages of the protocol
LEMMA MessageIntro ==
  /\ \A h \in Half : Propose(h) \in Message
  /\ \A h \in Half, s \in Signed : Accept(h, s) \in Message
  /\ \A s \in Signed : Confirm(s) \in Message
  /\ \A t \in {"NONE", "OK", "ERROR", "COMMAND", "DATA", "GARBAGE"} :
        Plain(t) \in Message
  /\ Silence \in Message
  /\ \A n \in Node, r \in Record : Signature(n, r) \in Signed
  BY DEF Propose, Accept, Confirm, Plain, Silence, Message, Signed, Signature

\* What is in them
LEMMA MessageElim ==
  ASSUME NEW m \in Message
  PROVE  /\ m.type \in {"PROPOSE", "ACCEPT", "CONFIRM", "NONE", "OK", "ERROR",
                        "COMMAND", "DATA", "GARBAGE"}
         /\ m.type = "PROPOSE" => m.half \in Half
         /\ m.type = "ACCEPT" => m.half \in Half /\ m.sig \in Signed
         /\ m.type = "CONFIRM" => m.sig \in Signed
  BY DEF Message

\* Halves and records
LEMMA HalfFacts ==
  /\ \A h \in Half : /\ h.node \in Node /\ h.count \in Nat /\ h.nonce \in Nat
                     /\ \A x \in 0 .. MaxTotal : [h EXCEPT !.life = x] \in Half
  /\ \A a, b \in Half : [a |-> a, b |-> b] \in Record
  /\ \A r \in Record : r.a \in Half /\ r.b \in Half
  /\ NoHalf \in SomeHalf
  /\ Half \subseteq SomeHalf
  /\ Record \subseteq [a : SomeHalf, b : SomeHalf]
  /\ NoRecord \in [a : SomeHalf, b : SomeHalf]
  BY DEF Half, Record, SomeHalf, NoRecord

\* A fresh half of node n
LEMMA LocalInputType ==
  ASSUME TypeOK, NEW n \in Node, NEW k \in Nat
  PROVE  /\ LocalInput(n, k) \in Half
         /\ LocalInput(n, k).node = n
         /\ LocalInput(n, k).nonce = k
  BY LedgerAssumption DEF LocalInput, Half, TypeOK

OutRec == [phase : OutPhase, peer : SomeNode, link : 0 .. MaxLinks,
           me : SomeHalf, known : SomeNode]

InbRec == [armed : BOOLEAN, done : BOOLEAN, state : InbState, me : SomeHalf,
           rec : [a : SomeHalf, b : SomeHalf], known : SomeNode]

WireRec == [from : SomeNode, link : 0 .. MaxLinks, up : BOOLEAN,
            req : Message, ans : Message]

\* The two ends and the wire at rest
LEMMA IdleTypes ==
  /\ OutIdle \in OutRec
  /\ InbIdle \in InbRec
  /\ WireIdle \in WireRec
  <1>1. NoNode \in SomeNode /\ 0 \in 0 .. MaxLinks
    BY EncounterAssumption DEF SomeNode
  <1>2. OutIdle \in OutRec
    BY <1>1, HalfFacts DEF OutIdle, OutRec, OutPhase
  <1>3. InbIdle \in InbRec
    BY <1>1, HalfFacts DEF InbIdle, InbRec, InbState
  <1>4. WireIdle \in WireRec
    BY <1>1, MessageIntro DEF WireIdle, WireRec
  <1> QED
    BY <1>2, <1>3, <1>4

\* The session a handler works on
LEMMA SessionType ==
  ASSUME TypeOK, NEW j \in Node
  PROVE  /\ \A k \in Nat : /\ Armed(j, k) \in InbRec
                           /\ Armed(j, k).armed
                           /\ Armed(j, k).state = "INIT"
                           /\ Armed(j, k).done = inb[j].done
                           /\ Armed(j, k).me \in Half
                           /\ Armed(j, k).me.node = j
         /\ Session(j) \in InbRec
         /\ Session(j).done = inb[j].done
  <1>1. inb[j] \in InbRec /\ wire[j].link \in Nat
    BY EncounterAssumption DEF TypeOK, InbRec
  <1>2. ASSUME NEW k \in Nat
        PROVE  /\ Armed(j, k) \in InbRec
               /\ Armed(j, k).armed
               /\ Armed(j, k).state = "INIT"
               /\ Armed(j, k).done = inb[j].done
               /\ Armed(j, k).me = LocalInput(j, k)
    BY <1>1, HalfFacts, LocalInputType DEF Armed, InbRec, InbState
  <1> QED
    BY <1>1, <1>2, LocalInputType DEF Session

\* A wire after its connection broke
LEMMA BrokenType ==
  ASSUME wire \in [Node -> WireRec], NEW j
  PROVE  Broken(j) \in [Node -> WireRec]
  BY MessageIntro DEF Broken, WireRec

\* The initial state has its types.
LEMMA InitTypes == Init => TypeOK
  <1> SUFFICES ASSUME Init
               PROVE  TypeOK
    OBVIOUS
  <1>1. <<>> \in Ledger
    BY LedgerAssumption DEF Ledger
  <1>2. 0 \in 0 .. MaxLinks /\ 0 \in 0 .. MaxFaults
    BY EncounterAssumption
  <1>3. /\ out \in [Node -> OutRec] /\ inb \in [Node -> InbRec]
        /\ wire \in [Node -> WireRec]
    BY IdleTypes DEF Init
  <1>4. flash \in [Node -> [files : SUBSET Record, count : Nat, ledger : Ledger]]
    BY <1>1 DEF Init
  <1> QED
    BY <1>1, <1>2, <1>3, <1>4 DEF Init, TypeOK, OutRec, InbRec, WireRec

FlashRec == [files : SUBSET Record, count : Nat, ledger : Ledger]

\* What a write leaves on flash is one of the things it may leave.
LEMMA WriteLeaves ==
  ASSUME TypeOK, NEW n \in Node, NEW w \in FlashRec, NEW F \in SUBSET FlashRec,
         Write(n, w, F)
  PROVE  /\ flash' \in [Node -> FlashRec]
         /\ \A m \in Node \ {n} : flash'[m] = flash[m]
         /\ flash'[n] \in F \cup {w}
         /\ faults' \in {faults, faults + 1}
         /\ faults' \in 0 .. MaxFaults
  <1>1. flash \in [Node -> FlashRec] /\ faults \in 0 .. MaxFaults
    BY DEF TypeOK, FlashRec
  <1>2. PICK f \in F \cup {w} : flash' = [flash EXCEPT ![n] = f]
    BY DEF Write
  <1>3. f \in FlashRec
    OBVIOUS
  <1>4. /\ flash' \in [Node -> FlashRec]
        /\ \A m \in Node \ {n} : flash'[m] = flash[m]
        /\ flash'[n] = f
    BY <1>1, <1>2, <1>3
  <1>5. faults' \in {faults, faults + 1} /\ faults' \in 0 .. MaxFaults
    BY <1>1, EncounterAssumption DEF Write, Fault
  <1> QED
    BY <1>4, <1>5

\* on_encounter_done completes one encounter of one node.
LEMMA DoneRecords ==
  ASSUME TypeOK, NEW n \in Node, NEW r, NEW p, EncounterDone(n, r, p)
  PROVE  \A m \in Node : records'[m] = IF m = n THEN records[m] \cup {r}
                                                ELSE records[m]
  BY DEF EncounterDone, TypeOK

\* What on_encounter_done leaves behind, in RAM and on flash
LEMMA EncounterDoneTypes ==
  ASSUME TypeOK, NEW n \in Node, NEW r \in Record, NEW p \in Node,
         EncounterDone(n, r, p)
  PROVE  /\ records' \in [Node -> SUBSET Record]
         /\ count' \in [Node -> Nat]
         /\ ledger' \in [Node -> Ledger]
         /\ flash' \in [Node -> FlashRec]
         /\ faults' \in {faults, faults + 1} /\ faults' \in 0 .. MaxFaults
         /\ \A m \in Node : records'[m] = IF m = n THEN records[m] \cup {r}
                                                   ELSE records[m]
         /\ \A m \in Node \ {n} : flash'[m] = flash[m]
         /\ flash'[n].files \subseteq flash[n].files \cup {r}
         /\ flash'[n].count \in {flash[n].count, count'[n], 0}
         /\ flash'[n].ledger \in {flash[n].ledger, ledger'[n], <<>>}
  <1> DEFINE files == flash[n].files
             met == Applied(ledger[n], p, 0, IF p = r.a.node THEN r.a.count
                                                             ELSE r.b.count)
             w == [files |-> files \cup {r}, count |-> count[n] + 1,
                   ledger |-> met]
             F == [files : {files, files \cup {r}},
                   count : {flash[n].count, count[n] + 1, 0},
                   ledger : {flash[n].ledger, met, <<>>}]
  <1>1. r.a.count \in Nat /\ r.b.count \in Nat
    BY HalfFacts
  <1>2. met \in Ledger /\ <<>> \in Ledger
    <2>1. ledger[n] \in Ledger
      BY DEF TypeOK
    <2>2. met \in Ledger
      BY <1>1, <2>1, AppliedType
    <2>3. <<>> \in Ledger
      BY LedgerAssumption DEF Ledger
    <2> QED
      BY <2>2, <2>3
  <1>3. /\ records' = [records EXCEPT ![n] = @ \cup {r}]
        /\ count' = [count EXCEPT ![n] = @ + 1]
        /\ ledger' = [ledger EXCEPT ![n] = met]
        /\ Write(n, w, F)
    BY DEF EncounterDone
  <1> HIDE DEF met
  <1>4. /\ ledger' \in [Node -> Ledger] /\ ledger'[n] = met
        /\ count' \in [Node -> Nat] /\ count'[n] = count[n] + 1
    BY <1>2, <1>3 DEF TypeOK
  <1>5. /\ records' \in [Node -> SUBSET Record]
        /\ \A m \in Node : records'[m] = IF m = n THEN records[m] \cup {r}
                                                  ELSE records[m]
    BY <1>3 DEF TypeOK
  <1>6. /\ files \in SUBSET Record /\ flash[n].count \in Nat
        /\ flash[n].ledger \in Ledger /\ count[n] + 1 \in Nat
    BY DEF TypeOK
  <1>7. w \in F
    OBVIOUS
  <1>8. ASSUME NEW f \in F
        PROVE  /\ f \in FlashRec
               /\ f.files \subseteq files \cup {r}
               /\ f.count \in {flash[n].count, count[n] + 1, 0}
               /\ f.ledger \in {flash[n].ledger, met, <<>>}
    BY <1>2, <1>6 DEF FlashRec
  <1> HIDE DEF w, F, files
  <1>9. /\ flash' \in [Node -> FlashRec]
        /\ \A m \in Node \ {n} : flash'[m] = flash[m]
        /\ flash'[n] \in F \cup {w}
        /\ faults' \in {faults, faults + 1} /\ faults' \in 0 .. MaxFaults
    BY <1>3, <1>7, <1>8, WriteLeaves
  <1>10. flash'[n] \in F
    BY <1>7, <1>9
  <1> QED
    BY <1>4, <1>5, <1>8, <1>9, <1>10 DEF files

\* What a disconnect callback does to the ledger
LEMMA AccountForTypes ==
  ASSUME TypeOK, NEW n \in Node, NEW p \in SomeNode, AccountFor(n, p)
  PROVE  /\ ledger' \in [Node -> Ledger]
         /\ flash' \in [Node -> FlashRec]
         /\ faults' \in {faults, faults + 1} /\ faults' \in 0 .. MaxFaults
         /\ \A m \in Node : /\ flash'[m].files = flash[m].files
                            /\ flash'[m].count = flash[m].count
                            /\ flash'[m].ledger \in
                                  {flash[m].ledger, ledger'[m], <<>>}
         /\ ledger' = IF p = NoNode THEN ledger
                      ELSE [ledger EXCEPT ![n] = Applied(@, p, 1, 0)]
  <1>1. CASE p = NoNode
    BY <1>1, EncounterAssumption DEF AccountFor, TypeOK, FlashRec
  <1>2. CASE p # NoNode
    <2> DEFINE new == Applied(ledger[n], p, 1, 0)
               stored(l) == [flash[n] EXCEPT !.ledger = l]
               w == stored(new)
               F == {stored(l) : l \in {flash[n].ledger, <<>>}}
    <2>1. new \in Ledger /\ <<>> \in Ledger
      BY <1>2, AppliedType, LedgerAssumption DEF TypeOK, SomeNode, Ledger
    <2>2. /\ ledger' = [ledger EXCEPT ![n] = new]
          /\ Write(n, w, F)
      BY <1>2 DEF AccountFor
    <2>3. ledger' = [ledger EXCEPT ![n] = Applied(@, p, 1, 0)]
      BY <2>2
    <2> HIDE DEF new
    <2>4. ledger' \in [Node -> Ledger] /\ ledger'[n] = new
      BY <2>1, <2>2 DEF TypeOK
    <2>5. flash[n] \in FlashRec
      BY DEF TypeOK, FlashRec
    <2>6. ASSUME NEW l \in Ledger
          PROVE  /\ stored(l) \in FlashRec
                 /\ stored(l).files = flash[n].files
                 /\ stored(l).count = flash[n].count
                 /\ stored(l).ledger = l
      BY <2>5 DEF FlashRec
    <2>7. flash[n].ledger \in Ledger
      BY <2>5 DEF FlashRec
    <2> HIDE DEF stored
    <2>8. w \in FlashRec /\ F \in SUBSET FlashRec
      BY <2>1, <2>6, <2>7
    <2>9. /\ flash' \in [Node -> FlashRec]
          /\ \A m \in Node \ {n} : flash'[m] = flash[m]
          /\ flash'[n] \in F \cup {w}
          /\ faults' \in {faults, faults + 1} /\ faults' \in 0 .. MaxFaults
      <3> HIDE DEF w, F
      <3> QED
        BY <2>2, <2>8, WriteLeaves
    <2>10. PICK l \in {flash[n].ledger, <<>>, new} : flash'[n] = stored(l)
      BY <2>9
    <2>11. /\ flash'[n].files = flash[n].files
           /\ flash'[n].count = flash[n].count
           /\ flash'[n].ledger \in {flash[n].ledger, ledger'[n], <<>>}
      BY <2>1, <2>4, <2>6, <2>7, <2>10
    <2> QED
      BY <1>2, <2>3, <2>4, <2>9, <2>11
  <1> QED
    BY <1>1, <1>2

\* A Central with a link has a Peripheral.
LEMMA LinkedPeer ==
  ASSUME TypeOK, NEW i \in Node, Linked(i)
  PROVE  out[i].peer \in Node
  BY DEF TypeOK, Linked, SomeNode

\* Writing a request, an answer or both keeps the type of the wires.
LEMMA WireWrites ==
  ASSUME wire \in [Node -> WireRec], NEW j \in Node,
         NEW m1 \in Message, NEW m2 \in Message
  PROVE  /\ [wire EXCEPT ![j].req = m1] \in [Node -> WireRec]
         /\ [wire EXCEPT ![j].ans = m2] \in [Node -> WireRec]
         /\ [wire EXCEPT ![j].req = m1, ![j].ans = m2] \in [Node -> WireRec]
  <1>1. wire[j] \in WireRec
    OBVIOUS
  <1>2. /\ [wire[j] EXCEPT !.req = m1] \in WireRec
        /\ [wire[j] EXCEPT !.ans = m2] \in WireRec
        /\ [wire[j] EXCEPT !.req = m1, !.ans = m2] \in WireRec
    BY <1>1 DEF WireRec
  <1>3. [wire EXCEPT ![j].req = m1] \in [Node -> WireRec]
    BY <1>2
  <1>4. [wire EXCEPT ![j].ans = m2] \in [Node -> WireRec]
    BY <1>2
  <1>5. [wire EXCEPT ![j].req = m1, ![j].ans = m2] \in [Node -> WireRec]
    BY <1>1, <1>2
  <1> QED
    BY <1>3, <1>4, <1>5

BooksTypes ==
    /\ count \in [Node -> Nat]
    /\ ledger \in [Node -> Ledger]
    /\ flash \in [Node -> FlashRec]
    /\ records \in [Node -> SUBSET Record]
    /\ setback \subseteq Node

Bounds ==
    /\ links \in 0 .. MaxLinks
    /\ faults \in 0 .. MaxFaults
    /\ crashes \in 0 .. MaxFaults

Parts ==
    /\ BooksTypes
    /\ out \in [Node -> OutRec]
    /\ inb \in [Node -> InbRec]
    /\ wire \in [Node -> WireRec]
    /\ signed \in [Node -> Nat]
    /\ served \subseteq 1 .. MaxLinks
    /\ Bounds

\* TypeOK by its parts
LEMMA TypeParts == (TypeOK <=> Parts) /\ (TypeOK' <=> Parts')
  BY DEF TypeOK, Parts, OutRec, InbRec, WireRec, FlashRec, BooksTypes, Bounds

\* The session a handler works on is the node's own.
LEMMA SessionOwn ==
  ASSUME IInv, NEW j \in Node
  PROVE  /\ Session(j) \in InbRec
         /\ Session(j).done = inb[j].done
         /\ Session(j).armed
         /\ Session(j).me \in Half
         /\ Session(j).me.node = j
         /\ Session(j).state = "AWAIT_CONFIRM" =>
               /\ Session(j).rec \in Record
               /\ Session(j).rec.b.node = j
               /\ Session(j).rec.a.nonce = wire[j].link
               /\ Session(j).rec.a.node = wire[j].from
  <1>1. TypeOK /\ Responders /\ wire[j].link \in Nat /\ inb[j] \in InbRec
    BY EncounterAssumption DEF IInv, TypeOK, InbRec
  <1>2. CASE inb[j].armed
    BY <1>1, <1>2 DEF Session, Responders
  <1>3. CASE ~inb[j].armed
    BY <1>1, <1>3, SessionType DEF Session
  <1> QED
    BY <1>2, <1>3

\* Types are kept by the steps of a Peripheral.
LEMMA PeripheralTypes ==
  ASSUME IInv, NEW j \in Node,
         TakePropose(j) \/ TakeConfirm(j) \/ ServeCommand(j) \/ RefuseCommand(j)
         \/ InboundDisconnected(j)
  PROVE  TypeOK'
  <1>0. /\ TypeOK /\ BooksTypes
        /\ out \in [Node -> OutRec] /\ inb \in [Node -> InbRec]
        /\ wire \in [Node -> WireRec] /\ signed \in [Node -> Nat]
        /\ served \subseteq 1 .. MaxLinks /\ Bounds
    BY TypeParts DEF IInv, Parts
  <1>1. /\ wire[j].req \in Message /\ wire[j].link \in 0 .. MaxLinks
        /\ wire[j].from \in SomeNode /\ inb[j].known \in SomeNode
        /\ Session(j) \in InbRec /\ Session(j).me \in Half
    BY <1>0, SessionOwn DEF WireRec, InbRec
  <1>a. ASSUME NEW m \in Message, Answer(j, m)
        PROVE  wire' \in [Node -> WireRec]
    BY <1>0, <1>a, WireWrites, MessageIntro DEF Answer
  <1>2. CASE TakePropose(j)
    <2> DEFINE a == wire[j].req.half
               b == [Session(j).me EXCEPT !.life = Lifetime(ledger[j], a.node)]
               r == [a |-> a, b |-> b]
    <2>1. a \in Half /\ a.node \in Node
      BY <1>1, <1>2, MessageElim, HalfFacts DEF TakePropose, Proposed
    <2>2. b \in Half /\ b.count \in Nat
      BY <1>0, <1>1, <2>1, LifetimeType, HalfFacts DEF BooksTypes
    <2>3. r \in Record
      BY <2>1, <2>2, HalfFacts
    <2>4. Accept(b, Signature(j, r)) \in Message
      BY <2>2, <2>3, MessageIntro
    <2>5. /\ inb' = [inb EXCEPT ![j] = [Session(j) EXCEPT
                        !.state = "AWAIT_CONFIRM", !.me = b, !.rec = r]]
          /\ Answer(j, Accept(b, Signature(j, r)))
          /\ signed' = [signed EXCEPT ![j] = b.count]
          /\ UNCHANGED <<books, out, served, unbounded>>
      BY <1>2 DEF TakePropose
    <2> HIDE DEF a, b, r
    <2>6. inb' \in [Node -> InbRec]
      BY <1>0, <1>1, <2>2, <2>3, <2>5, HalfFacts DEF InbRec, InbState
    <2>7. wire' \in [Node -> WireRec]
      BY <1>a, <2>4, <2>5
    <2> QED
      BY <1>0, <2>2, <2>5, <2>6, <2>7, TypeParts
      DEF Parts, BooksTypes, Bounds, books, unbounded
  <1>3. CASE TakeConfirm(j)
    <2>1. Session(j).rec \in Record /\ Session(j).rec.a.node \in Node
      BY <1>3, SessionOwn, HalfFacts DEF TakeConfirm, Confirmed
    <2>2. BooksTypes'
      BY <1>0, <1>3, <2>1, EncounterDoneTypes DEF TakeConfirm, BooksTypes
    <2>3. inb' \in [Node -> InbRec]
      BY <1>0, <1>1, <1>3, <2>1
      DEF TakeConfirm, InbRec, InbState, SomeNode
    <2>4. wire' \in [Node -> WireRec]
      BY <1>a, <1>3, MessageIntro DEF TakeConfirm
    <2>5. Bounds'
      BY <1>0, <1>3, <2>1, EncounterDoneTypes DEF TakeConfirm, Bounds
    <2> QED
      BY <1>0, <1>3, <2>2, <2>3, <2>4, <2>5, TypeParts
      DEF TakeConfirm, Parts
  <1>4. CASE ServeCommand(j)
    <2>1. wire' \in [Node -> WireRec]
      <3>1. Answer(j, Plain("DATA")) \/ Answer(j, Plain("ERROR"))
        BY <1>4 DEF ServeCommand
      <3> QED
        BY <1>a, <3>1, MessageIntro
    <2>2. served' \subseteq 1 .. MaxLinks
      <3>1. wire[j].req # Silence
        BY <1>4 DEF ServeCommand
      <3>2. wire[j].from # NoNode
        BY <3>1 DEF IInv, Responders
      <3>3. wire[j].link \in 1 .. MaxLinks
        BY <1>1, <3>2 DEF IInv, LinkIds
      <3> QED
        BY <1>0, <1>4, <3>3 DEF ServeCommand
    <2> QED
      BY <1>0, <1>4, <2>1, <2>2, TypeParts
      DEF ServeCommand, Parts, BooksTypes, Bounds, books, unbounded
  <1>5. CASE RefuseCommand(j)
    <2>1. wire' \in [Node -> WireRec]
      BY <1>a, <1>5, MessageIntro DEF RefuseCommand
    <2>2. inb' \in [Node -> InbRec]
      BY <1>0, <1>5, IdleTypes DEF RefuseCommand, Refused
    <2> QED
      BY <1>0, <1>5, <2>1, <2>2, TypeParts
      DEF RefuseCommand, Parts, BooksTypes, Bounds, books, unbounded
  <1>6. CASE InboundDisconnected(j)
    <2>1. BooksTypes' /\ Bounds'
      BY <1>0, <1>1, <1>6, AccountForTypes
      DEF InboundDisconnected, BooksTypes, Bounds
    <2>2. inb' \in [Node -> InbRec] /\ wire' \in [Node -> WireRec]
      BY <1>0, <1>6, IdleTypes DEF InboundDisconnected
    <2> QED
      BY <1>0, <1>6, <2>1, <2>2, TypeParts
      DEF InboundDisconnected, Parts
  <1> QED
    BY <1>2, <1>3, <1>4, <1>5, <1>6

\* Types are kept by the steps of a Central.
LEMMA CentralTypes ==
  ASSUME IInv, NEW i \in Node,
         ClientConnected(i) \/ TakeAccept(i) \/ AcceptFails(i) \/ TakeAck(i)
         \/ SyncOn(i) \/ SyncOver(i) \/ ClientDisconnected(i)
  PROVE  TypeOK'
  <1>0. /\ TypeOK /\ BooksTypes
        /\ out \in [Node -> OutRec] /\ inb \in [Node -> InbRec]
        /\ wire \in [Node -> WireRec] /\ signed \in [Node -> Nat]
        /\ served \subseteq 1 .. MaxLinks /\ Bounds
    BY TypeParts DEF IInv, Parts
  <1>1. /\ out[i] \in OutRec /\ out[i].known \in SomeNode /\ out[i].link \in Nat
    BY <1>0, EncounterAssumption DEF OutRec
  <1>a. ASSUME NEW m \in Message, Linked(i), Send(i, m)
        PROVE  wire' \in [Node -> WireRec]
    BY <1>0, <1>a, LinkedPeer, WireWrites, MessageIntro DEF Send
  <1>b. ASSUME HangUp(i)
        PROVE  /\ wire' \in [Node -> WireRec]
               /\ out' \in [Node -> OutRec]
    <2>1. [out[i] EXCEPT !.phase = "CLOSING"] \in OutRec
      BY <1>1 DEF OutRec, OutPhase
    <2> QED
      BY <1>0, <1>b, <2>1, BrokenType DEF HangUp
  <1>2. CASE ClientConnected(i)
    <2> DEFINE me == LocalInput(i, out[i].link)
    <2>1. me \in Half
      BY <1>0, <1>1, LocalInputType
    <2>2. /\ Linked(i)
          /\ out' = [out EXCEPT ![i].phase = "HANDSHAKE", ![i].me = me]
          /\ wire' = [wire EXCEPT ![out[i].peer].req = Propose(me)]
          /\ UNCHANGED <<books, inb, signed, served, unbounded>>
      BY <1>2 DEF ClientConnected
    <2> HIDE DEF me
    <2>3. wire' \in [Node -> WireRec]
      BY <1>0, <2>1, <2>2, LinkedPeer, WireWrites, MessageIntro
    <2>4. [out[i] EXCEPT !.phase = "HANDSHAKE", !.me = me] \in OutRec
      BY <1>1, <2>1, HalfFacts DEF OutRec, OutPhase
    <2>5. out' \in [Node -> OutRec]
      BY <1>0, <2>2, <2>4
    <2> QED
      BY <1>0, <2>2, <2>3, <2>5, TypeParts
      DEF Parts, BooksTypes, Bounds, books, unbounded
  <1>3. CASE TakeAccept(i)
    <2> DEFINE b == wire[out[i].peer].ans.half
               r == [a |-> out[i].me, b |-> b]
    <2>1. Linked(i) /\ out[i].peer \in Node
      BY <1>0, <1>3, LinkedPeer DEF TakeAccept, Answered
    <2>2. wire[out[i].peer].ans \in Message
      BY <1>0, <2>1 DEF WireRec
    <2>3. b \in Half /\ b.node \in Node
      BY <1>3, <2>2, MessageElim, HalfFacts DEF TakeAccept, Accepted
    <2>4. out[i].me \in Half
      BY <1>3 DEF TakeAccept, Answered, IInv, OwnProposal
    <2>5. r \in Record /\ r.a = out[i].me /\ r.a.count \in Nat
      BY <2>3, <2>4, HalfFacts
    <2>6. /\ EncounterDone(i, r, b.node)
          /\ signed' = [signed EXCEPT ![i] = r.a.count]
          /\ Send(i, Confirm(Signature(i, r)))
          /\ out' = [out EXCEPT ![i].phase = "CONFIRMED", ![i].known = b.node]
          /\ UNCHANGED <<setback, inb, served, links, crashes>>
      BY <1>3 DEF TakeAccept
    <2> HIDE DEF b, r
    <2>7. wire' \in [Node -> WireRec]
      BY <1>a, <2>1, <2>5, <2>6, MessageIntro
    <2>8. [out[i] EXCEPT !.phase = "CONFIRMED", !.known = b.node] \in OutRec
      BY <1>1, <2>3 DEF OutRec, OutPhase, SomeNode
    <2>9. out' \in [Node -> OutRec]
      BY <1>0, <2>6, <2>8
    <2>10. BooksTypes' /\ Bounds'
      BY <1>0, <2>3, <2>5, <2>6, EncounterDoneTypes DEF BooksTypes, Bounds
    <2> QED
      BY <1>0, <2>5, <2>6, <2>7, <2>9, <2>10, TypeParts
      DEF Parts
  <1>4. CASE AcceptFails(i) \/ SyncOver(i)
    BY <1>0, <1>b, <1>4, TypeParts
    DEF AcceptFails, SyncOver, Parts, BooksTypes, Bounds, books, unbounded
  <1>5. CASE TakeAck(i)
    <2>1. wire' \in [Node -> WireRec]
      BY <1>a, <1>5, MessageIntro DEF TakeAck, Answered
    <2>2. [out[i] EXCEPT !.phase = "SYNCING"] \in OutRec
      BY <1>1 DEF OutRec, OutPhase
    <2>3. out' \in [Node -> OutRec]
      BY <1>0, <1>5, <2>2 DEF TakeAck
    <2> QED
      BY <1>0, <1>5, <2>1, <2>3, TypeParts
      DEF TakeAck, Parts, BooksTypes, Bounds, books, unbounded
  <1>6. CASE SyncOn(i)
    <2>1. wire' \in [Node -> WireRec]
      BY <1>a, <1>6, MessageIntro DEF SyncOn, Answered
    <2> QED
      BY <1>0, <1>6, <2>1, TypeParts
      DEF SyncOn, Parts, BooksTypes, Bounds, books, unbounded
  <1>7. CASE ClientDisconnected(i)
    <2>1. BooksTypes' /\ Bounds'
      BY <1>0, <1>1, <1>7, AccountForTypes
      DEF ClientDisconnected, BooksTypes, Bounds
    <2>2. out' \in [Node -> OutRec]
      BY <1>0, <1>7, IdleTypes DEF ClientDisconnected
    <2> QED
      BY <1>0, <1>7, <2>1, <2>2, TypeParts
      DEF ClientDisconnected, Parts
  <1> QED
    BY <1>2, <1>3, <1>4, <1>5, <1>6, <1>7

\* Types are kept by a new link and by faults.
LEMMA OtherTypes ==
  ASSUME IInv, NEW i \in Node, NEW j \in Node,
         LinkUp(i, j) \/ Drop(j) \/ LoseAnswer(j) \/ Garble(j) \/ Crash(i)
  PROVE  TypeOK'
  <1>0. /\ TypeOK /\ BooksTypes
        /\ out \in [Node -> OutRec] /\ inb \in [Node -> InbRec]
        /\ wire \in [Node -> WireRec] /\ signed \in [Node -> Nat]
        /\ served \subseteq 1 .. MaxLinks /\ Bounds
    BY TypeParts DEF IInv, Parts
  <1>1. CASE LinkUp(i, j)
    <2>1. links + 1 \in 0 .. MaxLinks /\ links + 1 \in Nat
      BY <1>0, <1>1, EncounterAssumption DEF LinkUp, Bounds
    <2>2. [OutIdle EXCEPT !.phase = "OPENING", !.peer = j, !.link = links + 1]
              \in OutRec
      BY <2>1, IdleTypes DEF OutRec, OutPhase, SomeNode
    <2>3. [WireIdle EXCEPT !.from = i, !.up = TRUE, !.link = links + 1]
              \in WireRec
      BY <2>1, IdleTypes DEF WireRec, SomeNode
    <2>4. Armed(j, links + 1) \in InbRec
      BY <1>0, <2>1, SessionType
    <2>5. /\ out' \in [Node -> OutRec] /\ wire' \in [Node -> WireRec]
          /\ inb' \in [Node -> InbRec]
      BY <1>0, <1>1, <2>2, <2>3, <2>4 DEF LinkUp
    <2>6. Bounds'
      BY <1>0, <1>1, <2>1 DEF LinkUp, Bounds
    <2> QED
      BY <1>0, <1>1, <2>5, <2>6, TypeParts
      DEF LinkUp, Parts, BooksTypes, books
  <1>2. CASE Drop(j) \/ LoseAnswer(j) \/ Garble(j)
    <2>1. Bounds'
      BY <1>0, <1>2, EncounterAssumption DEF Drop, LoseAnswer, Garble, Fault, Bounds
    <2>2. CASE Drop(j)
      <3>1. wire' \in [Node -> WireRec]
        BY <1>0, <2>2, BrokenType DEF Drop
      <3> QED
        BY <1>0, <2>1, <2>2, <3>1, TypeParts
        DEF Drop, Parts, BooksTypes, books
    <2>3. CASE LoseAnswer(j) \/ Garble(j)
      <3>0. Silence \in Message /\ Plain("GARBAGE") \in Message
        BY MessageIntro
      <3>1. wire' \in [Node -> WireRec]
        <4>1. \/ wire' = [wire EXCEPT ![j].ans = Silence]
              \/ wire' = [wire EXCEPT ![j].req = Plain("GARBAGE")]
              \/ wire' = [wire EXCEPT ![j].ans = Plain("GARBAGE")]
          BY <2>3 DEF LoseAnswer, Garble
        <4>2. \A m \in Message :
                  /\ [wire EXCEPT ![j].req = m] \in [Node -> WireRec]
                  /\ [wire EXCEPT ![j].ans = m] \in [Node -> WireRec]
          BY <1>0, WireWrites
        <4> QED
          BY <3>0, <4>1, <4>2, Zenon
      <3> QED
        BY <1>0, <2>1, <2>3, <3>1, TypeParts
        DEF LoseAnswer, Garble, Parts, BooksTypes, books
    <2> QED
      BY <1>2, <2>2, <2>3
  <1>3. CASE Crash(i)
    <2>1. Bounds'
      BY <1>0, <1>3, EncounterAssumption
      DEF Crash, Fault, Bounds, IInv, CrashesAreFaults
    <2>2. out' \in [Node -> OutRec] /\ inb' \in [Node -> InbRec]
      BY <1>0, <1>3, IdleTypes DEF Crash
    <2>3. wire' \in [Node -> WireRec]
      <3>1. (IF Linked(i) THEN Broken(out[i].peer) ELSE wire) \in [Node -> WireRec]
        BY <1>0, BrokenType
      <3> QED
        BY <1>3, <3>1, IdleTypes DEF Crash
    <2>4. BooksTypes'
      <3>1. flash[i].count \in Nat /\ flash[i].ledger \in Ledger
        BY <1>0 DEF BooksTypes, FlashRec
      <3>2. count' \in [Node -> Nat] /\ ledger' \in [Node -> Ledger]
        BY <1>0, <1>3, <3>1 DEF Crash, BooksTypes
      <3>3. setback' \subseteq Node
        BY <1>0, <1>3 DEF Crash, BooksTypes
      <3> QED
        BY <1>0, <1>3, <3>2, <3>3 DEF Crash, BooksTypes
    <2> QED
      BY <1>0, <1>3, <2>1, <2>2, <2>3, <2>4, TypeParts
      DEF Crash, Parts
  <1> QED
    BY <1>1, <1>2, <1>3

\* Every step keeps the types, and counts its power losses as faults.
LEMMA TypeStep ==
  ASSUME IInv, Next
  PROVE  TypeOK' /\ CrashesAreFaults'
  <1>1. TypeOK'
    BY PeripheralTypes, CentralTypes, OtherTypes DEF Next
  <1>2. /\ crashes <= faults /\ crashes \in Nat /\ faults \in Nat
    BY EncounterAssumption DEF IInv, CrashesAreFaults, TypeOK
  <1> DEFINE Spent == \/ faults' = faults /\ crashes' = crashes
                      \/ /\ faults' = faults + 1
                         /\ crashes' = crashes \/ crashes' = crashes + 1
  <1>3. Spent
    <2>1. ASSUME NEW i \in Node, NEW j \in Node, LinkUp(i, j)
          PROVE  Spent
      BY <2>1 DEF LinkUp
    <2>2. ASSUME NEW j \in Node,
                 TakePropose(j) \/ TakeConfirm(j)
          PROVE  Spent
      BY <2>2 DEF TakePropose, TakeConfirm, EncounterDone, Write, Fault,
                  unbounded
    <2>3. ASSUME NEW j \in Node,
                 ServeCommand(j) \/ RefuseCommand(j) \/ Drop(j) \/ LoseAnswer(j)
                   \/ Garble(j)
          PROVE  Spent
      BY <2>3 DEF ServeCommand, RefuseCommand, Drop, LoseAnswer, Garble, Fault,
                  unbounded
    <2>4. ASSUME NEW j \in Node,
                 InboundDisconnected(j) \/ ClientDisconnected(j)
          PROVE  Spent
      BY <2>4 DEF InboundDisconnected, ClientDisconnected, AccountFor, Write,
                  Fault, unbounded
    <2>5. ASSUME NEW i \in Node, ClientConnected(i) \/ TakeAccept(i) \/ AcceptFails(i)
          PROVE  Spent
      BY <2>5 DEF ClientConnected, TakeAccept, AcceptFails, EncounterDone, Write,
                  Fault, unbounded
    <2>6. ASSUME NEW i \in Node, TakeAck(i) \/ SyncOn(i) \/ SyncOver(i) \/ Crash(i)
          PROVE  Spent
      BY <2>6 DEF TakeAck, SyncOn, SyncOver, Crash, Fault, unbounded
    <2> QED
      BY <2>1, <2>2, <2>3, <2>4, <2>5, <2>6 DEF Next
  <1> QED
    BY <1>1, <1>2, <1>3 DEF CrashesAreFaults

------------------------------------------------------------------------------
(* What a step does to the two ends, the wires and the records. *)

\* A Central keeps its connection, gives it up, or gets a new one.
LEMMA OutStep ==
  ASSUME IInv, Next, NEW x \in Node
  PROVE  \/ /\ out'[x].link = out[x].link /\ out'[x].peer = out[x].peer
            /\ out'[x].phase \in {"OPENING", "HANDSHAKE"} =>
                  out[x].phase \in {"OPENING", "HANDSHAKE"}
            /\ out'[x].phase # "IDLE" => out[x].phase # "IDLE"
         \/ out'[x] = OutIdle
         \/ \E j \in Node : /\ LinkUp(x, j)
                            /\ out'[x].link = links + 1 /\ out'[x].peer = j
                            /\ out'[x].phase = "OPENING"
  <1>1. out \in [Node -> OutRec]
    BY TypeParts DEF IInv, Parts
  <1> USE <1>1
  <1>2. ASSUME NEW i \in Node, NEW j \in Node, LinkUp(i, j)
        PROVE  IF x = i THEN /\ out'[x].link = links + 1 /\ out'[x].peer = j
                             /\ out'[x].phase = "OPENING"
                        ELSE out'[x] = out[x]
    BY <1>2 DEF LinkUp, OutIdle
  <1>3. ASSUME NEW j \in Node,
               TakePropose(j) \/ TakeConfirm(j) \/ ServeCommand(j)
               \/ RefuseCommand(j) \/ InboundDisconnected(j) \/ Drop(j)
               \/ LoseAnswer(j) \/ Garble(j)
        PROVE  out' = out
    BY <1>3 DEF TakePropose, TakeConfirm, ServeCommand, RefuseCommand,
                InboundDisconnected, Drop, LoseAnswer, Garble
  <1>4. ASSUME NEW i \in Node, ClientConnected(i)
        PROVE  /\ out'[x].link = out[x].link /\ out'[x].peer = out[x].peer
               /\ x = i => out[x].phase = "OPENING"
               /\ x # i => out'[x] = out[x]
    BY <1>4 DEF ClientConnected, OutRec
  <1>5. ASSUME NEW i \in Node, TakeAccept(i)
        PROVE  /\ out'[x].link = out[x].link /\ out'[x].peer = out[x].peer
               /\ x = i => /\ out[x].phase = "HANDSHAKE"
                           /\ out'[x].phase = "CONFIRMED"
               /\ x # i => out'[x] = out[x]
    BY <1>5 DEF TakeAccept, Answered, OutRec
  <1>6. ASSUME NEW i \in Node,
               AcceptFails(i) \/ TakeAck(i) \/ SyncOn(i) \/ SyncOver(i)
        PROVE  /\ out'[x].link = out[x].link /\ out'[x].peer = out[x].peer
               /\ \/ out'[x].phase = out[x].phase
                  \/ /\ out[x].phase # "IDLE"
                     /\ out'[x].phase \in {"SYNCING", "CLOSING"}
    BY <1>6 DEF AcceptFails, TakeAck, SyncOn, SyncOver, HangUp, Answered, OutRec
  <1>7. ASSUME NEW i \in Node, ClientDisconnected(i) \/ Crash(i)
        PROVE  out'[x] = OutIdle \/ out'[x] = out[x]
    BY <1>7 DEF ClientDisconnected, Crash
  <1> QED
    BY <1>2, <1>3, <1>4, <1>5, <1>6, <1>7 DEF Next

\* A wire keeps its connection, gives it up, or gets a new one.
LEMMA WireStep ==
  ASSUME IInv, Next, NEW y \in Node
  PROVE  \/ /\ wire'[y].link = wire[y].link
            /\ wire'[y].from = wire[y].from
         \/ wire'[y] = WireIdle /\ inb'[y] = InbIdle
         \/ \E i \in Node : /\ LinkUp(i, y)
                            /\ wire'[y].link = links + 1 /\ wire'[y].from = i
  <1>1. wire \in [Node -> WireRec] /\ inb \in [Node -> InbRec]
    BY TypeParts DEF IInv, Parts
  <1> USE <1>1
  <1>2. ASSUME NEW i \in Node, NEW j \in Node, LinkUp(i, j)
        PROVE  IF y = j THEN wire'[y].link = links + 1 /\ wire'[y].from = i
                        ELSE wire'[y] = wire[y]
    BY <1>2 DEF LinkUp, WireIdle
  <1>a. ASSUME NEW j, NEW m1, NEW m2,
               \/ wire' = wire
               \/ wire' = [wire EXCEPT ![j].req = m1]
               \/ wire' = [wire EXCEPT ![j].ans = m2]
               \/ wire' = [wire EXCEPT ![j].req = m1, ![j].ans = m2]
               \/ wire' = Broken(j)
        PROVE  wire'[y].link = wire[y].link /\ wire'[y].from = wire[y].from
    <2>0. wire[y] \in WireRec
      OBVIOUS
    <2>1. CASE wire' = wire
      BY <2>1
    <2>2. CASE wire' = [wire EXCEPT ![j].req = m1]
      BY <2>0, <2>2 DEF WireRec
    <2>3. CASE wire' = [wire EXCEPT ![j].ans = m2]
      BY <2>0, <2>3 DEF WireRec
    <2>4. CASE wire' = [wire EXCEPT ![j].req = m1, ![j].ans = m2]
      BY <2>0, <2>4 DEF WireRec
    <2>5. CASE wire' = Broken(j)
      BY <2>0, <2>5 DEF WireRec, Broken
    <2> QED
      BY <1>a, <2>1, <2>2, <2>3, <2>4, <2>5
  <1>3. ASSUME NEW j \in Node, TakePropose(j) \/ TakeConfirm(j)
                               \/ ServeCommand(j) \/ RefuseCommand(j)
        PROVE  wire'[y].link = wire[y].link /\ wire'[y].from = wire[y].from
    <2>1. \E m : Answer(j, m)
      BY <1>3 DEF TakePropose, TakeConfirm, ServeCommand, RefuseCommand
    <2> QED
      BY <1>a, <2>1 DEF Answer
  <1>4. ASSUME NEW j \in Node, InboundDisconnected(j)
        PROVE  \/ wire'[y] = WireIdle /\ inb'[y] = InbIdle
               \/ wire'[y] = wire[y]
    BY <1>4 DEF InboundDisconnected
  <1>5. ASSUME NEW j \in Node, Drop(j) \/ LoseAnswer(j) \/ Garble(j)
        PROVE  wire'[y].link = wire[y].link /\ wire'[y].from = wire[y].from
    <2>1. CASE Drop(j)
      BY <1>a, <2>1 DEF Drop
    <2>2. CASE LoseAnswer(j)
      BY <1>a, <2>2 DEF LoseAnswer
    <2>3. CASE Garble(j)
      BY <1>a, <2>3 DEF Garble
    <2> QED
      BY <1>5, <2>1, <2>2, <2>3
  <1>6. ASSUME NEW i \in Node,
               ClientConnected(i) \/ TakeAccept(i) \/ AcceptFails(i)
               \/ TakeAck(i) \/ SyncOn(i) \/ SyncOver(i) \/ ClientDisconnected(i)
        PROVE  wire'[y].link = wire[y].link /\ wire'[y].from = wire[y].from
    <2>1. CASE ClientConnected(i)
      BY <1>a, <2>1 DEF ClientConnected
    <2>2. CASE TakeAccept(i) \/ TakeAck(i) \/ SyncOn(i)
      <3>1. \E m : Send(i, m)
        BY <2>2 DEF TakeAccept, TakeAck, SyncOn
      <3> QED
        BY <1>a, <3>1 DEF Send
    <2>3. CASE AcceptFails(i) \/ SyncOver(i)
      BY <1>a, <2>3 DEF AcceptFails, SyncOver, HangUp
    <2>4. CASE ClientDisconnected(i)
      BY <2>4 DEF ClientDisconnected
    <2> QED
      BY <1>6, <2>1, <2>2, <2>3, <2>4
  <1>7. ASSUME NEW i \in Node, Crash(i)
        PROVE  \/ wire'[y] = WireIdle /\ inb'[y] = InbIdle
               \/ wire'[y].link = wire[y].link /\ wire'[y].from = wire[y].from
    <2>1. /\ wire' = [IF Linked(i) THEN Broken(out[i].peer) ELSE wire
                      EXCEPT ![i] = WireIdle]
          /\ inb' = [inb EXCEPT ![i] = InbIdle]
      BY <1>7 DEF Crash
    <2>2. /\ Broken(out[i].peer) \in [Node -> WireRec]
          /\ Broken(out[i].peer)[y].link = wire[y].link
          /\ Broken(out[i].peer)[y].from = wire[y].from
      BY BrokenType DEF Broken, WireRec
    <2> QED
      BY <2>1, <2>2
  <1> QED
    BY <1>2, <1>3, <1>4, <1>5, <1>6, <1>7 DEF Next

\* The number of connections counts up.
LEMMA LinksStep ==
  ASSUME IInv, Next
  PROVE  /\ links \in Nat /\ links' \in Nat
         /\ links' = links \/ links' = links + 1
         /\ \A i, j \in Node : LinkUp(i, j) => links' = links + 1
  <1>1. links \in Nat
    BY EncounterAssumption DEF IInv, TypeOK
  <1>2. links' = links \/ links' = links + 1
    BY DEF Next, LinkUp, TakePropose, TakeConfirm, ServeCommand, RefuseCommand,
           InboundDisconnected, Drop, LoseAnswer, Garble, ClientConnected,
           TakeAccept, AcceptFails, TakeAck, SyncOn, SyncOver,
           ClientDisconnected, Crash, unbounded
  <1>3. \A i, j \in Node : LinkUp(i, j) => links' = links + 1
    BY DEF LinkUp
  <1> QED
    BY <1>1, <1>2, <1>3

\* Connections stay with the Central and the wire they were given to.
LEMMA LinkIdsStep ==
  ASSUME IInv, Next
  PROVE  LinkIds'
  <1>0. LinkIds /\ TypeOK
    BY DEF IInv
  <1>1. /\ \A x \in Node : out[x].link \in Nat
        /\ \A y \in Node : wire[y].link \in Nat
        /\ NoNode \notin Node
    BY <1>0, EncounterAssumption DEF TypeOK
  <1>2. ASSUME NEW x \in Node
        PROVE  /\ out'[x].link <= links'
               /\ out'[x].phase # "IDLE" => out'[x].link # 0
               /\ out'[x].peer # NoNode => out'[x].link # 0
    BY <1>0, <1>1, OutStep, LinksStep DEF LinkIds, OutIdle
  <1>3. ASSUME NEW y \in Node
        PROVE  /\ wire'[y].link <= links'
               /\ wire'[y].from # y
               /\ wire'[y].from # NoNode => wire'[y].link # 0
    <2>1. \A i \in Node : LinkUp(i, y) => i # y
      BY DEF LinkUp
    <2> QED
      BY <1>0, <1>1, <2>1, WireStep, LinksStep DEF LinkIds, WireIdle
  <1>4. ASSUME NEW x \in Node, NEW z \in Node,
               out'[x].link = out'[z].link, out'[x].link # 0, x # z
        PROVE  FALSE
    <2>1. \A v \in {x, z} :
             \/ out'[v].link = out[v].link
             \/ out'[v].link = 0
             \/ out'[v].link = links + 1 /\ \E j \in Node : LinkUp(v, j)
      BY OutStep DEF OutIdle
    <2>2. \A j, k \in Node : ~(LinkUp(x, j) /\ LinkUp(z, k))
      <3> SUFFICES ASSUME NEW j \in Node, NEW k \in Node,
                          LinkUp(x, j), LinkUp(z, k)
                   PROVE  FALSE
        OBVIOUS
      <3>1. out \in [Node -> OutRec]
        BY <1>0, TypeParts DEF Parts
      <3>2. /\ out'[x].phase = "OPENING" /\ out[x].phase = "IDLE"
            /\ out'[x] = out[x]
        BY <1>4, <3>1 DEF LinkUp, OutIdle
      <3> QED
        BY <3>2
    <2>3. out[x].link <= links /\ out[z].link <= links
      BY <1>0 DEF LinkIds
    <2>4. out[x].link = out[z].link /\ out[x].link # 0
      BY <1>1, <1>4, <2>1, <2>2, <2>3, LinksStep
    <2> QED
      BY <1>0, <1>4, <2>4 DEF LinkIds
  <1>5. ASSUME NEW x \in Node, NEW y \in Node,
               out'[x].peer = y, out'[x].link = wire'[y].link
        PROVE  wire'[y].from = x
    <2>1. CASE \E i, j \in Node : LinkUp(i, j)
      <3>1. PICK i \in Node, j \in Node : LinkUp(i, j)
        BY <2>1
      <3>2. out \in [Node -> OutRec] /\ wire \in [Node -> WireRec]
        BY <1>0, TypeParts DEF Parts
      <3>3. /\ x = i => out'[x].link = links + 1 /\ out'[x].peer = j
            /\ x # i => out'[x] = out[x]
            /\ y = j => wire'[y].link = links + 1 /\ wire'[y].from = i
            /\ y # j => wire'[y] = wire[y]
        BY <3>1, <3>2 DEF LinkUp, OutIdle, WireIdle
      <3>4. out[x].link <= links /\ wire[y].link <= links
        BY <1>0 DEF LinkIds
      <3> QED
        BY <1>0, <1>1, <1>5, <3>3, <3>4, LinksStep DEF LinkIds
    <2>2. CASE ~(\E i, j \in Node : LinkUp(i, j))
      <3>1. out'[x].link = out[x].link /\ out'[x].peer = out[x].peer
        BY <1>1, <1>5, <2>2, OutStep DEF OutIdle
      <3>2. out[x].link # 0
        BY <1>0, <1>1, <1>5, <3>1 DEF LinkIds
      <3>3. wire'[y].link = wire[y].link /\ wire'[y].from = wire[y].from
        <4>1. wire'[y].link # 0
          BY <1>5, <3>1, <3>2
        <4>2. WireIdle.link = 0
          BY DEF WireIdle
        <4>3. \/ /\ wire'[y].link = wire[y].link
                 /\ wire'[y].from = wire[y].from
              \/ wire'[y] = WireIdle
          BY <2>2, WireStep
        <4> QED
          BY <4>1, <4>2, <4>3
      <3> QED
        BY <1>0, <1>5, <3>1, <3>3 DEF LinkIds
    <2> QED
      BY <2>1, <2>2
  <1> QED
    BY <1>2, <1>3, <1>4, <1>5 DEF LinkIds

\* A Central proposes its own half.
LEMMA OwnProposalStep ==
  ASSUME IInv, Next
  PROVE  OwnProposal'
  <1>0. OwnProposal /\ TypeOK /\ out \in [Node -> OutRec]
    BY TypeParts DEF IInv, Parts
  <1> SUFFICES ASSUME NEW x \in Node, out'[x].phase = "HANDSHAKE"
               PROVE  /\ out'[x].me \in Half
                      /\ out'[x].me.node = x
                      /\ out'[x].me.nonce = out'[x].link
    BY DEF OwnProposal
  <1>1. CASE ClientConnected(x)
    <2>1. out'[x] = [out[x] EXCEPT !.phase = "HANDSHAKE",
                                   !.me = LocalInput(x, out[x].link)]
      BY <1>0, <1>1 DEF ClientConnected
    <2>2. out[x] \in OutRec /\ out[x].link \in Nat
      BY <1>0, EncounterAssumption DEF OutRec
    <2>3. /\ out'[x].me = LocalInput(x, out[x].link)
          /\ out'[x].link = out[x].link
      BY <2>1, <2>2 DEF OutRec
    <2> QED
      BY <1>0, <2>2, <2>3, LocalInputType
  <1>2. CASE out'[x] = out[x]
    BY <1>0, <1>2 DEF OwnProposal
  <1>3. ASSUME ~ClientConnected(x)
        PROVE  out'[x] = out[x]
    <2>1. ASSUME NEW i \in Node, ClientDisconnected(i) \/ Crash(i)
          PROVE  out'[x] = out[x]
      <3>1. x # i
        BY <1>0, <2>1 DEF ClientDisconnected, Crash, OutIdle
      <3> QED
        BY <1>0, <2>1, <3>1 DEF ClientDisconnected, Crash
    <2>4. ASSUME NEW i \in Node, NEW j \in Node, LinkUp(i, j)
          PROVE  out'[x] = out[x]
      BY <1>0, <2>4 DEF LinkUp, OutIdle
    <2>5. ASSUME NEW i \in Node, ClientConnected(i)
          PROVE  out'[x] = out[x]
      <3>1. x # i
        BY <1>3, <2>5
      <3> QED
        BY <1>0, <2>5, <3>1 DEF ClientConnected
    <2>2. ASSUME NEW i \in Node,
                 TakeAccept(i) \/ AcceptFails(i) \/ TakeAck(i) \/ SyncOver(i)
          PROVE  out'[x] = out[x]
      <3>1. x # i
        BY <1>0, <2>2
        DEF TakeAccept, AcceptFails, TakeAck, SyncOver, HangUp, OutRec
      <3> QED
        BY <1>0, <2>2, <3>1 DEF TakeAccept, AcceptFails, TakeAck, SyncOver, HangUp
    <2>3. ASSUME NEW j \in Node,
                 TakePropose(j) \/ TakeConfirm(j) \/ ServeCommand(j)
                 \/ RefuseCommand(j) \/ InboundDisconnected(j) \/ Drop(j)
                 \/ LoseAnswer(j) \/ Garble(j) \/ SyncOn(j)
          PROVE  out'[x] = out[x]
      BY <2>3 DEF TakePropose, TakeConfirm, ServeCommand, RefuseCommand,
                  InboundDisconnected, Drop, LoseAnswer, Garble, SyncOn
    <2> QED
      BY <2>1, <2>2, <2>3, <2>4, <2>5 DEF Next
  <1> QED
    BY <1>1, <1>2, <1>3

\* What a step may leave on the flash of node m: as it was, as it is in RAM, or
\* emptied
Flashed(m) ==
    /\ flash'[m].files \subseteq records'[m]
    /\ flash'[m].count \in {flash[m].count, count'[m], 0}
    /\ flash'[m].ledger \in {flash[m].ledger, ledger'[m], <<>>}

\* on_encounter_done does.
LEMMA DoneFlashed ==
  ASSUME IInv, NEW n \in Node, NEW r \in Record, NEW p \in Node,
         EncounterDone(n, r, p), NEW m \in Node
  PROVE  Flashed(m)
  <1>1. TypeOK /\ flash[m].files \subseteq records[m]
    BY DEF IInv, FilesCompleted
  <1> QED
    BY <1>1, EncounterDoneTypes DEF Flashed

\* The record that the Central i makes of an ACCEPT
AcceptMakes(i, r) ==
    /\ r.a.node = i /\ r.a.nonce = out[i].link
    /\ \A m \in Node : records'[m] =
          IF m = i THEN records[m] \cup {r} ELSE records[m]
    /\ Send(i, Confirm(Signature(i, r)))
    /\ out[i].phase = "HANDSHAKE" /\ out'[i].phase = "CONFIRMED"
    /\ out'[i].link = out[i].link
    /\ \A x \in Node \ {i} : out'[x] = out[x]
    /\ \A m \in Node : Flashed(m)

\* The record that the Peripheral j makes of a CONFIRM
ConfirmMakes(j, r) ==
    /\ r.b.node = j
    /\ r.a.nonce = wire[j].link /\ r.a.node = wire[j].from
    /\ r.a.node \in Node
    /\ r \in records[r.a.node]
    /\ \A m \in Node : records'[m] =
          IF m = j THEN records[m] \cup {r} ELSE records[m]
    /\ wire[j].from # NoNode
    /\ \A m \in Node : Flashed(m)

\* A Central that takes an ACCEPT keeps a record of its connection and sends
\* a confirmation of that record.
LEMMA AcceptFacts ==
  ASSUME IInv, NEW i \in Node, TakeAccept(i)
  PROVE  \E r \in Record : AcceptMakes(i, r)
  <1> DEFINE b == wire[out[i].peer].ans.half
             r == [a |-> out[i].me, b |-> b]
  <1>0. /\ TypeOK /\ out \in [Node -> OutRec] /\ wire \in [Node -> WireRec]
    BY TypeParts DEF IInv, Parts
  <1>1. Linked(i) /\ out[i].peer \in Node /\ out[i].phase = "HANDSHAKE"
    BY <1>0, LinkedPeer DEF TakeAccept, Answered
  <1>2. wire[out[i].peer].ans \in Message
    BY <1>0, <1>1 DEF WireRec
  <1>3. b \in Half /\ b.node \in Node
    BY <1>2, MessageElim, HalfFacts DEF TakeAccept, Accepted
  <1>4. /\ out[i].me \in Half /\ out[i].me.node = i
        /\ out[i].me.nonce = out[i].link
    BY <1>1 DEF IInv, OwnProposal
  <1>5. r \in Record /\ r.a = out[i].me
    BY <1>3, <1>4, HalfFacts
  <1>6. /\ EncounterDone(i, r, b.node)
        /\ Send(i, Confirm(Signature(i, r)))
        /\ out' = [out EXCEPT ![i].phase = "CONFIRMED", ![i].known = b.node]
    BY DEF TakeAccept
  <1> HIDE DEF b, r
  <1>7. \A m \in Node : records'[m] = IF m = i THEN records[m] \cup {r}
                                               ELSE records[m]
    BY <1>0, <1>1, <1>6, DoneRecords
  <1>8. out[i] \in OutRec
    BY <1>0
  <1>9. /\ out'[i].phase = "CONFIRMED" /\ out'[i].link = out[i].link
        /\ \A x \in Node \ {i} : out'[x] = out[x]
    BY <1>0, <1>6, <1>8 DEF OutRec
  <1>10. \A m \in Node : Flashed(m)
    BY <1>3, <1>5, <1>6, DoneFlashed
  <1> QED
    BY <1>1, <1>4, <1>5, <1>6, <1>7, <1>9, <1>10 DEF AcceptMakes

\* A Peripheral that takes a CONFIRM keeps a record its initiator has.
LEMMA ConfirmFacts ==
  ASSUME IInv, NEW j \in Node, TakeConfirm(j)
  PROVE  \E r \in Record : ConfirmMakes(j, r)
  <1> DEFINE r == Session(j).rec
  <1>1. /\ r \in Record /\ r.b.node = j
        /\ r.a.nonce = wire[j].link /\ r.a.node = wire[j].from
        /\ r.a.node \in Node
    BY SessionOwn, HalfFacts DEF TakeConfirm, Confirmed
  <1>2. r \in records[r.a.node]
    <2>1. /\ wire[j].req.type = "CONFIRM"
          /\ wire[j].req.sig = Signature(r.a.node, r)
      BY DEF TakeConfirm, Confirmed
    <2>2. wire[j].req.sig.body = r /\ wire[j].req.sig.by = r.a.node
      BY <2>1 DEF Signature
    <2> QED
      BY <2>1, <2>2 DEF IInv, Requests
  <1>3. \A m \in Node : records'[m] = IF m = j THEN records[m] \cup {r}
                                               ELSE records[m]
    <2>1. TypeOK /\ EncounterDone(j, r, r.a.node)
      BY DEF IInv, TakeConfirm
    <2> HIDE DEF r
    <2> QED
      BY <2>1, DoneRecords
  <1>4. wire[j].from # NoNode
    BY <1>1, EncounterAssumption
  <1>5. \A m \in Node : Flashed(m)
    <2>1. EncounterDone(j, r, r.a.node)
      BY DEF TakeConfirm
    <2> HIDE DEF r
    <2> QED
      BY <1>1, <2>1, DoneFlashed
  <1> QED
    BY <1>1, <1>2, <1>3, <1>4, <1>5 DEF ConfirmMakes

\* Only these two steps make records; none loses one.
LEMMA RecordsStep ==
  ASSUME IInv, Next
  PROVE  /\ \A n \in Node : records[n] \subseteq records'[n]
         /\ \/ records' = records
            \/ \E i \in Node : TakeAccept(i) \/ TakeConfirm(i)
  <1>1. CASE \E i \in Node : TakeAccept(i) \/ TakeConfirm(i)
    <2>1. PICK i \in Node : TakeAccept(i) \/ TakeConfirm(i)
      BY <1>1
    <2>2. \E r : \A m \in Node : records'[m] =
              IF m = i THEN records[m] \cup {r} ELSE records[m]
      <3>1. CASE TakeAccept(i)
        <4>1. PICK r \in Record : AcceptMakes(i, r)
          BY <3>1, AcceptFacts
        <4> QED
          BY <4>1 DEF AcceptMakes
      <3>2. CASE TakeConfirm(i)
        <4>1. PICK r \in Record : ConfirmMakes(i, r)
          BY <3>2, ConfirmFacts
        <4> QED
          BY <4>1 DEF ConfirmMakes
      <3> QED
        BY <2>1, <3>1, <3>2
    <2> QED
      BY <1>1, <2>2
  <1>2. CASE ~(\E i \in Node : TakeAccept(i) \/ TakeConfirm(i))
    <2>1. records' = records
      BY <1>2
      DEF Next, LinkUp, TakePropose, ServeCommand, RefuseCommand,
          InboundDisconnected, Drop, LoseAnswer, Garble, ClientConnected,
          AcceptFails, TakeAck, SyncOn, SyncOver, ClientDisconnected, Crash,
          books
    <2> QED
      BY <2>1
  <1> QED
    BY <1>1, <1>2

\* What is on flash comes from RAM.
LEMMA FlashStep ==
  ASSUME IInv, Next, NEW n \in Node
  PROVE  Flashed(n)
  <1>0. /\ TypeOK /\ out \in [Node -> OutRec] /\ inb \in [Node -> InbRec]
        /\ flash[n].files \subseteq records[n]
        /\ records[n] \subseteq records'[n]
    BY TypeParts, RecordsStep DEF IInv, Parts, FilesCompleted
  <1>1. CASE flash' = flash
    BY <1>0, <1>1 DEF Flashed
  <1>2. ASSUME NEW i \in Node, TakeAccept(i) \/ TakeConfirm(i)
        PROVE  Flashed(n)
    BY <1>2, AcceptFacts, ConfirmFacts DEF AcceptMakes, ConfirmMakes
  <1>3. ASSUME NEW i \in Node, ClientDisconnected(i) \/ InboundDisconnected(i)
        PROVE  Flashed(n)
    <2>1. out[i].known \in SomeNode /\ inb[i].known \in SomeNode
      BY <1>0 DEF OutRec, InbRec
    <2>2. AccountFor(i, out[i].known) \/ AccountFor(i, inb[i].known)
      BY <1>3 DEF ClientDisconnected, InboundDisconnected
    <2> QED
      BY <1>0, <2>1, <2>2, AccountForTypes DEF Flashed
  <1> QED
    BY <1>1, <1>2, <1>3
    DEF Next, LinkUp, TakePropose, ServeCommand, RefuseCommand, Drop,
        LoseAnswer, Garble, ClientConnected, AcceptFails, TakeAck, SyncOn,
        SyncOver, Crash, books

\* The properties of records
LEMMA RecordPropertiesStep ==
  ASSUME IInv, Next
  PROVE  CompletedFirst' /\ OneRecordPerLink'
  <1>0. /\ TypeOK /\ CompletedFirst /\ OneRecordPerLink /\ RecordedLinks
        /\ \A n \in Node : records[n] \subseteq Record
        /\ \A n \in Node : records[n] \subseteq records'[n]
        /\ \A r \in Record : r.a.node \in Node
    BY RecordsStep, HalfFacts DEF IInv, TypeOK
  <1>a. ASSUME NEW n \in Node, NEW r \in Record, r \in records'[r.a.node],
               \A m \in Node : records'[m] =
                   IF m = n THEN records[m] \cup {r} ELSE records[m]
        PROVE  CompletedFirst'
    <2> SUFFICES ASSUME NEW m \in Node, NEW s \in records'[m]
                 PROVE  s \in records'[s.a.node]
      BY DEF CompletedFirst
    <2>1. CASE s \in records[m]
      <3>1. s \in records[s.a.node] /\ s.a.node \in Node
        BY <1>0, <2>1 DEF CompletedFirst
      <3> QED
        BY <1>0, <3>1
    <2>2. CASE s = r
      BY <1>a, <2>2
    <2> QED
      BY <1>a, <2>1, <2>2
  <1>b. \A m, n \in Node : \A s \in records[m], t \in records[n] :
            /\ m \in {s.a.node, s.b.node}
            /\ s.a.nonce = t.a.nonce => s = t
    BY <1>0 DEF OneRecordPerLink
  <1>1. CASE records' = records
    BY <1>0, <1>1 DEF CompletedFirst, OneRecordPerLink
  <1>2. ASSUME NEW i \in Node, TakeAccept(i)
        PROVE  CompletedFirst' /\ OneRecordPerLink'
    <2>1. PICK r \in Record : AcceptMakes(i, r)
      BY <1>2, AcceptFacts
    <2>2. /\ r.a.node = i
          /\ \A m \in Node : records'[m] =
                IF m = i THEN records[m] \cup {r} ELSE records[m]
      BY <2>1 DEF AcceptMakes
    <2>3. CompletedFirst'
      BY <1>a, <2>2
    <2>4. \A n \in Node : \A s \in records[n] : s.a.nonce # r.a.nonce
      BY <1>0, <2>1 DEF RecordedLinks, AcceptMakes
    <2>5. ASSUME NEW m \in Node, NEW n \in Node,
                 NEW s \in records'[m], NEW t \in records'[n]
          PROVE  /\ m \in {s.a.node, s.b.node}
                 /\ s.a.nonce = t.a.nonce => s = t
      <3>1. s \in records[m] \/ (s = r /\ m = i)
        BY <2>2
      <3>2. t \in records[n] \/ t = r
        BY <2>2
      <3> QED
        BY <1>b, <2>2, <2>4, <3>1, <3>2
    <2> QED
      BY <2>3, <2>5 DEF OneRecordPerLink
  <1>3. ASSUME NEW j \in Node, TakeConfirm(j)
        PROVE  CompletedFirst' /\ OneRecordPerLink'
    <2>1. PICK r \in Record : ConfirmMakes(j, r)
      BY <1>3, ConfirmFacts
    <2>2. /\ r.b.node = j /\ r.a.node \in Node
          /\ r \in records[r.a.node]
          /\ \A m \in Node : records'[m] =
                IF m = j THEN records[m] \cup {r} ELSE records[m]
      BY <2>1 DEF ConfirmMakes
    <2>3. CompletedFirst'
      BY <1>0, <1>a, <2>2
    <2>4. ASSUME NEW m \in Node, NEW n \in Node,
                 NEW s \in records'[m], NEW t \in records'[n]
          PROVE  /\ m \in {s.a.node, s.b.node}
                 /\ s.a.nonce = t.a.nonce => s = t
      <3>1. s \in records[m] \/ (s = r /\ m = j)
        BY <2>2
      <3>2. PICK k \in Node : s \in records[k]
        BY <2>2, <3>1
      <3>3. PICK l \in Node : t \in records[l]
        BY <2>2
      <3> QED
        BY <1>b, <2>2, <3>1, <3>2, <3>3
    <2> QED
      BY <2>3, <2>4 DEF OneRecordPerLink
  <1> QED
    BY <1>1, <1>2, <1>3, RecordsStep

\* A connection with a record stays past its handshake.
LEMMA RecordedLinksStep ==
  ASSUME IInv, Next
  PROVE  RecordedLinks'
  <1>0. /\ TypeOK /\ RecordedLinks /\ LinkIds
        /\ \A n \in Node : \A r \in records[n] : r.a.nonce \in Nat
        /\ \A x \in Node : out[x].link \in Nat
    BY HalfFacts DEF IInv, TypeOK
  <1>1. ASSUME NEW n \in Node, NEW r \in records[n]
        PROVE  /\ r.a.nonce <= links'
               /\ \A x \in Node : out'[x].link = r.a.nonce =>
                     out'[x].phase \notin {"OPENING", "HANDSHAKE"}
    <2>1. r.a.nonce <= links /\ r.a.nonce \in Nat
      BY <1>0 DEF RecordedLinks
    <2>2. r.a.nonce <= links'
      BY <2>1, LinksStep
    <2>3. ASSUME NEW x \in Node, out'[x].link = r.a.nonce
          PROVE  out'[x].phase \notin {"OPENING", "HANDSHAKE"}
      <3>1. out'[x].link # links + 1
        BY <2>1, <2>3, LinksStep
      <3>2. CASE out'[x] = OutIdle
        BY <3>2 DEF OutIdle
      <3>3. CASE out'[x] # OutIdle
        <4>1. /\ out[x].link = r.a.nonce
              /\ out'[x].phase \in {"OPENING", "HANDSHAKE"} =>
                    out[x].phase \in {"OPENING", "HANDSHAKE"}
          BY <2>3, <3>1, <3>3, OutStep
        <4> QED
          BY <1>0, <4>1 DEF RecordedLinks
      <3> QED
        BY <3>2, <3>3
    <2> QED
      BY <2>2, <2>3
  <1>2. CASE records' = records
    BY <1>1, <1>2 DEF RecordedLinks
  <1>3. ASSUME NEW i \in Node, TakeAccept(i)
        PROVE  RecordedLinks'
    <2>1. PICK r \in Record : AcceptMakes(i, r)
      BY <1>3, AcceptFacts
    <2>2. r.a.nonce <= links' /\ r.a.nonce # 0
      BY <1>0, <2>1, LinksStep DEF LinkIds, AcceptMakes
    <2>3. ASSUME NEW x \in Node, out'[x].link = r.a.nonce
          PROVE  out'[x].phase \notin {"OPENING", "HANDSHAKE"}
      <3>1. CASE x = i
        BY <2>1, <3>1 DEF AcceptMakes
      <3>2. CASE x # i
        BY <1>0, <2>1, <2>2, <2>3, <3>2 DEF LinkIds, AcceptMakes
      <3> QED
        BY <3>1, <3>2
    <2>4. \A n \in Node : \A s \in records'[n] : s \in records[n] \/ s = r
      BY <2>1 DEF AcceptMakes
    <2> QED
      BY <1>1, <2>2, <2>3, <2>4 DEF RecordedLinks
  <1>4. ASSUME NEW j \in Node, TakeConfirm(j)
        PROVE  RecordedLinks'
    <2>1. PICK r \in Record : ConfirmMakes(j, r)
      BY <1>4, ConfirmFacts
    <2>2. \A n \in Node : \A s \in records'[n] :
              \E m \in Node : s \in records[m]
      BY <2>1 DEF ConfirmMakes
    <2> QED
      BY <1>1, <2>2 DEF RecordedLinks
  <1> QED
    BY <1>2, <1>3, <1>4, RecordsStep

\* A step leaves a request, takes it away, or puts a new one in its place.
LEMMA RequestStep ==
  ASSUME IInv, Next, NEW y \in Node
  PROVE  \/ /\ wire'[y].req = wire[y].req
            /\ wire'[y].link = wire[y].link /\ wire'[y].from = wire[y].from
         \/ wire'[y].req.type \in {"NONE", "COMMAND", "GARBAGE"}
         \/ \E i \in Node :
               /\ out[i].peer = y /\ Linked(i)
               /\ \/ /\ ClientConnected(i)
                     /\ wire'[y].req = Propose(LocalInput(i, out[i].link))
                  \/ \E r \in Record : /\ TakeAccept(i) /\ AcceptMakes(i, r)
                                       /\ wire'[y].req = Confirm(Signature(i, r))
  <1>0. /\ TypeOK /\ wire \in [Node -> WireRec] /\ wire[y] \in WireRec
    BY TypeParts DEF IInv, Parts
  <1> DEFINE Same == /\ wire'[y].req = wire[y].req
                     /\ wire'[y].link = wire[y].link
                     /\ wire'[y].from = wire[y].from
             Other == wire'[y].req.type \in {"NONE", "COMMAND", "GARBAGE"}
  <1>a. Silence.type = "NONE" /\ \A t : Plain(t).type = t
    BY DEF Silence, Plain
  <1>b. ASSUME NEW j, wire' = Broken(j)
        PROVE  Same \/ Other
    <2>1. y = j => wire'[y].req = Silence
      BY <1>0, <1>b DEF Broken, WireRec
    <2>2. y # j => wire'[y] = wire[y]
      BY <1>0, <1>b DEF Broken
    <2> QED
      BY <1>a, <2>1, <2>2
  <1>c. ASSUME NEW j, NEW m, wire' = [wire EXCEPT ![j].ans = m]
        PROVE  Same
    <2>1. y = j => wire'[y] = [wire[y] EXCEPT !.ans = m]
      BY <1>0, <1>c
    <2>2. y # j => wire'[y] = wire[y]
      BY <1>0, <1>c
    <2> QED
      BY <1>0, <2>1, <2>2 DEF WireRec
  <1>d. ASSUME NEW j, NEW m, NEW n,
               \/ wire' = [wire EXCEPT ![j].req = m]
               \/ wire' = [wire EXCEPT ![j].req = m, ![j].ans = n]
        PROVE  (y = j /\ wire'[y].req = m) \/ Same
    <2>1. y = j => \/ wire'[y] = [wire[y] EXCEPT !.req = m]
                   \/ wire'[y] = [wire[y] EXCEPT !.req = m, !.ans = n]
      BY <1>0, <1>d
    <2>2. y # j => wire'[y] = wire[y]
      BY <1>0, <1>d
    <2> QED
      BY <1>0, <2>1, <2>2 DEF WireRec
  <1>1. ASSUME NEW i \in Node, NEW j \in Node, LinkUp(i, j)
        PROVE  Same \/ Other
    <2>1. y = j => wire'[y].req = Silence
      BY <1>0, <1>1 DEF LinkUp, WireIdle
    <2>2. y # j => wire'[y] = wire[y]
      BY <1>0, <1>1 DEF LinkUp
    <2> QED
      BY <1>a, <2>1, <2>2
  <1>2. ASSUME NEW j \in Node, TakePropose(j) \/ TakeConfirm(j)
                               \/ ServeCommand(j) \/ RefuseCommand(j)
        PROVE  Same \/ Other
    <2>1. \E m : Answer(j, m)
      BY <1>2 DEF TakePropose, TakeConfirm, ServeCommand, RefuseCommand
    <2>2. PICK m : wire' = [wire EXCEPT ![j].req = Silence, ![j].ans = m]
      BY <2>1 DEF Answer
    <2> QED
      BY <1>a, <1>d, <2>2
  <1>3. ASSUME NEW j \in Node, InboundDisconnected(j)
        PROVE  Same \/ Other
    <2>1. y = j => wire'[y].req = Silence
      BY <1>0, <1>3 DEF InboundDisconnected, WireIdle
    <2>2. y # j => wire'[y] = wire[y]
      BY <1>0, <1>3 DEF InboundDisconnected
    <2> QED
      BY <1>a, <2>1, <2>2
  <1>4. ASSUME NEW j \in Node, Drop(j) \/ LoseAnswer(j) \/ Garble(j)
        PROVE  Same \/ Other
    <2>1. \/ wire' = Broken(j)
          \/ \E m : wire' = [wire EXCEPT ![j].ans = m]
          \/ wire' = [wire EXCEPT ![j].req = Plain("GARBAGE")]
      BY <1>4 DEF Drop, LoseAnswer, Garble
    <2> QED
      BY <1>a, <1>b, <1>c, <1>d, <2>1
  <1>5. ASSUME NEW i \in Node, ClientConnected(i)
        PROVE  \/ Same
               \/ /\ out[i].peer = y /\ Linked(i)
                  /\ wire'[y].req = Propose(LocalInput(i, out[i].link))
    <2>1. /\ Linked(i)
          /\ wire' = [wire EXCEPT ![out[i].peer].req =
                         Propose(LocalInput(i, out[i].link))]
      BY <1>5 DEF ClientConnected
    <2> QED
      BY <1>d, <2>1
  <1>6. ASSUME NEW i \in Node, TakeAccept(i)
        PROVE  \/ Same
               \/ \E r \in Record : /\ AcceptMakes(i, r)
                                    /\ out[i].peer = y /\ Linked(i)
                                    /\ wire'[y].req = Confirm(Signature(i, r))
    <2>1. PICK r \in Record : AcceptMakes(i, r)
      BY <1>6, AcceptFacts
    <2>2. /\ Linked(i)
          /\ wire' = [wire EXCEPT ![out[i].peer].req = Confirm(Signature(i, r)),
                                  ![out[i].peer].ans = Silence]
      BY <1>6, <2>1 DEF AcceptMakes, Send, TakeAccept, Answered
    <2> QED
      BY <1>d, <2>1, <2>2
  <1>7. ASSUME NEW i \in Node, TakeAck(i) \/ SyncOn(i)
        PROVE  Same \/ Other
    <2>1. wire' = [wire EXCEPT ![out[i].peer].req = Plain("COMMAND"),
                               ![out[i].peer].ans = Silence]
      BY <1>7 DEF TakeAck, SyncOn, Send
    <2> QED
      BY <1>a, <1>d, <2>1
  <1>8. ASSUME NEW i \in Node,
               AcceptFails(i) \/ SyncOver(i) \/ ClientDisconnected(i)
        PROVE  Same \/ Other
    <2>1. wire' = Broken(out[i].peer) \/ wire' = wire
      BY <1>8 DEF AcceptFails, SyncOver, HangUp, ClientDisconnected
    <2> QED
      BY <1>b, <2>1
  <1>9. ASSUME NEW i \in Node, Crash(i)
        PROVE  Same \/ Other
    <2>1. wire' = [IF Linked(i) THEN Broken(out[i].peer) ELSE wire
                   EXCEPT ![i] = WireIdle]
      BY <1>9 DEF Crash
    <2>2. Broken(out[i].peer) \in [Node -> WireRec]
      BY <1>0, BrokenType
    <2>3. y = i => wire'[y] = WireIdle
      BY <1>0, <2>1, <2>2
    <2>4. y # i => wire'[y] = wire[y] \/ wire'[y] = Broken(out[i].peer)[y]
      BY <1>0, <2>1, <2>2
    <2>5. Broken(out[i].peer)[y] = wire[y]
          \/ Broken(out[i].peer)[y].req = Silence
      BY <1>0 DEF Broken, WireRec
    <2>6. WireIdle.req = Silence
      BY DEF WireIdle
    <2> QED
      BY <1>a, <2>3, <2>4, <2>5, <2>6
  <1> QED
    BY <1>1, <1>2, <1>3, <1>4, <1>5, <1>6, <1>7, <1>8, <1>9 DEF Next

\* What travels to a Peripheral is about its connection, and confirmations
\* come from who has the record.
LEMMA RequestsStep ==
  ASSUME IInv, Next
  PROVE  Requests'
  <1>0. /\ TypeOK /\ Requests /\ LinkIds /\ wire \in [Node -> WireRec]
        /\ \A n \in Node : records[n] \subseteq records'[n]
    BY TypeParts, RecordsStep DEF IInv, Parts
  <1> SUFFICES ASSUME NEW y \in Node
               PROVE  /\ wire'[y].req.type = "PROPOSE" =>
                            /\ wire'[y].req.half.nonce = wire'[y].link
                            /\ wire'[y].req.half.node = wire'[y].from
                      /\ wire'[y].req.type = "CONFIRM" =>
                            wire'[y].req.sig.body
                                \in records'[wire'[y].req.sig.by]
    BY DEF Requests
  <1>1. CASE /\ wire'[y].req = wire[y].req
             /\ wire'[y].link = wire[y].link /\ wire'[y].from = wire[y].from
    <2>1. wire[y].req \in Message
      BY <1>0 DEF WireRec
    <2>2. wire[y].req.type = "CONFIRM" => wire[y].req.sig.by \in Node
      BY <2>1, MessageElim DEF Signed
    <2> QED
      BY <1>0, <1>1, <2>2 DEF Requests
  <1>2. CASE wire'[y].req.type \in {"NONE", "COMMAND", "GARBAGE"}
    BY <1>2
  <1>3. ASSUME NEW i \in Node, out[i].peer = y, Linked(i), ClientConnected(i),
               wire'[y].req = Propose(LocalInput(i, out[i].link))
        PROVE  /\ wire'[y].req.type = "PROPOSE"
               /\ wire'[y].req.half.nonce = wire'[y].link
               /\ wire'[y].req.half.node = wire'[y].from
    <2>1. out[i].link = wire[y].link /\ out[i].link \in Nat
      BY <1>0, <1>3, EncounterAssumption DEF Linked, TypeOK
    <2>2. wire[y].from = i
      BY <1>0, <1>3, <2>1 DEF LinkIds
    <2>3. wire'[y].link = wire[y].link /\ wire'[y].from = wire[y].from
      <3>1. wire' = [wire EXCEPT ![y].req = Propose(LocalInput(i, out[i].link))]
        BY <1>3 DEF ClientConnected
      <3>2. wire'[y] = [wire[y] EXCEPT !.req = Propose(LocalInput(i, out[i].link))]
        BY <1>0, <3>1
      <3>3. wire[y] \in WireRec
        BY <1>0
      <3> QED
        BY <3>2, <3>3 DEF WireRec
    <2>4. /\ LocalInput(i, out[i].link).node = i
          /\ LocalInput(i, out[i].link).nonce = out[i].link
      BY <1>0, <2>1, LocalInputType
    <2>5. /\ wire'[y].req.type = "PROPOSE"
          /\ wire'[y].req.half = LocalInput(i, out[i].link)
      BY <1>3 DEF Propose
    <2> QED
      BY <2>1, <2>2, <2>3, <2>4, <2>5
  <1>4. ASSUME NEW i \in Node, NEW r \in Record, AcceptMakes(i, r),
               wire'[y].req = Confirm(Signature(i, r))
        PROVE  /\ wire'[y].req.type = "CONFIRM"
               /\ wire'[y].req.sig.body \in records'[wire'[y].req.sig.by]
    <2>1. /\ wire'[y].req.type = "CONFIRM"
          /\ wire'[y].req.sig.body = r /\ wire'[y].req.sig.by = i
      BY <1>4 DEF Confirm, Signature
    <2>2. r \in records'[i]
      BY <1>4 DEF AcceptMakes
    <2> QED
      BY <2>1, <2>2
  <1> QED
    BY <1>1, <1>2, <1>3, <1>4, RequestStep

\* A wire without a connection carries nothing.
LEMMA QuietWire ==
  ASSUME IInv, Next, NEW y \in Node, wire'[y].from = NoNode
  PROVE  wire'[y].req = Silence
  <1>0. /\ TypeOK /\ Responders /\ LinkIds /\ wire \in [Node -> WireRec]
        /\ wire[y] \in WireRec /\ NoNode \notin Node
        /\ \A x \in Node : out[x].link \in Nat
    BY TypeParts, EncounterAssumption DEF IInv, Parts, TypeOK
  <1>1. CASE wire'[y] = WireIdle
    BY <1>1 DEF WireIdle
  <1>2. CASE wire'[y] # WireIdle
    <2>1. wire'[y].from = wire[y].from /\ wire[y].from = NoNode
      BY <1>0, <1>2, WireStep
    <2>2. wire[y].req = Silence
      BY <1>0, <2>1 DEF Responders
    <2>3. ASSUME NEW i \in Node, out[i].peer = y, Linked(i)
          PROVE  FALSE
      BY <1>0, <2>1, <2>3 DEF Linked, LinkIds
    <2>4. CASE \E j \in Node : Garble(j)
      <3>1. PICK j \in Node : Garble(j)
        BY <2>4
      <3>2. y # j => wire'[y] = wire[y]
        BY <1>0, <3>1 DEF Garble
      <3>3. y = j => wire'[y] = [wire[y] EXCEPT !.ans = Plain("GARBAGE")]
        BY <1>0, <2>2, <3>1 DEF Garble
      <3> QED
        BY <1>0, <2>2, <3>2, <3>3 DEF WireRec
    <2>5. CASE ~(\E j \in Node : Garble(j))
      <3>1. wire'[y].req = wire[y].req \/ wire'[y].req = Silence
        <4>1. ASSUME NEW i \in Node, NEW j \in Node, LinkUp(i, j)
              PROVE  wire'[y] = wire[y]
          BY <1>0, <1>2, <2>1, <4>1 DEF LinkUp, WireIdle
        <4>2. ASSUME NEW j \in Node,
                     TakePropose(j) \/ TakeConfirm(j) \/ ServeCommand(j)
                     \/ RefuseCommand(j)
              PROVE  wire'[y] = wire[y] \/ wire'[y].req = Silence
          <5>1. PICK m : Answer(j, m)
            BY <4>2 DEF TakePropose, TakeConfirm, ServeCommand, RefuseCommand
          <5>2. y = j => wire'[y] = [wire[y] EXCEPT !.req = Silence, !.ans = m]
            BY <1>0, <5>1 DEF Answer
          <5>3. y # j => wire'[y] = wire[y]
            BY <1>0, <5>1 DEF Answer
          <5> QED
            BY <1>0, <5>2, <5>3 DEF WireRec
        <4>3. ASSUME NEW j, wire' = Broken(j)
              PROVE  wire'[y] = wire[y] \/ wire'[y].req = Silence
          BY <1>0, <4>3 DEF Broken, WireRec
        <4>4. ASSUME NEW j \in Node, InboundDisconnected(j)
              PROVE  wire'[y] = wire[y]
          BY <1>0, <1>2, <4>4 DEF InboundDisconnected
        <4>5. ASSUME NEW j \in Node, Drop(j) \/ AcceptFails(j) \/ SyncOver(j)
              PROVE  \E k : wire' = Broken(k)
          BY <4>5 DEF Drop, AcceptFails, SyncOver, HangUp
        <4>6. ASSUME NEW j \in Node, LoseAnswer(j)
              PROVE  wire'[y].req = wire[y].req
          <5>1. y = j => wire'[y] = [wire[y] EXCEPT !.ans = Silence]
            BY <1>0, <4>6 DEF LoseAnswer
          <5>2. y # j => wire'[y] = wire[y]
            BY <1>0, <4>6 DEF LoseAnswer
          <5> QED
            BY <1>0, <5>1, <5>2 DEF WireRec
        <4>7. ASSUME NEW i \in Node, ClientConnected(i)
              PROVE  wire'[y] = wire[y]
          <5>1. Linked(i) /\ out[i].peer # y
            BY <2>3, <4>7 DEF ClientConnected
          <5> QED
            BY <1>0, <4>7, <5>1 DEF ClientConnected
        <4>8. ASSUME NEW i \in Node, TakeAccept(i) \/ TakeAck(i) \/ SyncOn(i)
              PROVE  wire'[y] = wire[y]
          <5>1. Linked(i) /\ out[i].peer # y
            BY <2>3, <4>8 DEF TakeAccept, TakeAck, SyncOn, Answered
          <5>2. \E m : Send(i, m)
            BY <4>8 DEF TakeAccept, TakeAck, SyncOn
          <5> QED
            BY <1>0, <5>1, <5>2 DEF Send
        <4>9. ASSUME NEW i \in Node, ClientDisconnected(i)
              PROVE  wire'[y] = wire[y]
          BY <4>9 DEF ClientDisconnected
        <4>10. ASSUME NEW i \in Node, Crash(i)
               PROVE  wire'[y] = wire[y] \/ wire'[y].req = Silence
          <5>1. wire' = [IF Linked(i) THEN Broken(out[i].peer) ELSE wire
                         EXCEPT ![i] = WireIdle]
            BY <4>10 DEF Crash
          <5>2. Broken(out[i].peer) \in [Node -> WireRec]
            BY <1>0, BrokenType
          <5>3. wire'[y] = wire[y] \/ wire'[y] = Broken(out[i].peer)[y]
            BY <1>0, <1>2, <5>1, <5>2
          <5>4. Broken(out[i].peer)[y] = wire[y]
                \/ Broken(out[i].peer)[y].req = Silence
            BY <1>0 DEF Broken, WireRec
          <5> QED
            BY <5>3, <5>4
        <4> QED
          BY <2>5, <4>1, <4>2, <4>3, <4>4, <4>5, <4>6, <4>7, <4>8, <4>9, <4>10
          DEF Next
      <3> QED
        BY <2>2, <3>1
    <2> QED
      BY <2>4, <2>5
  <1> QED
    BY <1>1, <1>2

\* A responder session stays, starts over, or makes the next step.
LEMMA InbStep ==
  ASSUME IInv, Next, NEW y \in Node
  PROVE  \/ inb'[y] = inb[y]
         \/ inb'[y] = InbIdle
         \/ TakePropose(y) \/ TakeConfirm(y)
         \/ \E i \in Node : LinkUp(i, y) /\ inb'[y] = Armed(y, links + 1)
  <1>0. inb \in [Node -> InbRec]
    BY TypeParts DEF IInv, Parts
  <1>1. ASSUME NEW i \in Node, NEW j \in Node, LinkUp(i, j)
        PROVE  IF y = j THEN inb'[y] = Armed(y, links + 1) ELSE inb'[y] = inb[y]
    BY <1>0, <1>1 DEF LinkUp
  <1>2. ASSUME NEW j \in Node, TakePropose(j) \/ TakeConfirm(j)
        PROVE  y # j => inb'[y] = inb[y]
    BY <1>0, <1>2 DEF TakePropose, TakeConfirm
  <1>3. ASSUME NEW j \in Node,
               RefuseCommand(j) \/ InboundDisconnected(j) \/ Crash(j)
        PROVE  inb'[y] = inb[y] \/ inb'[y] = InbIdle
    BY <1>0, <1>3 DEF RefuseCommand, Refused, InboundDisconnected, Crash
  <1>4. ASSUME NEW j \in Node,
               ServeCommand(j) \/ Drop(j) \/ LoseAnswer(j) \/ Garble(j)
               \/ ClientConnected(j) \/ TakeAccept(j) \/ AcceptFails(j)
               \/ TakeAck(j) \/ SyncOn(j) \/ SyncOver(j) \/ ClientDisconnected(j)
        PROVE  inb'[y] = inb[y]
    BY <1>4 DEF ServeCommand, Drop, LoseAnswer, Garble, ClientConnected,
                TakeAccept, AcceptFails, TakeAck, SyncOn, SyncOver,
                ClientDisconnected
  <1> QED
    BY <1>1, <1>2, <1>3, <1>4 DEF Next

\* What Responders says of one Peripheral
ResponderOf(y) ==
    /\ inb[y].armed => inb[y].me \in Half /\ inb[y].me.node = y
    /\ inb[y].state = "AWAIT_CONFIRM" =>
          /\ inb[y].armed
          /\ inb[y].rec \in Record
          /\ inb[y].rec.b.node = y
          /\ inb[y].rec.a.nonce = wire[y].link
          /\ inb[y].rec.a.node = wire[y].from
    /\ inb[y].done => \E r \in records[y] :
          /\ r.a.nonce = wire[y].link
          /\ r.a.node = wire[y].from
          /\ r.b.node = y

\* A session that a PROPOSE opens is about this connection.
LEMMA ProposeResponder ==
  ASSUME IInv, NEW y \in Node, TakePropose(y),
         wire'[y].link = wire[y].link, wire'[y].from = wire[y].from
  PROVE  ResponderOf(y)'
  <1> DEFINE a == wire[y].req.half
             b == [Session(y).me EXCEPT !.life = Lifetime(ledger[y], a.node)]
             r == [a |-> a, b |-> b]
  <1>0. /\ TypeOK /\ Requests /\ wire \in [Node -> WireRec]
        /\ inb \in [Node -> InbRec] /\ BooksTypes
    BY TypeParts DEF IInv, Parts
  <1>1. /\ wire[y].req \in Message /\ wire[y].req.type = "PROPOSE"
    BY <1>0 DEF TakePropose, Proposed, WireRec
  <1>2. /\ a \in Half /\ a.nonce = wire[y].link /\ a.node = wire[y].from
    BY <1>0, <1>1, MessageElim DEF Requests
  <1>3. /\ Session(y) \in InbRec /\ Session(y).me \in Half
        /\ Session(y).me.node = y /\ Session(y).armed /\ ~Session(y).done
    BY SessionOwn DEF TakePropose
  <1>4. b \in Half /\ b.node = y
    <2>1. Lifetime(ledger[y], a.node) \in 0 .. MaxTotal
      BY <1>0, LifetimeType DEF BooksTypes
    <2> HIDE DEF a
    <2> QED
      BY <1>3, <2>1 DEF Half
  <1>5. r \in Record /\ r.a = a /\ r.b = b
    BY <1>2, <1>4, HalfFacts
  <1>6. inb' = [inb EXCEPT ![y] = [Session(y) EXCEPT
                   !.state = "AWAIT_CONFIRM", !.me = b, !.rec = r]]
    BY DEF TakePropose
  <1> HIDE DEF a, b, r
  <1>7. inb'[y] = [Session(y) EXCEPT !.state = "AWAIT_CONFIRM", !.me = b,
                                     !.rec = r]
    BY <1>0, <1>6
  <1>8. /\ inb'[y].armed /\ ~inb'[y].done
        /\ inb'[y].me = b /\ inb'[y].rec = r
    BY <1>3, <1>7 DEF InbRec
  <1> QED
    BY <1>2, <1>4, <1>5, <1>8 DEF ResponderOf

\* A session that a CONFIRM completes has its record.
LEMMA ConfirmResponder ==
  ASSUME IInv, NEW y \in Node, TakeConfirm(y),
         wire'[y].link = wire[y].link, wire'[y].from = wire[y].from
  PROVE  ResponderOf(y)'
  <1>0. inb \in [Node -> InbRec]
    BY TypeParts DEF IInv, Parts
  <1>1. PICK r \in Record : ConfirmMakes(y, r)
    BY ConfirmFacts
  <1>2. /\ r \in records'[y] /\ r.b.node = y
        /\ r.a.nonce = wire'[y].link /\ r.a.node = wire'[y].from
    BY <1>1 DEF ConfirmMakes
  <1>3. /\ Session(y) \in InbRec /\ Session(y).me \in Half
        /\ Session(y).me.node = y /\ Session(y).armed
    BY SessionOwn
  <1>4. \E k : inb' = [inb EXCEPT ![y] = [Session(y) EXCEPT
                          !.state = "DONE", !.done = TRUE, !.known = k]]
    BY DEF TakeConfirm
  <1>5. /\ inb'[y].me = Session(y).me /\ inb'[y].state = "DONE"
    BY <1>0, <1>3, <1>4 DEF InbRec
  <1> QED
    BY <1>2, <1>3, <1>5 DEF ResponderOf

\* Responder sessions stay about their connections.
LEMMA RespondersStep ==
  ASSUME IInv, Next
  PROVE  Responders'
  <1>0. /\ TypeOK /\ Responders /\ NoNode \notin Node
        /\ \A n \in Node : records[n] \subseteq records'[n]
        /\ links + 1 \in Nat
    BY EncounterAssumption, RecordsStep, LinksStep DEF IInv
  <1>a. InbIdle.armed = FALSE /\ InbIdle.done = FALSE /\ InbIdle.state = "INIT"
    BY DEF InbIdle
  <1>1. ASSUME NEW y \in Node
        PROVE  /\ ResponderOf(y)'
               /\ wire'[y].from = NoNode => inb'[y] = InbIdle
    <2>1. CASE inb'[y] = InbIdle
      BY <1>a, <2>1 DEF ResponderOf
    <2>2. CASE \E i \in Node : LinkUp(i, y)
      <3>1. PICK i \in Node : LinkUp(i, y)
        BY <2>2
      <3>2. inb[y].done = FALSE
        BY <1>0, <1>a, <3>1 DEF LinkUp, Responders
      <3>3. inb'[y] = Armed(y, links + 1)
        <4>1. inb \in [Node -> InbRec]
          BY <1>0, TypeParts DEF Parts
        <4> QED
          BY <3>1, <4>1 DEF LinkUp
      <3>4. ResponderOf(y)'
        BY <1>0, <3>2, <3>3, SessionType DEF ResponderOf
      <3>5. wire'[y].from = i
        <4>1. wire \in [Node -> WireRec]
          BY <1>0, TypeParts DEF Parts
        <4> QED
          BY <3>1, <4>1 DEF LinkUp, WireIdle
      <3> QED
        BY <1>0, <3>4, <3>5
    <2>3. CASE ~(\E i \in Node : LinkUp(i, y)) /\ inb'[y] # InbIdle
      <3>1. wire'[y].link = wire[y].link /\ wire'[y].from = wire[y].from
        BY <2>3, WireStep
      <3>2. CASE TakePropose(y)
        <4>1. wire[y].from # NoNode
          BY <1>0, <3>2 DEF TakePropose, Responders
        <4> QED
          BY <3>1, <3>2, <4>1, ProposeResponder
      <3>3. CASE TakeConfirm(y)
        <4>1. wire[y].from # NoNode
          BY <1>0, <3>3 DEF TakeConfirm, Responders
        <4> QED
          BY <3>1, <3>3, <4>1, ConfirmResponder
      <3>4. CASE inb'[y] = inb[y]
        BY <1>0, <3>1, <3>4 DEF ResponderOf, Responders
      <3> QED
        BY <2>3, <3>2, <3>3, <3>4, InbStep
    <2> QED
      BY <2>1, <2>2, <2>3
  <1> QED
    BY <1>1, QuietWire DEF Responders, ResponderOf

\* Files are served after the record only.
LEMMA ServedStep ==
  ASSUME IInv, Next
  PROVE  ServedAfterRecord'
  <1>0. /\ TypeOK /\ Responders /\ LinkIds /\ CompletedFirst
        /\ ServedAfterRecord
        /\ \A n \in Node : records[n] \subseteq records'[n]
        /\ \A n \in Node : records[n] \subseteq Record
    BY RecordsStep DEF IInv, TypeOK
  <1> SUFFICES ASSUME NEW k \in served'
               PROVE  \E i, j \in Node : \E r \in records'[i] \cap records'[j] :
                         /\ i # j
                         /\ {i, j} = {r.a.node, r.b.node}
                         /\ r.a.nonce = k
    BY DEF ServedAfterRecord
  <1>1. CASE k \in served
    BY <1>0, <1>1 DEF ServedAfterRecord
  <1>2. CASE k \notin served
    <2>1. PICK j \in Node : ServeCommand(j)
      BY <1>2
      DEF Next, LinkUp, TakePropose, TakeConfirm, RefuseCommand,
          InboundDisconnected, Drop, LoseAnswer, Garble, ClientConnected,
          TakeAccept, AcceptFails, TakeAck, SyncOn, SyncOver,
          ClientDisconnected, Crash
    <2>2. k = wire[j].link /\ inb[j].done
      BY <1>0, <1>2, <2>1, SessionType DEF ServeCommand
    <2>3. PICK r \in records[j] : /\ r.a.nonce = wire[j].link
                                  /\ r.a.node = wire[j].from
                                  /\ r.b.node = j
      BY <1>0, <2>2 DEF Responders
    <2>4. r.a.node \in Node /\ r \in records[r.a.node]
      BY <1>0, <2>3, HalfFacts DEF CompletedFirst
    <2>5. r.a.node # j
      BY <1>0, <2>3 DEF LinkIds
    <2>6. r \in records'[r.a.node] \cap records'[j]
      BY <1>0, <2>3, <2>4
    <2> QED
      BY <2>2, <2>3, <2>4, <2>5, <2>6
  <1> QED
    BY <1>1, <1>2

------------------------------------------------------------------------------
\* Nodes that have just been set up satisfy all of it.
LEMMA InitIInv == Init => IInv
  <1> SUFFICES ASSUME Init
               PROVE  IInv
    OBVIOUS
  <1>1. TypeOK
    BY InitTypes
  <1>2. LinkIds /\ OwnProposal /\ Requests /\ CrashesAreFaults
    BY EncounterAssumption
    DEF Init, LinkIds, OwnProposal, Requests, CrashesAreFaults, OutIdle,
        WireIdle, Silence, Plain
  <1>3. Responders
    BY DEF Init, Responders, InbIdle, WireIdle
  <1>4. /\ RecordedLinks /\ CompletedFirst /\ OneRecordPerLink
        /\ ServedAfterRecord /\ FilesCompleted
    BY DEF Init, RecordedLinks, CompletedFirst, OneRecordPerLink,
           ServedAfterRecord, FilesCompleted
  <1> QED
    BY <1>1, <1>2, <1>3, <1>4 DEF IInv

\* Every step keeps the invariant.
LEMMA NextIInv == IInv /\ [Next]_vars => IInv'
  <1>1. IInv /\ Next => IInv'
    BY TypeStep, FlashStep, LinkIdsStep, OwnProposalStep, RequestsStep, RespondersStep,
       RecordedLinksStep, RecordPropertiesStep, ServedStep
    DEF IInv, FilesCompleted, Flashed
  <1>2. IInv /\ UNCHANGED vars => IInv'
    <2> SUFFICES ASSUME IInv, UNCHANGED vars
                 PROVE  IInv'
      OBVIOUS
    <2>1. TypeOK' /\ CrashesAreFaults'
      BY DEF IInv, TypeOK, CrashesAreFaults, vars
    <2>2. LinkIds' /\ OwnProposal'
      BY DEF IInv, LinkIds, OwnProposal, vars
    <2>3. Requests'
      BY DEF IInv, Requests, vars
    <2>4. Responders'
      BY DEF IInv, Responders, vars
    <2>5. RecordedLinks' /\ CompletedFirst' /\ FilesCompleted'
      BY DEF IInv, RecordedLinks, CompletedFirst, FilesCompleted, vars
    <2>6. OneRecordPerLink'
      BY DEF IInv, OneRecordPerLink, vars
    <2>7. ServedAfterRecord'
      BY DEF IInv, ServedAfterRecord, vars
    <2> QED
      BY <2>1, <2>2, <2>3, <2>4, <2>5, <2>6, <2>7 DEF IInv
  <1> QED
    BY <1>1, <1>2

\* The invariant of the signed encounter
THEOREM EncounterInvariant == Spec => []IInv
  BY InitIInv, NextIInv, PTL DEF Spec

\* Every variable has its type.
THEOREM TypeCorrect == Spec => []TypeOK
  <1>1. IInv => TypeOK
    BY DEF IInv
  <1> QED
    BY <1>1, EncounterInvariant, PTL

\* Nobody completes an encounter, or stores its record, that the initiator has
\* not completed, whichever messages are lost, writes fail and nodes lose power
\* (on_client_response calls on_encounter_done before it sends CONFIRM).
THEOREM InitiatorsCompleteFirst == Spec => []InitiatorCompletesFirst
  <1>1. IInv => InitiatorCompletesFirst
    BY DEF IInv, CompletedFirst, FilesCompleted, InitiatorCompletesFirst
  <1> QED
    BY <1>1, EncounterInvariant, PTL

\* Two records of one connection are the same record, and nodes keep only
\* records about themselves (encounter_session.c).
THEOREM OneRecordEach == Spec => []OneRecordPerLink
  <1>1. IInv => OneRecordPerLink
    BY DEF IInv
  <1> QED
    BY <1>1, EncounterInvariant, PTL

\* The record is the price of admission: a file command is answered only on a
\* connection whose encounter both ends have completed (on_peer_command).
THEOREM AdmissionPaid == Spec => []ServedAfterRecord
  <1>1. IInv => ServedAfterRecord
    BY DEF IInv
  <1> QED
    BY <1>1, EncounterInvariant, PTL

------------------------------------------------------------------------------
(* The ledger of a node, as an abstract data type. *)

\* No peer has two entries.
OneEntryEach(l) == \A i, k \in DOMAIN l : l[i].peer = l[k].peer => i = k

\* The ledger can hold every peer there is.
Room == Cardinality(Node) - 1 <= LedgerCap

\* A slot for p: the one it has, or a new one at the end.
LEMMA UpsertedFacts ==
  ASSUME NEW l \in Ledger, NEW p \in Node, OneEntryEach(l),
         Knows(l, p) \/ Len(l) < LedgerCap
  PROVE  /\ DOMAIN l \subseteq DOMAIN Upserted(l, p)
         /\ \A i \in DOMAIN l : Upserted(l, p)[i] = l[i]
         /\ \A i \in DOMAIN Upserted(l, p) \ DOMAIN l :
               ~Knows(l, p) /\ Upserted(l, p)[i] = FirstContact(p)
         /\ Knows(Upserted(l, p), p)
         /\ OneEntryEach(Upserted(l, p))
  <1>1. CASE Knows(l, p)
    BY <1>1 DEF Upserted
  <1>2. CASE ~Knows(l, p)
    <2> DEFINE e == FirstContact(p)
               u == Append(l, e)
    <2>1. e \in LedgerEntry /\ e.peer = p
      BY LedgerAssumption DEF FirstContact, LedgerEntry
    <2>2. l \in Seq(LedgerEntry)
      BY DEF Ledger
    <2> HIDE DEF e
    <2>3. /\ DOMAIN l = 1 .. Len(l) /\ DOMAIN u = 1 .. Len(l) + 1
          /\ Len(l) \in Nat
          /\ \A i \in 1 .. Len(l) : u[i] = l[i]
          /\ u[Len(l) + 1] = e
      BY <2>1, <2>2
    <2>4. Upserted(l, p) = u
      BY <1>2 DEF Upserted, e
    <2> HIDE DEF u
    <2>5. \A i \in DOMAIN u \ DOMAIN l : i = Len(l) + 1
      BY <2>3
    <2>6. Knows(u, p)
      BY <2>1, <2>3 DEF Knows
    <2>7. \A i \in DOMAIN l : l[i].peer # p
      BY <1>2 DEF Knows
    <2>8. ASSUME NEW i \in DOMAIN u, NEW k \in DOMAIN u, u[i].peer = u[k].peer
          PROVE  i = k
      <3>1. CASE i \in DOMAIN l /\ k \in DOMAIN l
        BY <2>3, <2>8, <3>1 DEF OneEntryEach
      <3>2. CASE i \notin DOMAIN l /\ k \notin DOMAIN l
        BY <2>5, <3>2
      <3>3. CASE i \in DOMAIN l /\ k \notin DOMAIN l
        BY <2>1, <2>3, <2>5, <2>7, <2>8, <3>3
      <3>4. CASE i \notin DOMAIN l /\ k \in DOMAIN l
        BY <2>1, <2>3, <2>5, <2>7, <2>8, <3>4
      <3> QED
        BY <3>1, <3>2, <3>3, <3>4
    <2>9. OneEntryEach(u)
      BY <2>8 DEF OneEntryEach
    <2> QED
      BY <1>2, <2>3, <2>4, <2>5, <2>6, <2>9 DEF e
  <1> QED
    BY <1>1, <1>2

\* peer_ledger_apply touches the entry of p only, which it makes if there is
\* none.
LEMMA AppliedFacts ==
  ASSUME NEW l \in Ledger, NEW p \in Node, NEW d \in Nat, NEW c \in Nat,
         OneEntryEach(l), Knows(l, p) \/ Len(l) < LedgerCap
  PROVE  LET l2 == Applied(l, p, d, c)
         IN  /\ OneEntryEach(l2)
             /\ DOMAIN l \subseteq DOMAIN l2
             /\ \A i \in DOMAIN l : /\ l2[i].peer = l[i].peer
                                    /\ l[i].peer # p => l2[i] = l[i]
             /\ \A i \in DOMAIN l2 : i \notin DOMAIN l =>
                   /\ ~Knows(l, p)
                   /\ l2[i].peer = p
                   /\ l2[i].total = SatAdd(0, d)
                   /\ l2[i].met = c
             /\ \A i \in DOMAIN l : l[i].peer = p =>
                   /\ l2[i].total = SatAdd(l[i].total, d)
                   /\ l2[i].met = IF c > l[i].met THEN c ELSE l[i].met
             /\ Knows(l2, p)
  <1> DEFINE u == Upserted(l, p)
             l2 == Applied(l, p, d, c)
             e(i) == [u[i] EXCEPT !.total = SatAdd(@, d),
                                  !.met = IF c > @ THEN c ELSE @]
  <1>1. u \in Ledger
    BY UpsertedType
  <1>2. /\ DOMAIN l \subseteq DOMAIN u
        /\ \A i \in DOMAIN l : u[i] = l[i]
        /\ \A i \in DOMAIN u \ DOMAIN l :
              ~Knows(l, p) /\ u[i] = FirstContact(p)
        /\ Knows(u, p)
        /\ OneEntryEach(u)
    BY UpsertedFacts
  <1>3. l2 = [i \in DOMAIN u |-> IF u[i].peer # p THEN u[i] ELSE e(i)]
    BY DEF Applied
  <1> HIDE DEF u, l2
  <1>4. \A i \in DOMAIN u : u[i] \in LedgerEntry
    BY <1>1 DEF Ledger
  <1>5. ASSUME NEW i \in DOMAIN u
        PROVE  /\ e(i).peer = u[i].peer
               /\ e(i).total = SatAdd(u[i].total, d)
               /\ e(i).met = IF c > u[i].met THEN c ELSE u[i].met
    BY <1>4 DEF LedgerEntry
  <1> HIDE DEF e
  <1>6. /\ DOMAIN l2 = DOMAIN u
        /\ \A i \in DOMAIN u :
              l2[i] = IF u[i].peer # p THEN u[i] ELSE e(i)
    BY <1>3
  <1>7. \A i \in DOMAIN u : l2[i].peer = u[i].peer
    BY <1>5, <1>6
  <1>8. OneEntryEach(l2)
    BY <1>2, <1>6, <1>7 DEF OneEntryEach
  <1>9. Knows(l2, p)
    BY <1>2, <1>6, <1>7 DEF Knows
  <1>10. ASSUME NEW i \in DOMAIN l2, i \notin DOMAIN l
         PROVE  /\ ~Knows(l, p)
                /\ l2[i].peer = p
                /\ l2[i].total = SatAdd(0, d)
                /\ l2[i].met = c
    <2>1. ~Knows(l, p) /\ u[i] = FirstContact(p) /\ i \in DOMAIN u
      BY <1>2, <1>6, <1>10
    <2>2. u[i].peer = p /\ u[i].total = 0 /\ u[i].met = 0
      BY <2>1 DEF FirstContact
    <2>3. l2[i] = e(i)
      BY <1>6, <2>1, <2>2
    <2>4. (IF c > 0 THEN c ELSE 0) = c
      OBVIOUS
    <2> QED
      BY <1>5, <2>1, <2>2, <2>3, <2>4
  <1>11. ASSUME NEW i \in DOMAIN l
         PROVE  /\ l2[i].peer = l[i].peer
                /\ l[i].peer # p => l2[i] = l[i]
                /\ l[i].peer = p =>
                      /\ l2[i].total = SatAdd(l[i].total, d)
                      /\ l2[i].met = IF c > l[i].met THEN c ELSE l[i].met
    BY <1>2, <1>5, <1>6, <1>7
  <1> QED
    BY <1>2, <1>6, <1>8, <1>9, <1>10, <1>11 DEF l2

\* The total of an entry is the peer's lifetime.
LEMMA LifetimeIs ==
  ASSUME NEW l, OneEntryEach(l), NEW i \in DOMAIN l
  PROVE  Lifetime(l, l[i].peer) = l[i].total
  <1>1. Knows(l, l[i].peer)
    BY DEF Knows
  <1>2. (CHOOSE k \in DOMAIN l : l[k].peer = l[i].peer) = i
    BY DEF OneEntryEach
  <1> QED
    BY <1>1, <1>2 DEF Lifetime

\* A peer not in the ledger has no lifetime.
LEMMA LifetimeUnknown ==
  ASSUME NEW l, NEW p, ~Knows(l, p)
  PROVE  Lifetime(l, p) = 0
  BY DEF Lifetime

\* Lifetimes after peer_ledger_apply
LEMMA AppliedLifetime ==
  ASSUME NEW l \in Ledger, NEW p \in Node, NEW d \in Nat, NEW c \in Nat,
         OneEntryEach(l), Knows(l, p) \/ Len(l) < LedgerCap, NEW q
  PROVE  /\ Knows(Applied(l, p, d, c), q) <=> Knows(l, q) \/ q = p
         /\ Lifetime(Applied(l, p, d, c), q) =
               IF q = p THEN SatAdd(Lifetime(l, p), d) ELSE Lifetime(l, q)
  <1> DEFINE l2 == Applied(l, p, d, c)
  <1>1. /\ OneEntryEach(l2)
        /\ DOMAIN l \subseteq DOMAIN l2
        /\ \A i \in DOMAIN l : /\ l2[i].peer = l[i].peer
                               /\ l[i].peer # p => l2[i] = l[i]
        /\ \A i \in DOMAIN l2 : i \notin DOMAIN l =>
              ~Knows(l, p) /\ l2[i].peer = p /\ l2[i].total = SatAdd(0, d)
        /\ \A i \in DOMAIN l : l[i].peer = p =>
              l2[i].total = SatAdd(l[i].total, d)
        /\ Knows(l2, p)
    BY AppliedFacts
  <1> HIDE DEF l2
  <1>2. Knows(l2, q) <=> Knows(l, q) \/ q = p
    BY <1>1 DEF Knows
  <1>3. Lifetime(l2, q) = IF q = p THEN SatAdd(Lifetime(l, p), d)
                                   ELSE Lifetime(l, q)
    <2>1. CASE ~Knows(l2, q)
      <3>1. ~Knows(l, q) /\ q # p
        BY <1>2, <2>1
      <3>2. Lifetime(l2, q) = 0 /\ Lifetime(l, q) = 0
        BY <2>1, <3>1, LifetimeUnknown
      <3> QED
        BY <3>1, <3>2
    <2>2. ASSUME NEW i \in DOMAIN l2, l2[i].peer = q, i \in DOMAIN l
          PROVE  Lifetime(l2, q) = IF q = p THEN SatAdd(Lifetime(l, p), d)
                                            ELSE Lifetime(l, q)
      <3>1. Lifetime(l2, q) = l2[i].total
        BY <1>1, <2>2, LifetimeIs
      <3>2. Lifetime(l, q) = l[i].total /\ l[i].peer = q
        BY <1>1, <2>2, LifetimeIs
      <3> QED
        BY <1>1, <2>2, <3>1, <3>2
    <2>3. ASSUME NEW i \in DOMAIN l2, l2[i].peer = q, i \notin DOMAIN l
          PROVE  Lifetime(l2, q) = IF q = p THEN SatAdd(Lifetime(l, p), d)
                                            ELSE Lifetime(l, q)
      <3>1. Lifetime(l2, q) = l2[i].total
        BY <1>1, <2>3, LifetimeIs
      <3>2. q = p /\ ~Knows(l, p) /\ l2[i].total = SatAdd(0, d)
        BY <1>1, <2>3
      <3>3. Lifetime(l, p) = 0
        BY <3>2, LifetimeUnknown
      <3> QED
        BY <3>1, <3>2, <3>3
    <2>4. Knows(l2, q) => \E i \in DOMAIN l2 : l2[i].peer = q
      BY DEF Knows
    <2> QED
      BY <2>1, <2>2, <2>3, <2>4
  <1> QED
    BY <1>2, <1>3 DEF l2

\* What is in an entry
LEMMA EntryTypes ==
  ASSUME NEW l \in Ledger
  PROVE  /\ l \in Seq(LedgerEntry) /\ Len(l) \in Nat /\ DOMAIN l = 1 .. Len(l)
         /\ \A i \in DOMAIN l : l[i].peer \in Node /\ l[i].met \in Nat
  <1>1. l \in Seq(LedgerEntry)
    BY DEF Ledger
  <1>2. \A e \in LedgerEntry : e.peer \in Node /\ e.met \in Nat
    BY DEF LedgerEntry
  <1> HIDE DEF LedgerEntry
  <1> QED
    BY <1>1, <1>2

\* A ledger that can hold every peer has a slot left for one it does not hold.
LEMMA RoomForPeer ==
  ASSUME Room, NEW l \in Ledger, OneEntryEach(l), NEW n \in Node,
         NEW p \in Node \ {n}, ~Knows(l, n), ~Knows(l, p)
  PROVE  Len(l) < LedgerCap
  <1> DEFINE Others == (Node \ {n}) \ {p}
             f == [i \in 1 .. Len(l) |-> l[i].peer]
  <1>1. /\ IsFiniteSet(Others)
        /\ Cardinality(Node) \in Nat
        /\ Cardinality(Others) = Cardinality(Node) - 2
    <2>1. IsFiniteSet(Node)
      BY EncounterAssumption
    <2>2. /\ IsFiniteSet(Node \ {n}) /\ Cardinality(Node) \in Nat
          /\ Cardinality(Node \ {n}) = Cardinality(Node) - 1
      BY <2>1, FS_RemoveElement, FS_CardinalityType
    <2>3. /\ IsFiniteSet(Others)
          /\ Cardinality(Others) = Cardinality(Node \ {n}) - 1
      BY <2>2, FS_RemoveElement
    <2> QED
      BY <2>2, <2>3
  <1>2. /\ l \in Seq(LedgerEntry) /\ Len(l) \in Nat /\ DOMAIN l = 1 .. Len(l)
        /\ \A i \in 1 .. Len(l) : l[i].peer \in Node
    BY EntryTypes
  <1>3. f \in [1 .. Len(l) -> Others]
    BY <1>2 DEF Knows
  <1>4. f \in Injection(1 .. Len(l), Others)
    BY <1>2, <1>3 DEF Injection, IsInjective, OneEntryEach
  <1> HIDE DEF f, Others
  <1>5. Cardinality(1 .. Len(l)) <= Cardinality(Others)
    BY <1>1, <1>4, FS_Injection
  <1>6. Cardinality(1 .. Len(l)) = Len(l)
    BY <1>2, FS_Interval
  <1>7. LedgerCap \in Nat
    BY LedgerAssumption
  <1> QED
    BY <1>1, <1>2, <1>5, <1>6, <1>7 DEF Room

------------------------------------------------------------------------------
\* One saturating total has grown out of another: it is larger, or could not
\* grow, or a power loss has cost the bytes of a connection.
Outgrown(x, y, c) == x < y \/ (x = y /\ (x = MaxTotal \/ c > 0))

\* The record r of node n is of the connection it still has.
Current(n, r) == wire[n].from # NoNode /\ wire[n].link = r.a.nonce

\* meeting_count counts the encounters, unless a power loss has set it back.
Counted ==
    \A n \in Node :
        /\ IsFiniteSet(records[n])
        /\ count[n] <= Cardinality(records[n])
        /\ flash[n].count <= Cardinality(records[n])
        /\ n \notin setback => count[n] = Cardinality(records[n])

\* The answers and the session of a Peripheral, and the records it made, are
\* about its connection; nothing of a later connection is there yet.
Responses ==
    \A j \in Node :
        /\ wire[j].ans.type = "ACCEPT" => wire[j].ans.half.node = j
        /\ inb[j].armed => inb[j].me.nonce = wire[j].link
        /\ inb[j].state = "AWAIT_CONFIRM" =>
              inb[j].rec.b.nonce = wire[j].link
        /\ inb[j].done => inb[j].known = wire[j].from
        /\ \A r \in records[j] : r.b.node = j =>
              /\ r.b.nonce = r.a.nonce
              /\ wire[j].from # NoNode => r.a.nonce <= wire[j].link
              /\ Current(j, r) => inb[j].done

\* A ledger, in RAM or on flash, has one entry for a peer and none for its own
\* node; the one in RAM has the peers main.c knows.
LedgerPeers ==
    \A n \in Node :
        /\ OneEntryEach(ledger[n]) /\ ~Knows(ledger[n], n)
        /\ OneEntryEach(flash[n].ledger) /\ ~Knows(flash[n].ledger, n)
        /\ \A p \in {out[n].known, inb[n].known} \ {NoNode} :
              p # n /\ Knows(ledger[n], p)

\* What a responder has signed, and is about to sign, against its ledger: the
\* total has grown since, unless the connection is still the same, or a power
\* loss has set the ledger back.
Totals ==
    \A j \in Node \ setback :
        /\ \A r \in records[j] : r.b.node = j =>
              /\ r.b.life <= Lifetime(ledger[j], r.a.node)
              /\ \/ Current(j, r)
                 \/ Outgrown(r.b.life, Lifetime(ledger[j], r.a.node), crashes)
        /\ inb[j].state = "AWAIT_CONFIRM" =>
              /\ inb[j].rec.b.life <= Lifetime(ledger[j], inb[j].rec.a.node)
              /\ \A r \in records[j] :
                    r.b.node = j /\ r.a.node = inb[j].rec.a.node =>
                    Outgrown(r.b.life, inb[j].rec.b.life, crashes)

\* The counts that the encounters R have of p
Met(R, p) ==
    {r.a.count : r \in {s \in R : s.a.node = p}}
    \cup {r.b.count : r \in {s \in R : s.b.node = p}}

\* The ledger l says nothing but what the encounters R say, ...
Sound(R, l) == \A i \in DOMAIN l : l[i].met \in Met(R, l[i].peer)

\* ... and all that they say of the peers of n.
Complete(n, R, l) ==
    /\ \A p \in Node \ {n} : Met(R, p) # {} => Knows(l, p)
    /\ \A i \in DOMAIN l : \A c \in Met(R, l[i].peer) : c <= l[i].met

FlashSound == \A n \in Node : Sound(records[n], flash[n].ledger)

BooksInv ==
    /\ Counted
    /\ Responses
    /\ Room => LedgerPeers /\ FlashSound /\ Totals
    /\ LedgerFollowsRecords
    /\ LifetimesGrow

Kept(n) ==
    /\ ledger'[n] = ledger[n]
    /\ records'[n] = records[n]
    /\ count'[n] = count[n]

\* The node starts with what is on flash; the histories do not forget.
Reloads(n) ==
    /\ ledger'[n] = flash[n].ledger
    /\ count'[n] = flash[n].count
    /\ records'[n] = records[n]
    /\ out'[n].known = NoNode /\ inb'[n].known = NoNode
    /\ n \notin setback' => Kept(n)

Accounts(n, p) ==
    /\ p \in {out[n].known, inb[n].known} \ {NoNode}
    /\ ledger'[n] = Applied(ledger[n], p, 1, 0)
    /\ records'[n] = records[n]
    /\ count'[n] = count[n]

Meets(n, r, p) ==
    /\ p # n
    /\ r \notin records[n]
    /\ \/ r.a.node = n /\ r.b.node = p
       \/ r.a.node = p /\ r.b.node = n
    /\ ledger'[n] = Applied(ledger[n], p, 0, IF p = r.a.node THEN r.a.count
                                                             ELSE r.b.count)
    /\ records'[n] = records[n] \cup {r}
    /\ count'[n] = count[n] + 1

\* on_encounter_done changes its own node's books.
LEMMA DoneKeepsOthers ==
  ASSUME TypeOK, NEW n \in Node, NEW r \in Record, NEW p \in Node,
         EncounterDone(n, r, p)
  PROVE  /\ \A m \in Node \ {n} : Kept(m)
         /\ ledger'[n] = Applied(ledger[n], p, 0,
                                IF p = r.a.node THEN r.a.count ELSE r.b.count)
         /\ records'[n] = records[n] \cup {r}
         /\ count'[n] = count[n] + 1
  <1>1. BooksTypes
    BY TypeParts DEF Parts
  <1>2. /\ \A m \in Node \ {n} : ledger'[m] = ledger[m]
        /\ ledger'[n] = Applied(ledger[n], p, 0,
                               IF p = r.a.node THEN r.a.count ELSE r.b.count)
    BY <1>1 DEF EncounterDone, BooksTypes
  <1>3. /\ \A m \in Node \ {n} : records'[m] = records[m]
        /\ records'[n] = records[n] \cup {r}
    BY <1>1 DEF EncounterDone, BooksTypes
  <1>4. /\ \A m \in Node \ {n} : count'[m] = count[m]
        /\ count'[n] = count[n] + 1
    BY <1>1 DEF EncounterDone, BooksTypes
  <1> QED
    BY <1>2, <1>3, <1>4 DEF Kept

\* The Central's books after an ACCEPT
LEMMA AcceptMeets ==
  ASSUME IInv, BooksInv, NEW i \in Node, TakeAccept(i)
  PROVE  /\ \A m \in Node \ {i} : Kept(m)
         /\ out[i].peer \in Node
         /\ \A m \in Node : out'[m].known = IF m = i THEN out[i].peer
                                                     ELSE out[m].known
         /\ inb' = inb
         /\ \E r \in Record : r.a.node = i /\ Meets(i, r, out[i].peer)
  <1> DEFINE p == out[i].peer
             b == wire[p].ans.half
             r == [a |-> out[i].me, b |-> b]
  <1>1. /\ TypeOK /\ out \in [Node -> OutRec] /\ wire \in [Node -> WireRec]
        /\ Responses /\ LinkIds /\ RecordedLinks
    BY TypeParts DEF IInv, BooksInv, Parts
  <1>2. Linked(i) /\ p \in Node /\ out[i].phase = "HANDSHAKE"
    BY <1>1, LinkedPeer DEF TakeAccept, Answered
  <1>3. wire[p].ans \in Message /\ wire[p].ans.type = "ACCEPT"
    BY <1>1, <1>2 DEF WireRec, TakeAccept, Accepted
  <1>4. b \in Half /\ b.node = p
    BY <1>1, <1>2, <1>3, MessageElim DEF Responses
  <1>5. p # i
    BY <1>1, <1>2 DEF Linked, LinkIds
  <1>6. /\ out[i].me \in Half /\ out[i].me.node = i
        /\ out[i].me.nonce = out[i].link
    BY <1>2 DEF IInv, OwnProposal
  <1>7. r \in Record /\ r.a = out[i].me /\ r.b = b
    BY <1>4, <1>6, HalfFacts
  <1>8. /\ EncounterDone(i, r, b.node)
        /\ out' = [out EXCEPT ![i].phase = "CONFIRMED", ![i].known = b.node]
        /\ inb' = inb
    BY DEF TakeAccept
  <1> HIDE DEF b, r
  <1>9. \A m \in Node : out'[m].known = IF m = i THEN p ELSE out[m].known
    BY <1>1, <1>4, <1>8 DEF OutRec
  <1>10. r \notin records[i]
    BY <1>1, <1>2, <1>6, <1>7 DEF RecordedLinks
  <1>11. EncounterDone(i, r, p)
    BY <1>4, <1>8
  <1>12. /\ \A m \in Node \ {i} : Kept(m)
         /\ ledger'[i] = Applied(ledger[i], p, 0, IF p = r.a.node
                                           THEN r.a.count ELSE r.b.count)
         /\ records'[i] = records[i] \cup {r}
         /\ count'[i] = count[i] + 1
    BY <1>1, <1>2, <1>7, <1>11, DoneKeepsOthers
  <1>13. Meets(i, r, p) /\ r.a.node = i
    BY <1>4, <1>5, <1>6, <1>7, <1>10, <1>12 DEF Meets
  <1> QED
    BY <1>2, <1>7, <1>8, <1>9, <1>12, <1>13

\* The Peripheral's books after a CONFIRM
LEMMA ConfirmMeets ==
  ASSUME IInv, BooksInv, NEW j \in Node, TakeConfirm(j)
  PROVE  LET r == inb[j].rec
         IN  /\ \A m \in Node \ {j} : Kept(m)
             /\ wire[j].from \in Node
             /\ out' = out
             /\ \A m \in Node \ {j} : inb'[m] = inb[m]
             /\ inb[j].state = "AWAIT_CONFIRM"
             /\ ~inb[j].done
             /\ inb'[j] = [inb[j] EXCEPT !.state = "DONE", !.done = TRUE,
                                         !.known = wire[j].from]
             /\ r \in Record
             /\ r.b.node = j
             /\ r.a.node = wire[j].from
             /\ r.a.nonce = wire[j].link
             /\ Meets(j, r, wire[j].from)
  <1> DEFINE r == inb[j].rec
  <1>1. /\ TypeOK /\ inb \in [Node -> InbRec] /\ wire \in [Node -> WireRec]
        /\ Responses /\ LinkIds /\ wire[j].link \in Nat
    BY TypeParts, EncounterAssumption DEF IInv, BooksInv, Parts, TypeOK
  <1>2. Session(j).state = "AWAIT_CONFIRM" /\ ~Session(j).done
    BY DEF TakeConfirm, Confirmed
  <1>3. Session(j) = inb[j]
    BY <1>1, <1>2, SessionType DEF Session
  <1>4. /\ r \in Record /\ r.b.node = j
        /\ r.a.nonce = wire[j].link /\ r.a.node = wire[j].from
        /\ r.a.node \in Node
    BY <1>2, <1>3, SessionOwn, HalfFacts
  <1>5. wire[j].from # j /\ wire[j].from # NoNode
    BY <1>1, <1>4, EncounterAssumption DEF LinkIds
  <1>6. /\ EncounterDone(j, r, r.a.node)
        /\ inb' = [inb EXCEPT ![j] = [inb[j] EXCEPT
                      !.state = "DONE", !.done = TRUE, !.known = r.a.node]]
        /\ out' = out
    BY <1>3 DEF TakeConfirm
  <1> HIDE DEF r
  <1>7. r \notin records[j]
    BY <1>1, <1>2, <1>3, <1>4, <1>5 DEF Responses, Current
  <1>8. /\ \A m \in Node \ {j} : Kept(m)
        /\ ledger'[j] = Applied(ledger[j], r.a.node, 0, IF r.a.node = r.a.node
                                           THEN r.a.count ELSE r.b.count)
        /\ records'[j] = records[j] \cup {r}
        /\ count'[j] = count[j] + 1
    BY <1>1, <1>4, <1>6, DoneKeepsOthers
  <1>9. Meets(j, r, wire[j].from)
    BY <1>4, <1>5, <1>7, <1>8 DEF Meets
  <1>10. /\ \A m \in Node \ {j} : inb'[m] = inb[m]
         /\ inb'[j] = [inb[j] EXCEPT !.state = "DONE", !.done = TRUE,
                                     !.known = wire[j].from]
    BY <1>1, <1>4, <1>6
  <1> QED
    BY <1>2, <1>3, <1>4, <1>6, <1>8, <1>9, <1>10 DEF r

\* Setbacks stay.
LEMMA SetbackStep ==
  ASSUME Next
  PROVE  setback \subseteq setback'
  BY DEF Next, LinkUp, TakePropose, TakeConfirm, ServeCommand, RefuseCommand,
         InboundDisconnected, Drop, LoseAnswer, Garble, ClientConnected,
         TakeAccept, AcceptFails, TakeAck, SyncOn, SyncOver,
         ClientDisconnected, Crash, books

\* A node's books stay, account for a connection, gain an encounter, or are
\* read from flash.
LEMMA Bookkeeping ==
  ASSUME IInv, BooksInv, Next, NEW n \in Node
  PROVE  \/ Kept(n)
         \/ Reloads(n)
         \/ \E p \in Node : Accounts(n, p)
         \/ \E r \in Record, p \in Node : Meets(n, r, p)
  <1>0. /\ TypeOK /\ ledger \in [Node -> Ledger]
        /\ out \in [Node -> OutRec] /\ inb \in [Node -> InbRec]
    BY TypeParts DEF IInv, Parts, BooksTypes
  <1>1. ASSUME NEW i \in Node, NEW j \in Node, LinkUp(i, j)
        PROVE  Kept(n)
    BY <1>1 DEF LinkUp, books, Kept
  <1>2. ASSUME NEW i \in Node,
               TakePropose(i) \/ ServeCommand(i) \/ RefuseCommand(i) \/ Drop(i)
               \/ LoseAnswer(i) \/ Garble(i) \/ ClientConnected(i)
               \/ AcceptFails(i) \/ TakeAck(i) \/ SyncOn(i) \/ SyncOver(i)
        PROVE  Kept(n)
    BY <1>2 DEF TakePropose, ServeCommand, RefuseCommand, Drop, LoseAnswer,
                Garble, ClientConnected, AcceptFails, TakeAck, SyncOn, SyncOver,
                books, Kept
  <1>7. ASSUME NEW i \in Node, Crash(i)
        PROVE  Kept(n) \/ Reloads(n)
    <2>0. records' = records /\ count \in [Node -> Nat]
      BY <1>0, <1>7, TypeParts DEF Crash, Parts, BooksTypes
    <2>1. CASE n # i
      BY <1>0, <1>7, <2>0, <2>1 DEF Crash, Kept
    <2>2. CASE n = i
      <3>1. /\ ledger'[n] = flash[n].ledger
            /\ count'[n] = flash[n].count
            /\ n \notin setback' => /\ flash[n].count = count[n]
                                   /\ flash[n].ledger = ledger[n]
        BY <1>0, <1>7, <2>0, <2>2 DEF Crash
      <3>2. out'[n] = OutIdle /\ inb'[n] = InbIdle
        BY <1>0, <1>7, <2>2 DEF Crash
      <3> QED
        BY <2>0, <3>1, <3>2 DEF Reloads, Kept, OutIdle, InbIdle
    <2> QED
      BY <2>1, <2>2
  <1>3. ASSUME NEW i \in Node, NEW p \in SomeNode, AccountFor(i, p),
               p \in {out[i].known, inb[i].known},
               records' = records, count' = count
        PROVE  Kept(n) \/ \E q \in Node : Accounts(n, q)
    <2>0. ledger' = IF p = NoNode THEN ledger
                    ELSE [ledger EXCEPT ![i] = Applied(@, p, 1, 0)]
      BY <1>0, <1>3, AccountForTypes
    <2>1. CASE p = NoNode \/ n # i
      BY <1>0, <1>3, <2>0, <2>1 DEF Kept
    <2>2. CASE p # NoNode /\ n = i
      BY <1>0, <1>3, <2>0, <2>2 DEF Accounts, SomeNode
    <2> QED
      BY <2>1, <2>2
  <1>4. ASSUME NEW i \in Node, ClientDisconnected(i) \/ InboundDisconnected(i)
        PROVE  Kept(n) \/ \E q \in Node : Accounts(n, q)
    <2>1. out[i].known \in SomeNode /\ inb[i].known \in SomeNode
      BY <1>0 DEF OutRec, InbRec
    <2> QED
      BY <1>3, <1>4, <2>1 DEF ClientDisconnected, InboundDisconnected
  <1>5. ASSUME NEW i \in Node, TakeAccept(i)
        PROVE  Kept(n) \/ \E r \in Record, p \in Node : Meets(n, r, p)
    BY <1>5, AcceptMeets
  <1>6. ASSUME NEW i \in Node, TakeConfirm(i)
        PROVE  Kept(n) \/ \E r \in Record, p \in Node : Meets(n, r, p)
    <2>1. /\ \A m \in Node \ {i} : Kept(m)
          /\ wire[i].from \in Node /\ inb[i].rec \in Record
          /\ Meets(i, inb[i].rec, wire[i].from)
      BY <1>6, ConfirmMeets
    <2> QED
      BY <2>1
  <1> QED
    BY <1>1, <1>2, <1>4, <1>5, <1>6, <1>7 DEF Next

\* Without a setback the books are never older than before.
LEMMA BookkeepingOn ==
  ASSUME IInv, BooksInv, Next, NEW n \in Node \ setback'
  PROVE  /\ n \notin setback
         /\ \/ Kept(n)
            \/ \E p \in Node : Accounts(n, p)
            \/ \E r \in Record, p \in Node : Meets(n, r, p)
  BY Bookkeeping, SetbackStep DEF Reloads

\* With room for every peer, the node's ledger has a slot for this one.
LEMMA HasSlot ==
  ASSUME IInv, BooksInv, Room, NEW n \in Node, NEW p \in Node \ {n}
  PROVE  /\ ledger[n] \in Ledger
         /\ OneEntryEach(ledger[n])
         /\ Knows(ledger[n], p) \/ Len(ledger[n]) < LedgerCap
         /\ ~Knows(ledger[n], n)
  <1>1. /\ ledger[n] \in Ledger
        /\ OneEntryEach(ledger[n]) /\ ~Knows(ledger[n], n)
    BY DEF IInv, BooksInv, TypeOK, LedgerPeers
  <1> QED
    BY <1>1, RoomForPeer

\* Who is accounted for is in the ledger.
LEMMA AccountsPeer ==
  ASSUME IInv, BooksInv, Room, NEW n \in Node, NEW p, Accounts(n, p)
  PROVE  p \in Node \ {n} /\ Knows(ledger[n], p)
  <1>1. out[n].known \in SomeNode /\ inb[n].known \in SomeNode
    BY DEF IInv, TypeOK
  <1> QED
    BY <1>1 DEF Accounts, SomeNode, BooksInv, LedgerPeers

\* The count a record has of a peer is one.
LEMMA CountOf ==
  ASSUME NEW r \in Record, NEW p
  PROVE  (IF p = r.a.node THEN r.a.count ELSE r.b.count) \in Nat
  BY HalfFacts

\* What a step does to a ledger: peers stay until it is read from flash.
LEMMA LedgerStep ==
  ASSUME IInv, BooksInv, Room, Next, NEW n \in Node
  PROVE  /\ OneEntryEach(ledger'[n]) /\ ~Knows(ledger'[n], n)
         /\ \/ Reloads(n)
            \/ \A q : Knows(ledger[n], q) => Knows(ledger'[n], q)
         /\ \A r \in Record, p \in Node : Meets(n, r, p) =>
                Knows(ledger'[n], p)
  <1>1. CASE Kept(n)
    <2>1. \A r, p : ~Meets(n, r, p)
      BY <1>1 DEF Kept, Meets
    <2>2. OneEntryEach(ledger[n]) /\ ~Knows(ledger[n], n)
      BY DEF BooksInv, LedgerPeers
    <2> QED
      BY <1>1, <2>1, <2>2 DEF Kept
  <1>2. ASSUME NEW p \in Node \ {n}, NEW d \in Nat, NEW c \in Nat,
               ledger'[n] = Applied(ledger[n], p, d, c)
        PROVE  /\ OneEntryEach(ledger'[n]) /\ ~Knows(ledger'[n], n)
               /\ \A q : Knows(ledger[n], q) => Knows(ledger'[n], q)
               /\ Knows(ledger'[n], p)
    <2>1. /\ ledger[n] \in Ledger
          /\ OneEntryEach(ledger[n])
          /\ Knows(ledger[n], p) \/ Len(ledger[n]) < LedgerCap
          /\ ~Knows(ledger[n], n)
      BY HasSlot
    <2>2. OneEntryEach(ledger'[n])
      BY <1>2, <2>1, AppliedFacts
    <2>3. \A q : Knows(ledger'[n], q) <=> Knows(ledger[n], q) \/ q = p
      BY <1>2, <2>1, AppliedLifetime
    <2> QED
      BY <2>1, <2>2, <2>3
  <1>3. ASSUME NEW p, Accounts(n, p)
        PROVE  /\ OneEntryEach(ledger'[n]) /\ ~Knows(ledger'[n], n)
               /\ \A q : Knows(ledger[n], q) => Knows(ledger'[n], q)
               /\ \A r, q : ~Meets(n, r, q)
    <2>1. p \in Node \ {n} /\ ledger'[n] = Applied(ledger[n], p, 1, 0)
      BY <1>3, AccountsPeer DEF Accounts
    <2>2. \A r, q : ~Meets(n, r, q)
      BY <1>3 DEF Accounts, Meets
    <2> QED
      BY <1>2, <2>1, <2>2
  <1>4. ASSUME NEW r \in Record, NEW p \in Node, Meets(n, r, p)
        PROVE  /\ OneEntryEach(ledger'[n]) /\ ~Knows(ledger'[n], n)
               /\ \A q : Knows(ledger[n], q) => Knows(ledger'[n], q)
               /\ Knows(ledger'[n], p)
    BY <1>2, <1>4, CountOf DEF Meets
  <1>5. CASE Reloads(n)
    <2>1. OneEntryEach(ledger'[n]) /\ ~Knows(ledger'[n], n)
      BY <1>5 DEF BooksInv, LedgerPeers, Reloads
    <2>2. \A r, p : ~Meets(n, r, p)
      BY <1>5 DEF Reloads, Meets
    <2> QED
      BY <1>5, <2>1, <2>2
  <1> QED
    BY <1>1, <1>3, <1>4, <1>5, Bookkeeping

\* Whom main.c knows at the ends of its connections
LEMMA KnownStep ==
  ASSUME IInv, BooksInv, Next, NEW n \in Node
  PROVE  /\ \/ out'[n].known \in {out[n].known, NoNode}
            \/ \E r \in Record, p \in Node :
                  Meets(n, r, p) /\ out'[n].known = p
         /\ \/ inb'[n].known \in {inb[n].known, NoNode}
            \/ \E r \in Record, p \in Node :
                  Meets(n, r, p) /\ inb'[n].known = p
  <1>0. out \in [Node -> OutRec] /\ inb \in [Node -> InbRec] /\ TypeOK
        /\ out[n] \in OutRec /\ inb[n] \in InbRec
    BY TypeParts DEF IInv, Parts
  <1>1. \/ out'[n].known \in {out[n].known, NoNode}
        \/ \E r \in Record, p \in Node : Meets(n, r, p) /\ out'[n].known = p
    <2>1. ASSUME NEW i \in Node, NEW j \in Node, LinkUp(i, j)
          PROVE  out'[n].known \in {out[n].known, NoNode}
      BY <1>0, <2>1 DEF LinkUp, OutIdle
    <2>2. ASSUME NEW j \in Node,
                 TakePropose(j) \/ TakeConfirm(j) \/ ServeCommand(j)
                 \/ RefuseCommand(j) \/ InboundDisconnected(j) \/ Drop(j)
                 \/ LoseAnswer(j) \/ Garble(j) \/ SyncOn(j)
          PROVE  out' = out
      BY <2>2 DEF TakePropose, TakeConfirm, ServeCommand, RefuseCommand,
                  InboundDisconnected, Drop, LoseAnswer, Garble, SyncOn
    <2>3. ASSUME NEW i \in Node, ClientConnected(i)
          PROVE  out'[n].known = out[n].known
      BY <1>0, <2>3 DEF ClientConnected, OutRec
    <2>4. ASSUME NEW i \in Node, AcceptFails(i) \/ TakeAck(i) \/ SyncOver(i)
          PROVE  out'[n].known = out[n].known
      BY <1>0, <2>4 DEF AcceptFails, TakeAck, SyncOver, HangUp, OutRec
    <2>5. ASSUME NEW i \in Node, ClientDisconnected(i) \/ Crash(i)
          PROVE  out'[n].known \in {out[n].known, NoNode}
      BY <1>0, <2>5 DEF ClientDisconnected, Crash, OutIdle
    <2>6. ASSUME NEW i \in Node, TakeAccept(i)
          PROVE  \/ out'[n].known = out[n].known
                 \/ \E r \in Record, p \in Node :
                       Meets(n, r, p) /\ out'[n].known = p
      BY <2>6, AcceptMeets
    <2> QED
      BY <2>1, <2>2, <2>3, <2>4, <2>5, <2>6 DEF Next
  <1>2. \/ inb'[n].known \in {inb[n].known, NoNode}
        \/ \E r \in Record, p \in Node : Meets(n, r, p) /\ inb'[n].known = p
    <2>1. \A k \in Nat : Armed(n, k).known = inb[n].known
      BY <1>0 DEF Armed, InbRec
    <2>2. wire[n].link \in Nat /\ links + 1 \in Nat
      BY <1>0, EncounterAssumption DEF TypeOK
    <2>3. Session(n).known = inb[n].known /\ Session(n) \in InbRec
      BY <1>0, <2>1, <2>2, SessionType DEF Session
    <2>4. CASE TakePropose(n)
      <3>1. PICK b, r : inb' = [inb EXCEPT ![n] = [Session(n) EXCEPT
                !.state = "AWAIT_CONFIRM", !.me = b, !.rec = r]]
        BY <2>4 DEF TakePropose
      <3>2. inb'[n].known = Session(n).known
        BY <1>0, <2>3, <3>1 DEF InbRec
      <3> QED
        BY <2>3, <3>2
    <2>5. CASE TakeConfirm(n)
      <3>1. /\ wire[n].from \in Node /\ inb[n].rec \in Record
            /\ Meets(n, inb[n].rec, wire[n].from)
            /\ inb'[n] = [inb[n] EXCEPT !.state = "DONE", !.done = TRUE,
                                        !.known = wire[n].from]
        BY <2>5, ConfirmMeets
      <3>2. inb'[n].known = wire[n].from
        BY <1>0, <3>1 DEF InbRec
      <3> QED
        BY <3>1, <3>2
    <2>6. CASE inb'[n] = InbIdle
      BY <2>6 DEF InbIdle
    <2> QED
      BY <2>1, <2>2, <2>4, <2>5, <2>6, InbStep
  <1> QED
    BY <1>1, <1>2

\* Ledgers keep an entry for every peer main.c knows.
LEMMA LedgerPeersStep ==
  ASSUME IInv, BooksInv, Room, Next
  PROVE  LedgerPeers'
  <1> SUFFICES ASSUME NEW n \in Node
               PROVE  /\ OneEntryEach(ledger'[n]) /\ ~Knows(ledger'[n], n)
                      /\ OneEntryEach(flash'[n].ledger)
                      /\ ~Knows(flash'[n].ledger, n)
                      /\ \A p \in {out'[n].known, inb'[n].known} \ {NoNode} :
                            p # n /\ Knows(ledger'[n], p)
    BY DEF LedgerPeers
  <1>1. /\ OneEntryEach(ledger'[n]) /\ ~Knows(ledger'[n], n)
        /\ \/ Reloads(n)
           \/ \A q : Knows(ledger[n], q) => Knows(ledger'[n], q)
        /\ \A r \in Record, p \in Node : Meets(n, r, p) =>
               Knows(ledger'[n], p)
    BY LedgerStep
  <1>2. \A p \in {out[n].known, inb[n].known} \ {NoNode} :
           p # n /\ Knows(ledger[n], p)
    BY DEF BooksInv, LedgerPeers
  <1>3. \A r, p : Meets(n, r, p) => p # n
    BY DEF Meets
  <1>4. ASSUME NEW p, p # NoNode,
               \/ p \in {out[n].known, inb[n].known}
               \/ p \in Node /\ \E r \in Record : Meets(n, r, p)
        PROVE  Reloads(n) \/ (p # n /\ Knows(ledger'[n], p))
    BY <1>1, <1>2, <1>3, <1>4
  <1>5. \A p \in {out'[n].known, inb'[n].known} \ {NoNode} :
           p # n /\ Knows(ledger'[n], p)
    <2>1. CASE Reloads(n)
      BY <2>1 DEF Reloads
    <2>2. CASE ~Reloads(n)
      BY <1>4, <2>2, KnownStep
    <2> QED
      BY <2>1, <2>2
  <1>6. OneEntryEach(flash'[n].ledger) /\ ~Knows(flash'[n].ledger, n)
    <2>1. OneEntryEach(flash[n].ledger) /\ ~Knows(flash[n].ledger, n)
      BY DEF BooksInv, LedgerPeers
    <2>2. OneEntryEach(<<>>) /\ ~Knows(<<>>, n)
      BY DEF OneEntryEach, Knows
    <2>3. flash'[n].ledger \in {flash[n].ledger, ledger'[n], <<>>}
      BY FlashStep DEF Flashed
    <2> QED
      BY <1>1, <2>1, <2>2, <2>3
  <1> QED
    BY <1>1, <1>5, <1>6

\* The count of a node stays the number of its encounters.
LEMMA CountedStep ==
  ASSUME IInv, BooksInv, Next
  PROVE  Counted'
  <1> SUFFICES ASSUME NEW n \in Node
               PROVE  /\ IsFiniteSet(records'[n])
                      /\ count'[n] <= Cardinality(records'[n])
                      /\ flash'[n].count <= Cardinality(records'[n])
                      /\ n \notin setback' =>
                            count'[n] = Cardinality(records'[n])
    BY DEF Counted
  <1> DEFINE met == Cardinality(records[n])
             met2 == Cardinality(records'[n])
  <1>1. /\ IsFiniteSet(records[n]) /\ met \in Nat
        /\ count[n] <= met /\ flash[n].count <= met
        /\ n \notin setback => count[n] = met
        /\ count[n] \in Nat /\ flash[n].count \in Nat
    BY FS_CardinalityType DEF IInv, TypeOK, BooksInv, Counted
  <1>2. flash'[n].count \in {flash[n].count, count'[n], 0}
    BY FlashStep DEF Flashed
  <1>3. n \notin setback' => n \notin setback
    BY SetbackStep
  <1>4. ASSUME records'[n] = records[n], count'[n] = count[n]
        PROVE  /\ IsFiniteSet(records'[n]) /\ met2 = met
               /\ count'[n] <= met2 /\ flash'[n].count <= met2
               /\ n \notin setback' => count'[n] = met2
    BY <1>1, <1>2, <1>3, <1>4
  <1>5. CASE Kept(n) \/ \E p \in Node : Accounts(n, p)
    BY <1>4, <1>5 DEF Kept, Accounts
  <1>6. CASE Reloads(n)
    BY <1>1, <1>2, <1>4, <1>6 DEF Reloads, Kept
  <1>7. ASSUME NEW r, NEW p, Meets(n, r, p)
        PROVE  /\ IsFiniteSet(records'[n])
               /\ count'[n] <= met2 /\ flash'[n].count <= met2
               /\ n \notin setback' => count'[n] = met2
    <2>1. /\ IsFiniteSet(records[n] \cup {r})
          /\ Cardinality(records[n] \cup {r}) =
                IF r \in records[n] THEN met ELSE met + 1
      BY <1>1, FS_AddElement
    <2>2. /\ records'[n] = records[n] \cup {r} /\ r \notin records[n]
          /\ count'[n] = count[n] + 1
      BY <1>7 DEF Meets
    <2>3. IsFiniteSet(records'[n]) /\ met2 = met + 1
      BY <2>1, <2>2
    <2> HIDE DEF met, met2
    <2> QED
      BY <1>1, <1>2, <1>3, <2>2, <2>3
  <1> QED
    BY <1>5, <1>6, <1>7, Bookkeeping

------------------------------------------------------------------------------
(* What the ledger remembers. *)

\* LedgerFollowsRecords, of one node
Follows(n) ==
    /\ count[n] <= Cardinality(records[n])
    /\ Sound(records[n], ledger[n])
    /\ n \notin setback => /\ count[n] = Cardinality(records[n])
                          /\ Complete(n, records[n], ledger[n])

LEMMA FollowsEach ==
  /\ LedgerFollowsRecords <=> (Room => \A n \in Node : Follows(n))
  /\ LedgerFollowsRecords' <=> (Room => \A n \in Node : Follows(n)')
  BY DEF LedgerFollowsRecords, Room, Follows, Sound, Complete, Met

\* Which counts there are
LEMMA MetHas ==
  ASSUME NEW R, NEW p, NEW c
  PROVE  c \in Met(R, p) <=>
            \E r \in R : \/ r.a.node = p /\ c = r.a.count
                         \/ r.b.node = p /\ c = r.b.count
  BY DEF Met

\* A record with p adds what it has of p, and nothing of others.
LEMMA MeetsMet ==
  ASSUME NEW n \in Node, NEW r, NEW p \in Node, Meets(n, r, p)
  PROVE  /\ Met(records'[n], p) = Met(records[n], p) \cup
               {IF p = r.a.node THEN r.a.count ELSE r.b.count}
         /\ \A q \in Node \ {n, p} : Met(records'[n], q) = Met(records[n], q)
  <1>1. /\ records'[n] = records[n] \cup {r} /\ p # n
        /\ \/ r.a.node = n /\ r.b.node = p
           \/ r.a.node = p /\ r.b.node = n
    BY DEF Meets
  <1>2. ASSUME NEW q, NEW c
        PROVE  c \in Met(records'[n], q) <=>
                 \/ c \in Met(records[n], q)
                 \/ r.a.node = q /\ c = r.a.count
                 \/ r.b.node = q /\ c = r.b.count
    BY <1>1, MetHas
  <1>3. \A c : c \in Met(records'[n], p) <=>
             \/ c \in Met(records[n], p)
             \/ c = IF p = r.a.node THEN r.a.count ELSE r.b.count
    BY <1>1, <1>2
  <1>4. \A q \in Node \ {n, p} : \A c :
           c \in Met(records'[n], q) <=> c \in Met(records[n], q)
    BY <1>1, <1>2
  <1> QED
    BY <1>3, <1>4

\* All counts are numbers.
LEMMA MetNat ==
  ASSUME IInv, NEW n \in Node, NEW p
  PROVE  Met(records[n], p) \subseteq Nat
  <1>1. \A r \in records[n] : r.a.count \in Nat /\ r.b.count \in Nat
    BY HalfFacts DEF IInv, TypeOK
  <1> QED
    BY <1>1, MetHas

\* Accounting for a connection leaves what the ledger remembers of meetings.
LEMMA AccountsFollows ==
  ASSUME IInv, BooksInv, Room, NEW n \in Node, NEW p, Accounts(n, p)
  PROVE  /\ Sound(records'[n], ledger'[n])
         /\ n \notin setback => Complete(n, records'[n], ledger'[n])
  <1>1. /\ p \in Node \ {n} /\ Knows(ledger[n], p)
        /\ ledger'[n] = Applied(ledger[n], p, 1, 0)
        /\ records'[n] = records[n]
    BY AccountsPeer DEF Accounts
  <1>2. Follows(n)
    BY FollowsEach DEF BooksInv
  <1>3. \A q : Met(records'[n], q) = Met(records[n], q)
    BY <1>1, MetHas
  <1>4. ledger[n] \in Ledger /\ OneEntryEach(ledger[n])
    BY <1>1, HasSlot
  <1>5. \A q : Knows(ledger'[n], q) <=> Knows(ledger[n], q) \/ q = p
    <2>1. p \in Node /\ 1 \in Nat /\ 0 \in Nat
      BY <1>1
    <2>2. \A q : Knows(Applied(ledger[n], p, 1, 0), q)
                   <=> Knows(ledger[n], q) \/ q = p
      BY <1>1, <1>4, <2>1, AppliedLifetime
    <2> QED
      BY <1>1, <2>2
  <1>6. n \notin setback =>
           \A q \in Node \ {n} : Met(records'[n], q) # {} => Knows(ledger'[n], q)
    BY <1>1, <1>2, <1>3, <1>5 DEF Follows, Complete
  <1>7. ASSUME NEW i \in DOMAIN ledger'[n]
        PROVE  /\ i \in DOMAIN ledger[n]
               /\ ledger'[n][i].peer = ledger[n][i].peer
               /\ ledger'[n][i].met = ledger[n][i].met
    <2>1. /\ \A k \in DOMAIN ledger[n] :
                /\ ledger'[n][k].peer = ledger[n][k].peer
                /\ ledger[n][k].peer # p => ledger'[n][k] = ledger[n][k]
          /\ i \notin DOMAIN ledger[n] => ~Knows(ledger[n], p)
          /\ \A k \in DOMAIN ledger[n] : ledger[n][k].peer = p =>
                ledger'[n][k].met = IF 0 > ledger[n][k].met THEN 0
                                    ELSE ledger[n][k].met
      BY <1>1, <1>4, <1>7, AppliedFacts
    <2>2. i \in DOMAIN ledger[n]
      BY <1>1, <2>1
    <2>3. ledger[n][i].met \in Nat
      BY <1>4, <2>2, EntryTypes
    <2>4. ledger'[n][i].met = ledger[n][i].met
      BY <2>1, <2>2, <2>3
    <2> QED
      BY <2>1, <2>2, <2>4
  <1>8. \A i \in DOMAIN ledger'[n] :
           /\ ledger'[n][i].met \in Met(records'[n], ledger'[n][i].peer)
           /\ n \notin setback =>
                 \A c \in Met(records'[n], ledger'[n][i].peer) :
                      c <= ledger'[n][i].met
    BY <1>2, <1>3, <1>7 DEF Follows, Sound, Complete
  <1> QED
    BY <1>6, <1>8 DEF Sound, Complete

\* What a record leaves of the counts a ledger has.
LEMMA AppliedMet ==
  ASSUME NEW l \in Ledger, NEW p \in Node, NEW c \in Nat,
         OneEntryEach(l), Knows(l, p) \/ Len(l) < LedgerCap,
         NEW l2, l2 = Applied(l, p, 0, c)
  PROVE  /\ \A i \in DOMAIN l : /\ l2[i].peer = l[i].peer
                                /\ l[i].peer # p => l2[i] = l[i]
         /\ \A i \in DOMAIN l2 : i \notin DOMAIN l =>
               ~Knows(l, p) /\ l2[i].peer = p /\ l2[i].met = c
         /\ \A i \in DOMAIN l : l[i].peer = p =>
               l2[i].met = IF c > l[i].met THEN c ELSE l[i].met
  <1>1. 0 \in Nat
    OBVIOUS
  <1>2. LET m == Applied(l, p, 0, c)
        IN  /\ \A i \in DOMAIN l : /\ m[i].peer = l[i].peer
                                   /\ l[i].peer # p => m[i] = l[i]
            /\ \A i \in DOMAIN m : i \notin DOMAIN l =>
                  ~Knows(l, p) /\ m[i].peer = p /\ m[i].met = c
            /\ \A i \in DOMAIN l : l[i].peer = p =>
                  m[i].met = IF c > l[i].met THEN c ELSE l[i].met
    BY <1>1, AppliedFacts
  <1> QED
    BY <1>2

\* A record brings an entry for its peer, with the highest count.
LEMMA MeetsFollows ==
  ASSUME IInv, BooksInv, Room, NEW n \in Node, NEW r \in Record, NEW p \in Node,
         Meets(n, r, p)
  PROVE  /\ Sound(records'[n], ledger'[n])
         /\ n \notin setback => Complete(n, records'[n], ledger'[n])
  <1> DEFINE new == IF p = r.a.node THEN r.a.count ELSE r.b.count
  <1>1. /\ new \in Nat /\ p \in Node \ {n}
        /\ ledger'[n] = Applied(ledger[n], p, 0, new)
    BY CountOf DEF Meets
  <1>2. /\ Met(records'[n], p) = Met(records[n], p) \cup {new}
        /\ \A q \in Node \ {n, p} : Met(records'[n], q) = Met(records[n], q)
    BY MeetsMet
  <1> HIDE DEF new
  <1>3. Follows(n)
    BY FollowsEach DEF BooksInv
  <1>4. /\ ledger[n] \in Ledger /\ OneEntryEach(ledger[n])
        /\ Knows(ledger[n], p) \/ Len(ledger[n]) < LedgerCap
        /\ ~Knows(ledger[n], n)
    BY <1>1, HasSlot
  <1>5. \A q : Knows(ledger'[n], q) <=> Knows(ledger[n], q) \/ q = p
    BY <1>1, <1>4, AppliedLifetime
  <1>6. n \notin setback =>
           \A q \in Node \ {n} : Met(records'[n], q) # {} => Knows(ledger'[n], q)
    BY <1>2, <1>3, <1>5 DEF Follows, Complete
  <1>7. ASSUME NEW i \in DOMAIN ledger'[n]
        PROVE  /\ ledger'[n][i].met \in Met(records'[n], ledger'[n][i].peer)
               /\ n \notin setback =>
                     \A c \in Met(records'[n], ledger'[n][i].peer) :
                         c <= ledger'[n][i].met
    <2>1. /\ \A k \in DOMAIN ledger[n] :
                /\ ledger'[n][k].peer = ledger[n][k].peer
                /\ ledger[n][k].peer # p => ledger'[n][k] = ledger[n][k]
          /\ i \notin DOMAIN ledger[n] =>
                /\ ~Knows(ledger[n], p)
                /\ ledger'[n][i].peer = p
                /\ ledger'[n][i].met = new
          /\ \A k \in DOMAIN ledger[n] : ledger[n][k].peer = p =>
                ledger'[n][k].met = IF new > ledger[n][k].met THEN new
                                    ELSE ledger[n][k].met
      <3>1. p \in Node /\ new \in Nat
        BY <1>1
      <3> QED
        BY <1>1, <1>4, <1>7, <3>1, AppliedMet
    <2>2. CASE i \notin DOMAIN ledger[n]
      <3>1. n \notin setback => Met(records[n], p) = {}
        BY <1>1, <1>3, <2>1, <2>2 DEF Follows, Complete
      <3> QED
        BY <1>1, <1>2, <2>1, <2>2, <3>1
    <2>3. CASE i \in DOMAIN ledger[n]
      <3>1. /\ ledger[n][i].met \in Met(records[n], ledger[n][i].peer)
            /\ n \notin setback =>
                  \A c \in Met(records[n], ledger[n][i].peer) :
                      c <= ledger[n][i].met
        BY <1>3, <2>3 DEF Follows, Sound, Complete
      <3>2. ledger[n][i].met \in Nat /\ ledger[n][i].peer \in Node
        BY <1>4, <2>3, EntryTypes
      <3>3. Met(records[n], ledger[n][i].peer) \subseteq Nat
        BY MetNat
      <3>4. ledger[n][i].peer # n
        BY <1>4, <2>3 DEF Knows
      <3>5. CASE ledger[n][i].peer = p
        <4>1. ledger'[n][i].met = IF new > ledger[n][i].met THEN new
                                  ELSE ledger[n][i].met
          BY <2>1, <2>3, <3>5
        <4>2. /\ Met(records'[n], p) = Met(records[n], p) \cup {new}
              /\ ledger'[n][i].peer = p
          BY <1>2, <2>1, <2>3, <3>5
        <4> QED
          BY <1>1, <3>1, <3>2, <3>3, <3>5, <4>1, <4>2
      <3>6. CASE ledger[n][i].peer # p
        <4>1. /\ ledger'[n][i] = ledger[n][i]
              /\ Met(records'[n], ledger[n][i].peer) =
                    Met(records[n], ledger[n][i].peer)
          BY <1>2, <2>1, <2>3, <3>2, <3>4, <3>6
        <4> QED
          BY <3>1, <4>1
      <3> QED
        BY <3>5, <3>6
    <2> QED
      BY <2>2, <2>3
  <1> QED
    BY <1>6, <1>7 DEF Sound, Complete

\* A ledger stays sound as encounters are added.
LEMMA SoundGrows ==
  ASSUME NEW R, NEW S, R \subseteq S, NEW l, Sound(R, l)
  PROVE  Sound(S, l)
  <1>1. \A p : Met(R, p) \subseteq Met(S, p)
    BY MetHas
  <1> QED
    BY <1>1 DEF Sound

\* The ledgers go on following the encounters.
LEMMA FollowsStep ==
  ASSUME IInv, BooksInv, Next
  PROVE  /\ LedgerFollowsRecords'
         /\ Room => FlashSound'
  <1>1. ASSUME Room, NEW n \in Node
        PROVE  Sound(records'[n], ledger'[n])
               /\ (n \notin setback' => Complete(n, records'[n], ledger'[n]))
    <2>1. Follows(n) /\ Sound(records[n], flash[n].ledger)
      BY <1>1, FollowsEach DEF BooksInv, FlashSound
    <2>2. CASE Kept(n)
      <3>1. records'[n] = records[n] /\ ledger'[n] = ledger[n]
        BY <2>2 DEF Kept
      <3> QED
        BY <2>1, <3>1, SetbackStep DEF Follows
    <2>3. CASE Reloads(n) /\ ~Kept(n)
      <3>1. records'[n] = records[n] /\ ledger'[n] = flash[n].ledger
        BY <2>3 DEF Reloads
      <3> QED
        BY <2>1, <2>3, <3>1 DEF Reloads
    <2> QED
      BY <1>1, <2>2, <2>3, AccountsFollows, MeetsFollows, Bookkeeping,
         SetbackStep
  <1>2. ASSUME Room, NEW n \in Node
        PROVE  Follows(n)'
    BY <1>1, <1>2, CountedStep DEF Counted, Follows
  <1>3. ASSUME Room, NEW n \in Node
        PROVE  Sound(records'[n], flash'[n].ledger)
    <2>1. flash'[n].ledger \in {flash[n].ledger, ledger'[n], <<>>}
      BY FlashStep DEF Flashed
    <2>2. Sound(records'[n], flash[n].ledger)
      BY <1>3, RecordsStep, SoundGrows DEF BooksInv, FlashSound
    <2>3. Sound(records'[n], <<>>)
      BY DEF Sound
    <2> QED
      BY <1>1, <1>3, <2>1, <2>2, <2>3
  <1> QED
    BY <1>2, <1>3, FollowsEach DEF FlashSound

------------------------------------------------------------------------------
(* The Peripheral's end of a connection. *)

SameEnd(y) ==
    /\ wire'[y].link = wire[y].link
    /\ wire'[y].from = wire[y].from

StaysPut(y) == SameEnd(y) /\ inb'[y] = inb[y]

StartsOver(y) ==
    /\ ~inb[y].done
    /\ inb'[y] = InbIdle
    /\ SameEnd(y) \/ wire'[y] = WireIdle

Connects(y) ==
    /\ inb[y] = InbIdle
    /\ wire[y].from = NoNode
    /\ wire'[y].link = links + 1
    /\ inb'[y] = Armed(y, links + 1)

Leaves(y) ==
    /\ inb'[y] = InbIdle
    /\ wire'[y] = WireIdle
    /\ InboundDisconnected(y) \/ crashes' > 0

\* An answer leaves the connection.
LEMMA AnswerKeepsEnd ==
  ASSUME wire \in [Node -> WireRec], NEW y \in Node, NEW m, Answer(y, m)
  PROVE  SameEnd(y) /\ wire'[y].ans = m
  <1>1. wire[y] \in WireRec
    OBVIOUS
  <1>2. wire'[y] = [wire[y] EXCEPT !.req = Silence, !.ans = m]
    BY DEF Answer
  <1> QED
    BY <1>1, <1>2 DEF SameEnd, WireRec

\* A CONFIRM does, too.
LEMMA ConfirmEnd ==
  ASSUME IInv, NEW y \in Node, TakeConfirm(y)
  PROVE  SameEnd(y)
  <1>1. wire \in [Node -> WireRec]
    BY TypeParts DEF IInv, Parts
  <1>2. \E m : Answer(y, m)
    BY DEF TakeConfirm
  <1> QED
    BY <1>1, <1>2, AnswerKeepsEnd

\* What a step does to it
LEMMA EndStep ==
  ASSUME IInv, Next, NEW y \in Node
  PROVE  \/ StaysPut(y) \/ StartsOver(y) \/ Connects(y) \/ Leaves(y)
         \/ TakePropose(y) /\ SameEnd(y)
         \/ TakeConfirm(y) /\ SameEnd(y)
  <1>0. /\ TypeOK /\ inb \in [Node -> InbRec] /\ wire \in [Node -> WireRec]
        /\ Responders /\ InbIdle.done = FALSE
    BY TypeParts DEF IInv, Parts, InbIdle
  <1>1. CASE \E i \in Node : LinkUp(i, y)
    <2>1. PICK i \in Node : LinkUp(i, y)
      BY <1>1
    <2>2. wire[y].from = NoNode /\ inb[y] = InbIdle
      BY <1>0, <2>1 DEF LinkUp, Responders
    <2>3. inb'[y] = Armed(y, links + 1)
      BY <1>0, <2>1 DEF LinkUp
    <2>4. wire'[y].link = links + 1
      BY <1>0, <2>1 DEF LinkUp, WireIdle
    <2> QED
      BY <2>2, <2>3, <2>4 DEF Connects
  <1>2. CASE TakePropose(y)
    <2>1. \E m : Answer(y, m)
      BY <1>2 DEF TakePropose
    <2> QED
      BY <1>0, <1>2, <2>1, AnswerKeepsEnd
  <1>3. CASE TakeConfirm(y)
    BY <1>3, ConfirmEnd
  <1>4. CASE RefuseCommand(y)
    <2>1. \E m : Answer(y, m)
      BY <1>4 DEF RefuseCommand
    <2>2. inb'[y] = InbIdle /\ ~Session(y).done
      BY <1>0, <1>4 DEF RefuseCommand, Refused
    <2>3. ~inb[y].done
      BY <1>0, <2>2, SessionType
    <2> QED
      BY <1>0, <2>1, <2>2, <2>3, AnswerKeepsEnd DEF StartsOver
  <1>5. CASE InboundDisconnected(y)
    BY <1>0, <1>5 DEF InboundDisconnected, Leaves
  <1>6. CASE Crash(y)
    <2>1. inb'[y] = InbIdle
      BY <1>0, <1>6 DEF Crash
    <2>2. wire'[y] = WireIdle
      <3>1. /\ wire' = [IF Linked(y) THEN Broken(out[y].peer) ELSE wire
                        EXCEPT ![y] = WireIdle]
            /\ Broken(out[y].peer) \in [Node -> WireRec]
        BY <1>0, <1>6, BrokenType DEF Crash
      <3> QED
        BY <1>0, <3>1
    <2>3. crashes' > 0
      BY <1>0, <1>6, EncounterAssumption DEF Crash, TypeOK
    <2> QED
      BY <2>1, <2>2, <2>3 DEF Leaves
  <1>7. CASE ~(\/ \E i \in Node : LinkUp(i, y)
               \/ TakePropose(y) \/ TakeConfirm(y) \/ RefuseCommand(y)
               \/ InboundDisconnected(y) \/ Crash(y))
    <2>1. inb'[y] = inb[y]
      <3>1. ASSUME NEW i \in Node, NEW j \in Node \ {y}, LinkUp(i, j)
            PROVE  inb'[y] = inb[y]
        BY <1>0, <3>1 DEF LinkUp
      <3>2. ASSUME NEW j \in Node \ {y},
                   TakePropose(j) \/ TakeConfirm(j) \/ RefuseCommand(j)
                   \/ InboundDisconnected(j) \/ Crash(j)
            PROVE  inb'[y] = inb[y]
        BY <1>0, <3>2 DEF TakePropose, TakeConfirm, RefuseCommand,
                          InboundDisconnected, Crash
      <3>3. ASSUME NEW j \in Node,
                   ServeCommand(j) \/ Drop(j) \/ LoseAnswer(j) \/ Garble(j)
                   \/ ClientConnected(j) \/ TakeAccept(j) \/ AcceptFails(j)
                   \/ TakeAck(j) \/ SyncOn(j) \/ SyncOver(j)
                   \/ ClientDisconnected(j)
            PROVE  inb'[y] = inb[y]
        BY <3>3 DEF ServeCommand, Drop, LoseAnswer, Garble, ClientConnected,
                    TakeAccept, AcceptFails, TakeAck, SyncOn, SyncOver,
                    ClientDisconnected
      <3> QED
        BY <1>7, <3>1, <3>2, <3>3 DEF Next
    <2>2. SameEnd(y) \/ (wire'[y] = WireIdle /\ inb'[y] = InbIdle)
      BY <1>7, WireStep DEF SameEnd
    <2>3. CASE SameEnd(y)
      BY <2>1, <2>3 DEF StaysPut
    <2>4. CASE wire'[y] = WireIdle /\ inb'[y] = InbIdle
      BY <1>0, <2>1, <2>4 DEF StartsOver
    <2> QED
      BY <2>2, <2>3, <2>4
  <1> QED
    BY <1>1, <1>2, <1>3, <1>4, <1>5, <1>6, <1>7

\* A node gains a record as responder by a CONFIRM only.
LEMMA ResponderRecords ==
  ASSUME IInv, BooksInv, Next, NEW y \in Node,
         NEW r \in records'[y], r.b.node = y
  PROVE  r \in records[y] \/ (TakeConfirm(y) /\ r = inb[y].rec)
  <1>1. CASE records' = records
    BY <1>1
  <1>2. ASSUME NEW i \in Node, TakeAccept(i)
        PROVE  r \in records[y]
    <2>1. /\ \A m \in Node \ {i} : Kept(m)
          /\ \E s \in Record : s.a.node = i /\ Meets(i, s, out[i].peer)
      BY <1>2, AcceptMeets
    <2> QED
      BY <2>1 DEF Kept, Meets
  <1>3. ASSUME NEW j \in Node, TakeConfirm(j)
        PROVE  r \in records[y] \/ (TakeConfirm(y) /\ r = inb[y].rec)
    <2>1. /\ \A m \in Node \ {j} : Kept(m)
          /\ Meets(j, inb[j].rec, wire[j].from)
      BY <1>3, ConfirmMeets
    <2> QED
      BY <1>3, <2>1 DEF Kept, Meets
  <1> QED
    BY <1>1, <1>2, <1>3, RecordsStep

\* The session a PROPOSE opens
LEMMA ProposeOpens ==
  ASSUME IInv, BooksInv, NEW y \in Node, TakePropose(y)
  PROVE  /\ inb'[y].armed /\ inb'[y].me.nonce = wire[y].link
         /\ inb'[y].done = FALSE /\ inb[y].done = FALSE
         /\ inb'[y].rec.b = inb'[y].me
         /\ inb'[y].me.node = y
         /\ inb'[y].me.life = Lifetime(ledger[y], inb'[y].rec.a.node)
         /\ \A m \in Node : Kept(m)
         /\ wire'[y].ans.half.node = y
  <1> DEFINE a == wire[y].req.half
             b == [Session(y).me EXCEPT !.life = Lifetime(ledger[y], a.node)]
             r == [a |-> a, b |-> b]
  <1>0. /\ TypeOK /\ inb \in [Node -> InbRec] /\ wire \in [Node -> WireRec]
        /\ Responses /\ wire[y].link \in Nat
    BY TypeParts, EncounterAssumption DEF IInv, BooksInv, Parts, TypeOK
  <1>1. /\ Session(y) \in InbRec /\ Session(y).me \in Half
        /\ Session(y).me.node = y /\ Session(y).armed
        /\ Session(y).done = FALSE /\ inb[y].done = FALSE
    BY SessionOwn DEF TakePropose, InbRec
  <1>2. Session(y).me.nonce = wire[y].link
    <2>1. CASE inb[y].armed
      BY <1>0, <2>1 DEF Session, Responses
    <2>2. CASE ~inb[y].armed
      <3>1. Session(y).me = LocalInput(y, wire[y].link)
        BY <1>0, <2>2 DEF Session, Armed, InbRec
      <3> QED
        BY <3>1 DEF LocalInput
    <2> QED
      BY <2>1, <2>2
  <1>3. /\ b.node = y /\ b.nonce = wire[y].link
        /\ b.life = Lifetime(ledger[y], a.node)
    <2> HIDE DEF a
    <2> QED
      BY <1>1, <1>2 DEF Half
  <1>4. /\ inb' = [inb EXCEPT ![y] = [Session(y) EXCEPT
                   !.state = "AWAIT_CONFIRM", !.me = b, !.rec = r]]
        /\ Answer(y, Accept(b, Signature(y, r)))
        /\ UNCHANGED books
    BY DEF TakePropose
  <1>5. r.a = a /\ r.b = b
    OBVIOUS
  <1> HIDE DEF a, b, r
  <1>6. inb'[y] = [Session(y) EXCEPT !.state = "AWAIT_CONFIRM", !.me = b,
                                     !.rec = r]
    BY <1>0, <1>4
  <1>7. /\ inb'[y].armed /\ inb'[y].done = FALSE
        /\ inb'[y].me = b /\ inb'[y].rec = r
    BY <1>1, <1>6 DEF InbRec
  <1>8. \A m \in Node : Kept(m)
    BY <1>4 DEF books, Kept
  <1>9. wire'[y].ans = Accept(b, Signature(y, r))
    BY <1>0, <1>4, AnswerKeepsEnd
  <1>10. wire'[y].ans.half = b
    BY <1>9 DEF Accept
  <1> QED
    BY <1>1, <1>3, <1>5, <1>7, <1>8, <1>10

\* The only ACCEPT a Peripheral sends is its own.
LEMMA AnswersStep ==
  ASSUME IInv, BooksInv, Next, NEW y \in Node, wire'[y].ans.type = "ACCEPT"
  PROVE  wire'[y].ans.half.node = y
  <1>0. /\ TypeOK /\ wire \in [Node -> WireRec] /\ wire[y] \in WireRec
        /\ wire[y].ans.type = "ACCEPT" => wire[y].ans.half.node = y
        /\ Silence.type # "ACCEPT" /\ WireIdle.ans = Silence
    BY TypeParts DEF IInv, BooksInv, Responses, Parts, Silence, Plain, WireIdle
  <1>1. CASE wire'[y].ans = wire[y].ans
    BY <1>0, <1>1
  <1>2. CASE TakePropose(y)
    BY <1>2, ProposeOpens
  <1>3. CASE ~TakePropose(y)
    <2>1. ASSUME NEW i \in Node, NEW j \in Node, LinkUp(i, j)
          PROVE  wire'[y].ans = wire[y].ans \/ wire'[y].ans = Silence
      BY <1>0, <2>1 DEF LinkUp, WireIdle
    <2>2. ASSUME NEW j \in Node, NEW t, Answer(j, Plain(t)),
                 t \in {"OK", "DATA", "ERROR"}
          PROVE  wire'[y].ans = wire[y].ans \/ wire'[y].ans.type # "ACCEPT"
      <3>1. CASE y = j
        BY <1>0, <2>2, <3>1, AnswerKeepsEnd DEF Plain
      <3>2. CASE y # j
        BY <1>0, <2>2, <3>2 DEF Answer
      <3> QED
        BY <3>1, <3>2
    <2>3. ASSUME NEW j \in Node,
                 TakeConfirm(j) \/ ServeCommand(j) \/ RefuseCommand(j)
          PROVE  wire'[y].ans = wire[y].ans \/ wire'[y].ans.type # "ACCEPT"
      <3>1. \E t \in {"OK", "DATA", "ERROR"} : Answer(j, Plain(t))
        BY <2>3 DEF TakeConfirm, ServeCommand, RefuseCommand
      <3> QED
        BY <2>2, <3>1
    <2>4. ASSUME NEW j \in Node, TakePropose(j)
          PROVE  wire'[y].ans = wire[y].ans
      <3>1. \E m : Answer(j, m) /\ y # j
        BY <1>3, <2>4 DEF TakePropose
      <3> QED
        BY <1>0, <3>1 DEF Answer
    <2>5. ASSUME NEW j, wire' = Broken(j)
          PROVE  wire'[y].ans = wire[y].ans \/ wire'[y].ans = Silence
      BY <1>0, <2>5 DEF Broken, WireRec
    <2>6. ASSUME NEW j \in Node, Drop(j) \/ AcceptFails(j) \/ SyncOver(j)
          PROVE  \E k : wire' = Broken(k)
      BY <2>6 DEF Drop, AcceptFails, SyncOver, HangUp
    <2>7. ASSUME NEW j \in Node, InboundDisconnected(j)
          PROVE  wire'[y].ans = wire[y].ans \/ wire'[y].ans = Silence
      BY <1>0, <2>7 DEF InboundDisconnected
    <2>8. ASSUME NEW j \in Node, LoseAnswer(j)
          PROVE  wire'[y].ans = wire[y].ans \/ wire'[y].ans = Silence
      BY <1>0, <2>8 DEF LoseAnswer, WireRec
    <2>9. ASSUME NEW j \in Node, Garble(j)
          PROVE  wire'[y].ans = wire[y].ans \/ wire'[y].ans.type # "ACCEPT"
      <3>1. Plain("GARBAGE").type # "ACCEPT"
        BY DEF Plain
      <3>2. CASE wire' = [wire EXCEPT ![j].req = Plain("GARBAGE")]
        BY <1>0, <3>2 DEF WireRec
      <3>3. CASE wire' = [wire EXCEPT ![j].ans = Plain("GARBAGE")]
        BY <1>0, <3>1, <3>3 DEF WireRec
      <3> QED
        BY <2>9, <3>2, <3>3 DEF Garble
    <2>10. ASSUME NEW i \in Node, ClientConnected(i)
           PROVE  wire'[y].ans = wire[y].ans
      BY <1>0, <2>10 DEF ClientConnected, WireRec
    <2>11. ASSUME NEW i \in Node, TakeAccept(i) \/ TakeAck(i) \/ SyncOn(i)
           PROVE  wire'[y].ans = wire[y].ans \/ wire'[y].ans = Silence
      <3>1. \E m : Send(i, m)
        BY <2>11 DEF TakeAccept, TakeAck, SyncOn
      <3> QED
        BY <1>0, <3>1 DEF Send, WireRec
    <2>12. ASSUME NEW i \in Node, ClientDisconnected(i)
           PROVE  wire'[y].ans = wire[y].ans
      BY <2>12 DEF ClientDisconnected
    <2>13. ASSUME NEW i \in Node, Crash(i)
           PROVE  wire'[y].ans = wire[y].ans \/ wire'[y].ans = Silence
      <3>1. /\ wire' = [IF Linked(i) THEN Broken(out[i].peer) ELSE wire
                        EXCEPT ![i] = WireIdle]
            /\ Broken(out[i].peer) \in [Node -> WireRec]
        BY <1>0, <2>13, BrokenType DEF Crash
      <3>2. \/ wire'[y] = WireIdle \/ wire'[y] = wire[y]
            \/ wire'[y] = Broken(out[i].peer)[y]
        BY <1>0, <3>1
      <3>3. \/ Broken(out[i].peer)[y].ans = wire[y].ans
            \/ Broken(out[i].peer)[y].ans = Silence
        BY <1>0 DEF Broken, WireRec
      <3> QED
        BY <1>0, <3>2, <3>3
    <2> QED
      BY <1>0, <2>1, <2>3, <2>4, <2>5, <2>6, <2>7, <2>8, <2>9, <2>10, <2>11,
         <2>12, <2>13 DEF Next
  <1> QED
    BY <1>2, <1>3

\* A new connection has a number no record has.
LEMMA OldRecords ==
  ASSUME IInv, NEW y \in Node, NEW r \in records[y]
  PROVE  /\ r \in Record /\ r.a.nonce \in Nat /\ r.b.nonce \in Nat
         /\ r.a.nonce <= links /\ links \in Nat
  <1>1. r \in Record /\ r.a.nonce <= links /\ links \in Nat
    BY EncounterAssumption DEF IInv, TypeOK, RecordedLinks
  <1> QED
    BY <1>1, HalfFacts

\* Sessions and records of a Peripheral stay about its connection.
LEMMA ResponsesStep ==
  ASSUME IInv, BooksInv, Next
  PROVE  Responses'
  <1>0. /\ TypeOK /\ Responses /\ inb \in [Node -> InbRec] /\ links \in Nat
        /\ wire \in [Node -> WireRec] /\ NoNode \notin Node
    BY TypeParts, EncounterAssumption DEF IInv, BooksInv, Parts, TypeOK
  <1>a. /\ InbIdle.armed = FALSE /\ InbIdle.done = FALSE
        /\ InbIdle.state = "INIT" /\ WireIdle.from = NoNode
    BY DEF InbIdle, WireIdle
  <1>1. ASSUME NEW y \in Node
        PROVE  /\ inb'[y].armed => inb'[y].me.nonce = wire'[y].link
               /\ inb'[y].state = "AWAIT_CONFIRM" =>
                     inb'[y].rec.b.nonce = wire'[y].link
               /\ inb'[y].done => inb'[y].known = wire'[y].from
               /\ \A r \in records'[y] : r.b.node = y =>
                     /\ r.b.nonce = r.a.nonce
                     /\ wire'[y].from # NoNode => r.a.nonce <= wire'[y].link
                     /\ Current(y, r)' => inb'[y].done
    <2>0. /\ inb[y] \in InbRec /\ wire[y].link \in Nat
          /\ inb[y].armed => inb[y].me.nonce = wire[y].link
          /\ inb[y].state = "AWAIT_CONFIRM" =>
                inb[y].rec.b.nonce = wire[y].link
          /\ inb[y].done => inb[y].known = wire[y].from
          /\ \A r \in records[y] : r.b.node = y =>
                /\ r.b.nonce = r.a.nonce
                /\ wire[y].from # NoNode => r.a.nonce <= wire[y].link
                /\ Current(y, r) => inb[y].done
      BY <1>0, EncounterAssumption DEF Responses, TypeOK
    <2>1. CASE TakeConfirm(y) /\ SameEnd(y)
      <3>1. /\ inb[y].state = "AWAIT_CONFIRM"
            /\ inb'[y] = [inb[y] EXCEPT !.state = "DONE", !.done = TRUE,
                                        !.known = wire[y].from]
            /\ inb[y].rec.a.nonce = wire[y].link
        BY <2>1, ConfirmMeets
      <3>2. /\ inb'[y].armed = inb[y].armed /\ inb'[y].me = inb[y].me
            /\ inb'[y].state = "DONE" /\ inb'[y].done
            /\ inb'[y].known = wire[y].from
        BY <2>0, <3>1 DEF InbRec
      <3>3. ASSUME NEW r \in records'[y], r.b.node = y
            PROVE  /\ r.b.nonce = r.a.nonce
                   /\ wire'[y].from # NoNode => r.a.nonce <= wire'[y].link
        <4>1. CASE r \in records[y]
          BY <2>0, <2>1, <3>3, <4>1 DEF SameEnd
        <4>2. CASE r = inb[y].rec
          BY <2>0, <2>1, <3>1, <4>2 DEF SameEnd
        <4> QED
          BY <3>3, <4>1, <4>2, ResponderRecords
      <3> QED
        BY <2>0, <2>1, <3>2, <3>3 DEF SameEnd
    <2>2. CASE ~TakeConfirm(y)
      <3>1. \A r \in records'[y] : r.b.node = y =>
               /\ r \in records[y] /\ r.b.nonce = r.a.nonce
               /\ r.a.nonce \in Nat /\ r.a.nonce <= links
        BY <2>0, <2>2, ResponderRecords, OldRecords
      <3>2. CASE StaysPut(y)
        BY <2>0, <3>1, <3>2 DEF StaysPut, SameEnd, Current
      <3>3. CASE StartsOver(y)
        BY <1>a, <2>0, <3>1, <3>3 DEF StartsOver, SameEnd, Current
      <3>4. CASE Connects(y)
        <4>1. /\ inb'[y].state = "INIT" /\ inb'[y].done = FALSE
              /\ inb'[y].me.nonce = links + 1
          <5>1. inb'[y].me = LocalInput(y, links + 1)
            BY <2>0, <3>4 DEF Connects, Armed, InbRec
          <5>2. inb'[y].state = "INIT" /\ inb'[y].done = inb[y].done
            BY <2>0, <3>4 DEF Connects, Armed, InbRec
          <5> QED
            BY <1>a, <3>4, <5>1, <5>2 DEF Connects, LocalInput
        <4>2. wire'[y].link = links + 1
          BY <3>4 DEF Connects
        <4> QED
          BY <1>0, <3>1, <4>1, <4>2 DEF Current
      <3>5. CASE Leaves(y)
        BY <1>a, <3>1, <3>5 DEF Leaves, Current
      <3>6. CASE TakePropose(y) /\ SameEnd(y)
        <4>1. /\ inb'[y].me.nonce = wire[y].link
              /\ inb'[y].done = FALSE /\ inb[y].done = FALSE
              /\ inb'[y].rec.b = inb'[y].me
          BY <3>6, ProposeOpens
        <4> QED
          BY <2>0, <3>1, <3>6, <4>1 DEF SameEnd, Current
      <3> QED
        BY <2>2, <3>2, <3>3, <3>4, <3>5, <3>6, EndStep
    <2> QED
      BY <2>1, <2>2, EndStep, ConfirmEnd
  <1> QED
    BY <1>1, AnswersStep DEF Responses

------------------------------------------------------------------------------
(* Lifetimes. *)

\* Totals go on growing.
LEMMA OutgrownOn ==
  ASSUME NEW x \in 0 .. MaxTotal, NEW y \in 0 .. MaxTotal,
         NEW z \in 0 .. MaxTotal, NEW c \in Nat, NEW d \in Nat,
         Outgrown(x, y, c), y <= z, c <= d
  PROVE  Outgrown(x, z, d)
  BY LedgerAssumption DEF Outgrown

\* A sum is not less, and more while there is more.
LEMMA SatAddGrows ==
  ASSUME NEW x \in 0 .. MaxTotal, NEW y \in Nat
  PROVE  /\ x <= SatAdd(x, y)
         /\ x < SatAdd(x, 1) \/ (x = MaxTotal /\ SatAdd(x, 1) = MaxTotal)
  BY LedgerAssumption DEF SatAdd

\* No lifetime shrinks without a setback.
LEMMA LifetimeStep ==
  ASSUME IInv, BooksInv, Room, Next, NEW n \in Node \ setback', NEW q
  PROVE  /\ Lifetime(ledger[n], q) \in 0 .. MaxTotal
         /\ Lifetime(ledger'[n], q) \in 0 .. MaxTotal
         /\ Lifetime(ledger[n], q) <= Lifetime(ledger'[n], q)
  <1>0. TypeOK /\ TypeOK'
    BY TypeStep DEF IInv
  <1>1. ledger[n] \in Ledger /\ ledger'[n] \in Ledger
    BY <1>0 DEF TypeOK
  <1>2. /\ Lifetime(ledger[n], q) \in 0 .. MaxTotal
        /\ Lifetime(ledger'[n], q) \in 0 .. MaxTotal
    BY <1>1, LifetimeType
  <1>3. ASSUME NEW p \in Node \ {n}, NEW d \in Nat, NEW c \in Nat,
               ledger'[n] = Applied(ledger[n], p, d, c)
        PROVE  Lifetime(ledger[n], q) <= Lifetime(ledger'[n], q)
    <2>1. Lifetime(Applied(ledger[n], p, d, c), q) =
             IF q = p THEN SatAdd(Lifetime(ledger[n], p), d)
                      ELSE Lifetime(ledger[n], q)
      BY HasSlot, AppliedLifetime
    <2>2. Lifetime(ledger[n], q) <= SatAdd(Lifetime(ledger[n], q), d)
      BY <1>2, SatAddGrows
    <2>3. Lifetime(ledger[n], q) <= Lifetime(ledger[n], q)
      BY <1>2
    <2>4. CASE q = p
      BY <1>3, <2>1, <2>2, <2>4
    <2>5. CASE q # p
      BY <1>3, <2>1, <2>3, <2>5
    <2> QED
      BY <2>4, <2>5
  <1>4. CASE Kept(n)
    BY <1>2, <1>4 DEF Kept
  <1>5. ASSUME NEW p, Accounts(n, p)
        PROVE  Lifetime(ledger[n], q) <= Lifetime(ledger'[n], q)
    <2>1. p \in Node \ {n} /\ 1 \in Nat /\ 0 \in Nat
      BY <1>5, AccountsPeer
    <2>2. ledger'[n] = Applied(ledger[n], p, 1, 0)
      BY <1>5 DEF Accounts
    <2> QED
      BY <1>3, <2>1, <2>2
  <1>6. ASSUME NEW r \in Record, NEW p \in Node, Meets(n, r, p)
        PROVE  Lifetime(ledger[n], q) <= Lifetime(ledger'[n], q)
    BY <1>3, <1>6, CountOf DEF Meets
  <1> QED
    BY <1>2, <1>4, <1>5, <1>6, BookkeepingOn

\* Power losses stay counted.
LEMMA CrashesStep ==
  ASSUME IInv, Next
  PROVE  crashes \in Nat /\ crashes' \in Nat /\ crashes <= crashes'
  <1>1. crashes \in Nat
    BY EncounterAssumption DEF IInv, TypeOK
  <1>2. crashes' = crashes \/ crashes' = crashes + 1
    BY DEF Next, LinkUp, TakePropose, TakeConfirm, ServeCommand, RefuseCommand,
           InboundDisconnected, Drop, LoseAnswer, Garble, ClientConnected,
           TakeAccept, AcceptFails, TakeAck, SyncOn, SyncOver,
           ClientDisconnected, Crash, unbounded
  <1> QED
    BY <1>1, <1>2

\* The end of a connection accounts for it with the peer of its record.
LEMMA EndAccounts ==
  ASSUME IInv, BooksInv, Room, NEW y \in Node, InboundDisconnected(y),
         NEW r \in records[y], r.b.node = y, Current(y, r)
  PROVE  Lifetime(ledger'[y], r.a.node) =
            SatAdd(Lifetime(ledger[y], r.a.node), 1)
  <1>0. /\ TypeOK /\ ledger \in [Node -> Ledger] /\ Responders /\ Responses
        /\ OneRecordPerLink
    BY TypeParts DEF IInv, BooksInv, Parts, BooksTypes
  <1>1. /\ inb[y].done /\ inb[y].known = wire[y].from
        /\ wire[y].from # NoNode /\ wire[y].link = r.a.nonce
    BY <1>0 DEF Responses, Current
  <1>2. r.a.node = wire[y].from
    <2>1. PICK s \in records[y] : s.a.nonce = wire[y].link
                                  /\ s.a.node = wire[y].from
      BY <1>0, <1>1 DEF Responders
    <2>2. s = r
      BY <1>0, <1>1, <2>1 DEF OneRecordPerLink
    <2> QED
      BY <2>1, <2>2
  <1> DEFINE p == r.a.node
  <1>3. p = inb[y].known /\ p # NoNode
    BY <1>1, <1>2
  <1>4. ledger'[y] = Applied(ledger[y], p, 1, 0)
    <2>1. inb[y].known \in SomeNode /\ AccountFor(y, inb[y].known)
      BY <1>0 DEF InboundDisconnected, TypeOK
    <2>2. ledger' = [ledger EXCEPT ![y] = Applied(@, inb[y].known, 1, 0)]
      BY <1>0, <1>3, <2>1, AccountForTypes
    <2> QED
      BY <1>0, <1>3, <2>2
  <1>5. p \in Node \ {y} /\ 1 \in Nat /\ 0 \in Nat
    <2>1. inb[y].known \in SomeNode
      BY <1>0 DEF TypeOK
    <2> QED
      BY <1>3, <2>1 DEF SomeNode, BooksInv, LedgerPeers
  <1> HIDE DEF p
  <1>6. /\ ledger[y] \in Ledger /\ OneEntryEach(ledger[y])
        /\ Knows(ledger[y], p) \/ Len(ledger[y]) < LedgerCap
    BY <1>5, HasSlot
  <1>7. Lifetime(Applied(ledger[y], p, 1, 0), p) =
           SatAdd(Lifetime(ledger[y], p), 1)
    BY <1>5, <1>6, AppliedLifetime
  <1> QED
    BY <1>4, <1>7 DEF p

\* The records of a responder stay below their peers' totals.
LEMMA RecordTotals ==
  ASSUME IInv, BooksInv, Room, Next, NEW y \in Node \ setback',
         NEW r \in records'[y], r.b.node = y
  PROVE  /\ r.b.life <= Lifetime(ledger'[y], r.a.node)
         /\ \/ Current(y, r)'
            \/ Outgrown(r.b.life, Lifetime(ledger'[y], r.a.node), crashes')
  <1> DEFINE old == Lifetime(ledger[y], r.a.node)
             new == Lifetime(ledger'[y], r.a.node)
  <1>1. old \in 0 .. MaxTotal /\ new \in 0 .. MaxTotal /\ old <= new
    BY LifetimeStep
  <1>2. crashes \in Nat /\ crashes' \in Nat /\ crashes <= crashes'
    BY CrashesStep
  <1>3. Totals /\ Responses /\ y \in Node \ setback
    BY SetbackStep DEF BooksInv
  <1>4. CASE TakeConfirm(y) /\ r = inb[y].rec
    <2>1. /\ inb[y].state = "AWAIT_CONFIRM" /\ r.a.nonce = wire[y].link
          /\ wire[y].from \in Node /\ SameEnd(y) /\ r \in Record
      BY <1>4, ConfirmMeets, ConfirmEnd
    <2>2. r.b.life <= old /\ r.b.life \in 0 .. MaxTotal
      BY <1>3, <1>4, <2>1 DEF Totals, Record, Half
    <2>3. Current(y, r)'
      BY <2>1, EncounterAssumption DEF Current, SameEnd
    <2> HIDE DEF old, new
    <2>4. r.b.life <= new
      BY <1>1, <2>2
    <2> QED
      BY <2>3, <2>4 DEF new
  <1>5. CASE r \in records[y]
    <2>1. r \in Record /\ r.b.life \in 0 .. MaxTotal
      BY <1>5, OldRecords DEF Record, Half
    <2>2. /\ r.b.life <= old
          /\ Current(y, r) \/ Outgrown(r.b.life, old, crashes)
          /\ Current(y, r) => inb[y].done
      BY <1>3, <1>5 DEF Totals, Responses
    <2> HIDE DEF old, new
    <2>3. r.b.life <= new
      BY <1>1, <2>1, <2>2
    <2>4. CASE ~Current(y, r)
      BY <1>1, <1>2, <2>1, <2>2, <2>3, <2>4, OutgrownOn DEF new
    <2>5. CASE Current(y, r) /\ SameEnd(y)
      BY <2>3, <2>5 DEF Current, SameEnd, new
    <2>6. CASE Current(y, r) /\ Leaves(y)
      <3>1. CASE crashes' > 0
        <4>1. Outgrown(r.b.life, new, crashes')
          BY <1>1, <2>1, <2>3, <3>1 DEF Outgrown
        <4> QED
          BY <2>3, <4>1 DEF new
      <3>2. CASE InboundDisconnected(y)
        <4>1. new = SatAdd(old, 1)
          BY <1>5, <2>6, <3>2, EndAccounts DEF old, new
        <4>2. old < new \/ (old = MaxTotal /\ new = MaxTotal)
          BY <1>1, <4>1, SatAddGrows
        <4>3. Outgrown(r.b.life, new, crashes')
          BY <1>1, <2>1, <2>2, <4>2, LedgerAssumption DEF Outgrown
        <4> QED
          BY <2>3, <4>3 DEF new
      <3> QED
        BY <2>6, <3>1, <3>2 DEF Leaves
    <2>7. Current(y, r) => SameEnd(y) \/ Leaves(y)
      BY <2>2, EndStep DEF StaysPut, StartsOver, Connects, Current
    <2> QED
      BY <2>4, <2>5, <2>6, <2>7
  <1> QED
    BY <1>4, <1>5, ResponderRecords

\* What a responder has signed stays below its ledger, too.
LEMMA PendingTotals ==
  ASSUME IInv, BooksInv, Room, Next, NEW y \in Node \ setback',
         inb'[y].state = "AWAIT_CONFIRM"
  PROVE  /\ inb'[y].rec.b.life <= Lifetime(ledger'[y], inb'[y].rec.a.node)
         /\ \A r \in records'[y] :
               r.b.node = y /\ r.a.node = inb'[y].rec.a.node =>
               Outgrown(r.b.life, inb'[y].rec.b.life, crashes')
  <1>0. /\ TypeOK /\ inb \in [Node -> InbRec] /\ Totals /\ Responses
        /\ Responders /\ inb[y] \in InbRec /\ InbIdle.state = "INIT"
        /\ y \in Node \ setback
    BY TypeParts, SetbackStep DEF IInv, BooksInv, Parts, InbIdle
  <1>1. crashes \in Nat /\ crashes' \in Nat /\ crashes <= crashes'
    BY CrashesStep
  <1>2. ~TakeConfirm(y)
    <2>1. SUFFICES ASSUME TakeConfirm(y)
                   PROVE  FALSE
      OBVIOUS
    <2>2. inb'[y] = [inb[y] EXCEPT !.state = "DONE", !.done = TRUE,
                                   !.known = wire[y].from]
      BY <2>1, ConfirmMeets
    <2>3. inb'[y].state = "DONE"
      BY <1>0, <2>2 DEF InbRec
    <2> QED
      BY <2>3
  <1>3. \A r \in records'[y] : r.b.node = y => r \in records[y]
    BY <1>2, ResponderRecords
  <1>4. \A r \in records[y] : r \in Record /\ r.b.life \in 0 .. MaxTotal
    BY OldRecords DEF Record, Half
  <1>5. CASE StaysPut(y)
    <2> DEFINE c == inb[y].rec
    <2>1. inb'[y] = inb[y] /\ inb[y].state = "AWAIT_CONFIRM"
      BY <1>5 DEF StaysPut
    <2>2. /\ c.b.life <= Lifetime(ledger[y], c.a.node)
          /\ \A r \in records[y] : r.b.node = y /\ r.a.node = c.a.node =>
                Outgrown(r.b.life, c.b.life, crashes)
      BY <1>0, <2>1 DEF Totals
    <2>3. c \in Record
      BY <1>0, <2>1 DEF Responders
    <2>4. c.b.life \in 0 .. MaxTotal
      BY <2>3 DEF Record, Half
    <2>5. /\ Lifetime(ledger[y], c.a.node) \in 0 .. MaxTotal
          /\ Lifetime(ledger'[y], c.a.node) \in 0 .. MaxTotal
          /\ Lifetime(ledger[y], c.a.node) <= Lifetime(ledger'[y], c.a.node)
      BY LifetimeStep
    <2> HIDE DEF c
    <2>6. c.b.life <= Lifetime(ledger'[y], c.a.node)
      BY <2>2, <2>4, <2>5
    <2>7. c.b.life <= c.b.life
      BY <2>4
    <2>8. \A r \in records[y] : r.b.node = y /\ r.a.node = c.a.node =>
             Outgrown(r.b.life, c.b.life, crashes')
      BY <1>1, <1>4, <2>2, <2>4, <2>7, OutgrownOn
    <2> QED
      BY <1>3, <2>1, <2>6, <2>8 DEF c
  <1>6. CASE TakePropose(y)
    <2> DEFINE c == inb'[y].rec
    <2>1. /\ inb[y].done = FALSE
          /\ c.b.life = Lifetime(ledger[y], c.a.node)
          /\ ledger'[y] = ledger[y]
      BY <1>6, ProposeOpens DEF Kept
    <2>2. Lifetime(ledger[y], c.a.node) \in 0 .. MaxTotal
      BY LifetimeStep
    <2> HIDE DEF c
    <2>3. c.b.life <= Lifetime(ledger'[y], c.a.node)
      BY <2>1, <2>2
    <2>4. ASSUME NEW r \in records[y], r.b.node = y, r.a.node = c.a.node
          PROVE  Outgrown(r.b.life, c.b.life, crashes')
      <3>1. ~Current(y, r)
        BY <1>0, <2>1, <2>4 DEF Responses
      <3>2. Outgrown(r.b.life, c.b.life, crashes)
        BY <1>0, <2>1, <2>4, <3>1 DEF Totals
      <3>3. c.b.life <= c.b.life /\ c.b.life \in 0 .. MaxTotal
        BY <2>1, <2>2
      <3> QED
        BY <1>1, <1>4, <2>4, <3>2, <3>3, OutgrownOn
    <2> QED
      BY <1>3, <2>3, <2>4 DEF c
  <1>7. CASE Connects(y)
    <2>1. inb'[y].state = "INIT"
      BY <1>0, <1>7 DEF Connects, Armed, InbRec
    <2> QED
      BY <2>1
  <1> QED
    BY <1>0, <1>2, <1>5, <1>6, <1>7, EndStep DEF StartsOver, Leaves

\* Lifetimes go on growing from encounter to encounter.
LEMMA LifetimesStep ==
  ASSUME IInv, BooksInv, Next
  PROVE  LifetimesGrow'
  <1> SUFFICES ASSUME Room, NEW n \in Node \ setback',
                      NEW r \in records'[n], NEW s \in records'[n],
                      r.b.node = n, s.b.node = n, r.a.node = s.a.node,
                      r.b.nonce < s.b.nonce
               PROVE  Outgrown(r.b.life, s.b.life, crashes')
    BY DEF LifetimesGrow, Room, Outgrown
  <1>1. crashes \in Nat /\ crashes' \in Nat /\ crashes <= crashes'
    BY CrashesStep
  <1>2. /\ LifetimesGrow /\ Totals /\ Responses /\ LinkIds /\ TypeOK
        /\ wire[n].link \in Nat /\ n \in Node \ setback
    BY EncounterAssumption, SetbackStep DEF IInv, BooksInv, TypeOK
  <1>3. ASSUME Outgrown(r.b.life, s.b.life, crashes), r \in Record, s \in Record
        PROVE  Outgrown(r.b.life, s.b.life, crashes')
    <2>1. r.b.life \in 0 .. MaxTotal /\ s.b.life \in 0 .. MaxTotal
      BY <1>3 DEF Record, Half
    <2>2. s.b.life <= s.b.life
      BY <2>1
    <2> QED
      BY <1>1, <1>3, <2>1, <2>2, OutgrownOn
  <1>4. CASE r \in records[n] /\ s \in records[n]
    <2>1. Outgrown(r.b.life, s.b.life, crashes)
      BY <1>2, <1>4 DEF LifetimesGrow, Room, Outgrown
    <2> QED
      BY <1>3, <1>4, <2>1, OldRecords
  <1>5. ASSUME TakeConfirm(n)
        PROVE  /\ inb[n].state = "AWAIT_CONFIRM" /\ inb[n].rec \in Record
               /\ wire[n].from # NoNode
               /\ inb[n].rec.b.nonce = wire[n].link
    <2>1. /\ inb[n].state = "AWAIT_CONFIRM" /\ inb[n].rec \in Record
          /\ wire[n].from \in Node
      BY <1>5, ConfirmMeets
    <2> QED
      BY <1>2, <2>1, EncounterAssumption DEF Responses
  <1>6. CASE r \in records[n] /\ TakeConfirm(n) /\ s = inb[n].rec
    <2>1. Outgrown(r.b.life, s.b.life, crashes)
      BY <1>2, <1>5, <1>6 DEF Totals
    <2> QED
      BY <1>3, <1>5, <1>6, <2>1, OldRecords
  <1>7. CASE TakeConfirm(n) /\ r = inb[n].rec /\ s \in records[n]
    <2>1. s.b.nonce <= wire[n].link /\ s.b.nonce \in Nat
      BY <1>2, <1>5, <1>7, OldRecords DEF Responses
    <2> QED
      BY <1>2, <1>5, <1>7, <2>1
  <1>8. CASE r = s
    <2>1. s.b.nonce \in Nat
      <3>1. TypeOK'
        BY TypeStep DEF IInv
      <3> QED
        BY <3>1, HalfFacts DEF TypeOK
    <2> QED
      BY <1>8, <2>1
  <1> QED
    BY <1>4, <1>6, <1>7, <1>8, ResponderRecords

------------------------------------------------------------------------------
\* Nodes that have just been set up have met nobody.
LEMMA InitBooks == Init => BooksInv
  <1> SUFFICES ASSUME Init
               PROVE  BooksInv
    OBVIOUS
  <1>1. /\ \A n \in Node : records[n] = {} /\ count[n] = 0
        /\ \A n \in Node : ledger[n] = <<>>
        /\ \A n \in Node : flash[n].count = 0 /\ flash[n].ledger = <<>>
        /\ \A n \in Node : out[n] = OutIdle /\ inb[n] = InbIdle
        /\ \A n \in Node : wire[n] = WireIdle
    BY DEF Init
  <1>2. Counted
    <2>1. ASSUME NEW n \in Node
          PROVE  /\ IsFiniteSet(records[n]) /\ Cardinality(records[n]) = 0
                 /\ count[n] <= Cardinality(records[n])
                 /\ flash[n].count <= Cardinality(records[n])
                 /\ count[n] = Cardinality(records[n])
      <3>1. /\ records[n] = {} /\ IsFiniteSet({}) /\ Cardinality({}) = 0
            /\ 0 <= 0
        BY <1>1, FS_EmptySet
      <3>2. count[n] = 0 /\ flash[n].count = 0
        BY <1>1
      <3> QED
        BY <3>1, <3>2
    <2> QED
      BY <2>1 DEF Counted
  <1>3. Responses
    BY <1>1 DEF Responses, InbIdle, WireIdle, Silence, Plain
  <1>4. DOMAIN (<<>>) = {}
    OBVIOUS
  <1>5. \A n \in Node : DOMAIN ledger[n] = {} /\ DOMAIN flash[n].ledger = {}
    BY <1>1, <1>4
  <1>6. LedgerPeers
    <2>1. \A n \in Node : out[n].known = NoNode /\ inb[n].known = NoNode
      <3>1. OutIdle.known = NoNode /\ InbIdle.known = NoNode
        BY DEF OutIdle, InbIdle
      <3> QED
        BY <1>1, <3>1
    <2>2. \A n \in Node :
             /\ OneEntryEach(ledger[n]) /\ ~Knows(ledger[n], n)
             /\ OneEntryEach(flash[n].ledger) /\ ~Knows(flash[n].ledger, n)
      BY <1>5 DEF OneEntryEach, Knows
    <2> QED
      BY <2>1, <2>2 DEF LedgerPeers
  <1>7. Totals
    BY <1>1 DEF Totals, InbIdle
  <1>8. LedgerFollowsRecords
    <2>1. ASSUME NEW n \in Node
          PROVE  Follows(n)
      <3>1. \A p : Met(records[n], p) = {}
        BY <1>1, MetHas
      <3>2. \A p : ~Knows(ledger[n], p)
        BY <1>5 DEF Knows
      <3> QED
        BY <1>1, <1>2, <1>5, <3>1, <3>2 DEF Follows, Counted, Sound, Complete
    <2> QED
      BY <2>1, FollowsEach
  <1>9. LifetimesGrow
    BY <1>1 DEF LifetimesGrow
  <1>10. FlashSound
    BY <1>5 DEF FlashSound, Sound
  <1> QED
    BY <1>2, <1>3, <1>6, <1>7, <1>8, <1>9, <1>10 DEF BooksInv

\* Every step keeps the books in order.
LEMMA NextBooks == IInv /\ BooksInv /\ [Next]_vars => BooksInv'
  <1>1. IInv /\ BooksInv /\ Next => BooksInv'
    BY CountedStep, ResponsesStep, LedgerPeersStep, RecordTotals,
       PendingTotals, FollowsStep, LifetimesStep DEF BooksInv, Totals
  <1>2. BooksInv /\ UNCHANGED vars => BooksInv'
    <2> SUFFICES ASSUME BooksInv, UNCHANGED vars
                 PROVE  BooksInv'
      OBVIOUS
    <2>1. Counted' /\ Responses'
      BY DEF BooksInv, Counted, Responses, Current, vars
    <2>2. Room => LedgerPeers' /\ Totals' /\ FlashSound'
      BY DEF BooksInv, LedgerPeers, Totals, Current, FlashSound, vars
    <2>3. LedgerFollowsRecords' /\ LifetimesGrow'
      <3>1. ledger' = ledger /\ records' = records /\ count' = count
            /\ crashes' = crashes /\ setback' = setback
        BY DEF vars
      <3>2. (\A n \in Node : Follows(n)) => (\A n \in Node : Follows(n)')
        BY <3>1 DEF Follows
      <3>3. LedgerFollowsRecords'
        BY <3>2, FollowsEach DEF BooksInv
      <3>4. LifetimesGrow'
        BY <3>1 DEF BooksInv, LifetimesGrow
      <3> QED
        BY <3>3, <3>4
    <2> QED
      BY <2>1, <2>2, <2>3 DEF BooksInv
  <1> QED
    BY <1>1, <1>2

\* The invariant of the books: counts, ledgers and lifetimes of every node
THEOREM BooksInvariant == Spec => []BooksInv
  BY InitBooks, NextBooks, EncounterInvariant, PTL DEF Spec

\* Whether records can be stored or not, a ledger never says more than the
\* encounters its node has completed, and as long as no power loss comes before
\* the books are on flash it says all of it: one count per encounter, an entry
\* for every peer met, with its highest count (on_encounter_done,
\* peer_ledger_apply), for ledgers with room.
THEOREM LedgersFollow == Spec => []LedgerFollowsRecords
  <1>1. BooksInv => LedgerFollowsRecords
    BY DEF BooksInv
  <1> QED
    BY <1>1, BooksInvariant, PTL

\* The lifetime a responder signs for a peer has grown since the last one it
\* has signed, until it saturates; only a power loss leaves it where it was,
\* and only one that comes before the ledger is on flash sets it back
\* (handle_responder_propose, on_inbound_disconnected), for ledgers with room.
THEOREM LifetimesGrowOn == Spec => []LifetimesGrow
  <1>1. BooksInv => LifetimesGrow
    BY DEF BooksInv
  <1> QED
    BY <1>1, BooksInvariant, PTL
==============================================================================
