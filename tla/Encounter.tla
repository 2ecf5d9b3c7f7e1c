------------------------------ MODULE Encounter ------------------------------
(***************************************************************************)
(* The signed encounter between two nodes (core/encounter_session.c) as    *)
(* main.c drives it on both ends of a connection, with what a completed    *)
(* one changes: the record, the meeting count and the peer ledger.         *)
(*                                                                         *)
(*   Central (initiator, A)            Peripheral (responder, B)           *)
(*   PROPOSE {half of A}          -->                                      *)
(*                                <--  ACCEPT {half of B, signature of B}  *)
(*   CONFIRM {signature of A}     -->                                      *)
(*                                <--  OK                                  *)
(*   file commands of peer_sync  <-->  answers                             *)
(*                                                                         *)
(* A node can be Central on one connection and Peripheral on another at    *)
(* the same time.  Connections drop at any moment, each end notices by     *)
(* itself, answers get lost, messages arrive garbled, writes to flash      *)
(* fail, nodes lose power.                                                 *)
(***************************************************************************)
EXTENDS PeerLedger, FiniteSets

CONSTANTS
    NoNode,     \* no peer
    MaxLinks,   \* bound: connections in a behaviour
    MaxFaults   \* bound: dropped links, lost answers, garbled messages,
                \*        failed writes, power losses

ASSUME EncounterAssumption ==
    /\ IsFiniteSet(Node)    \* keys have 32 bytes
    /\ NoNode \notin Node
    /\ MaxLinks \in Nat
    /\ MaxFaults \in Nat

VARIABLES
    count,    \* meeting_count_get()
    ledger,   \* peer_ledger, in RAM
    flash,    \* record files, meeting_count.bin, peer_ledger.bin
    records,  \* history: the encounters a node has completed, that is,
              \* has called on_encounter_done for
    out,      \* the Central side of main.c: g_out_phase, g_init_session, ...
    inb,      \* the Peripheral side: g_resp_session, g_resp_done, ...
    wire,     \* the inbound connection of a node and what travels on it
    signed,   \* history: the meeting count in the node's latest signature
    served,   \* history: connections on which a file command was answered
    crashes,  \* history: power losses
    setback,  \* history: nodes that came up with older books than they had
    links,    \* bound on connections
    faults    \* bound on faults

vars == <<count, ledger, flash, records, setback, out, inb, wire, signed,
          served, links, faults, crashes>>

------------------------------------------------------------------------------
(***************************************************************************)
(* What one side contributes to a record.  nonce stands for the random     *)
(* bytes of build_local_input: the number of the connection.               *)
(***************************************************************************)
Half == [node : Node, count : Nat, nonce : Nat, life : 0 .. MaxTotal]

NoHalf == [node |-> NoNode, count |-> 0, nonce |-> 0, life |-> 0]

\* MUTANT: no fresh nonce
LocalInputNoNonce(n, nonce) ==
    [node |-> n, count |-> count[n], nonce |-> 1, life |-> 0]

\* build_local_input(NULL): lifetimes at zero, bound late by the responder
LocalInput(n, nonce) ==
    [node |-> n, count |-> count[n], nonce |-> nonce, life |-> 0]

\* The body both sides sign, and a signature on it.
Record == [a : Half, b : Half]

NoRecord == [a |-> NoHalf, b |-> NoHalf]

Signature(n, r) == [by |-> n, body |-> r]

Propose(h) == [type |-> "PROPOSE", half |-> h]
Accept(h, s) == [type |-> "ACCEPT", half |-> h, sig |-> s]
Confirm(s) == [type |-> "CONFIRM", sig |-> s]
Plain(type) == [type |-> type]

Silence == Plain("NONE")

OutIdle == [phase |-> "IDLE", peer |-> NoNode, link |-> 0, me |-> NoHalf,
            known |-> NoNode]

InbIdle == [armed |-> FALSE, done |-> FALSE, state |-> "INIT",
            me |-> NoHalf, rec |-> NoRecord, known |-> NoNode]

WireIdle == [from |-> NoNode, link |-> 0, up |-> FALSE,
             req |-> Silence, ans |-> Silence]

\* arm_responder_session: a fresh session; g_resp_done and
\* g_inbound_peer_pub_known are not its business
Armed(n, link) ==
    [inb[n] EXCEPT !.armed = TRUE, !.state = "INIT", !.rec = NoRecord,
                   !.me = LocalInput(n, link)]

\* The connection of Central i is up, as far as i's radio knows.
Linked(i) ==
    /\ out[i].peer # NoNode
    /\ wire[out[i].peer].link = out[i].link
    /\ wire[out[i].peer].up

\* The wire of node j after its connection broke.
Broken(j) == [wire EXCEPT ![j] = [@ EXCEPT !.up = FALSE, !.req = Silence,
                                           !.ans = Silence]]

Fault == faults < MaxFaults /\ faults' = faults + 1

\* The writes of a handler at n: nobody looks at their results.  If one fails
\* the file is as it was, or as it should be, or emptied by FA_CREATE_ALWAYS
\* and read as nothing at the next start.
Write(n, written, failed) ==
    \/ flash' = [flash EXCEPT ![n] = written] /\ UNCHANGED faults
    \/ Fault /\ \E f \in failed : flash' = [flash EXCEPT ![n] = f]

\* on_encounter_done at n.  The three writes fail independently of one
\* another; a power loss between two of them is a failure and then Crash.
EncounterDone(n, r, peer) ==
    LET files == flash[n].files
        met == Applied(ledger[n], peer, 0,
                       IF peer = r.a.node THEN r.a.count ELSE r.b.count)
    IN  /\ records' = [records EXCEPT ![n] = @ \cup {r}]
        /\ count' = [count EXCEPT ![n] = @ + 1]
        /\ ledger' = [ledger EXCEPT ![n] = met]
        /\ Write(n,
              [files |-> files \cup {r}, count |-> count[n] + 1,
               ledger |-> met],
              [files : {files, files \cup {r}},
               count : {flash[n].count, count[n] + 1, 0},
               ledger : {flash[n].ledger, met, <<>>}])

\* What either disconnect callback adds to the ledger of n: the bytes of the
\* connection, here one unit, if the peer is known.
AccountFor(n, peer) ==
    \/ peer = NoNode /\ UNCHANGED <<ledger, flash, faults>>
    \/ /\ peer # NoNode
       /\ LET new == Applied(ledger[n], peer, 1, 0)
              stored(l) == [flash[n] EXCEPT !.ledger = l]
          IN  /\ ledger' = [ledger EXCEPT ![n] = new]
              /\ Write(n, stored(new),
                       {stored(l) : l \in {flash[n].ledger, <<>>}})

unbounded == <<links, faults, crashes>>
books == <<count, ledger, flash, records, setback>>

------------------------------------------------------------------------------
Init ==
    /\ count = [n \in Node |-> 0]
    /\ ledger = [n \in Node |-> <<>>]
    /\ flash = [n \in Node |-> [files |-> {}, count |-> 0, ledger |-> <<>>]]
    /\ records = [n \in Node |-> {}]
    /\ setback = {}
    /\ out = [n \in Node |-> OutIdle]
    /\ inb = [n \in Node |-> InbIdle]
    /\ wire = [n \in Node |-> WireIdle]
    /\ signed = [n \in Node |-> 0]
    /\ served = {}
    /\ links = 0
    /\ faults = 0
    /\ crashes = 0

\* Central i gets a connection to j (one inbound connection per node);
\* on_inbound_connected at j arms its responder session at once.
LinkUp(i, j) ==
    /\ i # j
    /\ links < MaxLinks
    /\ links' = links + 1
    /\ out[i].phase = "IDLE"
    /\ wire[j].from = NoNode
    /\ out' = [out EXCEPT ![i] = [OutIdle EXCEPT !.phase = "OPENING",
                                     !.peer = j, !.link = links + 1]]
    /\ wire' = [wire EXCEPT ![j] = [WireIdle EXCEPT !.from = i, !.up = TRUE,
                                                    !.link = links + 1]]
    /\ inb' = [inb EXCEPT ![j] = Armed(j, links + 1)]
    /\ UNCHANGED <<books, signed, served, faults, crashes>>

\* on_client_connected, after the GATT discovery: sends PROPOSE
ClientConnected(i) ==
    /\ Linked(i)
    /\ out[i].phase = "OPENING"
    /\ LET me == LocalInput(i, out[i].link) IN
       /\ out' = [out EXCEPT ![i].phase = "HANDSHAKE", ![i].me = me]
       /\ wire' = [wire EXCEPT ![out[i].peer].req = Propose(me)]
    /\ UNCHANGED <<books, inb, signed, served, unbounded>>

(***************************************************************************)
(* on_peer_command at the Peripheral j.                                    *)
(***************************************************************************)
\* The responder session the handler works on: armed now if it was not.
Session(j) == IF inb[j].armed THEN inb[j] ELSE Armed(j, wire[j].link)

Answer(j, m) ==
    wire' = [wire EXCEPT ![j].req = Silence, ![j].ans = m]

\* encounter_session_handle accepts this PROPOSE / this CONFIRM
Proposed(j) ==
    /\ Session(j).state = "INIT"
    /\ wire[j].req.type = "PROPOSE"

Confirmed(j) ==
    /\ Session(j).state = "AWAIT_CONFIRM"
    /\ wire[j].req.type = "CONFIRM"
    /\ wire[j].req.sig =
          Signature(Session(j).rec.a.node, Session(j).rec)

\* MUTANT: lifetimes as they were when the session was armed
TakeProposeEarly(j) ==
    /\ wire[j].req # Silence
    /\ ~Session(j).done
    /\ Proposed(j)
    /\ LET r == [a |-> wire[j].req.half, b |-> Session(j).me] IN
       /\ inb' = [inb EXCEPT ![j] = [Session(j) EXCEPT
                     !.state = "AWAIT_CONFIRM", !.rec = r]]
       /\ Answer(j, Accept(r.b, Signature(j, r)))
       /\ signed' = [signed EXCEPT ![j] = r.b.count]
    /\ UNCHANGED <<books, out, served, unbounded>>

\* handle_responder_propose: lifetimes bound late, the body signed
TakePropose(j) ==
    /\ wire[j].req # Silence
    /\ ~Session(j).done
    /\ Proposed(j)
    /\ LET a == wire[j].req.half
           b == [Session(j).me EXCEPT !.life = Lifetime(ledger[j], a.node)]
           r == [a |-> a, b |-> b]
       IN  /\ inb' = [inb EXCEPT ![j] = [Session(j) EXCEPT
                         !.state = "AWAIT_CONFIRM", !.me = b, !.rec = r]]
           /\ Answer(j, Accept(b, Signature(j, r)))
           /\ signed' = [signed EXCEPT ![j] = b.count]
    /\ UNCHANGED <<books, out, served, unbounded>>

\* handle_responder_confirm, then on_encounter_done: file commands follow
TakeConfirm(j) ==
    /\ wire[j].req # Silence
    /\ ~Session(j).done
    /\ Confirmed(j)
    /\ LET r == Session(j).rec IN
       /\ EncounterDone(j, r, r.a.node)
       /\ inb' = [inb EXCEPT ![j] = [Session(j) EXCEPT
                     !.state = "DONE", !.done = TRUE, !.known = r.a.node]]
    /\ Answer(j, Plain("OK"))
    /\ UNCHANGED <<setback, out, signed, served, links, crashes>>

\* commands_handle_session, once the handshake is done
ServeCommand(j) ==
    /\ wire[j].req # Silence
    /\ Session(j).done
    /\ Answer(j, Plain(IF wire[j].req.type = "COMMAND" THEN "DATA"
                                                       ELSE "ERROR"))
    /\ served' = IF wire[j].req.type = "COMMAND"
                 THEN served \cup {wire[j].link} ELSE served
    /\ UNCHANGED <<books, out, inb, signed, unbounded>>

\* MUTANT: g_resp_done set whatever the step returned
RefusedOpen(j) == [Session(j) EXCEPT !.done = TRUE]

\* reset_responder_session
Refused(j) == InbIdle

\* Anything else is an error: the session starts over.
RefuseCommand(j) ==
    /\ wire[j].req # Silence
    /\ ~Session(j).done
    /\ ~Proposed(j)
    /\ ~Confirmed(j)
    /\ inb' = [inb EXCEPT ![j] = Refused(j)]
    /\ Answer(j, Plain("ERROR"))
    /\ UNCHANGED <<books, out, signed, served, unbounded>>

(***************************************************************************)
(* on_client_response at the Central i.                                    *)
(***************************************************************************)
Answered(i, phase) ==
    /\ Linked(i)
    /\ out[i].phase = phase
    /\ wire[out[i].peer].ans # Silence

\* The signature of B in an ACCEPT is on the body as A knows it.
Accepted(i) ==
    LET ans == wire[out[i].peer].ans IN
    /\ ans.type = "ACCEPT"
    /\ ans.sig = Signature(ans.half.node, [a |-> out[i].me, b |-> ans.half])

\* send_outbound, after an answer
Send(i, m) ==
    wire' = [wire EXCEPT ![out[i].peer].req = m, ![out[i].peer].ans = Silence]

\* ble_client_disconnect
HangUp(i) ==
    /\ out' = [out EXCEPT ![i].phase = "CLOSING"]
    /\ wire' = Broken(out[i].peer)

\* MUTANT: the encounter is left for the answer to CONFIRM to complete
TakeAcceptUnsaved(i) ==
    /\ Answered(i, "HANDSHAKE")
    /\ Accepted(i)
    /\ LET b == wire[out[i].peer].ans.half
           r == [a |-> out[i].me, b |-> b]
       IN  /\ signed' = [signed EXCEPT ![i] = r.a.count]
           /\ Send(i, Confirm(Signature(i, r)))
           /\ out' = [out EXCEPT ![i].phase = "CONFIRMED", ![i].known = b.node]
    /\ UNCHANGED <<books, inb, served, unbounded>>

\* handle_initiator_accept: on_encounter_done comes before CONFIRM goes out
TakeAccept(i) ==
    /\ Answered(i, "HANDSHAKE")
    /\ Accepted(i)
    /\ LET b == wire[out[i].peer].ans.half
           r == [a |-> out[i].me, b |-> b]
       IN  /\ EncounterDone(i, r, b.node)
           /\ signed' = [signed EXCEPT ![i] = r.a.count]
           /\ Send(i, Confirm(Signature(i, r)))
           /\ out' = [out EXCEPT ![i].phase = "CONFIRMED", ![i].known = b.node]
    /\ UNCHANGED <<setback, inb, served, links, crashes>>

AcceptFails(i) ==
    /\ Answered(i, "HANDSHAKE")
    /\ ~Accepted(i)
    /\ HangUp(i)
    /\ UNCHANGED <<books, inb, signed, served, unbounded>>

\* The answer to CONFIRM is not inspected: peer_sync starts.
TakeAck(i) ==
    /\ Answered(i, "CONFIRMED")
    /\ out' = [out EXCEPT ![i].phase = "SYNCING"]
    /\ Send(i, Plain("COMMAND"))
    /\ UNCHANGED <<books, inb, signed, served, unbounded>>

\* peer_sync_handle_response: another command, or the end of the session
SyncOn(i) ==
    /\ Answered(i, "SYNCING")
    /\ Send(i, Plain("COMMAND"))
    /\ UNCHANGED <<books, out, inb, signed, served, unbounded>>

SyncOver(i) ==
    /\ Answered(i, "SYNCING")
    /\ HangUp(i)
    /\ UNCHANGED <<books, inb, signed, served, unbounded>>

(***************************************************************************)
(* Each end notices by itself that its connection is gone.                 *)
(***************************************************************************)
\* on_client_disconnected
ClientDisconnected(i) ==
    /\ out[i].phase # "IDLE"
    /\ ~Linked(i)
    /\ AccountFor(i, out[i].known)
    /\ out' = [out EXCEPT ![i] = OutIdle]
    /\ UNCHANGED <<count, records, setback, inb, wire, signed, served,
                   links, crashes>>

\* on_inbound_disconnected
InboundDisconnected(j) ==
    /\ wire[j].from # NoNode
    /\ ~wire[j].up
    /\ AccountFor(j, inb[j].known)
    /\ inb' = [inb EXCEPT ![j] = InbIdle]
    /\ wire' = [wire EXCEPT ![j] = WireIdle]
    /\ UNCHANGED <<count, records, setback, out, signed, served,
                   links, crashes>>

------------------------------------------------------------------------------
\* The link drops, with what is on it.
Drop(j) ==
    /\ Fault
    /\ wire[j].up
    /\ wire' = Broken(j)
    /\ UNCHANGED <<books, out, inb, signed, served, links, crashes>>

\* ble_send_file_response gives up on a notification.
LoseAnswer(j) ==
    /\ Fault
    /\ wire[j].ans # Silence
    /\ wire' = [wire EXCEPT ![j].ans = Silence]
    /\ UNCHANGED <<books, out, inb, signed, served, links, crashes>>

\* A message arrives cut short (ble_send_file_response truncates at the MTU)
\* or is not one of this protocol.
Garble(j) ==
    /\ Fault
    /\ \/ /\ wire[j].req # Silence
          /\ wire' = [wire EXCEPT ![j].req = Plain("GARBAGE")]
       \/ /\ wire[j].ans # Silence
          /\ wire' = [wire EXCEPT ![j].ans = Plain("GARBAGE")]
    /\ UNCHANGED <<books, out, inb, signed, served, links, crashes>>

\* Node n loses power and starts again: meeting_count_init and
\* peer_ledger_init read what is on flash.
Crash(n) ==
    /\ Fault
    /\ crashes' = crashes + 1
    /\ count' = [count EXCEPT ![n] = flash[n].count]
    /\ ledger' = [ledger EXCEPT ![n] = flash[n].ledger]
    /\ setback' = IF flash[n].count = count[n] /\ flash[n].ledger = ledger[n]
                  THEN setback ELSE setback \cup {n}
    /\ out' = [out EXCEPT ![n] = OutIdle]
    /\ inb' = [inb EXCEPT ![n] = InbIdle]
    /\ wire' = [IF Linked(n) THEN Broken(out[n].peer) ELSE wire
                EXCEPT ![n] = WireIdle]
    /\ UNCHANGED <<flash, records, signed, served, links>>

Next ==
    \/ \E i, j \in Node : LinkUp(i, j)
    \/ \E j \in Node :
          \/ TakePropose(j) \/ TakeConfirm(j)
          \/ ServeCommand(j) \/ RefuseCommand(j)
          \/ InboundDisconnected(j)
          \/ Drop(j) \/ LoseAnswer(j) \/ Garble(j)
    \/ \E i \in Node :
          \/ ClientConnected(i)
          \/ TakeAccept(i) \/ AcceptFails(i) \/ TakeAck(i)
          \/ SyncOn(i) \/ SyncOver(i)
          \/ ClientDisconnected(i)
          \/ Crash(i)

Spec == Init /\ [][Next]_vars

------------------------------------------------------------------------------
OutPhase == {"IDLE", "OPENING", "HANDSHAKE", "CONFIRMED", "SYNCING", "CLOSING"}

InbState == {"INIT", "AWAIT_CONFIRM", "DONE"}

SomeHalf == Half \cup {NoHalf}

SomeNode == Node \cup {NoNode}

Signed == [by : Node, body : Record]

Message ==
    [type : {"PROPOSE"}, half : Half]
    \cup [type : {"ACCEPT"}, half : Half, sig : Signed]
    \cup [type : {"CONFIRM"}, sig : Signed]
    \cup [type : {"NONE", "OK", "ERROR", "COMMAND", "DATA", "GARBAGE"}]

\* Every variable has its type.
TypeOK ==
    /\ count \in [Node -> Nat]
    /\ ledger \in [Node -> Ledger]
    /\ flash \in [Node -> [files : SUBSET Record, count : Nat,
                           ledger : Ledger]]
    /\ records \in [Node -> SUBSET Record]
    /\ setback \subseteq Node
    /\ out \in [Node -> [phase : OutPhase, peer : SomeNode,
                         link : 0 .. MaxLinks, me : SomeHalf,
                         known : SomeNode]]
    /\ inb \in [Node -> [armed : BOOLEAN, done : BOOLEAN, state : InbState,
                         me : SomeHalf, rec : [a : SomeHalf, b : SomeHalf],
                         known : SomeNode]]
    /\ wire \in [Node -> [from : SomeNode, link : 0 .. MaxLinks,
                          up : BOOLEAN, req : Message, ans : Message]]
    /\ signed \in [Node -> Nat]
    /\ served \subseteq 1 .. MaxLinks
    /\ links \in 0 .. MaxLinks
    /\ faults \in 0 .. MaxFaults
    /\ crashes \in 0 .. MaxFaults

\* Nobody completes an encounter, or stores its record, that the initiator
\* has not completed: on_client_response calls on_encounter_done before it
\* sends CONFIRM.  (Whether the initiator has a file of it is another matter:
\* nobody looks whether fs_write has failed.)
InitiatorCompletesFirst ==
    \A n \in Node : \A r \in records[n] \cup flash[n].files :
        r \in records[r.a.node]

\* What the two ends of a connection have completed is the same record, and a
\* node completes only records about itself.
OneRecordPerLink ==
    \A m, n \in Node : \A r \in records[m], s \in records[n] :
        /\ m \in {r.a.node, r.b.node}
        /\ r.a.nonce = s.a.nonce => r = s

\* The record is the price of admission: a file command is answered only on a
\* connection whose encounter both ends have completed
\* (encounter_session.h:24-26, on_peer_command).
ServedAfterRecord ==
    \A k \in served : \E i, j \in Node : \E r \in records[i] \cap records[j] :
        /\ i # j
        /\ {i, j} = {r.a.node, r.b.node}
        /\ r.a.nonce = k

\* What the ledger remembers is what the completed encounters say, whether
\* their records could be stored or not.  It never says more: every entry has
\* a meeting count its peer has signed, and the own count is at most the
\* number of encounters.  And it says no less, with an entry for every peer
\* met, its highest count and one count per encounter, for as long as no power
\* loss has come before the books were on flash.  (For ledgers with room.)
LedgerFollowsRecords ==
    Cardinality(Node) - 1 <= LedgerCap =>
        \A n \in Node :
            LET counts(p) ==
                  {r.a.count : r \in {s \in records[n] : s.a.node = p}}
                  \cup {r.b.count : r \in {s \in records[n] : s.b.node = p}}
            IN  /\ count[n] <= Cardinality(records[n])
                /\ \A i \in DOMAIN ledger[n] :
                      ledger[n][i].met \in counts(ledger[n][i].peer)
                /\ n \notin setback =>
                      /\ count[n] = Cardinality(records[n])
                      /\ \A p \in Node \ {n} :
                            counts(p) # {} => Knows(ledger[n], p)
                      /\ \A i \in DOMAIN ledger[n] :
                            \A c \in counts(ledger[n][i].peer) :
                                c <= ledger[n][i].met

\* The lifetime total a responder signs for a peer grows from one of their
\* encounters to the next, until it saturates: it is read when the peer is
\* known and what the connection before moved is accounted for by then.  Only
\* a power loss can leave it where it was, and only one that comes before the
\* ledger is on flash can set it back.  (For ledgers with room.)
LifetimesGrow ==
    Cardinality(Node) - 1 <= LedgerCap =>
        \A n \in Node \ setback : \A r, s \in records[n] :
            (/\ r.b.node = n /\ s.b.node = n /\ r.a.node = s.a.node
             /\ r.b.nonce < s.b.nonce)
            => \/ r.b.life < s.b.life
               \/ r.b.life = s.b.life /\ (r.b.life = MaxTotal \/ crashes > 0)

------------------------------------------------------------------------------
\* meeting_count.h:29-34: a node that signs a lower count than it has signed
\* before is a fraud; so no node running this code does.
CountsNeverGoBack ==
    [][\A n \in Node : signed'[n] >= signed[n]]_vars
==============================================================================
