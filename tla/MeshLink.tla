------------------------------ MODULE MeshLink ------------------------------
(***************************************************************************)
(* How one node alternates between advertising and scanning, connects and  *)
(* is connected to: the mesh schedule (core/mesh_state.c), the Central     *)
(* (ble_client.c), the Peripheral (ble.c), the peer table                  *)
(* (core/peer_table.c) and the callbacks of main.c between them.           *)
(*                                                                         *)
(* The radio's events wait in a queue until the run loop handles them:     *)
(* between an event and its handler the schedule can tick.  Time is        *)
(* abstracted: a dwell or a backoff can end at any moment.                 *)
(***************************************************************************)
EXTENDS Naturals, FiniteSets

CONSTANTS
    Peer,        \* peers, by what stands for their key (the BD address)
    NoPeer,
    TableCap,    \* PEER_TABLE_CAP
    MaxVersion   \* bound: manifest versions a peer advertises

ASSUME MeshLinkAssumption ==
    /\ NoPeer \notin Peer
    /\ TableCap \in Nat \ {0}
    /\ MaxVersion \in Nat

VARIABLES
    phase,     \* mesh_state.c: g.phase
    adv,       \* advertisements enabled
    client,    \* ble_client.c: g_client.state
    outbound,  \* the outbound connection, as the radio has it
    out,       \* main.c: g_out_phase
    target,    \* main.c: g_sync_peer_tpk and g_sync_peer_version
    inbound,   \* the inbound connection and its queued event
    table,     \* peer_table.c: g_table
    version,   \* what each peer advertises
    synced     \* history: peer and version of the syncs that came to DONE

vars == <<phase, adv, client, outbound, out, target, inbound, table, version,
          synced>>

central == <<client, outbound, out, target>>

------------------------------------------------------------------------------
Version == 0 .. MaxVersion

NoLink == [state |-> "NONE", peer |-> NoPeer, version |-> 0]

NoEntry == [used |-> FALSE, version |-> 0, result |-> "SUCCESS", due |-> TRUE]

Known == {p \in Peer : table[p].used}

\* The tables with a slot for p.  A full table loses the entry with the least
\* stamp; stamps are milliseconds that wrap, so that it can be any.
WithSlot(p) ==
    IF table[p].used \/ Cardinality(Known) < TableCap THEN {table}
    ELSE {[table EXCEPT ![q] = NoEntry] : q \in Known}

\* MUTANT: the step of peer_sync is stored for the result
RecordedStep(p, v, result) ==
    {[t EXCEPT ![p] = [used |-> TRUE, version |-> v, result |-> "DONE",
                       due |-> FALSE]] : t \in WithSlot(p)}

\* peer_table_record_sync
Recorded(p, v, result) ==
    {[t EXCEPT ![p] = [used |-> TRUE, version |-> v, result |-> result,
                       due |-> FALSE]] : t \in WithSlot(p)}

\* peer_table_decide; due: the backoff of the entry is over
Connects(p, v) ==
    \/ ~table[p].used
    \/ table[p].version # v
    \/ table[p].due

\* mesh_state_on_connected
Freeze == phase' = "CONNECTED"

\* MUTANT: a disconnect is not reported to the schedule
ThawNever == UNCHANGED phase

\* mesh_state_on_disconnected
Thaw == phase' = "ADVERTISING"

\* Others can find this node: the controller stops advertising while the one
\* inbound connection it accepts is up.
Reachable == adv /\ inbound = "NONE"

\* gap_disconnect, and what becomes of a link that breaks
Broken(l) == [l EXCEPT !.state = "DOWN"]

------------------------------------------------------------------------------
Init ==
    /\ phase = "GRACE"
    /\ adv = TRUE
    /\ client = "IDLE"
    /\ outbound = NoLink
    /\ out = "IDLE"
    /\ target = [peer |-> NoPeer, version |-> 0]
    /\ inbound = "NONE"
    /\ table = [p \in Peer |-> NoEntry]
    /\ version = [p \in Peer |-> 0]
    /\ synced = {}

(***************************************************************************)
(* mesh_state_tick and apply_mesh_action.                                  *)
(***************************************************************************)
Dwelling == phase \in {"GRACE", "ADVERTISING", "SCANNING"}

\* MUTANT: the radio is left to advertise on its own
FlipToAdvertisingScanOff ==
    /\ Dwelling
    /\ phase' = "ADVERTISING"
    /\ client' = IF client = "SCANNING" THEN "IDLE" ELSE client
    /\ UNCHANGED <<adv, outbound, out, target, inbound, table, version, synced>>

FlipToAdvertising ==
    /\ Dwelling
    /\ phase' = "ADVERTISING"
    /\ adv' = TRUE
    /\ client' = IF client = "SCANNING" THEN "IDLE" ELSE client
    /\ UNCHANGED <<outbound, out, target, inbound, table, version, synced>>

FlipToScanning ==
    /\ Dwelling
    /\ phase' = "SCANNING"
    /\ adv' = FALSE
    /\ client' = IF client = "IDLE" THEN "SCANNING" ELSE client
    /\ UNCHANGED <<outbound, out, target, inbound, table, version, synced>>

(***************************************************************************)
(* The Central.                                                            *)
(***************************************************************************)
\* ble_client_connect; gap_connect may refuse, the scan is over all the same
ClientConnect(p) ==
    IF client \notin {"SCANNING", "IDLE"} THEN UNCHANGED <<client, outbound>>
    ELSE \/ /\ client' = "CONNECTING"
            /\ outbound' = [state |-> "PENDING", peer |-> p,
                            version |-> version[p]]
         \/ /\ client' = "IDLE"
            /\ UNCHANGED outbound

\* MUTANT: advertising reports are looked at in every state
PeerSeenAlways(p) ==
    /\ Connects(p, version[p])
    /\ target' = [peer |-> p, version |-> version[p]]
    /\ ClientConnect(p)
    /\ UNCHANGED <<phase, adv, out, inbound, table, version, synced>>

\* An advertising report of p: parse_advertising_report and on_peer_seen
PeerSeen(p) ==
    /\ client = "SCANNING"
    /\ Connects(p, version[p])
    /\ target' = [peer |-> p, version |-> version[p]]
    /\ ClientConnect(p)
    /\ UNCHANGED <<phase, adv, out, inbound, table, version, synced>>

\* Connection complete: the GATT discovery starts.
ConnectSucceeds ==
    /\ client = "CONNECTING"
    /\ outbound.state = "PENDING"
    /\ outbound' = [outbound EXCEPT !.state = "UP"]
    /\ client' = "DISCOVERING"
    /\ UNCHANGED <<phase, adv, out, target, inbound, table, version, synced>>

\* on_client_disconnected, after either event
OnClientDisconnected ==
    /\ client' = "IDLE"
    /\ outbound' = NoLink
    /\ out' = "IDLE"
    /\ Thaw
    /\ UNCHANGED <<adv, target, inbound, table, version, synced>>

\* MUTANT: the state of the client stays CONNECTING
ConnectFailsStuck ==
    /\ client = "CONNECTING"
    /\ outbound.state = "PENDING"
    /\ outbound' = NoLink
    /\ Thaw
    /\ UNCHANGED <<client, out, adv, target, inbound, table, version, synced>>

\* Connection complete with an error
ConnectFails ==
    /\ client = "CONNECTING"
    /\ outbound.state = "PENDING"
    /\ OnClientDisconnected

\* ble_client_disconnect
ClientDisconnect ==
    /\ client' = "DISCONNECTING"
    /\ outbound' = Broken(outbound)

\* The last query of the discovery, on_client_connected: PROPOSE is sent; to a
\* peer without the peer characteristic, the first command of a sync.  Neither
\* session may start, and the send may fail.
Discovered ==
    /\ client = "DISCOVERING"
    /\ Freeze
    /\ \/ /\ client' = "READY"
          /\ out' \in {"HANDSHAKE", "SYNCING"}
          /\ UNCHANGED outbound
       \/ /\ ClientDisconnect
          /\ out' \in {"IDLE", "HANDSHAKE", "SYNCING"}
    /\ UNCHANGED <<adv, target, inbound, table, version, synced>>

DiscoveryFails ==
    /\ client = "DISCOVERING"
    /\ ClientDisconnect
    /\ UNCHANGED <<phase, adv, out, target, inbound, table, version, synced>>

\* The answer to the one command outstanding, in phase in of main.c.  It can
\* still be in the queue when the link has broken.
Notified(in) ==
    /\ client = "READY"
    /\ out = in

\* ACCEPT is good and CONFIRM out, or the acknowledgement starts the sync.
HandshakeGoesOn ==
    /\ \/ Notified("HANDSHAKE") /\ out' = "CONFIRMED"
       \/ Notified("CONFIRMED") /\ out' = "SYNCING"
    /\ \/ UNCHANGED <<client, outbound>>
       \/ ClientDisconnect
    /\ UNCHANGED <<phase, adv, target, inbound, table, version, synced>>

\* ACCEPT is refused, or peer_sync does not start
HandshakeFails ==
    /\ Notified("HANDSHAKE") \/ Notified("CONFIRMED")
    /\ ClientDisconnect
    /\ UNCHANGED <<phase, adv, out, target, inbound, table, version, synced>>

\* peer_sync_handle_response is done, or failed (before that it answers with
\* the next command, which changes nothing here).
SyncOver ==
    /\ Notified("SYNCING")
    /\ \/ /\ table' \in Recorded(target.peer, target.version, "SUCCESS")
          /\ synced' = synced \cup {<<outbound.peer, outbound.version>>}
       \/ /\ table' \in Recorded(target.peer, target.version, "FAILED")
          /\ UNCHANGED synced
    /\ ClientDisconnect
    /\ UNCHANGED <<phase, adv, out, target, inbound, version>>

\* A command could not be sent in the middle of a sync.
SendFails ==
    /\ Notified("SYNCING")
    /\ ClientDisconnect
    /\ UNCHANGED <<phase, adv, out, target, inbound, table, version, synced>>

\* MUTANT: g_out_phase keeps its value
ClientDisconnectedKeepsPhase ==
    /\ outbound.state = "DOWN"
    /\ client' = "IDLE"
    /\ outbound' = NoLink
    /\ Thaw
    /\ UNCHANGED <<out, adv, target, inbound, table, version, synced>>

\* Disconnection complete for the outbound handle
ClientDisconnected ==
    /\ outbound.state = "DOWN"
    /\ OnClientDisconnected

(***************************************************************************)
(* The Peripheral.                                                         *)
(***************************************************************************)
\* Somebody connects; the event is queued.
InboundArrives ==
    /\ Reachable
    /\ inbound' = "NEW"
    /\ UNCHANGED <<phase, adv, central, table, version, synced>>

\* Its handler: on_inbound_connected
InboundConnected ==
    /\ inbound = "NEW"
    /\ inbound' = "UP"
    /\ Freeze
    /\ UNCHANGED <<adv, central, table, version, synced>>

\* Disconnection complete for the inbound handle: on_inbound_disconnected,
\* then advertising again
InboundDisconnected ==
    /\ inbound = "DOWN"
    /\ inbound' = "NONE"
    /\ Thaw
    /\ adv' = TRUE
    /\ UNCHANGED <<central, table, version, synced>>

------------------------------------------------------------------------------
(***************************************************************************)
(* The world around: links break, peers change, backoffs end.              *)
(***************************************************************************)
OutboundBreaks ==
    /\ outbound.state = "UP"
    /\ outbound' = Broken(outbound)
    /\ UNCHANGED <<phase, adv, client, out, target, inbound, table, version,
                   synced>>

InboundBreaks ==
    /\ inbound = "UP"
    /\ inbound' = "DOWN"
    /\ UNCHANGED <<phase, adv, central, table, version, synced>>

PeerChanges(p) ==
    /\ version[p] < MaxVersion
    /\ version' = [version EXCEPT ![p] = @ + 1]
    /\ UNCHANGED <<phase, adv, central, inbound, table, synced>>

BackoffEnds(p) ==
    /\ ~table[p].due
    /\ table' = [table EXCEPT ![p].due = TRUE]
    /\ UNCHANGED <<phase, adv, central, inbound, version, synced>>

Next ==
    \/ FlipToAdvertising \/ FlipToScanning
    \/ \E p \in Peer : PeerSeen(p) \/ PeerChanges(p) \/ BackoffEnds(p)
    \/ ConnectSucceeds \/ ConnectFails
    \/ Discovered \/ DiscoveryFails
    \/ HandshakeGoesOn \/ HandshakeFails
    \/ SyncOver \/ SendFails
    \/ ClientDisconnected \/ OutboundBreaks
    \/ InboundArrives \/ InboundConnected \/ InboundDisconnected
    \/ InboundBreaks

Spec == Init /\ [][Next]_vars

(***************************************************************************)
(* The run loop handles what is queued, a fair coin chooses the role, and  *)
(* connections that are up come to an end.  Nothing makes the controller   *)
(* answer a connect: there is no timeout on it.                            *)
(***************************************************************************)
Fairness ==
    /\ SF_vars(FlipToAdvertising)
    /\ SF_vars(FlipToScanning)
    /\ WF_vars(Discovered \/ DiscoveryFails)
    /\ WF_vars(HandshakeGoesOn \/ HandshakeFails)
    /\ WF_vars(SyncOver \/ SendFails)
    /\ WF_vars(ClientDisconnected)
    /\ WF_vars(InboundConnected)
    /\ WF_vars(InboundBreaks)
    /\ WF_vars(InboundDisconnected)

FairSpec == Spec /\ Fairness

------------------------------------------------------------------------------
ClientState == {"IDLE", "SCANNING", "CONNECTING", "DISCOVERING", "READY",
                "DISCONNECTING"}

Entry == [used : BOOLEAN, version : Version, result : {"SUCCESS", "FAILED"},
          due : BOOLEAN]

Types ==
    /\ phase \in {"GRACE", "ADVERTISING", "SCANNING", "CONNECTED"}
    /\ adv \in BOOLEAN
    /\ client \in ClientState
    /\ outbound \in [state : {"NONE", "PENDING", "UP", "DOWN"},
                     peer : Peer \cup {NoPeer}, version : Version]
    /\ out \in {"IDLE", "HANDSHAKE", "CONFIRMED", "SYNCING"}
    /\ target \in [peer : Peer \cup {NoPeer}, version : Version]
    /\ inbound \in {"NONE", "NEW", "UP", "DOWN"}
    /\ table \in [Peer -> Entry]
    /\ version \in [Peer -> Version]
    /\ synced \subseteq Peer \X Version

\* Every variable has its type, and the table no more entries than slots.
TypeOK == Types /\ Cardinality(Known) <= TableCap

\* The program's idea of the outbound connection is the radio's, and main.c
\* has a session exactly over a connection whose discovery is complete or that
\* is being closed: none is left behind for the next connection to trip over.
SessionOverLink ==
    /\ client = "CONNECTING" <=> outbound.state = "PENDING"
    /\ client \in {"DISCOVERING", "READY", "DISCONNECTING"}
          <=> outbound.state \in {"UP", "DOWN"}
    /\ out # "IDLE" => client \in {"READY", "DISCONNECTING"}

\* The schedule stays frozen only while a connection it knows of is there:
\* whichever way connections of both directions overlap and end, none leaves
\* the node in CONNECTED for good (mesh_state_on_disconnected).
ThawsWhenAlone ==
    phase = "CONNECTED" =>
        \/ inbound \in {"UP", "DOWN"}
        \/ client \in {"READY", "DISCONNECTING"}

\* What the peer table calls a success is one: a sync with this peer, started
\* by an advertisement of this version, came to DONE.  (The two globals that
\* on_peer_seen fills are read when the sync is over.)
RecordsWhatItSynced ==
    \A p \in Peer :
        table[p].used /\ table[p].result = "SUCCESS"
            => <<p, table[p].version>> \in synced

\* Whatever happens to connections, others find this node again and again: a
\* connect that is never answered does not keep it from advertising.
KeepsReachable == []<>Reachable

\* It scans again and again, too, if no connect stays unanswered for ever.
KeepsScanning ==
    []<>(outbound.state # "PENDING") => []<>(client = "SCANNING")

==============================================================================
