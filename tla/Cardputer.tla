------------------------------- MODULE Cardputer -------------------------------
(***************************************************************************)
(* The Cardputer port: main.cpp, hw/ble.cpp and hw/ble_client.cpp.  Unlike *)
(* the Pico W, two tasks share the work.  The NimBLE host task runs the    *)
(* radio's callbacks and posts to queues of fixed depth; a post to a full  *)
(* queue is dropped.  The loop task drains them, stage by stage:           *)
(*                                                                         *)
(*   ble_process -> ble_client_process -> process_pending_peer_commands    *)
(*               -> mesh_state_tick -> again                               *)
(*                                                                         *)
(* and blocks inside ble_client_connect.  A step of the host can come      *)
(* between any two steps of the loop.                                      *)
(*                                                                         *)
(* Left out: companion commands (FileService has those; their queue is the *)
(* like of the peer commands' one), the display, byte counts.              *)
(***************************************************************************)
EXTENDS Integers, Sequences, FiniteSets

CONSTANTS
    Peer,         \* advertising peers; the version travels with the address
    NoPeer,
    EvtDepth,     \* kEvtQueueDepth: events of the Central
    BleEvtDepth,  \* kBleEvtQueueDepth: events of the Peripheral
    CmdDepth,     \* kCmdQueueDepth: commands of peers
    MaxInbound,   \* bound: inbound connections in a behaviour
    MaxCalls      \* bound: those and the calls of ble_client_connect

ASSUME CardputerAssumption ==
    /\ NoPeer \notin Peer
    /\ {EvtDepth, BleEvtDepth, CmdDepth} \subseteq Nat \ {0}
    /\ {MaxInbound, MaxCalls} \subseteq Nat

VARIABLES
    pc,       \* the stage of the loop task
    mesh,     \* mesh_state's phase; THAWED: ADVERTISING, its dwell over
    adv,      \* g_advertising_active, and whether the radio advertises
    scanning, \* g_scanning, and the radio with it
    evts,     \* g_evt_q
    client,   \* ble_client.cpp: g_connected, g_char_peer_cmd
    outlink,  \* radio: the outbound connection, and a command on it
    out,      \* main.cpp: g_out_phase, g_sync, g_sync_pending, the target
    inUse,    \* peer_sync.c: g_session.in_use
    table,    \* peer_table: the last result per peer
    bleEvts,  \* g_ble_evt_q
    gIn,      \* g_connected of ble.cpp
    inlink,   \* radio: the inbound connections, and their Central's state
    cmds,     \* g_peer_cmd_queue
    resp,     \* g_resp_session, g_resp_armed, g_resp_done
    calls,    \* bound on connections
    seen      \* history, see SeenIdle

loopvars == <<mesh, out, inUse, table, resp>>
central == <<scanning, client, outlink>>
peripheral == <<gIn, inlink>>
vars == <<pc, mesh, adv, scanning, evts, client, outlink, out, inUse, table,
          bleEvts, gIn, inlink, cmds, resp, calls, seen>>

Link == 1 .. MaxInbound

------------------------------------------------------------------------------
\* What the properties have to remember: peers a sync with which came to DONE,
\* links whose record is complete, links that had a file command answered, and
\* whether an event other than a sighting was dropped, a Connected came after
\* the end of its connection, a response was for another Central, advertising
\* began while a Central was there.
SeenIdle == [synced |-> {}, recorded |-> {}, served |-> {},
             dropped |-> FALSE, overtaken |-> FALSE, unasked |-> FALSE,
             readvertised |-> FALSE]

NoLink == [state |-> "NONE", peer |-> NoPeer, asked |-> FALSE]

OutIdle == [phase |-> "IDLE", sync |-> FALSE, pending |-> FALSE,
            target |-> NoPeer]

RespIdle == [armed |-> FALSE, done |-> FALSE, state |-> "INIT", link |-> 0]

Evt(type, p) == [type |-> type, peer |-> p]

\* MUTANT: the queue has no bound
PostUnbounded(e) ==
    /\ evts' = Append(evts, e)
    /\ UNCHANGED seen

\* post: nothing waits for room
Post(e) ==
    IF Len(evts) < EvtDepth
    THEN /\ evts' = Append(evts, e)
         /\ UNCHANGED seen
    ELSE /\ seen' = [seen EXCEPT !.dropped = @ \/ e.type # "SEEN"]
         /\ UNCHANGED evts

\* The same in ServerCallbacks; up is g_connected as the callback leaves it.
PostBle(type, up) ==
    /\ gIn' = up
    /\ IF Len(bleEvts) < BleEvtDepth
       THEN /\ bleEvts' = Append(bleEvts, type)
            /\ UNCHANGED seen
       ELSE /\ seen' = [seen EXCEPT !.dropped = TRUE]
            /\ UNCHANGED bleEvts

Init ==
    /\ pc = "BLE"
    /\ mesh = "GRACE"
    /\ adv = [active |-> TRUE, on |-> TRUE]
    /\ scanning = FALSE
    /\ evts = <<>>
    /\ client = [connected |-> FALSE, peerCmd |-> FALSE]
    /\ outlink = NoLink
    /\ out = OutIdle
    /\ inUse = FALSE
    /\ table = [p \in Peer |-> "NONE"]
    /\ bleEvts = <<>>
    /\ gIn = FALSE
    /\ inlink = [l \in Link |-> [up |-> FALSE, says |-> "NEW"]]
    /\ cmds = <<>>
    /\ resp = RespIdle
    /\ calls = 0
    /\ seen = SeenIdle

(***************************************************************************)
(* The host task.                                                          *)
(***************************************************************************)
\* ScanCallbacks::onResult, duplicates and all; at the bound no more
SeePeer(p) ==
    /\ scanning
    /\ calls < MaxCalls
    /\ Post(Evt("SEEN", p))
    /\ UNCHANGED <<pc, adv, loopvars, central, calls, peripheral, bleEvts,
                   cmds>>

\* notify_cb.  A peer notifies all its subscribers at once (see Answer below),
\* so an answer to another Central arrives here too, until the link has ended.
Respond ==
    /\ outlink.state # "NONE"
    /\ outlink' = [outlink EXCEPT !.asked = FALSE]
    /\ IF Len(evts) < EvtDepth
       THEN /\ evts' = Append(evts, Evt("RESPONSE", outlink.peer))
            /\ seen' = [seen EXCEPT !.unasked = @ \/ ~outlink.asked]
       ELSE /\ seen' = [seen EXCEPT !.dropped = TRUE]
            /\ UNCHANGED evts
    /\ UNCHANGED <<pc, adv, loopvars, scanning, client, calls, peripheral,
                   bleEvts, cmds>>

\* ClientCallbacks::onDisconnect: asked for, or not
OutboundEnds ==
    /\ outlink.state \in {"UP", "CLOSING"}
    /\ outlink' = NoLink
    /\ Post(Evt("DISCONNECTED", NoPeer))
    /\ UNCHANGED <<pc, adv, loopvars, scanning, client, calls, peripheral,
                   bleEvts, cmds>>

\* ServerCallbacks::onConnect; the controller stops advertising by itself, but
\* nothing keeps the loop from starting it again during the connection.  The
\* Central begins with the handshake, or with a file command.
InboundUp(l) ==
    /\ adv.on
    /\ calls < MaxCalls
    /\ calls' = calls + 1
    /\ inlink[l].says = "NEW"
    /\ \A k \in Link : k < l => inlink[k].says # "NEW"
    /\ \E first \in {"PROPOSE", "COMMAND"} :
          inlink' = [inlink EXCEPT ![l] = [up |-> TRUE, says |-> first]]
    /\ adv' = [active |-> FALSE, on |-> FALSE]
    /\ PostBle("CONNECTED", TRUE)
    /\ UNCHANGED <<pc, loopvars, central, evts, cmds>>

\* ServerCallbacks::onDisconnect, whichever connection it was
InboundEnds(l) ==
    /\ inlink[l].up
    /\ inlink' = [inlink EXCEPT ![l] = [up |-> FALSE, says |-> "GONE"]]
    /\ PostBle("DISCONNECTED", FALSE)
    /\ UNCHANGED <<pc, adv, loopvars, central, calls, evts, cmds>>

\* on_peer_command: the Central at the other end of link l sends its next
\* message; it is queued, or dropped without an answer.
PeerCommand(l) ==
    /\ inlink[l].up
    /\ inlink[l].says \in {"PROPOSE", "CONFIRM", "COMMAND"}
    /\ inlink' = [inlink EXCEPT ![l].says =
          CASE @ = "PROPOSE" -> "AWAIT_ACCEPT"
            [] @ = "CONFIRM" -> "AWAIT_OK"
            [] @ = "COMMAND" -> "AWAIT_DATA"]
    /\ cmds' = IF Len(cmds) < CmdDepth
               THEN Append(cmds, [type |-> inlink[l].says, link |-> l])
               ELSE cmds
    /\ UNCHANGED <<pc, adv, loopvars, central, calls, gIn, evts, bleEvts,
                   seen>>

(***************************************************************************)
(* The loop task: ble_process.                                             *)
(***************************************************************************)
\* arm_responder_session: a fresh session; g_resp_done is not its business
Armed == [resp EXCEPT !.armed = TRUE, !.state = "INIT", !.link = 0]

OnInboundConnect ==
    /\ pc = "BLE"
    /\ bleEvts # <<>>
    /\ Head(bleEvts) = "CONNECTED"
    /\ bleEvts' = Tail(bleEvts)
    /\ resp' = Armed
    /\ mesh' = "CONNECTED"
    /\ UNCHANGED <<pc, adv, out, inUse, table, central, calls, peripheral,
                   evts, cmds, seen>>

\* MUTANT: the session is left as it was
OnInboundDisconnectKeeps ==
    /\ pc = "BLE"
    /\ bleEvts # <<>>
    /\ Head(bleEvts) = "DISCONNECTED"
    /\ bleEvts' = Tail(bleEvts)
    /\ mesh' = "THAWED"
    /\ UNCHANGED <<pc, adv, resp, out, inUse, table, central, calls,
                   peripheral, evts, cmds, seen>>

\* reset_responder_session and mesh_state_on_disconnected
OnInboundDisconnect ==
    /\ pc = "BLE"
    /\ bleEvts # <<>>
    /\ Head(bleEvts) = "DISCONNECTED"
    /\ bleEvts' = Tail(bleEvts)
    /\ resp' = RespIdle
    /\ mesh' = "THAWED"
    /\ UNCHANGED <<pc, adv, out, inUse, table, central, calls, peripheral,
                   evts, cmds, seen>>

\* A stage ends when its queue is found empty.
EndOfStage ==
    /\ \/ pc = "BLE" /\ bleEvts = <<>> /\ pc' = "CLIENT"
       \/ pc = "CLIENT" /\ evts = <<>> /\ pc' = "PEER"
       \/ pc = "PEER" /\ cmds = <<>> /\ pc' = "TICK"
    /\ UNCHANGED <<adv, loopvars, central, calls, peripheral, evts, bleEvts,
                   cmds, seen>>

(***************************************************************************)
(* The loop task: ble_client_process.                                      *)
(***************************************************************************)
AtHead(type) ==
    /\ pc = "CLIENT"
    /\ evts # <<>>
    /\ Head(evts).type = type

\* The handler of an event that does not block consumes it and stays here.
Consumed ==
    /\ evts' = Tail(evts)
    /\ UNCHANGED <<pc, adv, peripheral, bleEvts, cmds, scanning, calls>>

\* ble_client_disconnect: onDisconnect will follow, if the link is still there
HangUp ==
    outlink' = IF client.connected /\ outlink.state = "UP"
               THEN [outlink EXCEPT !.state = "CLOSING"]
               ELSE outlink

\* send_outbound, with what its callers do when it fails.  A write can be taken
\* by the stack after the link is gone.
SendOrHangUp ==
    \/ HangUp
    \/ /\ client.connected
       /\ outlink' = [outlink EXCEPT !.asked = (@ \/ outlink.state = "UP")]

\* start_peer_sync: refused when peer_sync has a session already
StartPeerSync ==
    IF inUse
    THEN /\ out' = [out EXCEPT !.sync = FALSE]
         /\ HangUp
         /\ UNCHANGED inUse
    ELSE /\ inUse' = TRUE
         /\ out' = [out EXCEPT !.sync = TRUE, !.phase = "SYNCING"]
         /\ SendOrHangUp

\* on_peer_seen is not interested: an attempt is pending, or the peer is in
\* its backoff (which ends when it likes).  At the bound nobody is of interest.
IgnorePeer ==
    /\ AtHead("SEEN")
    /\ \/ out.pending
       \/ table[Head(evts).peer] # "NONE"
       \/ calls = MaxCalls
    /\ Consumed
    /\ UNCHANGED <<loopvars, client, outlink, seen>>

\* MUTANT: g_sync_pending is not looked at
OnPeerSeenAlways ==
    /\ AtHead("SEEN")
    /\ calls < MaxCalls
    /\ calls' = calls + 1
    /\ out' = [out EXCEPT !.target = Head(evts).peer, !.pending = TRUE]
    /\ evts' = Tail(evts)
    /\ IF client.connected
       THEN UNCHANGED <<pc, scanning, adv>>
       ELSE /\ pc' = "CONNECT"
            /\ scanning' = FALSE
            /\ adv' = [adv EXCEPT !.on = FALSE]
    /\ UNCHANGED <<mesh, inUse, table, resp, client, outlink, peripheral,
                   bleEvts, cmds, seen>>

\* on_peer_seen and the start of ble_client_connect, which stops the radio's
\* advertising behind the back of ble.cpp, and does nothing when connected
OnPeerSeen ==
    /\ AtHead("SEEN")
    /\ ~out.pending
    /\ calls < MaxCalls
    /\ calls' = calls + 1
    /\ out' = [out EXCEPT !.target = Head(evts).peer, !.pending = TRUE]
    /\ evts' = Tail(evts)
    /\ IF client.connected
       THEN UNCHANGED <<pc, scanning, adv>>
       ELSE /\ pc' = "CONNECT"
            /\ scanning' = FALSE
            /\ adv' = [adv EXCEPT !.on = FALSE]
    /\ UNCHANGED <<mesh, inUse, table, resp, client, outlink, peripheral,
                   bleEvts, cmds, seen>>

Blocked(stage) ==
    /\ pc = stage
    /\ UNCHANGED <<adv, loopvars, scanning, calls, peripheral, bleEvts, cmds>>

\* MUTANT: a failed connect is not reported
ConnectFailsSilently ==
    /\ Blocked("CONNECT")
    /\ pc' = "CLIENT"
    /\ UNCHANGED <<client, outlink, evts, seen>>

\* Not in the scan results, or the connect failed.  (That the stack calls
\* onDisconnect within a connect that fails, for a second event right behind
\* this one, is left out: no sighting can come between the two.)
ConnectFails ==
    /\ Blocked("CONNECT")
    /\ pc' = "CLIENT"
    /\ Post(Evt("DISCONNECTED", NoPeer))
    /\ UNCHANGED <<client, outlink>>

ConnectSucceeds ==
    /\ Blocked("CONNECT")
    /\ pc' = "DISCOVER"
    /\ outlink' = [state |-> "UP", peer |-> out.target, asked |-> FALSE]
    /\ UNCHANGED <<client, evts, seen>>

\* The service, a characteristic or the subscription is missing.
DiscoveryFails ==
    /\ Blocked("DISCOVER")
    /\ pc' = "CLIENT"
    /\ outlink' = [outlink EXCEPT !.state = IF @ = "UP" THEN "CLOSING" ELSE @]
    /\ UNCHANGED <<client, evts, seen>>

\* The rest of ble_client_connect.  The link may have gone since the
\* subscription, and then DISCONNECTED is in the queue before CONNECTED.
Discovered ==
    /\ Blocked("DISCOVER")
    /\ pc' = "CLIENT"
    /\ \E peerCmd \in BOOLEAN :
          client' = [connected |-> TRUE, peerCmd |-> peerCmd]
    /\ IF Len(evts) < EvtDepth
       THEN /\ evts' = Append(evts, Evt("CONNECTED", NoPeer))
            /\ seen' = [seen EXCEPT !.overtaken = @ \/ outlink.state = "NONE"]
       ELSE /\ seen' = [seen EXCEPT !.dropped = TRUE]
            /\ UNCHANGED evts
    /\ UNCHANGED outlink

\* on_client_connected: PROPOSE, or the first command of a sync with a peer
\* that has no peer characteristic, or no identity and a hang-up
OnConnected ==
    /\ AtHead("CONNECTED")
    /\ Consumed
    /\ mesh' = "CONNECTED"
    /\ IF client.peerCmd
       THEN /\ \/ HangUp /\ UNCHANGED out
               \/ SendOrHangUp /\ out' = [out EXCEPT !.phase = "HANDSHAKE"]
            /\ UNCHANGED inUse
       ELSE StartPeerSync
    /\ UNCHANGED <<table, resp, client, seen>>

\* on_client_response in each phase
OnAccept ==
    /\ AtHead("RESPONSE")
    /\ out.phase = "HANDSHAKE"
    /\ Consumed
    /\ \/ HangUp /\ UNCHANGED out
       \/ SendOrHangUp /\ out' = [out EXCEPT !.phase = "CONFIRMED"]
    /\ UNCHANGED <<mesh, inUse, table, resp, client, seen>>

OnAck ==
    /\ AtHead("RESPONSE")
    /\ out.phase = "CONFIRMED"
    /\ Consumed
    /\ StartPeerSync
    /\ UNCHANGED <<mesh, table, resp, client, seen>>

OnSyncGoesOn ==
    /\ AtHead("RESPONSE")
    /\ out.phase = "SYNCING"
    /\ out.sync
    /\ Consumed
    /\ SendOrHangUp
    /\ UNCHANGED <<mesh, out, inUse, table, resp, client, seen>>

OnSyncOver(result) ==
    /\ AtHead("RESPONSE")
    /\ out.phase = "SYNCING"
    /\ out.sync
    /\ Consumed
    /\ out' = [out EXCEPT !.pending = FALSE]
    /\ table' = [table EXCEPT ![out.target] = result]
    /\ seen' = IF result = "SUCCESS"
               THEN [seen EXCEPT !.synced = @ \cup {Head(evts).peer}] ELSE seen
    /\ HangUp
    /\ UNCHANGED <<mesh, inUse, resp, client>>

OnStrayResponse ==
    /\ AtHead("RESPONSE")
    /\ out.phase = "IDLE" \/ (out.phase = "SYNCING" /\ ~out.sync)
    /\ Consumed
    /\ UNCHANGED <<loopvars, client, outlink, seen>>

\* MUTANT: the schedule is not told
OnDisconnectedFrozen ==
    /\ AtHead("DISCONNECTED")
    /\ Consumed
    /\ client' = [connected |-> FALSE, peerCmd |-> FALSE]
    /\ table' = IF out.pending
                THEN [table EXCEPT ![out.target] = "FAILED"] ELSE table
    /\ inUse' = (inUse /\ ~out.sync)
    /\ out' = OutIdle
    /\ UNCHANGED <<mesh, outlink, resp, seen>>

\* MUTANT: peer_sync_end is forgotten
OnDisconnectedLeaks ==
    /\ AtHead("DISCONNECTED")
    /\ Consumed
    /\ client' = [connected |-> FALSE, peerCmd |-> FALSE]
    /\ table' = IF out.pending
                THEN [table EXCEPT ![out.target] = "FAILED"] ELSE table
    /\ out' = OutIdle
    /\ mesh' = "THAWED"
    /\ UNCHANGED <<inUse, outlink, resp, seen>>

\* on_client_disconnected, for a connection or a failed connect
OnDisconnected ==
    /\ AtHead("DISCONNECTED")
    /\ Consumed
    /\ client' = [connected |-> FALSE, peerCmd |-> FALSE]
    /\ table' = IF out.pending
                THEN [table EXCEPT ![out.target] = "FAILED"] ELSE table
    /\ inUse' = (inUse /\ ~out.sync)
    /\ out' = OutIdle
    /\ mesh' = "THAWED"
    /\ UNCHANGED <<outlink, resp, seen>>

(***************************************************************************)
(* The loop task: process_pending_peer_commands.                           *)
(***************************************************************************)
\* send_peer_response: notify reaches every subscribed Central, and none when
\* g_connected is off.  A Central takes it for the answer it is waiting for.
Notified(l, says, answer) ==
    CASE says = "AWAIT_ACCEPT" -> IF answer = <<"ACCEPT", l>>
                                  THEN "CONFIRM" ELSE "CLOSING"
      [] says \in {"AWAIT_OK", "AWAIT_DATA"} -> "COMMAND"
      [] OTHER -> says

Answer(answer) ==
    inlink' = IF ~gIn THEN inlink
              ELSE [l \in Link |->
                      [inlink[l] EXCEPT !.says = Notified(l, @, answer)]]

PeerCommandAtHand ==
    /\ pc = "PEER"
    /\ cmds # <<>>
    /\ cmds' = Tail(cmds)
    /\ UNCHANGED <<pc, mesh, adv, out, inUse, table, central, calls, gIn, evts,
                   bleEvts>>

Session == IF resp.armed THEN resp ELSE Armed

Proposed(c) == Session.state = "INIT" /\ c.type = "PROPOSE"

\* The signature in a CONFIRM is on the record of the PROPOSE with its nonce.
Confirmed(c) ==
    /\ Session.state = "AWAIT_CONFIRM"
    /\ c.type = "CONFIRM"
    /\ c.link = Session.link

TakePropose ==
    /\ PeerCommandAtHand
    /\ ~resp.done
    /\ LET c == Head(cmds) IN
       /\ Proposed(c)
       /\ resp' = [Session EXCEPT !.state = "AWAIT_CONFIRM", !.link = c.link]
       /\ Answer(<<"ACCEPT", c.link>>)
    /\ UNCHANGED seen

\* The record is complete, as recorded says; whether fs_write could store it is
\* not looked at.
TakeConfirm ==
    /\ PeerCommandAtHand
    /\ ~resp.done
    /\ LET c == Head(cmds) IN
       /\ Confirmed(c)
       /\ resp' = [Session EXCEPT !.state = "DONE", !.done = TRUE]
       /\ seen' = [seen EXCEPT !.recorded = @ \cup {c.link}]
       /\ Answer(<<"OK", c.link>>)

\* commands_handle_session
ServeCommand ==
    /\ PeerCommandAtHand
    /\ resp.done
    /\ resp' = Session
    /\ LET c == Head(cmds) IN
       IF c.type = "COMMAND"
       THEN /\ seen' = [seen EXCEPT !.served = @ \cup {c.link}]
            /\ Answer(<<"DATA", c.link>>)
       ELSE /\ UNCHANGED seen
            /\ Answer(<<"ERROR", c.link>>)

RefuseCommand ==
    /\ PeerCommandAtHand
    /\ ~resp.done
    /\ ~Proposed(Head(cmds)) /\ ~Confirmed(Head(cmds))
    /\ resp' = RespIdle
    /\ Answer(<<"ERROR", Head(cmds).link>>)
    /\ UNCHANGED seen

(***************************************************************************)
(* The loop task: mesh_state_tick and apply_mesh_action.                   *)
(***************************************************************************)
Tick ==
    /\ pc = "TICK"
    /\ pc' = "BLE"
    /\ UNCHANGED <<out, inUse, table, resp, client, outlink, calls, evts,
                   bleEvts, peripheral, cmds>>

\* Frozen, or the dwell goes on
NoFlip ==
    /\ Tick
    /\ mesh # "THAWED"
    /\ UNCHANGED <<mesh, adv, scanning, seen>>

\* ble_start_advertising does nothing when it believes it advertises
FlipToAdvertising ==
    /\ Tick
    /\ mesh # "CONNECTED"
    /\ mesh' = "ADVERTISING"
    /\ scanning' = FALSE
    /\ adv' = IF adv.active THEN adv ELSE [active |-> TRUE, on |-> TRUE]
    /\ seen' = [seen EXCEPT !.readvertised =
                  @ \/ (~adv.active /\ \E l \in Link : inlink[l].up)]

FlipToScanning ==
    /\ Tick
    /\ mesh # "CONNECTED"
    /\ mesh' = "SCANNING"
    /\ scanning' = TRUE
    /\ adv' = IF adv.active THEN [active |-> FALSE, on |-> FALSE] ELSE adv
    /\ UNCHANGED seen

Host ==
    \/ \E p \in Peer : SeePeer(p)
    \/ Respond \/ OutboundEnds
    \/ \E l \in Link : InboundUp(l) \/ InboundEnds(l) \/ PeerCommand(l)

Loop ==
    \/ OnInboundConnect \/ OnInboundDisconnect \/ EndOfStage
    \/ IgnorePeer \/ OnPeerSeen
    \/ ConnectFails \/ ConnectSucceeds \/ DiscoveryFails \/ Discovered
    \/ OnConnected \/ OnAccept \/ OnAck
    \/ OnSyncGoesOn \/ OnStrayResponse \/ OnDisconnected
    \/ \E result \in {"SUCCESS", "FAILED"} : OnSyncOver(result)
    \/ TakePropose \/ TakeConfirm \/ ServeCommand \/ RefuseCommand
    \/ NoFlip \/ FlipToAdvertising \/ FlipToScanning

Next == Host \/ Loop

Spec == Init /\ [][Next]_vars

------------------------------------------------------------------------------
\* What g_evt_q holds: a sighting and a response come from a peer.
Event == [type : {"SEEN", "RESPONSE"}, peer : Peer]
         \cup {Evt("CONNECTED", NoPeer), Evt("DISCONNECTED", NoPeer)}

Queue(S, depth) == {q \in Seq(S) : Len(q) <= depth}

Said == {"NEW", "PROPOSE", "AWAIT_ACCEPT", "CONFIRM", "AWAIT_OK", "COMMAND",
         "AWAIT_DATA", "CLOSING", "GONE"}

Command == [type : {"PROPOSE", "CONFIRM", "COMMAND"}, link : Link]

History == [synced : SUBSET Peer, recorded : SUBSET Link, served : SUBSET Link,
            dropped : BOOLEAN, overtaken : BOOLEAN, unasked : BOOLEAN,
            readvertised : BOOLEAN]

\* Every variable has its type.
TypeOK ==
    /\ pc \in {"BLE", "CLIENT", "CONNECT", "DISCOVER", "PEER", "TICK"}
    /\ mesh \in {"GRACE", "ADVERTISING", "SCANNING", "CONNECTED", "THAWED"}
    /\ adv \in [active : BOOLEAN, on : BOOLEAN]
    /\ scanning \in BOOLEAN
    /\ evts \in Queue(Event, EvtDepth)
    /\ client \in [connected : BOOLEAN, peerCmd : BOOLEAN]
    /\ outlink \in {NoLink} \cup [state : {"UP", "CLOSING"}, peer : Peer,
                                  asked : BOOLEAN]
    /\ out \in [phase : {"IDLE", "HANDSHAKE", "CONFIRMED", "SYNCING"},
                sync : BOOLEAN, pending : BOOLEAN,
                target : Peer \cup {NoPeer}]
    /\ out.pending => out.target \in Peer
    /\ pc = "CONNECT" => out.pending
    /\ inUse \in BOOLEAN
    /\ table \in [Peer -> {"NONE", "SUCCESS", "FAILED"}]
    /\ bleEvts \in Queue({"CONNECTED", "DISCONNECTED"}, BleEvtDepth)
    /\ gIn \in BOOLEAN
    /\ inlink \in [Link -> [up : BOOLEAN, says : Said]]
    /\ cmds \in Queue(Command, CmdDepth)
    /\ resp \in [armed : BOOLEAN, done : BOOLEAN, link : 0 .. MaxInbound,
                 state : {"INIT", "AWAIT_CONFIRM", "DONE"}]
    /\ calls \in 0 .. MaxCalls
    /\ seen \in History

\* A success in the peer table is a sync with that very peer that came to
\* DONE, even though sightings of others keep coming out of the queue during
\* the session and overwrite the target of the next one (g_sync_pending); as
\* long as the peer sends no answers but to this node.
RecordsWhatItSynced ==
    ~seen.unasked =>
        \A p \in Peer : table[p] = "SUCCESS" => p \in seen.synced

Queued(type) == \E i \in DOMAIN evts : evts[i].type = type

\* An attempt that is pending keeps all other peers waiting, so something that
\* ends it must be under way: the connect itself, the connection, or the news
\* of its end.  A dropped event is the one way to lose it.
PendingAttemptEnds ==
    out.pending /\ ~seen.dropped =>
        \/ pc \in {"CONNECT", "DISCOVER"}
        \/ outlink.state # "NONE"
        \/ Queued("DISCONNECTED")

\* main.cpp never goes on with a session of peer_sync that has ended.  The
\* reverse, a session that nobody holds, so that it is never ended and every
\* later sync is refused (start_peer_sync overwrites g_sync with the null of a
\* refused start), has one cause only: a Connected that came after the end of
\* its connection, some time before.
SessionIsHeld ==
    /\ out.sync => inUse
    /\ inUse /\ ~out.sync => seen.overtaken

\* The schedule is frozen only while there is a connection, or news of one in
\* a queue, if no event was dropped and none of the Central's overtaken.
ThawsWhenAlone ==
    mesh = "CONNECTED" /\ ~seen.dropped /\ ~seen.overtaken =>
        \/ \E l \in Link : inlink[l].up
        \/ outlink.state # "NONE"
        \/ bleEvts # <<>>
        \/ Queued("DISCONNECTED")

\* File commands are answered only on a connection whose record is complete,
\* although commands and connection events come through different queues and
\* stale ones of the last connection meet the session of the next; as long as
\* no event was dropped, and the schedule did not start to advertise while a
\* Central was connected.
ServedAfterRecord ==
    ~seen.dropped /\ ~seen.readvertised => seen.served \subseteq seen.recorded

------------------------------------------------------------------------------
\* mesh_state.h:75-76: ticks return NONE until the matching disconnected event
\* arrives; so with no connection, no event waiting and none dropped, the
\* schedule runs.
FrozenUntilDisconnect ==
    mesh = "CONNECTED" /\ ~seen.dropped =>
        \/ \E l \in Link : inlink[l].up
        \/ outlink.state # "NONE"
        \/ bleEvts # <<>>
        \/ Queued("DISCONNECTED")
==============================================================================
