--------------------------- MODULE CardputerProofs ---------------------------
(***************************************************************************)
(* The safety properties of Cardputer, for every set of peers, all depths  *)
(* of the queues and any number of connections.                            *)
(***************************************************************************)
EXTENDS Cardputer, SequenceTheorems, TLAPS

------------------------------------------------------------------------------
\* A queue of events, q, by the types of what it holds.
Holds(q, t) == \E i \in DOMAIN q : q[i].type = t

HoldsOnce(q, t) ==
    \A i, j \in DOMAIN q : q[i].type = t /\ q[j].type = t => i = j

\* All events of type s come before all events of type t.
Before(q, s, t) ==
    \A i, j \in DOMAIN q : q[i].type = s /\ q[j].type = t => i < j

ResponsesFrom(q, p) ==
    \A i \in DOMAIN q : q[i].type = "RESPONSE" => q[i].peer = p

\* Sightings are at the front: the scan had stopped before the rest.
SeenFirst(q) ==
    /\ Before(q, "SEEN", "RESPONSE")
    /\ Before(q, "SEEN", "CONNECTED")
    /\ Before(q, "SEEN", "DISCONNECTED")

------------------------------------------------------------------------------
\* An attempt has not lost what ends it, unless an event was dropped.
AttemptAlive ==
    ~seen.dropped =>
        /\ (out.pending \/ client.connected =>
               \/ pc \in {"CONNECT", "DISCOVER"}
               \/ outlink.state # "NONE"
               \/ Holds(evts, "DISCONNECTED"))
        /\ (pc = "DISCOVER" =>
               outlink.state # "NONE" \/ Holds(evts, "DISCONNECTED"))

\* One connection at a time: while ble_client_connect runs, while the link is
\* up, and until the news of its end is consumed, there is no other of these.
\* (A Connected that was overtaken and then a response nobody asked for can
\* make main.cpp connect over a link.)
OneAttempt ==
    ~(seen.overtaken /\ seen.unasked) =>
        /\ (pc \in {"CONNECT", "DISCOVER"} =>
               /\ ~client.connected
               /\ out.pending
               /\ ~scanning
               /\ ~Holds(evts, "CONNECTED"))
        /\ (pc = "CONNECT" =>
               /\ outlink.state = "NONE"
               /\ ~Holds(evts, "RESPONSE")
               /\ ~Holds(evts, "DISCONNECTED"))
        /\ (Holds(evts, "CONNECTED") =>
               /\ pc = "CLIENT"
               /\ ~scanning
               /\ out.pending \/ ~Holds(evts, "SEEN"))
        /\ HoldsOnce(evts, "CONNECTED")
        /\ (pc = "DISCOVER" \/ Holds(evts, "CONNECTED") => SeenFirst(evts))
        /\ (outlink.state # "NONE" =>
               /\ ~Holds(evts, "DISCONNECTED")
               /\ out.pending \/ client.connected)
        /\ HoldsOnce(evts, "DISCONNECTED")
        /\ Before(evts, "RESPONSE", "DISCONNECTED")
        /\ (~out.pending /\ ~client.connected =>
               ~Holds(evts, "DISCONNECTED") /\ ~Holds(evts, "RESPONSE"))

\* main.cpp is idle between connections, and holds the session it started.
IdleBetween ==
    ~seen.overtaken =>
        /\ (~client.connected =>
               /\ out.phase = "IDLE"
               /\ ~Holds(evts, "CONNECTED"))
        /\ (Holds(evts, "CONNECTED") => out.phase = "IDLE")
        /\ Before(evts, "CONNECTED", "DISCONNECTED")
        /\ (out.phase # "SYNCING" => ~out.sync)
        /\ inUse = out.sync

\* A response under way is the one asked for, from the peer main.cpp holds in
\* g_sync_peer_tpk.
OneAnswer ==
    ~seen.unasked =>
        /\ (Holds(evts, "RESPONSE") =>
               /\ ~outlink.asked
               /\ client.connected
               /\ out.pending
               /\ outlink.state # "NONE" => outlink.peer = out.target
               /\ ~Holds(evts, "CONNECTED"))
        /\ HoldsOnce(evts, "RESPONSE")
        /\ ResponsesFrom(evts, out.target)
        /\ (outlink.asked =>
               /\ outlink.state # "NONE"
               /\ outlink.peer = out.target
               /\ client.connected
               /\ out.pending
               /\ ~Holds(evts, "CONNECTED"))
        /\ ((pc = "DISCOVER" \/ Holds(evts, "CONNECTED"))
              /\ outlink.state # "NONE"
              => out.pending /\ outlink.peer = out.target)

\* The last event of the Peripheral is a connect only while one is connected.
LastBleEvent ==
    ~seen.dropped /\ bleEvts # <<>> /\ bleEvts[Len(bleEvts)] = "CONNECTED"
        => \E l \in Link : inlink[l].up

Disconnecting == \E i \in DOMAIN bleEvts : bleEvts[i] = "DISCONNECTED"

HasCmd(type, l) ==
    \E i \in DOMAIN cmds : cmds[i].type = type /\ cmds[i].link = l

\* What the Central of each link has said.
CentralSaid ==
    /\ \A l \in Link : inlink[l].up <=> inlink[l].says \notin {"NEW", "GONE"}
    /\ \A k, l \in Link : k < l /\ inlink[k].says = "NEW"
                          => inlink[l].says = "NEW"
    /\ \A i \in DOMAIN cmds :
          inlink[cmds[i].link].says \notin {"NEW", "PROPOSE"}
    /\ \A i, j \in DOMAIN cmds :
          cmds[i].type = "PROPOSE" /\ cmds[j].link = cmds[i].link
          => cmds[j].type # "CONFIRM" /\ (cmds[j].type = "PROPOSE" => i = j)
    /\ \A i \in DOMAIN cmds :
          cmds[i].type = "PROPOSE" =>
              inlink[cmds[i].link].says \in {"AWAIT_ACCEPT", "CLOSING", "GONE"}

\* Inbound connections follow one another: the radio is silent during one, and
\* commands are queued in the order of the connections.
OneInbound ==
    ~seen.readvertised =>
        /\ \A l \in Link : inlink[l].up => ~adv.active /\ ~adv.on
        /\ \A k, l \in Link : inlink[k].up /\ inlink[l].up => k = l
        /\ \A i, j \in DOMAIN cmds : i <= j => cmds[i].link <= cmds[j].link
        /\ \A l \in Link : inlink[l].up =>
              \A i \in DOMAIN cmds : cmds[i].link <= l

\* The news of a disconnect is waiting and will be consumed before any command.
EndAhead == pc = "BLE" /\ Disconnecting

\* The commands at hand, and those still to come in this session, are of links
\* in L.
OnlyOf(L) ==
    /\ \A i \in DOMAIN cmds : cmds[i].link \in L
    /\ \A l \in Link : inlink[l].up => l \in L
    /\ ~adv.on
    /\ Disconnecting \/ \E l \in Link : inlink[l].up

\* The session waits for a CONFIRM that is about to be sent, or queued.
Awaited ==
    /\ resp.state = "AWAIT_CONFIRM" /\ resp.link \in Link
    /\ inlink[resp.link].says = "CONFIRM" \/ HasCmd("CONFIRM", resp.link)

\* The gate: a session that waits for a CONFIRM that is under way, and one that
\* is done, are about the connection whose commands follow.
Gate ==
    ~seen.dropped /\ ~seen.readvertised /\ ~EndAhead =>
        /\ Awaited => OnlyOf({resp.link})
        /\ resp.done => OnlyOf(seen.recorded)

IInv ==
    /\ TypeOK
    /\ AttemptAlive
    /\ OneAttempt
    /\ IdleBetween
    /\ OneAnswer
    /\ RecordsWhatItSynced
    /\ LastBleEvent
    /\ ThawsWhenAlone
    /\ CentralSaid
    /\ OneInbound
    /\ Gate
    /\ ServedAfterRecord

------------------------------------------------------------------------------
\* What post adds to a queue, and what consuming its head takes away.
LEMMA AppendFacts ==
    ASSUME NEW S, NEW q \in Seq(S), NEW e \in S
    PROVE  /\ Append(q, e) \in Seq(S)
           /\ Len(Append(q, e)) = Len(q) + 1
           /\ DOMAIN Append(q, e) = DOMAIN q \cup {Len(q) + 1}
           /\ \A i \in DOMAIN q : Append(q, e)[i] = q[i] /\ i < Len(q) + 1
           /\ Append(q, e)[Len(q) + 1] = e
           /\ Len(q) + 1 \notin DOMAIN q
PROOF
BY AppendProperties

LEMMA TailFacts ==
    ASSUME NEW S, NEW q \in Seq(S), q # <<>>
    PROVE  /\ Tail(q) \in Seq(S)
           /\ Head(q) = q[1] /\ Head(q) \in S
           /\ 1 \in DOMAIN q
           /\ Len(Tail(q)) = Len(q) - 1
           /\ \A i \in DOMAIN Tail(q) :
                 i + 1 \in DOMAIN q /\ Tail(q)[i] = q[i + 1]
           /\ \A i \in DOMAIN q : i # 1 =>
                 i - 1 \in DOMAIN Tail(q) /\ Tail(q)[i - 1] = q[i]
           /\ DOMAIN q \subseteq Nat \ {0}
           /\ DOMAIN Tail(q) \subseteq Nat \ {0}
PROOF
BY HeadTailProperties

LEMMA AppendHolds ==
    ASSUME NEW S, NEW q \in Seq(S), NEW e \in S, NEW t
    PROVE  Holds(Append(q, e), t) <=> Holds(q, t) \/ e.type = t
PROOF
BY AppendFacts DEF Holds

LEMMA TailHolds ==
    ASSUME NEW S, NEW q \in Seq(S), q # <<>>, NEW t
    PROVE  Holds(q, t) <=> Holds(Tail(q), t) \/ Head(q).type = t
PROOF
<1>1. ASSUME NEW i \in DOMAIN q, q[i].type = t, Head(q).type # t
      PROVE  Holds(Tail(q), t)
  <2>1. i - 1 \in DOMAIN Tail(q) /\ Tail(q)[i - 1].type = t
    BY <1>1, TailFacts
  <2> QED
    BY <2>1 DEF Holds
<1>2. ASSUME NEW i \in DOMAIN Tail(q), Tail(q)[i].type = t
      PROVE  Holds(q, t)
  <2>1. i + 1 \in DOMAIN q /\ q[i + 1].type = t
    BY <1>2, TailFacts
  <2> QED
    BY <2>1 DEF Holds
<1>3. ASSUME Head(q).type = t
      PROVE  Holds(q, t)
  BY <1>3, TailFacts DEF Holds
<1> QED
  BY <1>1, <1>2, <1>3 DEF Holds

LEMMA AppendHoldsOnce ==
    ASSUME NEW S, NEW q \in Seq(S), NEW e \in S, NEW t,
           HoldsOnce(q, t), e.type = t => ~Holds(q, t)
    PROVE  HoldsOnce(Append(q, e), t)
PROOF
BY AppendFacts DEF Holds, HoldsOnce

LEMMA TailHoldsOnce ==
    ASSUME NEW S, NEW q \in Seq(S), q # <<>>, NEW t, HoldsOnce(q, t)
    PROVE  HoldsOnce(Tail(q), t) /\ (Head(q).type = t => ~Holds(Tail(q), t))
PROOF
<1>1. HoldsOnce(Tail(q), t)
  <2> SUFFICES ASSUME NEW i \in DOMAIN Tail(q), NEW j \in DOMAIN Tail(q),
                      Tail(q)[i].type = t, Tail(q)[j].type = t
               PROVE  i = j
    BY DEF HoldsOnce
  <2>1. i + 1 = j + 1
    BY TailFacts DEF HoldsOnce
  <2> QED
    BY <2>1, TailFacts
<1>2. ASSUME Head(q).type = t, NEW i \in DOMAIN Tail(q), Tail(q)[i].type = t
      PROVE  FALSE
  <2>1. 1 = i + 1
    BY <1>2, TailFacts DEF HoldsOnce
  <2> QED
    BY <2>1, TailFacts
<1> QED
  BY <1>1, <1>2 DEF Holds

LEMMA AppendBefore ==
    ASSUME NEW S, NEW q \in Seq(S), NEW e \in S, NEW s, NEW t, s # t,
           Before(q, s, t), e.type = s => ~Holds(q, t)
    PROVE  Before(Append(q, e), s, t)
PROOF
BY AppendFacts DEF Holds, Before

LEMMA TailBefore ==
    ASSUME NEW S, NEW q \in Seq(S), q # <<>>, NEW s, NEW t, s # t,
           Before(q, s, t)
    PROVE  Before(Tail(q), s, t) /\ (Head(q).type = t => ~Holds(q, s))
PROOF
<1>1. Before(Tail(q), s, t)
  <2> SUFFICES ASSUME NEW i \in DOMAIN Tail(q), NEW j \in DOMAIN Tail(q),
                      Tail(q)[i].type = s, Tail(q)[j].type = t
               PROVE  i < j
    BY DEF Before
  <2>1. i + 1 < j + 1
    BY TailFacts DEF Before
  <2> QED
    BY <2>1, TailFacts
<1>2. ASSUME Head(q).type = t, NEW i \in DOMAIN q, q[i].type = s
      PROVE  FALSE
  <2>1. i < 1
    BY <1>2, TailFacts DEF Before
  <2> QED
    BY <2>1, TailFacts
<1> QED
  BY <1>1, <1>2 DEF Holds

LEMMA AppendResponses ==
    ASSUME NEW S, NEW q \in Seq(S), NEW e \in S, NEW p,
           ResponsesFrom(q, p), e.type = "RESPONSE" => e.peer = p
    PROVE  ResponsesFrom(Append(q, e), p)
PROOF
BY AppendFacts DEF ResponsesFrom

LEMMA TailResponses ==
    ASSUME NEW S, NEW q \in Seq(S), q # <<>>, NEW p, ResponsesFrom(q, p)
    PROVE  /\ ResponsesFrom(Tail(q), p)
           /\ Head(q).type = "RESPONSE" => Head(q).peer = p
PROOF
BY TailFacts DEF ResponsesFrom

LEMMA NoResponses ==
    ASSUME NEW q, NEW p, ~Holds(q, "RESPONSE")
    PROVE  ResponsesFrom(q, p)
PROOF
BY DEF Holds, ResponsesFrom

------------------------------------------------------------------------------
\* A node that has just started satisfies all of it.
LEMMA InitIInv == Init => IInv
PROOF
<1> SUFFICES ASSUME Init
             PROVE  IInv
  OBVIOUS
<1>1. /\ evts = <<>> /\ evts \in Queue(Event, EvtDepth)
      /\ bleEvts = <<>>
      /\ bleEvts \in Queue({"CONNECTED", "DISCONNECTED"}, BleEvtDepth)
      /\ cmds = <<>>
      /\ cmds \in Queue(Command, CmdDepth)
  BY CardputerAssumption DEF Init, Queue
<1>2. TypeOK
  <2>1. MaxInbound \in Nat /\ MaxCalls \in Nat
    BY CardputerAssumption
  <2>2. /\ out \in [phase : {"IDLE", "HANDSHAKE", "CONFIRMED", "SYNCING"},
                    sync : BOOLEAN, pending : BOOLEAN,
                    target : Peer \cup {NoPeer}]
        /\ ~out.pending
    BY DEF Init, OutIdle
  <2>3. /\ resp \in [armed : BOOLEAN, done : BOOLEAN, link : 0 .. MaxInbound,
                     state : {"INIT", "AWAIT_CONFIRM", "DONE"}]
        /\ calls \in 0 .. MaxCalls
    BY <2>1 DEF Init, RespIdle
  <2>4. seen \in History /\ inlink \in [Link -> [up : BOOLEAN, says : Said]]
    BY DEF Init, SeenIdle, History, Said
  <2> QED
    BY <1>1, <2>2, <2>3, <2>4 DEF Init, TypeOK
<1>3. /\ \A t : ~Holds(evts, t) /\ HoldsOnce(evts, t)
      /\ \A s, t : Before(evts, s, t)
      /\ \A p : ResponsesFrom(evts, p)
  <2>1. evts \in Seq(Event) /\ Len(evts) = 0
    BY <1>1, EmptySeq
  <2>2. DOMAIN evts = 1 .. 0
    BY <2>1, LenProperties
  <2>3. \A i \in DOMAIN evts : FALSE
    BY <2>2
  <2> QED
    BY <2>3 DEF Holds, HoldsOnce, Before, ResponsesFrom
<1>4. AttemptAlive /\ OneAttempt /\ IdleBetween /\ OneAnswer
  BY <1>3
  DEF Init, AttemptAlive, OneAttempt, IdleBetween, OneAnswer, SeenFirst, NoLink,
      OutIdle, SeenIdle
<1>5. RecordsWhatItSynced /\ LastBleEvent /\ ThawsWhenAlone /\ ServedAfterRecord
  BY <1>1 DEF Init, RecordsWhatItSynced, LastBleEvent, ThawsWhenAlone,
              ServedAfterRecord, SeenIdle
<1>6. CentralSaid /\ OneInbound /\ Gate
  BY <1>1 DEF Init, CentralSaid, OneInbound, Gate, Awaited, RespIdle, Link
<1> QED
  BY <1>2, <1>4, <1>5, <1>6 DEF IInv

------------------------------------------------------------------------------
\* Queues keep their types: a post there is room for, and a tail.
LEMMA QueueTypes ==
    ASSUME NEW S, NEW depth \in Nat, NEW q \in Queue(S, depth)
    PROVE  /\ \A e \in S : Len(q) < depth => Append(q, e) \in Queue(S, depth)
           /\ q # <<>> => Tail(q) \in Queue(S, depth) /\ Head(q) \in S
           /\ q \in Seq(S)
PROOF
<1>1. q \in Seq(S) /\ Len(q) <= depth /\ Len(q) \in Nat
  BY DEF Queue
<1>2. ASSUME NEW e \in S, Len(q) < depth
      PROVE  Append(q, e) \in Queue(S, depth)
  BY <1>1, <1>2, AppendFacts DEF Queue
<1>3. ASSUME q # <<>>
      PROVE  Tail(q) \in Queue(S, depth) /\ Head(q) \in S
  <2>1. /\ Tail(q) \in Seq(S) /\ Head(q) \in S
        /\ Len(Tail(q)) = Len(q) - 1
    BY <1>1, <1>3, TailFacts
  <2> QED
    BY <1>1, <2>1 DEF Queue
<1> QED
  BY <1>1, <1>2, <1>3

\* The three queues under a step.
LEMMA Queues ==
    ASSUME TypeOK
    PROVE  /\ evts \in Seq(Event)
           /\ \A e \in Event : Len(evts) < EvtDepth =>
                 Append(evts, e) \in Queue(Event, EvtDepth)
           /\ evts # <<>> => /\ Tail(evts) \in Queue(Event, EvtDepth)
                             /\ Head(evts) \in Event
           /\ \A e \in {"CONNECTED", "DISCONNECTED"} :
                 Len(bleEvts) < BleEvtDepth =>
                 Append(bleEvts, e)
                    \in Queue({"CONNECTED", "DISCONNECTED"}, BleEvtDepth)
           /\ bleEvts # <<>> =>
                 Tail(bleEvts)
                    \in Queue({"CONNECTED", "DISCONNECTED"}, BleEvtDepth)
           /\ \A c \in Command : Len(cmds) < CmdDepth =>
                 Append(cmds, c) \in Queue(Command, CmdDepth)
           /\ cmds # <<>> => /\ Tail(cmds) \in Queue(Command, CmdDepth)
                             /\ Head(cmds) \in Command
PROOF
<1>1. EvtDepth \in Nat /\ BleEvtDepth \in Nat /\ CmdDepth \in Nat
  BY CardputerAssumption
<1>2. /\ evts \in Queue(Event, EvtDepth)
      /\ bleEvts \in Queue({"CONNECTED", "DISCONNECTED"}, BleEvtDepth)
      /\ cmds \in Queue(Command, CmdDepth)
  BY DEF TypeOK, Command
<1> QED
  BY <1>1, <1>2, QueueTypes

\* What may be posted, and which peer an event comes from.
LEMMA Events ==
    /\ \A p \in Peer : Evt("SEEN", p) \in Event /\ Evt("RESPONSE", p) \in Event
    /\ Evt("CONNECTED", NoPeer) \in Event
    /\ Evt("DISCONNECTED", NoPeer) \in Event
    /\ \A t, p : Evt(t, p).type = t /\ Evt(t, p).peer = p
    /\ \A e \in Event : e.type \in {"SEEN", "RESPONSE"} => e.peer \in Peer
PROOF
BY DEF Event, Evt

------------------------------------------------------------------------------
\* The history keeps its type.
LEMMA HistoryTypes ==
    ASSUME NEW h \in History, NEW b \in BOOLEAN
    PROVE  /\ [h EXCEPT !.dropped = b] \in History
           /\ [h EXCEPT !.overtaken = b] \in History
           /\ [h EXCEPT !.unasked = b] \in History
           /\ [h EXCEPT !.readvertised = b] \in History
           /\ \A p \in Peer : [h EXCEPT !.synced = @ \cup {p}] \in History
           /\ \A l \in Link : /\ [h EXCEPT !.recorded = @ \cup {l}] \in History
                              /\ [h EXCEPT !.served = @ \cup {l}] \in History
PROOF
BY DEF History

\* What the two posts do to the types.
LEMMA PostTypes ==
    ASSUME TypeOK, NEW e \in Event, Post(e)
    PROVE  evts' \in Queue(Event, EvtDepth) /\ seen' \in History
PROOF
<1>1. evts \in Queue(Event, EvtDepth) /\ seen \in History
  BY DEF TypeOK
<1>2. (seen.dropped \/ e.type # "SEEN") \in BOOLEAN
  OBVIOUS
<1>3. CASE Len(evts) < EvtDepth
  BY <1>1, <1>3, Queues DEF Post
<1>4. CASE ~(Len(evts) < EvtDepth)
  BY <1>1, <1>2, <1>4, HistoryTypes DEF Post
<1> QED
  BY <1>3, <1>4

LEMMA PostBleTypes ==
    ASSUME TypeOK, NEW e \in {"CONNECTED", "DISCONNECTED"}, NEW up \in BOOLEAN,
           PostBle(e, up)
    PROVE  /\ bleEvts' \in Queue({"CONNECTED", "DISCONNECTED"}, BleEvtDepth)
           /\ gIn' \in BOOLEAN
           /\ seen' \in History
PROOF
<1>1. /\ bleEvts \in Queue({"CONNECTED", "DISCONNECTED"}, BleEvtDepth)
      /\ seen \in History
  BY DEF TypeOK
<1>2. CASE Len(bleEvts) < BleEvtDepth
  BY <1>1, <1>2, Queues DEF PostBle
<1>3. CASE ~(Len(bleEvts) < BleEvtDepth)
  BY <1>1, <1>3, HistoryTypes DEF PostBle
<1> QED
  BY <1>2, <1>3

\* Every step of the host keeps the types.
LEMMA HostTypes ==
    ASSUME TypeOK, Host
    PROVE  TypeOK'
PROOF
<1>1. ASSUME NEW p \in Peer, SeePeer(p)
      PROVE  TypeOK'
  <2>1. evts' \in Queue(Event, EvtDepth) /\ seen' \in History
    BY <1>1, Events, PostTypes DEF SeePeer
  <2> QED
    BY <1>1, <2>1 DEF SeePeer, TypeOK, loopvars, central, peripheral
<1>2. CASE Respond
  <2>1. outlink \in [state : {"UP", "CLOSING"}, peer : Peer, asked : BOOLEAN]
    BY <1>2 DEF Respond, TypeOK, NoLink
  <2>2. Evt("RESPONSE", outlink.peer) \in Event
    BY <2>1, Events
  <2>3. evts \in Queue(Event, EvtDepth) /\ seen \in History
    BY DEF TypeOK
  <2>4. (seen.unasked \/ ~outlink.asked) \in BOOLEAN
    OBVIOUS
  <2>5. evts' \in Queue(Event, EvtDepth) /\ seen' \in History
    BY <1>2, <2>2, <2>3, <2>4, Queues, HistoryTypes DEF Respond
  <2>6. outlink' \in [state : {"UP", "CLOSING"}, peer : Peer, asked : BOOLEAN]
    BY <1>2, <2>1 DEF Respond
  <2> QED
    BY <1>2, <2>5, <2>6 DEF Respond, TypeOK, loopvars, peripheral
<1>3. CASE OutboundEnds
  <2>1. evts' \in Queue(Event, EvtDepth) /\ seen' \in History
    BY <1>3, Events, PostTypes DEF OutboundEnds
  <2> QED
    BY <1>3, <2>1 DEF OutboundEnds, TypeOK, loopvars, peripheral
<1>4. ASSUME NEW l \in Link, InboundUp(l)
      PROVE  TypeOK'
  <2>1. calls' \in 0 .. MaxCalls
    BY <1>4, CardputerAssumption DEF InboundUp, TypeOK
  <2>2. inlink' \in [Link -> [up : BOOLEAN, says : Said]]
    BY <1>4 DEF InboundUp, TypeOK, Said
  <2>3. /\ bleEvts' \in Queue({"CONNECTED", "DISCONNECTED"}, BleEvtDepth)
        /\ gIn' \in BOOLEAN
        /\ seen' \in History
    BY <1>4, PostBleTypes DEF InboundUp
  <2> QED
    BY <1>4, <2>1, <2>2, <2>3 DEF InboundUp, TypeOK, loopvars, central
<1>5. ASSUME NEW l \in Link, InboundEnds(l)
      PROVE  TypeOK'
  <2>1. inlink' \in [Link -> [up : BOOLEAN, says : Said]]
    BY <1>5 DEF InboundEnds, TypeOK, Said
  <2>2. /\ bleEvts' \in Queue({"CONNECTED", "DISCONNECTED"}, BleEvtDepth)
        /\ gIn' \in BOOLEAN
        /\ seen' \in History
    BY <1>5, PostBleTypes DEF InboundEnds
  <2> QED
    BY <1>5, <2>1, <2>2 DEF InboundEnds, TypeOK, loopvars, central
<1>6. ASSUME NEW l \in Link, PeerCommand(l)
      PROVE  TypeOK'
  <2>1. inlink' \in [Link -> [up : BOOLEAN, says : Said]]
    BY <1>6 DEF PeerCommand, TypeOK, Said
  <2>2. [type |-> inlink[l].says, link |-> l] \in Command
    BY <1>6 DEF PeerCommand, Command
  <2>3. cmds \in Queue(Command, CmdDepth)
    BY DEF TypeOK
  <2>4. cmds' \in Queue(Command, CmdDepth)
    BY <1>6, <2>2, <2>3, Queues DEF PeerCommand
  <2> QED
    BY <1>6, <2>1, <2>4 DEF PeerCommand, TypeOK, loopvars, central
<1> QED
  BY <1>1, <1>2, <1>3, <1>4, <1>5, <1>6 DEF Host

\* What consuming the event at the head leaves.
LEMMA ConsumedTypes ==
    ASSUME TypeOK, NEW t, AtHead(t), Consumed
    PROVE  /\ evts' \in Queue(Event, EvtDepth)
           /\ Head(evts) \in Event /\ Head(evts).type = t
           /\ evts # <<>>
           /\ pc = "CLIENT"
           /\ pc' \in {"CLIENT"}
           /\ UNCHANGED <<adv, gIn, inlink, bleEvts, cmds, scanning, calls>>
PROOF
BY Queues DEF AtHead, Consumed, peripheral

\* The link under the two calls of the loop.
LEMMA LinkTypes ==
    ASSUME TypeOK
    PROVE  /\ HangUp => outlink' \in {NoLink} \cup
                 [state : {"UP", "CLOSING"}, peer : Peer, asked : BOOLEAN]
           /\ SendOrHangUp => outlink' \in {NoLink} \cup
                 [state : {"UP", "CLOSING"}, peer : Peer, asked : BOOLEAN]
PROOF
<1>1. HangUp => outlink' \in {NoLink} \cup
          [state : {"UP", "CLOSING"}, peer : Peer, asked : BOOLEAN]
  BY DEF HangUp, TypeOK, NoLink
<1>2. ASSUME outlink' = [outlink EXCEPT !.asked = (@ \/ outlink.state = "UP")]
      PROVE  outlink' \in {NoLink} \cup
          [state : {"UP", "CLOSING"}, peer : Peer, asked : BOOLEAN]
  <2>1. CASE outlink = NoLink
    BY <1>2, <2>1 DEF NoLink
  <2>2. CASE outlink # NoLink
    <3>1. (outlink.asked \/ outlink.state = "UP") \in BOOLEAN
      OBVIOUS
    <3> QED
      BY <1>2, <2>2, <3>1 DEF TypeOK
  <2> QED
    BY <2>1, <2>2
<1> QED
  BY <1>1, <1>2 DEF SendOrHangUp

OutType == [phase : {"IDLE", "HANDSHAKE", "CONFIRMED", "SYNCING"},
            sync : BOOLEAN, pending : BOOLEAN, target : Peer \cup {NoPeer}]

LEMMA StartTypes ==
    ASSUME TypeOK, StartPeerSync
    PROVE  /\ out' \in OutType
           /\ out'.pending = out.pending /\ out'.target = out.target
           /\ inUse' \in BOOLEAN
           /\ outlink' \in {NoLink} \cup
                 [state : {"UP", "CLOSING"}, peer : Peer, asked : BOOLEAN]
PROOF
<1>1. out \in OutType /\ inUse \in BOOLEAN
  BY DEF TypeOK, OutType
<1>2. CASE inUse
  BY <1>1, <1>2, LinkTypes DEF StartPeerSync, OutType
<1>3. CASE ~inUse
  BY <1>1, <1>3, LinkTypes DEF StartPeerSync, OutType
<1> QED
  BY <1>2, <1>3

\* Every step of ble_client_process keeps the types.
LEMMA ClientTypes ==
    ASSUME TypeOK,
           \/ IgnorePeer \/ OnPeerSeen
           \/ ConnectFails \/ ConnectSucceeds \/ DiscoveryFails \/ Discovered
           \/ OnConnected \/ OnAccept \/ OnAck
           \/ OnSyncGoesOn \/ OnStrayResponse \/ OnDisconnected
           \/ \E result \in {"SUCCESS", "FAILED"} : OnSyncOver(result)
    PROVE  TypeOK'
PROOF
<1>1. CASE IgnorePeer
  BY <1>1, ConsumedTypes DEF IgnorePeer, TypeOK, loopvars
<1>2. CASE OnPeerSeen
  <2>1. /\ Head(evts) \in Event /\ Head(evts).type = "SEEN"
        /\ evts' \in Queue(Event, EvtDepth)
    BY <1>2, Queues DEF OnPeerSeen, AtHead
  <2>2. Head(evts).peer \in Peer
    BY <2>1, Events
  <2>3. /\ out' \in OutType /\ out'.target = Head(evts).peer /\ out'.pending
    BY <1>2, <2>2 DEF OnPeerSeen, TypeOK, OutType
  <2>4. calls' \in 0 .. MaxCalls
    BY <1>2, CardputerAssumption DEF OnPeerSeen, TypeOK
  <2>5. /\ adv' \in [active : BOOLEAN, on : BOOLEAN]
        /\ pc' \in {"CLIENT", "CONNECT"} /\ scanning' \in BOOLEAN
    BY <1>2 DEF OnPeerSeen, AtHead, TypeOK
  <2> QED
    BY <1>2, <2>1, <2>2, <2>3, <2>4, <2>5
    DEF OnPeerSeen, TypeOK, OutType, peripheral
<1>3. CASE ConnectFails
  <2>1. evts' \in Queue(Event, EvtDepth) /\ seen' \in History
    BY <1>3, Events, PostTypes DEF ConnectFails
  <2> QED
    BY <1>3, <2>1 DEF ConnectFails, Blocked, TypeOK, loopvars, peripheral
<1>4. CASE ConnectSucceeds
  <2>1. out.target \in Peer
    BY <1>4 DEF ConnectSucceeds, Blocked, TypeOK
  <2>2. outlink' \in {NoLink} \cup
            [state : {"UP", "CLOSING"}, peer : Peer, asked : BOOLEAN]
    BY <1>4, <2>1 DEF ConnectSucceeds
  <2> QED
    BY <1>4, <2>2 DEF ConnectSucceeds, Blocked, TypeOK, loopvars, peripheral
<1>5. CASE DiscoveryFails
  <2>1. outlink' \in {NoLink} \cup
            [state : {"UP", "CLOSING"}, peer : Peer, asked : BOOLEAN]
    <3>1. CASE outlink.state = "UP"
      BY <1>5, <3>1 DEF DiscoveryFails, TypeOK, NoLink
    <3>2. CASE outlink.state # "UP"
      <4>1. outlink' = outlink
        BY <1>5, <3>2 DEF DiscoveryFails, TypeOK, NoLink
      <4> QED
        BY <4>1 DEF TypeOK
    <3> QED
      BY <3>1, <3>2
  <2> QED
    BY <1>5, <2>1 DEF DiscoveryFails, Blocked, TypeOK, loopvars, peripheral
<1>6. CASE Discovered
  <2>1. evts \in Queue(Event, EvtDepth) /\ seen \in History
    BY DEF TypeOK
  <2>2. (seen.overtaken \/ outlink.state = "NONE") \in BOOLEAN
    OBVIOUS
  <2>3. evts' \in Queue(Event, EvtDepth) /\ seen' \in History
    BY <1>6, <2>1, <2>2, Events, Queues, HistoryTypes DEF Discovered
  <2>4. client' \in [connected : BOOLEAN, peerCmd : BOOLEAN]
    BY <1>6 DEF Discovered
  <2> QED
    BY <1>6, <2>3, <2>4 DEF Discovered, Blocked, TypeOK, loopvars, peripheral
<1>7. CASE OnConnected
  <2>1. /\ out' \in OutType /\ inUse' \in BOOLEAN
        /\ out'.pending = out.pending /\ out'.target = out.target
        /\ outlink' \in {NoLink} \cup
              [state : {"UP", "CLOSING"}, peer : Peer, asked : BOOLEAN]
    <3>1. CASE client.peerCmd
      BY <1>7, <3>1, LinkTypes DEF OnConnected, TypeOK, OutType
    <3>2. CASE ~client.peerCmd
      BY <1>7, <3>2, StartTypes DEF OnConnected
    <3> QED
      BY <3>1, <3>2
  <2> QED
    BY <1>7, <2>1, ConsumedTypes DEF OnConnected, TypeOK, OutType
<1>8. CASE OnAccept
  <2>1. /\ out' \in OutType
        /\ out'.pending = out.pending /\ out'.target = out.target
        /\ outlink' \in {NoLink} \cup
              [state : {"UP", "CLOSING"}, peer : Peer, asked : BOOLEAN]
    BY <1>8, LinkTypes DEF OnAccept, TypeOK, OutType
  <2> QED
    BY <1>8, <2>1, ConsumedTypes DEF OnAccept, TypeOK, OutType
<1>9. CASE OnAck
  BY <1>9, StartTypes, ConsumedTypes DEF OnAck, TypeOK, OutType
<1>10. CASE OnSyncGoesOn
  BY <1>10, LinkTypes, ConsumedTypes DEF OnSyncGoesOn, TypeOK
<1>11. CASE OnStrayResponse
  BY <1>11, ConsumedTypes DEF OnStrayResponse, TypeOK, loopvars
<1>12. CASE OnDisconnected
  <2>1. out' \in OutType /\ ~out'.pending
    BY <1>12 DEF OnDisconnected, OutType, OutIdle
  <2>2. (inUse /\ ~out.sync) \in BOOLEAN
    OBVIOUS
  <2> QED
    BY <1>12, <2>1, <2>2, ConsumedTypes DEF OnDisconnected, TypeOK, OutType
<1>13. ASSUME NEW result \in {"SUCCESS", "FAILED"}, OnSyncOver(result)
       PROVE  TypeOK'
  <2>1. Head(evts).peer \in Peer
    BY <1>13, ConsumedTypes, Events DEF OnSyncOver
  <2>2. seen \in History
    BY DEF TypeOK
  <2>3. seen' \in History
    BY <1>13, <2>1, <2>2, HistoryTypes DEF OnSyncOver
  <2>4. out' \in OutType /\ ~out'.pending
    BY <1>13 DEF OnSyncOver, TypeOK, OutType
  <2>5. table' \in [Peer -> {"NONE", "SUCCESS", "FAILED"}]
    BY <1>13 DEF OnSyncOver, TypeOK
  <2> QED
    BY <1>13, <2>3, <2>4, <2>5, LinkTypes, ConsumedTypes
    DEF OnSyncOver, TypeOK, OutType
<1> QED
  BY <1>1, <1>2, <1>3, <1>4, <1>5, <1>6, <1>7, <1>8, <1>9, <1>10, <1>11,
     <1>12, <1>13


------------------------------------------------------------------------------
RespType == [armed : BOOLEAN, done : BOOLEAN, link : 0 .. MaxInbound,
             state : {"INIT", "AWAIT_CONFIRM", "DONE"}]

\* What the session is when a command is taken, and what an answer tells the
\* Centrals.
LEMMA SessionTypes ==
    ASSUME TypeOK
    PROVE  Armed \in RespType /\ Session \in RespType
PROOF
<1>1. resp \in RespType /\ 0 \in 0 .. MaxInbound
  BY CardputerAssumption DEF TypeOK, RespType
<1>2. Armed \in RespType
  BY <1>1 DEF Armed, RespType
<1> QED
  BY <1>1, <1>2 DEF Session

LEMMA AnswerTypes ==
    ASSUME TypeOK, NEW a, Answer(a)
    PROVE  inlink' \in [Link -> [up : BOOLEAN, says : Said]]
PROOF
<1>1. \A l \in Link : Notified(l, inlink[l].says, a) \in Said
  BY DEF TypeOK, Notified, Said
<1> QED
  BY <1>1 DEF Answer, TypeOK

\* Every step of ble_process and of process_pending_peer_commands keeps the
\* types.
LEMMA ServerTypes ==
    ASSUME TypeOK,
           \/ OnInboundConnect \/ OnInboundDisconnect
           \/ TakePropose \/ TakeConfirm \/ ServeCommand \/ RefuseCommand
    PROVE  TypeOK'
PROOF
<1>1. Armed \in RespType /\ Session \in RespType /\ RespIdle \in RespType
  BY SessionTypes, CardputerAssumption DEF RespIdle, RespType
<1>2. seen \in History
  BY DEF TypeOK
<1>3. CASE OnInboundConnect
  BY <1>1, <1>3, Queues
  DEF OnInboundConnect, TypeOK, RespType, central, peripheral
<1>4. CASE OnInboundDisconnect
  BY <1>1, <1>4, Queues
  DEF OnInboundDisconnect, TypeOK, RespType, central, peripheral
<1>5. ASSUME PeerCommandAtHand,
             resp' \in RespType, seen' \in History, NEW a, Answer(a)
      PROVE  TypeOK'
  <2>1. /\ inlink' \in [Link -> [up : BOOLEAN, says : Said]]
        /\ cmds' \in Queue(Command, CmdDepth)
    BY <1>5, AnswerTypes, Queues DEF PeerCommandAtHand
  <2> QED
    BY <1>5, <2>1 DEF PeerCommandAtHand, TypeOK, RespType, central
<1>6. PeerCommandAtHand => Head(cmds).link \in Link
  BY Queues DEF PeerCommandAtHand, Command
<1>7. CASE TakePropose
  <2>1. PeerCommandAtHand /\ Head(cmds).link \in 0 .. MaxInbound
    BY <1>6, <1>7, CardputerAssumption DEF TakePropose, Link
  <2>2. resp' = [Session EXCEPT !.state = "AWAIT_CONFIRM",
                                !.link = Head(cmds).link]
    BY <1>7 DEF TakePropose
  <2>3. resp' \in RespType
    BY <1>1, <2>1, <2>2 DEF RespType
  <2> QED
    BY <1>2, <1>5, <1>7, <2>3 DEF TakePropose
<1>8. CASE TakeConfirm
  <2>1. resp' \in RespType
    BY <1>1, <1>8 DEF TakeConfirm, RespType
  <2>2. seen' \in History
    BY <1>2, <1>6, <1>8, HistoryTypes DEF TakeConfirm
  <2> QED
    BY <1>5, <1>8, <2>1, <2>2 DEF TakeConfirm
<1>9. CASE ServeCommand
  <2>1. resp' \in RespType
    BY <1>1, <1>9 DEF ServeCommand
  <2>2. seen' \in History /\ \E a : Answer(a)
    BY <1>2, <1>6, <1>9, HistoryTypes DEF ServeCommand
  <2> QED
    BY <1>5, <1>9, <2>1, <2>2 DEF ServeCommand
<1>10. CASE RefuseCommand
  BY <1>1, <1>2, <1>5, <1>10 DEF RefuseCommand
<1> QED
  BY <1>3, <1>4, <1>7, <1>8, <1>9, <1>10

\* Type correctness is preserved by every step.
LEMMA TypeStep ==
    ASSUME TypeOK, [Next]_vars
    PROVE  TypeOK'
PROOF
<1>1. CASE EndOfStage
  BY <1>1 DEF EndOfStage, TypeOK, loopvars, central, peripheral
<1>2. CASE NoFlip
  BY <1>2 DEF NoFlip, Tick, TypeOK, peripheral
<1>3. CASE FlipToAdvertising
  <2>1. seen \in History
    BY DEF TypeOK
  <2>2. (seen.readvertised
           \/ (~adv.active /\ \E l \in Link : inlink[l].up)) \in BOOLEAN
    OBVIOUS
  <2>3. seen' \in History
    BY <1>3, <2>1, <2>2, HistoryTypes DEF FlipToAdvertising
  <2>4. adv' \in [active : BOOLEAN, on : BOOLEAN]
    <3>1. CASE adv.active
      BY <1>3, <3>1 DEF FlipToAdvertising, TypeOK
    <3>2. CASE ~adv.active
      BY <1>3, <3>2 DEF FlipToAdvertising
    <3> QED
      BY <3>1, <3>2
  <2>5. /\ pc' = "BLE" /\ mesh' = "ADVERTISING" /\ scanning' \in BOOLEAN
        /\ UNCHANGED <<out, inUse, table, resp, client, outlink, calls, evts,
                       bleEvts, gIn, inlink, cmds>>
    BY <1>3 DEF FlipToAdvertising, Tick, peripheral
  <2> QED
    BY <2>3, <2>4, <2>5 DEF TypeOK
<1>4. CASE FlipToScanning
  <2>1. adv' \in [active : BOOLEAN, on : BOOLEAN]
    BY <1>4 DEF FlipToScanning, TypeOK
  <2> QED
    BY <1>4, <2>1 DEF FlipToScanning, Tick, TypeOK, peripheral
<1>5. CASE UNCHANGED vars
  BY <1>5 DEF vars, TypeOK
<1> QED
  BY <1>1, <1>2, <1>3, <1>4, <1>5, HostTypes, ClientTypes, ServerTypes
  DEF Next, Loop


------------------------------------------------------------------------------
\* What may follow from a post: the queue has grown by e, or it is as it was.
LEMMA Grows ==
    ASSUME TypeOK, NEW e \in Event, evts' = Append(evts, e) \/ evts' = evts
    PROVE  /\ \A t : Holds(evts, t) => Holds(evts', t)
           /\ \A t : Holds(evts', t) => Holds(evts, t) \/ t = e.type
           /\ \A t : HoldsOnce(evts, t) /\ (t = e.type => ~Holds(evts, t))
                     => HoldsOnce(evts', t)
           /\ \A s, t : s # t /\ Before(evts, s, t)
                        /\ (s = e.type => ~Holds(evts, t))
                        => Before(evts', s, t)
           /\ \A p : ResponsesFrom(evts, p)
                     /\ (e.type = "RESPONSE" => e.peer = p)
                     => ResponsesFrom(evts', p)
PROOF
<1>1. CASE evts' = Append(evts, e)
  BY <1>1, Queues, AppendHolds, AppendHoldsOnce, AppendBefore, AppendResponses
<1>2. CASE evts' = evts
  BY <1>2
<1> QED
  BY <1>1, <1>2

\* What follows from the consumption of the head, an event of type h.
LEMMA Shrinks ==
    ASSUME TypeOK, NEW h, AtHead(h), evts' = Tail(evts)
    PROVE  /\ Holds(evts, h)
           /\ \A t : Holds(evts', t) => Holds(evts, t)
           /\ \A t : Holds(evts, t) => Holds(evts', t) \/ t = h
           /\ \A t : HoldsOnce(evts, t) =>
                 HoldsOnce(evts', t) /\ (h = t => ~Holds(evts', t))
           /\ \A s, t : s # t /\ Before(evts, s, t) =>
                 Before(evts', s, t) /\ (h = t => ~Holds(evts, s))
           /\ \A p : ResponsesFrom(evts, p) =>
                 /\ ResponsesFrom(evts', p)
                 /\ h = "RESPONSE" => Head(evts).peer = p
PROOF
<1>1. evts \in Seq(Event) /\ evts # <<>> /\ Head(evts).type = h
  BY Queues DEF AtHead
<1>2. \A t : Holds(evts, t) <=> Holds(evts', t) \/ h = t
  BY <1>1, TailHolds
<1>3. \A t : HoldsOnce(evts, t) =>
             HoldsOnce(evts', t) /\ (h = t => ~Holds(evts', t))
  BY <1>1, TailHoldsOnce
<1>4. \A s, t : s # t /\ Before(evts, s, t) =>
             Before(evts', s, t) /\ (h = t => ~Holds(evts, s))
  BY <1>1, TailBefore
<1>5. \A p : ResponsesFrom(evts, p) =>
             /\ ResponsesFrom(evts', p)
             /\ h = "RESPONSE" => Head(evts).peer = p
  BY <1>1, TailResponses
<1> QED
  BY <1>2, <1>3, <1>4, <1>5

\* The history is as it was, but for drops.
KeepsHistory ==
    /\ seen'.synced = seen.synced /\ seen'.recorded = seen.recorded
    /\ seen'.served = seen.served
    /\ seen'.overtaken = seen.overtaken /\ seen'.unasked = seen.unasked
    /\ seen'.readvertised = seen.readvertised
    /\ ~seen'.dropped => ~seen.dropped

\* What post does.
LEMMA PostFacts ==
    ASSUME TypeOK, NEW e \in Event, Post(e)
    PROVE  /\ evts' = Append(evts, e) \/ evts' = evts
           /\ KeepsHistory
           /\ ~seen'.dropped /\ e.type # "SEEN" => Holds(evts', e.type)
PROOF
<1>1. seen \in History /\ evts \in Seq(Event)
  BY Queues DEF TypeOK
<1>2. CASE Len(evts) < EvtDepth
  BY <1>1, <1>2, AppendHolds DEF Post, KeepsHistory
<1>3. CASE ~(Len(evts) < EvtDepth)
  BY <1>1, <1>3 DEF Post, KeepsHistory, History
<1> QED
  BY <1>2, <1>3

LEMMA RespondFacts ==
    ASSUME TypeOK, Respond
    PROVE  /\ Evt("RESPONSE", outlink.peer) \in Event
           /\ outlink.state # "NONE"
           /\ \/ evts' = Append(evts, Evt("RESPONSE", outlink.peer))
              \/ evts' = evts
           /\ outlink'.state = outlink.state /\ outlink'.peer = outlink.peer
           /\ ~outlink'.asked
           /\ seen'.synced = seen.synced /\ seen'.overtaken = seen.overtaken
           /\ seen'.recorded = seen.recorded /\ seen'.served = seen.served
           /\ seen'.readvertised = seen.readvertised
           /\ ~seen'.dropped => ~seen.dropped
           /\ ~seen'.unasked => ~seen.unasked
           /\ evts' # evts /\ ~seen'.unasked => outlink.asked
PROOF
<1>1. outlink \in [state : {"UP", "CLOSING"}, peer : Peer, asked : BOOLEAN]
  BY DEF Respond, TypeOK, NoLink
<1>2. Evt("RESPONSE", outlink.peer) \in Event
  BY <1>1, Events
<1>3. seen \in History
  BY DEF TypeOK
<1>4. /\ outlink'.state = outlink.state /\ outlink'.peer = outlink.peer
      /\ ~outlink'.asked /\ outlink.state # "NONE"
  BY <1>1 DEF Respond
<1>5. CASE Len(evts) < EvtDepth
  BY <1>2, <1>3, <1>4, <1>5 DEF Respond, History
<1>6. CASE ~(Len(evts) < EvtDepth)
  BY <1>2, <1>3, <1>4, <1>6 DEF Respond, History
<1> QED
  BY <1>5, <1>6

LEMMA DiscoveredFacts ==
    ASSUME TypeOK, Discovered
    PROVE  /\ evts' = Append(evts, Evt("CONNECTED", NoPeer)) \/ evts' = evts
           /\ seen'.synced = seen.synced /\ seen'.unasked = seen.unasked
           /\ seen'.recorded = seen.recorded /\ seen'.served = seen.served
           /\ seen'.readvertised = seen.readvertised
           /\ ~seen'.dropped => ~seen.dropped
           /\ ~seen'.overtaken => ~seen.overtaken
           /\ evts' # evts /\ ~seen'.overtaken => outlink.state # "NONE"
           /\ client'.connected
PROOF
<1>1. seen \in History
  BY DEF TypeOK
<1>2. client'.connected
  BY DEF Discovered
<1>3. CASE Len(evts) < EvtDepth
  <2>1. /\ evts' = Append(evts, Evt("CONNECTED", NoPeer))
        /\ seen' = [seen EXCEPT !.overtaken =
                                  @ \/ outlink.state = "NONE"]
    BY <1>3 DEF Discovered
  <2>2. (seen.overtaken \/ outlink.state = "NONE") \in BOOLEAN
    OBVIOUS
  <2> QED
    BY <1>1, <1>2, <2>1, <2>2 DEF History
<1>4. CASE ~(Len(evts) < EvtDepth)
  BY <1>1, <1>2, <1>4 DEF Discovered, History
<1> QED
  BY <1>3, <1>4

\* The steps of the Peripheral leave the Central and main.cpp's attempt alone.
PeripheralStep ==
    \/ \E l \in Link : InboundUp(l) \/ InboundEnds(l) \/ PeerCommand(l)
    \/ OnInboundConnect \/ OnInboundDisconnect
    \/ TakePropose \/ TakeConfirm \/ ServeCommand \/ RefuseCommand

LEMMA PeripheralFrame ==
    ASSUME TypeOK, PeripheralStep
    PROVE  /\ UNCHANGED <<pc, scanning, evts, client, outlink, out, inUse,
                          table>>
           /\ seen'.synced = seen.synced /\ seen'.overtaken = seen.overtaken
           /\ seen'.unasked = seen.unasked
           /\ seen'.readvertised = seen.readvertised
           /\ ~seen'.dropped => ~seen.dropped
PROOF
<1>1. seen \in History
  BY DEF TypeOK
<1>2. ASSUME NEW type, NEW up, PostBle(type, up)
      PROVE  /\ seen'.synced = seen.synced /\ seen'.overtaken = seen.overtaken
             /\ seen'.unasked = seen.unasked
             /\ seen'.readvertised = seen.readvertised
             /\ ~seen'.dropped => ~seen.dropped
  BY <1>1, <1>2 DEF PostBle, History
<1>3. ASSUME NEW l \in Link, InboundUp(l) \/ InboundEnds(l) \/ PeerCommand(l)
      PROVE  UNCHANGED <<pc, scanning, evts, client, outlink, out, inUse,
                         table>>
  BY <1>3 DEF InboundUp, InboundEnds, PeerCommand, loopvars, central
<1>4. ASSUME NEW l \in Link, InboundUp(l) \/ InboundEnds(l) \/ PeerCommand(l)
      PROVE  (\E type, up : PostBle(type, up)) \/ UNCHANGED seen
  BY <1>4 DEF InboundUp, InboundEnds, PeerCommand
<1>5. CASE OnInboundConnect \/ OnInboundDisconnect
  BY <1>5 DEF OnInboundConnect, OnInboundDisconnect, central
<1>6. CASE TakePropose \/ TakeConfirm \/ ServeCommand \/ RefuseCommand
  <2>1. UNCHANGED <<pc, scanning, evts, client, outlink, out, inUse, table>>
    BY <1>6 DEF TakePropose, TakeConfirm, ServeCommand, RefuseCommand,
                PeerCommandAtHand, central
  <2>2. \/ UNCHANGED seen
        \/ \E l : \/ seen' = [seen EXCEPT !.recorded = @ \cup {l}]
                  \/ seen' = [seen EXCEPT !.served = @ \cup {l}]
    BY <1>6 DEF TakePropose, TakeConfirm, ServeCommand, RefuseCommand
  <2> QED
    BY <1>1, <2>1, <2>2 DEF History
<1> QED
  BY <1>2, <1>3, <1>4, <1>5, <1>6 DEF PeripheralStep


\* HangUp, send_outbound and start_peer_sync keep the link, or its absence.
LEMMA LinkFacts ==
    ASSUME TypeOK, HangUp \/ SendOrHangUp \/ StartPeerSync
    PROVE  /\ outlink'.state = "NONE" <=> outlink.state = "NONE"
           /\ outlink'.peer = outlink.peer
           /\ outlink'.asked =>
                 outlink.asked \/ (outlink.state # "NONE" /\ client.connected)
           /\ HangUp /\ outlink'.asked => outlink.asked
PROOF
<1>1. outlink = NoLink
      \/ outlink \in [state : {"UP", "CLOSING"}, peer : Peer, asked : BOOLEAN]
  BY DEF TypeOK
<1>2. outlink \in [state : {"NONE", "UP", "CLOSING"},
                   peer : Peer \cup {NoPeer}, asked : BOOLEAN]
  <2>1. CASE outlink = NoLink
    BY <2>1 DEF NoLink
  <2>2. CASE outlink # NoLink
    BY <1>1, <2>2
  <2> QED
    BY <2>1, <2>2
<1>3. CASE HangUp
  BY <1>2, <1>3 DEF HangUp
<1>4. CASE /\ client.connected
           /\ outlink' = [outlink EXCEPT !.asked = (@ \/ outlink.state = "UP")]
  <2>1. (outlink.asked \/ outlink.state = "UP") \in BOOLEAN
    OBVIOUS
  <2>2. HangUp /\ outlink'.asked => outlink.asked
    BY <1>2 DEF HangUp
  <2> QED
    BY <1>2, <1>4, <2>1, <2>2
<1>5. SendOrHangUp => \/ HangUp
                      \/ /\ client.connected
                         /\ outlink' = [outlink EXCEPT !.asked =
                                          (@ \/ outlink.state = "UP")]
  BY DEF SendOrHangUp
<1>6. StartPeerSync => HangUp \/ SendOrHangUp
  BY DEF StartPeerSync
<1> QED
  BY <1>3, <1>4, <1>5, <1>6

\* The handlers of a Connected and of a response.
Handler(h) ==
    \/ h = "CONNECTED" /\ OnConnected
    \/ /\ h = "RESPONSE"
       /\ \/ OnAccept \/ OnAck \/ OnSyncGoesOn \/ OnStrayResponse
          \/ \E result \in {"SUCCESS", "FAILED"} : OnSyncOver(result)

LEMMA HandlerFacts ==
    ASSUME TypeOK, NEW h, Handler(h)
    PROVE  /\ AtHead(h) /\ evts' = Tail(evts) /\ pc = "CLIENT"
           /\ UNCHANGED <<pc, client, scanning>>
           /\ outlink'.state = "NONE" <=> outlink.state = "NONE"
           /\ outlink'.peer = outlink.peer
           /\ outlink'.asked =>
                 outlink.asked \/ (outlink.state # "NONE" /\ client.connected)
           /\ out'.pending => out.pending
           /\ \/ out'.pending = out.pending
              \/ /\ h = "RESPONSE" /\ out.phase = "SYNCING"
                 /\ outlink'.asked => outlink.asked
           /\ out'.target = out.target
           /\ seen'.dropped = seen.dropped
           /\ seen'.overtaken = seen.overtaken
           /\ seen'.unasked = seen.unasked
PROOF
<1>1. out \in OutType /\ seen \in History
  BY DEF TypeOK, OutType
<1>2. CASE h = "CONNECTED" /\ OnConnected
  <2>1. /\ AtHead(h) /\ Consumed /\ UNCHANGED <<client, seen>>
        /\ \/ out' = [out EXCEPT !.phase = "HANDSHAKE"] /\ SendOrHangUp
           \/ out' = out /\ HangUp
           \/ StartPeerSync
    BY <1>2 DEF OnConnected
  <2>2. out'.pending = out.pending /\ out'.target = out.target
    BY <1>1, <2>1, StartTypes DEF OutType
  <2> QED
    BY <2>1, <2>2, LinkFacts DEF Consumed, AtHead
<1>3. CASE h = "RESPONSE" /\ OnAccept
  <2>1. /\ AtHead(h) /\ Consumed /\ UNCHANGED <<client, seen>>
        /\ HangUp \/ SendOrHangUp
        /\ out' = out \/ out' = [out EXCEPT !.phase = "CONFIRMED"]
    BY <1>3 DEF OnAccept
  <2> QED
    BY <1>1, <2>1, LinkFacts DEF Consumed, AtHead, OutType
<1>4. CASE h = "RESPONSE" /\ OnAck
  <2>1. AtHead(h) /\ Consumed /\ UNCHANGED <<client, seen>> /\ StartPeerSync
    BY <1>4 DEF OnAck
  <2> QED
    BY <2>1, LinkFacts, StartTypes DEF Consumed, AtHead
<1>5. CASE h = "RESPONSE" /\ OnSyncGoesOn
  <2>1. AtHead(h) /\ Consumed /\ UNCHANGED <<client, seen, out>>
        /\ SendOrHangUp
    BY <1>5 DEF OnSyncGoesOn
  <2> QED
    BY <2>1, LinkFacts DEF Consumed, AtHead
<1>6. CASE h = "RESPONSE" /\ OnStrayResponse
  BY <1>6 DEF OnStrayResponse, Consumed, AtHead, loopvars
<1>7. ASSUME h = "RESPONSE", NEW result, OnSyncOver(result)
      PROVE  /\ AtHead(h) /\ Consumed /\ UNCHANGED client /\ HangUp
             /\ out' = [out EXCEPT !.pending = FALSE]
             /\ out.phase = "SYNCING"
             /\ \/ seen' = seen
                \/ \E p : seen' = [seen EXCEPT !.synced = @ \cup {p}]
  BY <1>7 DEF OnSyncOver
<1>8. CASE h = "RESPONSE" /\ \E result \in {"SUCCESS", "FAILED"} :
               OnSyncOver(result)
  <2>1. /\ out'.target = out.target /\ ~out'.pending
        /\ seen'.dropped = seen.dropped /\ seen'.overtaken = seen.overtaken
        /\ seen'.unasked = seen.unasked
    BY <1>1, <1>7, <1>8 DEF OutType, History
  <2> QED
    BY <1>7, <1>8, <2>1, LinkFacts DEF Consumed, AtHead
<1> QED
  BY <1>2, <1>3, <1>4, <1>5, <1>6, <1>8 DEF Handler

\* Every step is of one of these kinds.
TickStep == NoFlip \/ FlipToAdvertising \/ FlipToScanning

LEMMA Steps ==
    ASSUME [Next]_vars
    PROVE  \/ PeripheralStep \/ EndOfStage \/ TickStep \/ UNCHANGED vars
           \/ \E p \in Peer : SeePeer(p)
           \/ Respond \/ OutboundEnds
           \/ IgnorePeer \/ OnPeerSeen
           \/ ConnectFails \/ ConnectSucceeds \/ DiscoveryFails \/ Discovered
           \/ \E h \in {"CONNECTED", "RESPONSE"} : Handler(h)
           \/ OnDisconnected
PROOF
BY DEF Next, Host, Loop, PeripheralStep, TickStep, Handler

\* What the flip leaves alone.
LEMMA TickFacts ==
    ASSUME TypeOK, TickStep
    PROVE  /\ pc = "TICK" /\ pc' = "BLE"
           /\ UNCHANGED <<out, inUse, table, resp, client, outlink, evts,
                          bleEvts, inlink, cmds>>
           /\ scanning' => scanning \/ mesh # "CONNECTED"
           /\ seen'.synced = seen.synced /\ seen'.dropped = seen.dropped
           /\ seen'.overtaken = seen.overtaken /\ seen'.unasked = seen.unasked
           /\ seen'.recorded = seen.recorded /\ seen'.served = seen.served
PROOF
<1>1. seen \in History
  BY DEF TypeOK
<1>2. Tick /\ (scanning' => scanning \/ mesh # "CONNECTED")
  BY DEF TickStep, NoFlip, FlipToAdvertising, FlipToScanning
<1>3. UNCHANGED seen \/ \E b : seen' = [seen EXCEPT !.readvertised = b]
  BY DEF TickStep, NoFlip, FlipToAdvertising, FlipToScanning
<1> QED
  BY <1>1, <1>2, <1>3 DEF Tick, peripheral, History

------------------------------------------------------------------------------
\* An attempt is not lost.
LEMMA AttemptAliveStep ==
    ASSUME TypeOK, AttemptAlive, [Next]_vars
    PROVE  AttemptAlive'
PROOF
<1>1. ASSUME NEW p \in Peer, SeePeer(p)
      PROVE  AttemptAlive'
  <2>1. /\ KeepsHistory
        /\ \A t : Holds(evts, t) => Holds(evts', t)
    BY <1>1, Events, PostFacts, Grows DEF SeePeer
  <2> QED
    BY <1>1, <2>1 DEF SeePeer, AttemptAlive, KeepsHistory, loopvars, central
<1>2. CASE Respond
  <2>1. \A t : Holds(evts, t) => Holds(evts', t)
    BY <1>2, RespondFacts, Grows
  <2> QED
    BY <1>2, <2>1, RespondFacts DEF Respond, AttemptAlive, loopvars
<1>3. CASE OutboundEnds
  <2>1. ~seen'.dropped => Holds(evts', "DISCONNECTED")
    BY <1>3, Events, PostFacts DEF OutboundEnds
  <2> QED
    BY <2>1 DEF AttemptAlive
<1>4. CASE PeripheralStep
  BY <1>4, PeripheralFrame DEF AttemptAlive
<1>5. CASE EndOfStage
  BY <1>5 DEF EndOfStage, AttemptAlive, loopvars, central
<1>6. CASE IgnorePeer
  <2>1. Holds(evts, "DISCONNECTED") => Holds(evts', "DISCONNECTED")
    BY <1>6, Shrinks DEF IgnorePeer, Consumed
  <2> QED
    BY <1>6, <2>1 DEF IgnorePeer, Consumed, AttemptAlive, loopvars
<1>7. CASE OnPeerSeen
  <2>1. Holds(evts, "DISCONNECTED") => Holds(evts', "DISCONNECTED")
    BY <1>7, Shrinks DEF OnPeerSeen
  <2> QED
    BY <1>7, <2>1 DEF OnPeerSeen, AtHead, AttemptAlive
<1>8. CASE ConnectFails
  <2>1. ~seen'.dropped => Holds(evts', "DISCONNECTED")
    BY <1>8, Events, PostFacts DEF ConnectFails
  <2> QED
    BY <2>1 DEF AttemptAlive
<1>9. CASE ConnectSucceeds
  BY <1>9 DEF ConnectSucceeds, AttemptAlive
<1>10. CASE DiscoveryFails
  <2>1. outlink'.state = "NONE" => outlink.state = "NONE"
    BY <1>10 DEF DiscoveryFails, TypeOK, NoLink
  <2> QED
    BY <1>10, <2>1 DEF DiscoveryFails, Blocked, AttemptAlive
<1>11. CASE Discovered
  <2>1. Holds(evts, "DISCONNECTED") => Holds(evts', "DISCONNECTED")
    BY <1>11, DiscoveredFacts, Events, Grows
  <2> QED
    BY <1>11, <2>1, DiscoveredFacts DEF Discovered, Blocked, AttemptAlive
<1>12. ASSUME NEW h \in {"CONNECTED", "RESPONSE"}, Handler(h)
       PROVE  AttemptAlive'
  <2>1. Holds(evts, "DISCONNECTED") => Holds(evts', "DISCONNECTED")
    BY <1>12, HandlerFacts, Shrinks
  <2> QED
    BY <1>12, <2>1, HandlerFacts DEF AttemptAlive
<1>13. CASE OnDisconnected
  BY <1>13 DEF OnDisconnected, AtHead, Consumed, AttemptAlive, OutIdle
<1>14. CASE TickStep
  BY <1>14, TickFacts DEF AttemptAlive
<1>15. CASE UNCHANGED vars
  BY <1>15 DEF vars, AttemptAlive
<1> QED
  BY <1>1, <1>2, <1>3, <1>4, <1>5, <1>6, <1>7, <1>8, <1>9, <1>10, <1>11,
     <1>12, <1>13, <1>14, <1>15, Steps


------------------------------------------------------------------------------
LEMMA EmptyHolds ==
    ASSUME NEW q, q = <<>>
    PROVE  \A t : ~Holds(q, t)
PROOF
<1>1. q \in Seq({}) /\ Len(q) = 0
  BY EmptySeq
<1>2. DOMAIN q = 1 .. 0
  BY <1>1, LenProperties
<1> QED
  BY <1>2 DEF Holds

LEMMA NoBefore ==
    ASSUME NEW q, NEW t, ~Holds(q, t)
    PROVE  \A s : Before(q, s, t)
PROOF
BY DEF Holds, Before

\* There is one attempt, and one connection of the Central, at a time.
LEMMA OneAttemptStep ==
    ASSUME TypeOK, OneAttempt, IdleBetween, OneAnswer, [Next]_vars
    PROVE  OneAttempt'
PROOF
<1>1. ASSUME NEW p \in Peer, SeePeer(p)
      PROVE  OneAttempt'
  <2>1. /\ scanning /\ KeepsHistory
        /\ UNCHANGED <<pc, scanning, client, outlink, out>>
    BY <1>1, Events, PostFacts DEF SeePeer, loopvars, central
  <2>2. evts' = Append(evts, Evt("SEEN", p)) \/ evts' = evts
    BY <1>1, Events, PostFacts DEF SeePeer
  <2> QED
    BY <2>1, <2>2, Events, Grows DEF OneAttempt, SeenFirst, KeepsHistory
<1>2. CASE Respond
  <2>1. UNCHANGED <<pc, scanning, client, out>>
    BY <1>2 DEF Respond, loopvars
  <2> QED
    BY <1>2, <2>1, RespondFacts, Events, Grows DEF OneAttempt, SeenFirst
<1>3. CASE OutboundEnds
  <2>1. /\ UNCHANGED <<pc, scanning, client, out>>
        /\ outlink.state # "NONE" /\ outlink'.state = "NONE"
    BY <1>3 DEF OutboundEnds, loopvars, NoLink
  <2>2. /\ KeepsHistory
        /\ evts' = Append(evts, Evt("DISCONNECTED", NoPeer)) \/ evts' = evts
    BY <1>3, Events, PostFacts DEF OutboundEnds
  <2> QED
    BY <2>1, <2>2, Events, Grows DEF OneAttempt, SeenFirst, KeepsHistory
<1>4. CASE PeripheralStep
  BY <1>4, PeripheralFrame DEF OneAttempt
<1>5. CASE EndOfStage
  <2>1. /\ UNCHANGED <<scanning, evts, client, outlink, out, seen>>
        /\ pc' \in {"CLIENT", "PEER", "TICK"}
        /\ pc = "CLIENT" => evts = <<>>
    BY <1>5 DEF EndOfStage, loopvars, central
  <2> QED
    BY <2>1, EmptyHolds DEF OneAttempt
<1>6. CASE IgnorePeer
  <2>1. /\ UNCHANGED <<pc, scanning, client, outlink, out, seen>>
        /\ AtHead("SEEN") /\ evts' = Tail(evts)
    BY <1>6 DEF IgnorePeer, Consumed, loopvars
  <2> QED
    BY <2>1, Shrinks DEF OneAttempt, SeenFirst
<1>7. CASE OnPeerSeen
  <2>1. /\ UNCHANGED <<client, outlink, seen>>
        /\ AtHead("SEEN") /\ evts' = Tail(evts)
        /\ pc = "CLIENT" /\ ~out.pending
    BY <1>7 DEF OnPeerSeen, AtHead
  <2>2. out'.pending
    BY <1>7 DEF OnPeerSeen, TypeOK
  <2>3. CASE client.connected
    <3>1. UNCHANGED <<pc, scanning>>
      BY <1>7, <2>3 DEF OnPeerSeen
    <3> QED
      BY <2>1, <2>2, <2>3, <3>1, Shrinks DEF OneAttempt, SeenFirst
  <2>4. CASE ~client.connected
    <3>1. pc' = "CONNECT" /\ ~scanning'
      BY <1>7, <2>4 DEF OnPeerSeen
    <3> QED
      BY <2>1, <2>2, <2>4, <3>1, Shrinks DEF OneAttempt
  <2> QED
    BY <2>3, <2>4
<1>8. CASE ConnectFails
  <2>1. /\ UNCHANGED <<scanning, client, outlink, out>>
        /\ pc = "CONNECT" /\ pc' = "CLIENT"
    BY <1>8 DEF ConnectFails, Blocked, loopvars
  <2>2. /\ KeepsHistory
        /\ evts' = Append(evts, Evt("DISCONNECTED", NoPeer)) \/ evts' = evts
    BY <1>8, Events, PostFacts DEF ConnectFails
  <2> QED
    BY <2>1, <2>2, Events, Grows DEF OneAttempt, SeenFirst, KeepsHistory
<1>9. CASE ConnectSucceeds
  <2>1. /\ UNCHANGED <<scanning, client, out, evts, seen>>
        /\ pc = "CONNECT" /\ pc' = "DISCOVER"
        /\ outlink'.state = "UP"
    BY <1>9 DEF ConnectSucceeds, Blocked, loopvars
  <2> QED
    BY <2>1, NoBefore DEF OneAttempt, SeenFirst
<1>10. CASE DiscoveryFails
  <2>1. /\ UNCHANGED <<scanning, client, out, evts, seen>>
        /\ pc = "DISCOVER" /\ pc' = "CLIENT"
        /\ outlink'.state = "NONE" <=> outlink.state = "NONE"
    BY <1>10 DEF DiscoveryFails, Blocked, loopvars, TypeOK, NoLink
  <2> QED
    BY <2>1 DEF OneAttempt
<1>11. CASE Discovered
  <2>1. /\ UNCHANGED <<scanning, outlink, out>>
        /\ pc = "DISCOVER" /\ pc' = "CLIENT"
    BY <1>11 DEF Discovered, Blocked, loopvars
  <2> QED
    BY <1>11, <2>1, DiscoveredFacts, Events, Grows DEF OneAttempt, SeenFirst
<1>12. ASSUME NEW h \in {"CONNECTED", "RESPONSE"}, Handler(h)
       PROVE  OneAttempt'
  <2>1. ~(seen.overtaken /\ seen.unasked) =>
           out'.pending = out.pending \/ client.connected
    BY <1>12, HandlerFacts, Shrinks DEF IdleBetween, OneAnswer
  <2> QED
    BY <1>12, <2>1, HandlerFacts, Shrinks DEF OneAttempt, SeenFirst
<1>13. CASE OnDisconnected
  <2>1. /\ UNCHANGED <<pc, scanning, outlink, seen>>
        /\ AtHead("DISCONNECTED") /\ evts' = Tail(evts) /\ pc = "CLIENT"
        /\ ~client'.connected /\ ~out'.pending
    BY <1>13 DEF OnDisconnected, Consumed, AtHead, OutIdle
  <2> QED
    BY <2>1, Shrinks DEF OneAttempt, SeenFirst
<1>14. CASE TickStep
  BY <1>14, TickFacts DEF OneAttempt
<1>15. CASE UNCHANGED vars
  BY <1>15 DEF vars, OneAttempt
<1> QED
  BY <1>1, <1>2, <1>3, <1>4, <1>5, <1>6, <1>7, <1>8, <1>9, <1>10, <1>11,
     <1>12, <1>13, <1>14, <1>15, Steps


------------------------------------------------------------------------------
\* A response that ends a sync, and what it records.
LEMMA SyncOverFacts ==
    ASSUME TypeOK, NEW result \in {"SUCCESS", "FAILED"}, OnSyncOver(result)
    PROVE  /\ UNCHANGED <<client, inUse>>
           /\ out'.phase = out.phase /\ out'.sync = out.sync
           /\ AtHead("RESPONSE") /\ evts' = Tail(evts)
           /\ table' = [table EXCEPT ![out.target] = result]
           /\ seen'.unasked = seen.unasked /\ seen'.overtaken = seen.overtaken
           /\ IF result = "SUCCESS"
              THEN seen'.synced = seen.synced \cup {Head(evts).peer}
              ELSE seen'.synced = seen.synced
PROOF
<1>1. out \in OutType /\ seen \in History
  BY DEF TypeOK, OutType
<1>2. /\ UNCHANGED <<client, inUse>>
      /\ out' = [out EXCEPT !.pending = FALSE]
      /\ AtHead("RESPONSE") /\ evts' = Tail(evts)
      /\ table' = [table EXCEPT ![out.target] = result]
  BY DEF OnSyncOver, Consumed
<1>3. out'.phase = out.phase /\ out'.sync = out.sync
  BY <1>1, <1>2 DEF OutType
<1>4. CASE result = "SUCCESS"
  <2>1. seen' = [seen EXCEPT !.synced = @ \cup {Head(evts).peer}]
    BY <1>4 DEF OnSyncOver
  <2> QED
    BY <1>1, <1>2, <1>3, <1>4, <2>1 DEF History
<1>5. CASE result # "SUCCESS"
  <2>1. seen' = seen
    BY <1>5 DEF OnSyncOver
  <2> QED
    BY <1>2, <1>3, <1>5, <2>1
<1> QED
  BY <1>4, <1>5

\* start_peer_sync, called with no session of its own.
LEMMA StartFacts ==
    ASSUME TypeOK, StartPeerSync, ~out.sync, inUse = out.sync
    PROVE  out'.phase = "SYNCING" /\ inUse' = out'.sync
PROOF
BY DEF StartPeerSync, TypeOK

\* main.cpp is idle between connections and holds the session of peer_sync.
LEMMA IdleBetweenStep ==
    ASSUME TypeOK, OneAttempt, IdleBetween, [Next]_vars
    PROVE  IdleBetween'
PROOF
<1>1. ASSUME NEW p \in Peer, SeePeer(p)
      PROVE  IdleBetween'
  <2>1. /\ KeepsHistory
        /\ UNCHANGED <<client, out, inUse>>
        /\ evts' = Append(evts, Evt("SEEN", p)) \/ evts' = evts
    BY <1>1, Events, PostFacts DEF SeePeer, loopvars, central
  <2> QED
    BY <2>1, Events, Grows DEF IdleBetween, KeepsHistory
<1>2. CASE Respond
  <2>1. UNCHANGED <<client, out, inUse>>
    BY <1>2 DEF Respond, loopvars
  <2> QED
    BY <1>2, <2>1, RespondFacts, Events, Grows DEF IdleBetween
<1>3. CASE OutboundEnds \/ ConnectFails
  <2>1. /\ KeepsHistory
        /\ UNCHANGED <<client, out, inUse>>
        /\ evts' = Append(evts, Evt("DISCONNECTED", NoPeer)) \/ evts' = evts
    BY <1>3, Events, PostFacts DEF OutboundEnds, ConnectFails, Blocked, loopvars
  <2> QED
    BY <2>1, Events, Grows DEF IdleBetween, KeepsHistory
<1>4. CASE PeripheralStep
  BY <1>4, PeripheralFrame DEF IdleBetween
<1>5. CASE EndOfStage \/ ConnectSucceeds \/ DiscoveryFails
  <2>1. UNCHANGED <<client, out, inUse, evts, seen>>
    BY <1>5 DEF EndOfStage, ConnectSucceeds, DiscoveryFails, Blocked, loopvars,
                central
  <2> QED
    BY <2>1 DEF IdleBetween
<1>6. CASE IgnorePeer
  <2>1. /\ UNCHANGED <<client, out, inUse, seen>>
        /\ AtHead("SEEN") /\ evts' = Tail(evts)
    BY <1>6 DEF IgnorePeer, Consumed, loopvars
  <2> QED
    BY <2>1, Shrinks DEF IdleBetween
<1>7. CASE OnPeerSeen
  <2>1. /\ UNCHANGED <<client, inUse, seen>>
        /\ AtHead("SEEN") /\ evts' = Tail(evts)
    BY <1>7 DEF OnPeerSeen
  <2>2. out'.phase = out.phase /\ out'.sync = out.sync
    BY <1>7 DEF OnPeerSeen, TypeOK
  <2> QED
    BY <2>1, <2>2, Shrinks DEF IdleBetween
<1>8. CASE Discovered
  <2>1. UNCHANGED <<out, inUse, outlink>> /\ pc = "DISCOVER"
    BY <1>8 DEF Discovered, Blocked, loopvars
  <2> QED
    BY <1>8, <2>1, DiscoveredFacts, Events, Grows DEF IdleBetween, OneAttempt
<1>9. CASE OnConnected
  <2>1. /\ UNCHANGED <<client, seen>>
        /\ AtHead("CONNECTED") /\ evts' = Tail(evts)
    BY <1>9 DEF OnConnected, Consumed
  <2>2. ~seen.overtaken =>
           /\ ~Holds(evts', "CONNECTED")
           /\ client.connected /\ ~out.sync
           /\ Before(evts', "CONNECTED", "DISCONNECTED")
    BY <2>1, Shrinks DEF IdleBetween, OneAttempt
  <2>3. CASE client.peerCmd
    <3>1. /\ out' = out \/ out'.phase = "HANDSHAKE"
          /\ out'.sync = out.sync /\ inUse' = inUse
      BY <1>9, <2>3 DEF OnConnected, TypeOK
    <3> QED
      BY <2>1, <2>2, <3>1 DEF IdleBetween
  <2>4. CASE ~client.peerCmd
    <3>1. StartPeerSync
      BY <1>9, <2>4 DEF OnConnected
    <3> QED
      BY <2>1, <2>2, <3>1, StartFacts DEF IdleBetween
  <2> QED
    BY <2>3, <2>4
<1>10. CASE OnAccept
  <2>1. /\ UNCHANGED <<client, seen, inUse>>
        /\ AtHead("RESPONSE") /\ evts' = Tail(evts)
        /\ out.phase = "HANDSHAKE"
    BY <1>10 DEF OnAccept, Consumed
  <2>2. (out' = out) \/ (out'.phase = "CONFIRMED" /\ out'.sync = out.sync)
    BY <1>10 DEF OnAccept, TypeOK
  <2> QED
    BY <2>1, <2>2, Shrinks DEF IdleBetween
<1>11. CASE OnAck
  <2>1. /\ UNCHANGED <<client, seen>>
        /\ AtHead("RESPONSE") /\ evts' = Tail(evts)
        /\ out.phase = "CONFIRMED" /\ StartPeerSync
    BY <1>11 DEF OnAck, Consumed
  <2> QED
    BY <2>1, StartFacts, Shrinks DEF IdleBetween
<1>12. CASE OnSyncGoesOn \/ OnStrayResponse
  <2>1. /\ UNCHANGED <<client, seen, inUse, out>>
        /\ AtHead("RESPONSE") /\ evts' = Tail(evts)
    BY <1>12 DEF OnSyncGoesOn, OnStrayResponse, Consumed, loopvars
  <2> QED
    BY <2>1, Shrinks DEF IdleBetween
<1>13. ASSUME NEW result \in {"SUCCESS", "FAILED"}, OnSyncOver(result)
       PROVE  IdleBetween'
  BY <1>13, SyncOverFacts, Shrinks DEF IdleBetween
<1>14. CASE OnDisconnected
  <2>1. /\ UNCHANGED seen
        /\ AtHead("DISCONNECTED") /\ evts' = Tail(evts)
        /\ ~client'.connected
        /\ out'.phase = "IDLE" /\ ~out'.sync /\ out'.sync = FALSE
        /\ inUse = out.sync => inUse' = FALSE
    BY <1>14 DEF OnDisconnected, Consumed, OutIdle
  <2> QED
    BY <2>1, Shrinks DEF IdleBetween
<1>15. CASE TickStep
  BY <1>15, TickFacts DEF IdleBetween
<1>16. CASE UNCHANGED vars
  BY <1>16 DEF vars, IdleBetween
<1> QED
  BY <1>1, <1>2, <1>3, <1>4, <1>5, <1>6, <1>7, <1>8, <1>9, <1>10, <1>11,
     <1>12, <1>13, <1>14, <1>15, <1>16, Steps DEF Handler


------------------------------------------------------------------------------
\* The response under way is the one that was asked for.
LEMMA OneAnswerStep ==
    ASSUME TypeOK, OneAttempt, OneAnswer, [Next]_vars
    PROVE  OneAnswer'
PROOF
<1>1. ASSUME NEW p \in Peer, SeePeer(p)
      PROVE  OneAnswer'
  <2>1. /\ KeepsHistory
        /\ UNCHANGED <<pc, client, out, outlink>>
        /\ evts' = Append(evts, Evt("SEEN", p)) \/ evts' = evts
    BY <1>1, Events, PostFacts DEF SeePeer, loopvars, central
  <2> QED
    BY <2>1, Events, Grows DEF OneAnswer, KeepsHistory
<1>2. CASE Respond
  <2>1. UNCHANGED <<pc, client, out>>
    BY <1>2 DEF Respond, loopvars
  <2>2. CASE evts' = evts
    BY <1>2, <2>1, <2>2, RespondFacts DEF OneAnswer
  <2>3. CASE evts' # evts
    BY <1>2, <2>1, <2>3, RespondFacts, Events, Grows DEF OneAnswer
  <2> QED
    BY <2>2, <2>3
<1>3. CASE OutboundEnds
  <2>1. /\ KeepsHistory
        /\ UNCHANGED <<pc, client, out>>
        /\ evts' = Append(evts, Evt("DISCONNECTED", NoPeer)) \/ evts' = evts
    BY <1>3, Events, PostFacts DEF OutboundEnds, loopvars
  <2>2. outlink'.state = "NONE" /\ ~outlink'.asked
    BY <1>3 DEF OutboundEnds, NoLink
  <2> QED
    BY <2>1, <2>2, Events, Grows DEF OneAnswer, KeepsHistory
<1>4. CASE PeripheralStep
  BY <1>4, PeripheralFrame DEF OneAnswer
<1>5. CASE EndOfStage
  <2>1. /\ UNCHANGED <<client, out, outlink, evts, seen>>
        /\ pc' \in {"CLIENT", "PEER", "TICK"}
    BY <1>5 DEF EndOfStage, loopvars, central
  <2> QED
    BY <2>1 DEF OneAnswer
<1>6. CASE IgnorePeer
  <2>1. /\ UNCHANGED <<pc, client, out, outlink, seen>>
        /\ AtHead("SEEN") /\ evts' = Tail(evts)
    BY <1>6 DEF IgnorePeer, Consumed, loopvars
  <2> QED
    BY <2>1, Shrinks DEF OneAnswer
<1>7. CASE OnPeerSeen
  <2>1. /\ UNCHANGED <<client, outlink, seen>>
        /\ AtHead("SEEN") /\ evts' = Tail(evts)
        /\ pc = "CLIENT" /\ ~out.pending
        /\ pc' = pc \/ pc' = "CONNECT"
    BY <1>7 DEF OnPeerSeen, AtHead
  <2>2. ~seen.unasked => ~Holds(evts', "CONNECTED")
    BY <2>1, Shrinks DEF OneAttempt
  <2>3. ~seen.unasked => ~Holds(evts', "RESPONSE") /\ ~outlink.asked
    BY <2>1, Shrinks DEF OneAnswer
  <2> QED
    BY <2>1, <2>2, <2>3, Shrinks, NoResponses DEF OneAnswer
<1>8. CASE ConnectFails
  <2>1. /\ KeepsHistory
        /\ UNCHANGED <<client, out, outlink>>
        /\ pc' = "CLIENT" /\ pc = "CONNECT"
        /\ evts' = Append(evts, Evt("DISCONNECTED", NoPeer)) \/ evts' = evts
    BY <1>8, Events, PostFacts DEF ConnectFails, Blocked, loopvars
  <2> QED
    BY <2>1, Events, Grows DEF OneAnswer, KeepsHistory
<1>9. CASE ConnectSucceeds
  <2>1. /\ UNCHANGED <<client, out, evts, seen>>
        /\ pc = "CONNECT" /\ pc' = "DISCOVER"
        /\ ~outlink'.asked /\ outlink'.peer = out.target
    BY <1>9 DEF ConnectSucceeds, Blocked, loopvars
  <2>2. ~seen.unasked => ~Holds(evts, "RESPONSE") /\ out.pending
    BY <2>1 DEF OneAttempt
  <2> QED
    BY <2>1, <2>2 DEF OneAnswer
<1>10. CASE DiscoveryFails
  <2>1. /\ UNCHANGED <<client, out, evts, seen>>
        /\ pc = "DISCOVER" /\ pc' = "CLIENT"
        /\ outlink'.state = "NONE" <=> outlink.state = "NONE"
    BY <1>10 DEF DiscoveryFails, Blocked, loopvars, TypeOK, NoLink
  <2>2. outlink'.asked = outlink.asked /\ outlink'.peer = outlink.peer
    BY <1>10 DEF DiscoveryFails, TypeOK, NoLink
  <2> QED
    BY <2>1, <2>2 DEF OneAnswer
<1>11. CASE Discovered
  <2>1. /\ UNCHANGED <<outlink, out>>
        /\ pc = "DISCOVER" /\ pc' = "CLIENT"
    BY <1>11 DEF Discovered, Blocked, loopvars
  <2>2. ~seen.unasked => ~client.connected
    BY <2>1 DEF OneAttempt
  <2> QED
    BY <1>11, <2>1, <2>2, DiscoveredFacts, Events, Grows DEF OneAnswer
<1>12. CASE Handler("CONNECTED")
  <2>1. ~seen.unasked => ~Holds(evts', "CONNECTED")
    BY <1>12, HandlerFacts, Shrinks DEF OneAttempt
  <2> QED
    BY <1>12, <2>1, HandlerFacts, Shrinks DEF OneAnswer
<1>13. CASE Handler("RESPONSE")
  BY <1>13, HandlerFacts, Shrinks DEF OneAnswer
<1>14. CASE OnDisconnected
  <2>1. /\ UNCHANGED <<pc, outlink, seen>>
        /\ AtHead("DISCONNECTED") /\ evts' = Tail(evts) /\ pc = "CLIENT"
    BY <1>14 DEF OnDisconnected, Consumed, AtHead
  <2>2. ~seen.unasked =>
           ~Holds(evts', "RESPONSE") /\ outlink.state = "NONE"
    BY <2>1, Shrinks DEF OneAttempt
  <2> QED
    BY <2>1, <2>2, Shrinks, NoResponses DEF OneAnswer
<1>15. CASE TickStep
  BY <1>15, TickFacts DEF OneAnswer
<1>16. CASE UNCHANGED vars
  BY <1>16 DEF vars, OneAnswer
<1> QED
  BY <1>1, <1>2, <1>3, <1>4, <1>5, <1>6, <1>7, <1>8, <1>9, <1>10, <1>11,
     <1>12, <1>13, <1>14, <1>15, <1>16, Steps

\* A success in the table is a sync with that peer.
LEMMA RecordsStep ==
    ASSUME TypeOK, OneAnswer, RecordsWhatItSynced, [Next]_vars
    PROVE  RecordsWhatItSynced'
PROOF
<1>1. ASSUME UNCHANGED table, seen'.synced = seen.synced,
             ~seen'.unasked => ~seen.unasked
      PROVE  RecordsWhatItSynced'
  BY <1>1 DEF RecordsWhatItSynced
<1>2. ASSUME NEW p \in Peer, SeePeer(p)
      PROVE  RecordsWhatItSynced'
  BY <1>1, <1>2, Events, PostFacts DEF SeePeer, KeepsHistory, loopvars
<1>3. CASE Respond
  BY <1>1, <1>3, RespondFacts DEF Respond, loopvars
<1>4. CASE OutboundEnds \/ ConnectFails
  BY <1>1, <1>4, Events, PostFacts
  DEF OutboundEnds, ConnectFails, Blocked, KeepsHistory, loopvars
<1>5. CASE PeripheralStep
  BY <1>1, <1>5, PeripheralFrame
<1>6. CASE EndOfStage \/ ConnectSucceeds \/ DiscoveryFails \/ IgnorePeer
           \/ OnPeerSeen \/ OnConnected \/ OnAccept \/ OnAck \/ OnSyncGoesOn
           \/ OnStrayResponse
  BY <1>1, <1>6
  DEF EndOfStage, ConnectSucceeds, DiscoveryFails, IgnorePeer, OnPeerSeen,
      OnConnected, OnAccept, OnAck, OnSyncGoesOn, OnStrayResponse, Blocked,
      loopvars
<1>7. CASE Discovered
  BY <1>1, <1>7, DiscoveredFacts DEF Discovered, Blocked, loopvars
<1>8. ASSUME NEW result \in {"SUCCESS", "FAILED"}, OnSyncOver(result)
      PROVE  RecordsWhatItSynced'
  <2>1. ~seen.unasked => Head(evts).peer = out.target
    BY <1>8, SyncOverFacts, Shrinks DEF OneAnswer
  <2>2. \A p \in Peer :
           table'[p] = IF p = out.target THEN result ELSE table[p]
    BY <1>8, SyncOverFacts DEF TypeOK
  <2> QED
    BY <1>8, <2>1, <2>2, SyncOverFacts DEF RecordsWhatItSynced
<1>9. CASE OnDisconnected
  <2>1. \A p \in Peer : table'[p] = "SUCCESS" => table[p] = "SUCCESS"
    BY <1>9 DEF OnDisconnected, TypeOK
  <2> QED
    BY <1>9, <2>1 DEF OnDisconnected, RecordsWhatItSynced
<1>10. CASE TickStep
  BY <1>1, <1>10, TickFacts
<1>11. CASE UNCHANGED vars
  BY <1>1, <1>11 DEF vars
<1> QED
  BY <1>2, <1>3, <1>4, <1>5, <1>6, <1>7, <1>8, <1>9, <1>10, <1>11, Steps
  DEF Handler


------------------------------------------------------------------------------
\* The steps of the Central, and main.cpp's on its side, leave the Peripheral
\* alone but for the radio's advertising, which a connect stops.
CentralStep ==
    \/ \E p \in Peer : SeePeer(p)
    \/ Respond \/ OutboundEnds
    \/ IgnorePeer \/ OnPeerSeen
    \/ ConnectFails \/ ConnectSucceeds \/ DiscoveryFails \/ Discovered
    \/ \E h \in {"CONNECTED", "RESPONSE"} : Handler(h)
    \/ OnDisconnected

LEMMA CentralFrame ==
    ASSUME TypeOK, CentralStep
    PROVE  /\ UNCHANGED <<bleEvts, gIn, inlink, cmds, resp>>
           /\ adv'.active = adv.active
           /\ adv'.on => adv.on
           /\ pc' = "BLE" <=> pc = "BLE"
           /\ seen'.recorded = seen.recorded /\ seen'.served = seen.served
           /\ seen'.readvertised = seen.readvertised
           /\ ~seen'.dropped => ~seen.dropped
PROOF
<1>1. seen \in History /\ adv \in [active : BOOLEAN, on : BOOLEAN]
  BY DEF TypeOK
<1>2. ASSUME NEW p \in Peer, SeePeer(p)
      PROVE  /\ UNCHANGED <<bleEvts, gIn, inlink, cmds, resp, adv, pc>>
             /\ KeepsHistory
  BY <1>2, Events, PostFacts DEF SeePeer, loopvars, peripheral
<1>3. CASE Respond
  BY <1>3, RespondFacts DEF Respond, loopvars, peripheral
<1>4. CASE OutboundEnds
  BY <1>4, Events, PostFacts DEF OutboundEnds, KeepsHistory, loopvars,
                                 peripheral
<1>5. CASE IgnorePeer \/ OnDisconnected
  BY <1>5 DEF IgnorePeer, OnDisconnected, Consumed, loopvars, peripheral
<1>6. CASE OnPeerSeen
  <2>1. /\ UNCHANGED <<bleEvts, gIn, inlink, cmds, resp, seen>>
        /\ adv' = adv \/ adv' = [adv EXCEPT !.on = FALSE]
        /\ pc = "CLIENT" /\ pc' \in {"CLIENT", "CONNECT"}
    BY <1>6 DEF OnPeerSeen, AtHead, peripheral
  <2> QED
    BY <1>1, <2>1
<1>7. CASE ConnectFails
  BY <1>7, Events, PostFacts
  DEF ConnectFails, Blocked, KeepsHistory, loopvars, peripheral
<1>8. CASE ConnectSucceeds \/ DiscoveryFails
  BY <1>8 DEF ConnectSucceeds, DiscoveryFails, Blocked, loopvars, peripheral
<1>9. CASE Discovered
  BY <1>9, DiscoveredFacts DEF Discovered, Blocked, loopvars, peripheral
<1>10. ASSUME NEW h \in {"CONNECTED", "RESPONSE"}, Handler(h)
       PROVE  /\ UNCHANGED <<bleEvts, gIn, inlink, cmds, resp, adv, pc>>
              /\ \/ seen' = seen
                 \/ \E p : seen' = [seen EXCEPT !.synced = @ \cup {p}]
  BY <1>10 DEF Handler, OnConnected, OnAccept, OnAck, OnSyncGoesOn,
               OnStrayResponse, OnSyncOver, Consumed, loopvars, peripheral
<1>11. CASE \E h \in {"CONNECTED", "RESPONSE"} : Handler(h)
  BY <1>1, <1>10, <1>11 DEF History
<1> QED
  BY <1>2, <1>3, <1>4, <1>5, <1>6, <1>7, <1>8, <1>9, <1>11
  DEF CentralStep, KeepsHistory

\* The steps of the Peripheral, and all the others.
PeerCommandStep == TakePropose \/ TakeConfirm \/ ServeCommand \/ RefuseCommand

LEMMA Kinds ==
    ASSUME [Next]_vars
    PROVE  \/ CentralStep \/ EndOfStage \/ TickStep \/ UNCHANGED vars
           \/ \E l \in Link : InboundUp(l) \/ InboundEnds(l) \/ PeerCommand(l)
           \/ OnInboundConnect \/ OnInboundDisconnect
           \/ PeerCommandStep
PROOF
BY Steps DEF CentralStep, PeripheralStep, PeerCommandStep

\* What a Central makes of an answer.
LEMMA NotifiedFacts ==
    ASSUME NEW l, NEW s \in Said, NEW a
    PROVE  /\ Notified(l, s, a) \in Said
           /\ \A x \in {"NEW", "GONE", "PROPOSE"} :
                 Notified(l, s, a) = x <=> s = x
           /\ s = "CLOSING" => Notified(l, s, a) = "CLOSING"
           /\ s = "AWAIT_ACCEPT" =>
                 Notified(l, s, a) \in {"CONFIRM", "CLOSING"}
           /\ Notified(l, s, a) = "CONFIRM" =>
                 \/ s = "CONFIRM"
                 \/ s = "AWAIT_ACCEPT" /\ a = <<"ACCEPT", l>>
PROOF
BY DEF Notified, Said

LEMMA AnswerFacts ==
    ASSUME TypeOK, NEW a, Answer(a), NEW l \in Link
    PROVE  /\ inlink'[l].up = inlink[l].up
           /\ \A x \in {"NEW", "GONE", "PROPOSE"} :
                 inlink'[l].says = x <=> inlink[l].says = x
           /\ inlink[l].says = "CLOSING" => inlink'[l].says = "CLOSING"
           /\ inlink[l].says = "AWAIT_ACCEPT" =>
                 inlink'[l].says \in {"AWAIT_ACCEPT", "CONFIRM", "CLOSING"}
           /\ inlink'[l].says = "CONFIRM" =>
                 \/ inlink[l].says = "CONFIRM"
                 \/ inlink[l].says = "AWAIT_ACCEPT" /\ a = <<"ACCEPT", l>>
PROOF
<1>1. inlink[l] \in [up : BOOLEAN, says : Said] /\ inlink[l].says \in Said
  BY DEF TypeOK
<1>2. CASE inlink' = inlink
  BY <1>2
<1>3. CASE inlink' # inlink
  <2>1. inlink' = [k \in Link |->
                      [inlink[k] EXCEPT !.says = Notified(k, @, a)]]
    BY <1>3 DEF Answer
  <2>2. /\ inlink'[l].up = inlink[l].up
        /\ inlink'[l].says = Notified(l, inlink[l].says, a)
    BY <1>1, <2>1
  <2> QED
    BY <1>1, <2>2, NotifiedFacts
<1> QED
  BY <1>2, <1>3

\* What a step of process_pending_peer_commands does to the queue and to the
\* history.
LEMMA PeerCommandFacts ==
    ASSUME TypeOK, PeerCommandStep
    PROVE  /\ cmds # <<>> /\ cmds' = Tail(cmds) /\ cmds \in Seq(Command)
           /\ pc = "PEER"
           /\ UNCHANGED <<pc, mesh, adv, bleEvts>>
           /\ \A l \in Link : inlink'[l].up = inlink[l].up
           /\ seen'.dropped = seen.dropped
           /\ seen'.readvertised = seen.readvertised
PROOF
<1>1. seen \in History /\ cmds \in Queue(Command, CmdDepth)
  BY DEF TypeOK
<1>2. PeerCommandAtHand /\ \E a : Answer(a)
  BY DEF PeerCommandStep, TakePropose, TakeConfirm, ServeCommand, RefuseCommand
<1>3. \/ UNCHANGED seen
      \/ \E l : \/ seen' = [seen EXCEPT !.recorded = @ \cup {l}]
                \/ seen' = [seen EXCEPT !.served = @ \cup {l}]
  BY DEF PeerCommandStep, TakePropose, TakeConfirm, ServeCommand, RefuseCommand
<1>4. seen'.dropped = seen.dropped /\ seen'.readvertised = seen.readvertised
  BY <1>1, <1>3 DEF History
<1>5. cmds \in Seq(Command)
  BY <1>1 DEF Queue
<1> QED
  BY <1>2, <1>4, <1>5, AnswerFacts DEF PeerCommandAtHand


------------------------------------------------------------------------------
BleEvent == {"CONNECTED", "DISCONNECTED"}

\* What PostBle does when nothing is dropped, and what consuming a head does.
LEMMA PostBleFacts ==
    ASSUME TypeOK, NEW e \in BleEvent, NEW up, PostBle(e, up), ~seen'.dropped
    PROVE  /\ UNCHANGED seen
           /\ bleEvts' # <<>>
           /\ bleEvts'[Len(bleEvts')] = e
           /\ Disconnecting' <=> Disconnecting \/ e = "DISCONNECTED"
PROOF
<1>1. seen \in History /\ bleEvts \in Seq(BleEvent)
  BY DEF TypeOK, Queue, BleEvent
<1>2. Len(bleEvts) < BleEvtDepth
  BY <1>1 DEF PostBle, History
<1>3. bleEvts' = Append(bleEvts, e) /\ UNCHANGED seen
  BY <1>2 DEF PostBle
<1> QED
  BY <1>1, <1>3, AppendFacts DEF Disconnecting

LEMMA BleTailFacts ==
    ASSUME TypeOK, bleEvts # <<>>, bleEvts' = Tail(bleEvts)
    PROVE  /\ bleEvts' # <<>> =>
                 bleEvts'[Len(bleEvts')] = bleEvts[Len(bleEvts)]
           /\ bleEvts' = <<>> => Head(bleEvts) = bleEvts[Len(bleEvts)]
           /\ Disconnecting' => Disconnecting
           /\ Disconnecting => Disconnecting' \/ Head(bleEvts) = "DISCONNECTED"
PROOF
<1>1. bleEvts \in Seq(BleEvent)
  BY DEF TypeOK, Queue, BleEvent
<1>2. /\ bleEvts' \in Seq(BleEvent) /\ Len(bleEvts') \in Nat
      /\ Len(bleEvts) \in Nat /\ Len(bleEvts) = Len(bleEvts') + 1
      /\ \A i \in DOMAIN bleEvts' : bleEvts'[i] = bleEvts[i + 1]
      /\ Head(bleEvts) = bleEvts[1]
  BY <1>1, TailFacts
<1>3. ASSUME bleEvts' # <<>>
      PROVE  bleEvts'[Len(bleEvts')] = bleEvts[Len(bleEvts)]
  <2>1. Len(bleEvts') # 0
    BY <1>2, <1>3, EmptySeq
  <2>2. Len(bleEvts') \in DOMAIN bleEvts'
    BY <1>2, <2>1, LenProperties
  <2> QED
    BY <1>2, <2>2
<1>4. ASSUME bleEvts' = <<>>
      PROVE  Head(bleEvts) = bleEvts[Len(bleEvts)]
  <2>1. Len(bleEvts') = 0
    BY <1>4, EmptySeq
  <2> QED
    BY <1>2, <2>1
<1>5. ASSUME NEW i \in DOMAIN bleEvts', bleEvts'[i] = "DISCONNECTED"
      PROVE  Disconnecting
  <2>1. i + 1 \in DOMAIN bleEvts /\ bleEvts[i + 1] = "DISCONNECTED"
    BY <1>1, <1>5, TailFacts
  <2> QED
    BY <2>1 DEF Disconnecting
<1>6. ASSUME NEW i \in DOMAIN bleEvts, bleEvts[i] = "DISCONNECTED",
             Head(bleEvts) # "DISCONNECTED"
      PROVE  Disconnecting'
  <2>1. i - 1 \in DOMAIN bleEvts' /\ bleEvts'[i - 1] = "DISCONNECTED"
    BY <1>1, <1>6, TailFacts
  <2> QED
    BY <2>1 DEF Disconnecting
<1> QED
  BY <1>3, <1>4, <1>5, <1>6 DEF Disconnecting

\* A connect that is the last news is of a connection that is still there.
LEMMA LastBleEventStep ==
    ASSUME TypeOK, LastBleEvent, [Next]_vars
    PROVE  LastBleEvent'
PROOF
<1>1. ASSUME UNCHANGED bleEvts, ~seen'.dropped => ~seen.dropped,
             \A l \in Link : inlink'[l].up = inlink[l].up
      PROVE  LastBleEvent'
  BY <1>1 DEF LastBleEvent
<1>2. CASE CentralStep
  BY <1>1, <1>2, CentralFrame
<1>3. CASE EndOfStage
  BY <1>1, <1>3 DEF EndOfStage, peripheral
<1>4. CASE TickStep
  BY <1>1, <1>4, TickFacts
<1>5. ASSUME NEW l \in Link, InboundUp(l)
      PROVE  LastBleEvent'
  <2>1. inlink'[l].up
    BY <1>5 DEF InboundUp, TypeOK
  <2> QED
    BY <2>1 DEF LastBleEvent
<1>6. ASSUME NEW l \in Link, InboundEnds(l)
      PROVE  LastBleEvent'
  <2>1. ~seen'.dropped => bleEvts'[Len(bleEvts')] = "DISCONNECTED"
    BY <1>6, PostBleFacts DEF InboundEnds, BleEvent
  <2> QED
    BY <2>1 DEF LastBleEvent
<1>7. ASSUME NEW l \in Link, PeerCommand(l)
      PROVE  LastBleEvent'
  <2>1. \A k \in Link : inlink'[k].up = inlink[k].up
    BY <1>7 DEF PeerCommand, TypeOK
  <2> QED
    BY <1>1, <1>7, <2>1 DEF PeerCommand
<1>8. CASE OnInboundConnect \/ OnInboundDisconnect
  <2>1. /\ bleEvts # <<>> /\ bleEvts' = Tail(bleEvts)
        /\ UNCHANGED <<inlink, seen>>
    BY <1>8 DEF OnInboundConnect, OnInboundDisconnect, peripheral
  <2> QED
    BY <2>1, BleTailFacts DEF LastBleEvent
<1>9. CASE PeerCommandStep
  BY <1>1, <1>9, PeerCommandFacts
<1>10. CASE UNCHANGED vars
  BY <1>1, <1>10 DEF vars
<1> QED
  BY <1>2, <1>3, <1>4, <1>5, <1>6, <1>7, <1>8, <1>9, <1>10, Kinds

\* The schedule is frozen only while something will thaw it.
LEMMA ThawsStep ==
    ASSUME TypeOK, AttemptAlive, IdleBetween, LastBleEvent, ThawsWhenAlone,
           [Next]_vars
    PROVE  ThawsWhenAlone'
PROOF
<1>1. ThawsWhenAlone <=>
         (mesh = "CONNECTED" /\ ~seen.dropped /\ ~seen.overtaken =>
             \/ \E l \in Link : inlink[l].up
             \/ outlink.state # "NONE"
             \/ bleEvts # <<>>
             \/ Holds(evts, "DISCONNECTED"))
  BY DEF ThawsWhenAlone, Queued, Holds
<1>2. ThawsWhenAlone' <=>
         (mesh' = "CONNECTED" /\ ~seen'.dropped /\ ~seen'.overtaken =>
             \/ \E l \in Link : inlink'[l].up
             \/ outlink'.state # "NONE"
             \/ bleEvts' # <<>>
             \/ Holds(evts', "DISCONNECTED"))
  BY DEF ThawsWhenAlone, Queued, Holds
<1>3. ASSUME NEW p \in Peer, SeePeer(p)
      PROVE  ThawsWhenAlone'
  <2>1. /\ KeepsHistory
        /\ Holds(evts, "DISCONNECTED") => Holds(evts', "DISCONNECTED")
    BY <1>3, Events, PostFacts, Grows DEF SeePeer
  <2> QED
    BY <1>1, <1>2, <1>3, <2>1
    DEF SeePeer, KeepsHistory, loopvars, central, peripheral
<1>4. CASE Respond
  <2>1. Holds(evts, "DISCONNECTED") => Holds(evts', "DISCONNECTED")
    BY <1>4, RespondFacts, Grows
  <2> QED
    BY <1>1, <1>2, <1>4, <2>1, RespondFacts DEF Respond, loopvars, peripheral
<1>5. CASE OutboundEnds \/ ConnectFails
  <2>1. ~seen'.dropped => Holds(evts', "DISCONNECTED")
    BY <1>5, Events, PostFacts DEF OutboundEnds, ConnectFails
  <2> QED
    BY <1>2, <2>1
<1>6. CASE EndOfStage
  BY <1>1, <1>2, <1>6 DEF EndOfStage, loopvars, central, peripheral
<1>7. CASE IgnorePeer \/ OnPeerSeen
  <2>1. Holds(evts, "DISCONNECTED") => Holds(evts', "DISCONNECTED")
    BY <1>7, Shrinks DEF IgnorePeer, OnPeerSeen, Consumed
  <2> QED
    BY <1>1, <1>2, <1>7, <2>1
    DEF IgnorePeer, OnPeerSeen, Consumed, loopvars, peripheral
<1>8. CASE ConnectSucceeds
  <2>1. outlink'.state = "UP"
    BY <1>8 DEF ConnectSucceeds
  <2> QED
    BY <1>2, <2>1
<1>9. CASE DiscoveryFails
  <2>1. outlink'.state = "NONE" => outlink.state = "NONE"
    BY <1>9 DEF DiscoveryFails, TypeOK, NoLink
  <2> QED
    BY <1>1, <1>2, <1>9, <2>1
    DEF DiscoveryFails, Blocked, loopvars, peripheral
<1>10. CASE Discovered
  <2>1. Holds(evts, "DISCONNECTED") => Holds(evts', "DISCONNECTED")
    BY <1>10, DiscoveredFacts, Events, Grows
  <2> QED
    BY <1>1, <1>2, <1>10, <2>1, DiscoveredFacts
    DEF Discovered, Blocked, loopvars, peripheral
<1>11. CASE Handler("CONNECTED")
  <2>1. ~seen.overtaken => client.connected
    BY <1>11, HandlerFacts, Shrinks DEF IdleBetween
  <2>2. ~seen.overtaken /\ ~seen.dropped =>
           outlink.state # "NONE" \/ Holds(evts, "DISCONNECTED")
    BY <1>11, <2>1, HandlerFacts DEF AttemptAlive
  <2> QED
    BY <1>2, <1>11, <2>2, HandlerFacts, Shrinks
<1>12. CASE Handler("RESPONSE")
  <2>1. UNCHANGED <<mesh, inlink, bleEvts>>
    BY <1>12 DEF Handler, OnAccept, OnAck, OnSyncGoesOn, OnStrayResponse,
                 OnSyncOver, Consumed, loopvars, peripheral
  <2> QED
    BY <1>1, <1>2, <1>12, <2>1, HandlerFacts, Shrinks
<1>13. CASE OnDisconnected
  BY <1>2, <1>13 DEF OnDisconnected
<1>14. CASE TickStep
  <2>1. mesh' = "CONNECTED" => mesh = "CONNECTED"
    BY <1>14 DEF TickStep, NoFlip, FlipToAdvertising, FlipToScanning
  <2> QED
    BY <1>1, <1>2, <1>14, <2>1, TickFacts
<1>15. CASE UNCHANGED vars
  BY <1>1, <1>2, <1>15 DEF vars
<1>16. ASSUME NEW l \in Link, InboundUp(l)
       PROVE  ThawsWhenAlone'
  <2>1. inlink'[l].up
    BY <1>16 DEF InboundUp, TypeOK
  <2> QED
    BY <1>2, <2>1
<1>17. ASSUME NEW l \in Link, InboundEnds(l)
       PROVE  ThawsWhenAlone'
  <2>1. ~seen'.dropped => bleEvts' # <<>>
    BY <1>17, PostBleFacts DEF InboundEnds, BleEvent
  <2> QED
    BY <1>2, <2>1
<1>18. ASSUME NEW l \in Link, PeerCommand(l)
       PROVE  ThawsWhenAlone'
  <2>1. \A k \in Link : inlink'[k].up = inlink[k].up
    BY <1>18 DEF PeerCommand, TypeOK
  <2> QED
    BY <1>1, <1>2, <1>18, <2>1 DEF PeerCommand, loopvars, central
<1>19. CASE OnInboundConnect
  <2>1. /\ bleEvts # <<>> /\ bleEvts' = Tail(bleEvts)
        /\ Head(bleEvts) = "CONNECTED"
        /\ UNCHANGED <<inlink, seen>>
    BY <1>19 DEF OnInboundConnect, peripheral
  <2>2. bleEvts' = <<>> /\ ~seen.dropped => \E l \in Link : inlink[l].up
    BY <2>1, BleTailFacts DEF LastBleEvent
  <2> QED
    BY <1>2, <2>1, <2>2
<1>20. CASE OnInboundDisconnect
  BY <1>2, <1>20 DEF OnInboundDisconnect
<1>21. CASE PeerCommandStep
  BY <1>1, <1>2, <1>21, PeerCommandFacts, PeripheralFrame
  DEF PeripheralStep, PeerCommandStep
<1> QED
  BY <1>3, <1>4, <1>5, <1>6, <1>7, <1>8, <1>9, <1>10, <1>11, <1>12, <1>13,
     <1>14, <1>15, <1>16, <1>17, <1>18, <1>19, <1>20, <1>21, Kinds
  DEF CentralStep


------------------------------------------------------------------------------
\* The queue of commands under a step: one more, or one less.
LEMMA CmdGrows ==
    ASSUME TypeOK, NEW l \in Link, PeerCommand(l)
    PROVE  LET c == [type |-> inlink[l].says, link |-> l] IN
           /\ \A i \in DOMAIN cmds :
                 /\ i \in DOMAIN cmds' /\ cmds'[i] = cmds[i]
                 /\ \A j \in DOMAIN cmds' \ DOMAIN cmds : i < j
           /\ \A i \in DOMAIN cmds' \ DOMAIN cmds : cmds'[i] = c
           /\ \A i, j \in DOMAIN cmds' \ DOMAIN cmds : i = j
PROOF
<1> DEFINE c == [type |-> inlink[l].says, link |-> l]
<1>1. cmds \in Seq(Command) /\ c \in Command
  BY DEF TypeOK, Queue, PeerCommand, Command
<1>2. CASE cmds' = Append(cmds, c)
  <2> HIDE DEF c
  <2>1. /\ DOMAIN cmds' = DOMAIN cmds \cup {Len(cmds) + 1}
        /\ \A i \in DOMAIN cmds : cmds'[i] = cmds[i] /\ i < Len(cmds) + 1
        /\ cmds'[Len(cmds) + 1] = c
    BY <1>1, <1>2, AppendFacts
  <2> QED
    BY <2>1 DEF c
<1>3. CASE cmds' = cmds
  BY <1>3
<1> QED
  BY <1>2, <1>3 DEF PeerCommand

LEMMA CmdLinks ==
    ASSUME TypeOK
    PROVE  \A i \in DOMAIN cmds : cmds[i] \in Command /\ cmds[i].link \in Link
PROOF
<1>1. cmds \in Seq(Command)
  BY DEF TypeOK, Queue
<1>2. \A i \in DOMAIN cmds : cmds[i] \in Command
  BY <1>1, ElementOfSeq, LenProperties
<1> QED
  BY <1>2 DEF Command

LEMMA CmdShrinks ==
    ASSUME TypeOK, PeerCommandStep
    PROVE  /\ \A i \in DOMAIN cmds' :
                 /\ i + 1 \in DOMAIN cmds /\ cmds'[i] = cmds[i + 1]
                 /\ i \in Nat /\ i + 1 # 1 /\ 1 <= i + 1
           /\ 1 \in DOMAIN cmds /\ Head(cmds) = cmds[1]
           /\ Head(cmds) \in Command
PROOF
<1>1. cmds \in Seq(Command) /\ cmds # <<>> /\ cmds' = Tail(cmds)
  BY PeerCommandFacts
<1>2. DOMAIN cmds' \subseteq Nat \ {0}
  BY <1>1, TailFacts
<1> QED
  BY <1>1, <1>2, TailFacts

\* What PeerCommand(l) does to the links.
LEMMA SaysNext ==
    ASSUME TypeOK, NEW l \in Link, PeerCommand(l)
    PROVE  /\ \A k \in Link : /\ inlink'[k].up = inlink[k].up
                              /\ k # l => inlink'[k] = inlink[k]
           /\ inlink[l].up
           /\ inlink[l].says \in {"PROPOSE", "CONFIRM", "COMMAND"}
           /\ inlink'[l].says \in {"AWAIT_ACCEPT", "AWAIT_OK", "AWAIT_DATA"}
           /\ inlink[l].says = "PROPOSE" => inlink'[l].says = "AWAIT_ACCEPT"
PROOF
BY DEF PeerCommand, TypeOK

\* A PROPOSE is answered with an ACCEPT for its own link, and nothing else is.
LEMMA WhoAccepts ==
    ASSUME TypeOK, PeerCommandStep
    PROVE  \E a : /\ Answer(a)
                  /\ \A l : a = <<"ACCEPT", l>> =>
                        /\ TakePropose
                        /\ Head(cmds).type = "PROPOSE"
                        /\ Head(cmds).link = l
PROOF
<1>1. CASE TakePropose
  <2>1. Answer(<<"ACCEPT", Head(cmds).link>>) /\ Head(cmds).type = "PROPOSE"
    BY <1>1 DEF TakePropose, Proposed
  <2> QED
    BY <1>1, <2>1
<1>2. CASE TakeConfirm \/ ServeCommand \/ RefuseCommand
  <2>1. \E a \in {"OK", "DATA", "ERROR"} : Answer(<<a, Head(cmds).link>>)
    BY <1>2 DEF TakeConfirm, ServeCommand, RefuseCommand
  <2> QED
    BY <2>1
<1> QED
  BY <1>1, <1>2 DEF PeerCommandStep

\* What a Central has said follows the protocol.
LEMMA CentralSaidStep ==
    ASSUME TypeOK, CentralSaid, [Next]_vars
    PROVE  CentralSaid'
PROOF
<1>0. /\ \A i \in DOMAIN cmds : cmds[i].link \in Link
      /\ \A k, l \in Link : k = l \/ k < l \/ l < k
  BY CmdLinks DEF Link
<1>1. CASE CentralStep
  BY <1>1, CentralFrame DEF CentralSaid
<1>2. CASE EndOfStage \/ OnInboundConnect \/ OnInboundDisconnect
  BY <1>2 DEF EndOfStage, OnInboundConnect, OnInboundDisconnect, CentralSaid,
              peripheral
<1>3. CASE TickStep
  BY <1>3, TickFacts DEF CentralSaid
<1>4. ASSUME NEW l \in Link, InboundUp(l)
      PROVE  CentralSaid'
  <2>1. /\ inlink[l].says = "NEW" /\ UNCHANGED cmds
        /\ \A k \in Link : k < l => inlink[k].says # "NEW"
        /\ inlink'[l].up /\ inlink'[l].says \in {"PROPOSE", "COMMAND"}
        /\ \A k \in Link : k # l => inlink'[k] = inlink[k]
    BY <1>4 DEF InboundUp, TypeOK
  <2>2. \A k \in Link : inlink'[k].up <=> inlink'[k].says \notin {"NEW", "GONE"}
    BY <2>1 DEF CentralSaid
  <2>3. \A k, m \in Link : k < m /\ inlink'[k].says = "NEW"
                           => inlink'[m].says = "NEW"
    BY <1>0, <2>1 DEF CentralSaid
  <2>4. \A i \in DOMAIN cmds : cmds[i].link # l
    BY <2>1 DEF CentralSaid
  <2> QED
    BY <1>0, <2>1, <2>2, <2>3, <2>4 DEF CentralSaid
<1>5. ASSUME NEW l \in Link, InboundEnds(l)
      PROVE  CentralSaid'
  <2>1. /\ inlink[l].up /\ UNCHANGED cmds
        /\ ~inlink'[l].up /\ inlink'[l].says = "GONE"
        /\ \A k \in Link : k # l => inlink'[k] = inlink[k]
    BY <1>5 DEF InboundEnds, TypeOK
  <2>2. inlink[l].says # "NEW"
    BY <2>1 DEF CentralSaid
  <2> QED
    BY <1>0, <2>1, <2>2 DEF CentralSaid
<1>6. ASSUME NEW l \in Link, PeerCommand(l)
      PROVE  CentralSaid'
  <2>1. \A k \in Link : /\ inlink'[k].says = "NEW" <=> inlink[k].says = "NEW"
                        /\ inlink'[k].says = "GONE" <=> inlink[k].says = "GONE"
                        /\ inlink'[k].says = "PROPOSE" =>
                              inlink[k].says = "PROPOSE" /\ k # l
    <3> SUFFICES ASSUME NEW k \in Link
                 PROVE  /\ inlink'[k].says = "NEW" <=> inlink[k].says = "NEW"
                        /\ inlink'[k].says = "GONE" <=> inlink[k].says = "GONE"
                        /\ inlink'[k].says = "PROPOSE" =>
                              inlink[k].says = "PROPOSE" /\ k # l
      OBVIOUS
    <3>1. CASE k = l
      BY <1>6, <3>1, SaysNext
    <3>2. CASE k # l
      BY <1>6, <3>2, SaysNext
    <3> QED
      BY <3>1, <3>2
  <2>2. \A i \in DOMAIN cmds : cmds[i].link = l =>
           cmds[i].type # "PROPOSE" /\ inlink[l].says # "PROPOSE"
    BY <1>0, <1>6, SaysNext DEF CentralSaid
  <2>3. \A i \in DOMAIN cmds' :
           \/ i \in DOMAIN cmds /\ cmds'[i] = cmds[i]
           \/ /\ i \notin DOMAIN cmds
              /\ cmds'[i].type = inlink[l].says /\ cmds'[i].link = l
    BY <1>6, CmdGrows
  <2>4. \A k \in Link : inlink'[k].up <=> inlink'[k].says \notin {"NEW", "GONE"}
    BY <1>6, <2>1, SaysNext DEF CentralSaid
  <2>5. \A k, m \in Link : k < m /\ inlink'[k].says = "NEW"
                           => inlink'[m].says = "NEW"
    BY <2>1 DEF CentralSaid
  <2>6. \A i \in DOMAIN cmds' :
           inlink'[cmds'[i].link].says \notin {"NEW", "PROPOSE"}
    BY <1>0, <1>6, <2>1, <2>3, SaysNext DEF CentralSaid
  <2>7. \A i, j \in DOMAIN cmds' :
          cmds'[i].type = "PROPOSE" /\ cmds'[j].link = cmds'[i].link
          => cmds'[j].type # "CONFIRM" /\ (cmds'[j].type = "PROPOSE" => i = j)
    <3> SUFFICES ASSUME NEW i \in DOMAIN cmds', NEW j \in DOMAIN cmds',
                        cmds'[i].type = "PROPOSE",
                        cmds'[j].link = cmds'[i].link
                 PROVE  /\ cmds'[j].type # "CONFIRM"
                        /\ cmds'[j].type = "PROPOSE" => i = j
      OBVIOUS
    <3>1. CASE i \in DOMAIN cmds /\ j \in DOMAIN cmds
      BY <2>3, <3>1 DEF CentralSaid
    <3>2. CASE i \in DOMAIN cmds /\ j \notin DOMAIN cmds
      BY <2>2, <2>3, <3>2
    <3>3. CASE i \notin DOMAIN cmds /\ j \in DOMAIN cmds
      BY <2>2, <2>3, <3>3
    <3>4. CASE i \notin DOMAIN cmds /\ j \notin DOMAIN cmds
      <4>1. i = j
        BY <1>6, <3>4, CmdGrows
      <4> QED
        BY <4>1
    <3> QED
      BY <3>1, <3>2, <3>3, <3>4
  <2>8. \A i \in DOMAIN cmds' :
          cmds'[i].type = "PROPOSE" =>
              inlink'[cmds'[i].link].says
                 \in {"AWAIT_ACCEPT", "CLOSING", "GONE"}
    <3> SUFFICES ASSUME NEW i \in DOMAIN cmds', cmds'[i].type = "PROPOSE"
                 PROVE  inlink'[cmds'[i].link].says
                           \in {"AWAIT_ACCEPT", "CLOSING", "GONE"}
      OBVIOUS
    <3>1. CASE i \in DOMAIN cmds
      <4>1. /\ cmds'[i] = cmds[i] /\ cmds[i].type = "PROPOSE"
            /\ cmds[i].link \in Link /\ cmds[i].link # l
        BY <1>0, <2>2, <2>3, <3>1
      <4>2. inlink'[cmds[i].link] = inlink[cmds[i].link]
        BY <1>6, <4>1, SaysNext
      <4> QED
        BY <3>1, <4>1, <4>2 DEF CentralSaid
    <3>2. CASE i \notin DOMAIN cmds
      BY <1>6, <2>3, <3>2, SaysNext
    <3> QED
      BY <3>1, <3>2
  <2> QED
    BY <2>4, <2>5, <2>6, <2>7, <2>8 DEF CentralSaid
<1>7. CASE PeerCommandStep
  <2>1. PICK a : /\ Answer(a)
                 /\ \A l : a = <<"ACCEPT", l>> =>
                       /\ Head(cmds).type = "PROPOSE"
                       /\ Head(cmds).link = l
    BY <1>7, WhoAccepts
  <2>2. \A i \in DOMAIN cmds' :
           /\ i + 1 \in DOMAIN cmds /\ cmds'[i] = cmds[i + 1]
           /\ i \in Nat /\ i + 1 # 1
    BY <1>7, CmdShrinks
  <2>3. /\ 1 \in DOMAIN cmds /\ Head(cmds) = cmds[1]
    BY <1>7, CmdShrinks
  <2>4. \A k \in Link :
           /\ inlink'[k].up = inlink[k].up
           /\ \A x \in {"NEW", "GONE", "PROPOSE"} :
                 inlink'[k].says = x <=> inlink[k].says = x
    BY <2>1, AnswerFacts
  <2>5. /\ \A k \in Link :
              inlink'[k].up <=> inlink'[k].says \notin {"NEW", "GONE"}
        /\ \A k, m \in Link : k < m /\ inlink'[k].says = "NEW"
                              => inlink'[m].says = "NEW"
    BY <2>4 DEF CentralSaid
  <2>6. \A i \in DOMAIN cmds' :
           inlink'[cmds'[i].link].says \notin {"NEW", "PROPOSE"}
    BY <1>0, <2>2, <2>4 DEF CentralSaid
  <2>7. \A i, j \in DOMAIN cmds' :
          cmds'[i].type = "PROPOSE" /\ cmds'[j].link = cmds'[i].link
          => cmds'[j].type # "CONFIRM" /\ (cmds'[j].type = "PROPOSE" => i = j)
    <3> SUFFICES ASSUME NEW i \in DOMAIN cmds', NEW j \in DOMAIN cmds',
                        cmds'[i].type = "PROPOSE",
                        cmds'[j].link = cmds'[i].link
                 PROVE  /\ cmds'[j].type # "CONFIRM"
                        /\ cmds'[j].type = "PROPOSE" => i = j
      OBVIOUS
    <3>1. /\ cmds'[j].type # "CONFIRM"
          /\ cmds'[j].type = "PROPOSE" => i + 1 = j + 1
      BY <2>2 DEF CentralSaid
    <3> QED
      BY <2>2, <3>1
  <2>8. \A i \in DOMAIN cmds' :
          cmds'[i].type = "PROPOSE" =>
              inlink'[cmds'[i].link].says
                 \in {"AWAIT_ACCEPT", "CLOSING", "GONE"}
    <3> SUFFICES ASSUME NEW i \in DOMAIN cmds', cmds'[i].type = "PROPOSE"
                 PROVE  inlink'[cmds'[i].link].says
                           \in {"AWAIT_ACCEPT", "CLOSING", "GONE"}
      OBVIOUS
    <3>1. /\ cmds[i + 1].type = "PROPOSE" /\ i + 1 \in DOMAIN cmds
          /\ cmds'[i].link = cmds[i + 1].link
      BY <2>2
    <3>2. inlink[cmds[i + 1].link].says \in {"AWAIT_ACCEPT", "CLOSING", "GONE"}
      BY <3>1 DEF CentralSaid
    <3>3. a # <<"ACCEPT", cmds[i + 1].link>>
      <4>1. ASSUME a = <<"ACCEPT", cmds[i + 1].link>>
            PROVE  FALSE
        <5>1. /\ cmds[1].type = "PROPOSE"
              /\ cmds[1].link = cmds[i + 1].link
          BY <2>1, <2>3, <4>1
        <5>2. 1 = i + 1
          BY <2>3, <3>1, <5>1 DEF CentralSaid
        <5> QED
          BY <2>2, <5>2
      <4> QED
        BY <4>1
    <3>4. cmds[i + 1].link \in Link
      BY <1>0, <3>1
    <3> QED
      BY <2>1, <3>1, <3>2, <3>3, <3>4, AnswerFacts
  <2> QED
    BY <2>5, <2>6, <2>7, <2>8 DEF CentralSaid
<1>8. CASE UNCHANGED vars
  BY <1>8 DEF vars, CentralSaid
<1> QED
  BY <1>1, <1>2, <1>3, <1>4, <1>5, <1>6, <1>7, <1>8, Kinds


------------------------------------------------------------------------------
\* Connections of other Centrals follow one another.
LEMMA OneInboundStep ==
    ASSUME TypeOK, CentralSaid, OneInbound, [Next]_vars
    PROVE  OneInbound'
PROOF
<1>0. /\ \A i \in DOMAIN cmds : cmds[i].link \in Link
      /\ \A k, l \in Link : k <= l \/ l < k
      /\ \A l \in Link : l <= l
      /\ adv \in [active : BOOLEAN, on : BOOLEAN]
  BY CmdLinks DEF Link, TypeOK
<1>1. CASE CentralStep
  BY <1>1, CentralFrame DEF OneInbound
<1>2. CASE EndOfStage \/ OnInboundConnect \/ OnInboundDisconnect
  BY <1>2 DEF EndOfStage, OnInboundConnect, OnInboundDisconnect, OneInbound,
              peripheral
<1>3. CASE NoFlip \/ FlipToScanning
  <2>1. /\ UNCHANGED <<inlink, cmds, seen>>
        /\ adv' = adv \/ adv' = [active |-> FALSE, on |-> FALSE]
    BY <1>3 DEF NoFlip, FlipToScanning, Tick, peripheral
  <2> QED
    BY <2>1 DEF OneInbound
<1>4. CASE FlipToAdvertising
  <2>1. UNCHANGED <<inlink, cmds>>
    BY <1>4 DEF FlipToAdvertising, Tick, peripheral
  <2>2. ~seen'.readvertised =>
           /\ ~seen.readvertised
           /\ adv.active \/ \A l \in Link : ~inlink[l].up
    BY <1>4 DEF FlipToAdvertising, TypeOK, History
  <2>3. adv.active => adv' = adv
    BY <1>4 DEF FlipToAdvertising
  <2> QED
    BY <2>1, <2>2, <2>3 DEF OneInbound
<1>5. ASSUME NEW l \in Link, InboundUp(l)
      PROVE  OneInbound'
  <2>1. /\ adv.on /\ inlink[l].says = "NEW" /\ UNCHANGED cmds
        /\ ~adv'.active /\ ~adv'.on
        /\ \A k \in Link : k # l => inlink'[k] = inlink[k]
    BY <1>5 DEF InboundUp, TypeOK
  <2>2. seen'.readvertised = seen.readvertised
    BY <1>5 DEF InboundUp, PostBle, TypeOK, History
  <2>3. \A i \in DOMAIN cmds : cmds[i].link <= l
    BY <1>0, <2>1 DEF CentralSaid
  <2>4. ~seen.readvertised => \A k \in Link : inlink'[k].up => k = l
    BY <2>1 DEF OneInbound
  <2> QED
    BY <2>1, <2>2, <2>3, <2>4 DEF OneInbound
<1>6. ASSUME NEW l \in Link, InboundEnds(l)
      PROVE  OneInbound'
  <2>1. /\ UNCHANGED <<cmds, adv>>
        /\ \A k \in Link : inlink'[k].up => inlink[k].up
    BY <1>6 DEF InboundEnds, TypeOK
  <2>2. seen'.readvertised = seen.readvertised
    BY <1>6 DEF InboundEnds, PostBle, TypeOK, History
  <2> QED
    BY <2>1, <2>2 DEF OneInbound
<1>7. ASSUME NEW l \in Link, PeerCommand(l)
      PROVE  OneInbound'
  <2>1. /\ UNCHANGED <<adv, seen>> /\ inlink[l].up
        /\ \A k \in Link : inlink'[k].up = inlink[k].up
    BY <1>7, SaysNext DEF PeerCommand
  <2>2. \A i \in DOMAIN cmds' :
           \/ i \in DOMAIN cmds /\ cmds'[i] = cmds[i]
           \/ i \notin DOMAIN cmds /\ cmds'[i].link = l
    BY <1>7, CmdGrows
  <2>3. \A i \in DOMAIN cmds : \A j \in DOMAIN cmds' \ DOMAIN cmds :
           i < j /\ i \in Int /\ j \in Int
    <3>1. cmds \in Seq(Command) /\ cmds' \in Seq(Command)
      BY <1>7, HostTypes DEF TypeOK, Queue, Host
    <3>2. DOMAIN cmds \subseteq Int /\ DOMAIN cmds' \subseteq Int
      BY <3>1, LenProperties
    <3> QED
      BY <1>7, <3>2, CmdGrows
  <2>4. ~seen.readvertised =>
           \A i, j \in DOMAIN cmds' : i <= j => cmds'[i].link <= cmds'[j].link
    <3> SUFFICES ASSUME ~seen.readvertised,
                        NEW i \in DOMAIN cmds', NEW j \in DOMAIN cmds', i <= j
                 PROVE  cmds'[i].link <= cmds'[j].link
      OBVIOUS
    <3>1. CASE i \in DOMAIN cmds /\ j \in DOMAIN cmds
      BY <2>2, <3>1 DEF OneInbound
    <3>2. CASE i \in DOMAIN cmds /\ j \notin DOMAIN cmds
      BY <2>1, <2>2, <3>2 DEF OneInbound
    <3>3. CASE i \notin DOMAIN cmds /\ j \in DOMAIN cmds
      BY <2>3, <3>3
    <3>4. CASE i \notin DOMAIN cmds /\ j \notin DOMAIN cmds
      BY <1>0, <2>2, <3>4
    <3> QED
      BY <3>1, <3>2, <3>3, <3>4
  <2>5. ~seen.readvertised => \A k \in Link : inlink[k].up =>
           \A i \in DOMAIN cmds' : cmds'[i].link <= k
    BY <1>0, <2>1, <2>2 DEF OneInbound
  <2> QED
    BY <2>1, <2>4, <2>5 DEF OneInbound
<1>8. CASE PeerCommandStep
  <2>1. /\ UNCHANGED adv /\ seen'.readvertised = seen.readvertised
        /\ \A l \in Link : inlink'[l].up = inlink[l].up
    BY <1>8, PeerCommandFacts
  <2>2. \A i \in DOMAIN cmds' :
           i + 1 \in DOMAIN cmds /\ cmds'[i] = cmds[i + 1] /\ i \in Nat
    BY <1>8, CmdShrinks
  <2>3. ~seen.readvertised =>
           \A i, j \in DOMAIN cmds' : i <= j => cmds'[i].link <= cmds'[j].link
    <3> SUFFICES ASSUME ~seen.readvertised,
                        NEW i \in DOMAIN cmds', NEW j \in DOMAIN cmds', i <= j
                 PROVE  cmds'[i].link <= cmds'[j].link
      OBVIOUS
    <3>1. i + 1 <= j + 1
      BY <2>2
    <3> QED
      BY <2>2, <3>1 DEF OneInbound
  <2> QED
    BY <2>1, <2>2, <2>3 DEF OneInbound
<1>9. CASE UNCHANGED vars
  BY <1>9 DEF vars, OneInbound
<1> QED
  BY <1>1, <1>2, <1>3, <1>4, <1>5, <1>6, <1>7, <1>8, <1>9, Kinds DEF TickStep


------------------------------------------------------------------------------
\* What keeps OnlyOf.
LEMMA OnlyOfKept ==
    ASSUME NEW L, OnlyOf(L),
           \A i \in DOMAIN cmds' : \/ \E j \in DOMAIN cmds : cmds'[i] = cmds[j]
                                   \/ cmds'[i].link \in L,
           \A l \in Link : inlink'[l].up => inlink[l].up,
           adv'.on => adv.on,
           Disconnecting' \/ \E l \in Link : inlink'[l].up
    PROVE  OnlyOf(L)'
PROOF
BY DEF OnlyOf

\* A step that moves neither commands, links nor the session keeps the gate.
LEMMA GateStutter ==
    ASSUME Gate, UNCHANGED <<inlink, cmds, resp>>,
           adv'.on => adv.on,
           ~seen'.dropped => ~seen.dropped,
           ~seen'.readvertised => ~seen.readvertised,
           seen'.recorded = seen.recorded,
           ~EndAhead' => ~EndAhead,
           Disconnecting => Disconnecting'
    PROVE  Gate'
PROOF
<1>1. Awaited' => Awaited
  BY DEF Awaited, HasCmd
<1>2. \A L : OnlyOf(L) => OnlyOf(L)'
  BY DEF OnlyOf
<1> QED
  BY <1>1, <1>2 DEF Gate

\* The gate when a command is taken.
LEMMA GatePeerCommand ==
    ASSUME TypeOK, CentralSaid, OneInbound, Gate, PeerCommandStep
    PROVE  Gate'
PROOF
<1>0. /\ ~EndAhead /\ ~EndAhead'
      /\ \A l \in Link : inlink'[l].up = inlink[l].up
      /\ Disconnecting' = Disconnecting /\ UNCHANGED adv
      /\ seen'.dropped = seen.dropped
      /\ seen'.readvertised = seen.readvertised
  BY PeerCommandFacts DEF EndAhead, Disconnecting
<1>1. /\ \A i \in DOMAIN cmds' :
            /\ i + 1 \in DOMAIN cmds /\ cmds'[i] = cmds[i + 1]
            /\ i \in Nat /\ 1 <= i + 1
      /\ 1 \in DOMAIN cmds /\ Head(cmds) = cmds[1]
      /\ Head(cmds).link \in Link
  BY CmdShrinks, CmdLinks
<1>2. \A L : OnlyOf(L) => OnlyOf(L)'
  BY <1>0, <1>1 DEF OnlyOf
<1>3. \A l : HasCmd("CONFIRM", l)' => HasCmd("CONFIRM", l)
  BY <1>1 DEF HasCmd
<1>4. CASE TakePropose
  <2> DEFINE c == Head(cmds)
  <2>1. /\ resp'.state = "AWAIT_CONFIRM" /\ resp'.link = c.link /\ ~resp'.done
        /\ c.type = "PROPOSE"
        /\ Answer(<<"ACCEPT", c.link>>)
        /\ seen' = seen
    <3>1. /\ resp' = [Session EXCEPT !.state = "AWAIT_CONFIRM", !.link = c.link]
          /\ ~resp.done
      BY <1>4 DEF TakePropose
    <3>2. Session \in RespType /\ Session.done = resp.done
      BY SessionTypes DEF Session, Armed, TypeOK
    <3> QED
      BY <1>4, <3>1, <3>2 DEF TakePropose, Proposed, RespType
  <2> HIDE DEF c
  <2>2. SUFFICES ASSUME ~seen.readvertised, Awaited'
                 PROVE  OnlyOf({resp.link})'
    BY <1>0, <2>1 DEF Gate
  <2>3. c = cmds[1] /\ c.link \in Link
    BY <1>1 DEF c
  <2>4. ~HasCmd("CONFIRM", c.link)
    BY <1>1, <2>1, <2>3 DEF HasCmd, CentralSaid
  <2>5. inlink'[c.link].says = "CONFIRM"
    BY <1>3, <2>1, <2>2, <2>4 DEF Awaited
  <2>6. inlink[c.link].says \in {"AWAIT_ACCEPT", "CLOSING", "GONE"}
    BY <1>1, <2>1, <2>3 DEF CentralSaid
  <2>7. inlink[c.link].says = "AWAIT_ACCEPT"
    BY <2>1, <2>3, <2>5, <2>6, AnswerFacts
  <2>8. inlink[c.link].up
    BY <2>3, <2>7 DEF CentralSaid
  <2>9. \A i \in DOMAIN cmds' : cmds'[i].link = c.link
    <3> SUFFICES ASSUME NEW i \in DOMAIN cmds'
                 PROVE  cmds'[i].link = c.link
      OBVIOUS
    <3>1. cmds'[i].link <= c.link
      BY <1>1, <2>2, <2>3, <2>8 DEF OneInbound
    <3>2. c.link <= cmds'[i].link
      BY <1>1, <2>2, <2>3 DEF OneInbound
    <3>3. cmds'[i].link \in Int /\ c.link \in Int
      BY <1>1, <2>3, CmdLinks DEF Link
    <3> QED
      BY <3>1, <3>2, <3>3
  <2>10. /\ \A l \in Link : inlink'[l].up => l = c.link
         /\ inlink'[c.link].up
         /\ ~adv'.on
    BY <1>0, <2>2, <2>3, <2>8 DEF OneInbound
  <2> QED
    BY <2>1, <2>3, <2>9, <2>10 DEF OnlyOf
<1>5. CASE TakeConfirm
  <2>1. /\ resp'.state = "DONE"
        /\ resp.state = "AWAIT_CONFIRM" /\ resp.link = Head(cmds).link
        /\ Head(cmds).type = "CONFIRM"
        /\ seen'.recorded = seen.recorded \cup {resp.link}
    BY <1>5, SessionTypes
    DEF TakeConfirm, Confirmed, Session, Armed, TypeOK, RespType, History
  <2>2. Awaited /\ ~Awaited'
    BY <1>1, <2>1 DEF Awaited, HasCmd
  <2>3. ~seen'.dropped /\ ~seen'.readvertised => OnlyOf({resp.link})
    BY <1>0, <2>2 DEF Gate
  <2>4. OnlyOf({resp.link}) => OnlyOf(seen.recorded)'
    BY <1>0, <1>1, <2>1 DEF OnlyOf
  <2> QED
    BY <2>2, <2>3, <2>4 DEF Gate
<1>6. CASE ServeCommand
  <2>1. /\ resp.done /\ resp' = Session
        /\ seen'.recorded = seen.recorded
        /\ \E a \in {"DATA", "ERROR"} : Answer(<<a, Head(cmds).link>>)
    BY <1>6 DEF ServeCommand, TypeOK, History
  <2>2. resp'.done /\ (resp'.state = "AWAIT_CONFIRM" => resp' = resp)
    BY <2>1 DEF Session, Armed, TypeOK
  <2>3. \A l \in Link : inlink'[l].says = "CONFIRM" =>
                           inlink[l].says = "CONFIRM"
    BY <2>1, AnswerFacts
  <2>4. Awaited' => Awaited /\ resp' = resp
    BY <1>3, <2>2, <2>3 DEF Awaited
  <2> QED
    BY <1>0, <1>2, <2>1, <2>4 DEF Gate
<1>7. CASE RefuseCommand
  BY <1>7 DEF RefuseCommand, RespIdle, Gate, Awaited
<1> QED
  BY <1>4, <1>5, <1>6, <1>7 DEF PeerCommandStep

\* The gate is kept by every step.
LEMMA GateStep ==
    ASSUME TypeOK, CentralSaid, OneInbound, Gate, [Next]_vars
    PROVE  Gate'
PROOF
<1>0. /\ seen \in History /\ adv \in [active : BOOLEAN, on : BOOLEAN]
      /\ \A l \in Link : inlink[l] \in [up : BOOLEAN, says : Said]
      /\ bleEvts \in Seq(BleEvent)
  BY DEF TypeOK, Queue, BleEvent
<1>1. CASE CentralStep
  BY <1>1, CentralFrame, GateStutter DEF EndAhead, Disconnecting
<1>2. CASE EndOfStage
  <2>1. /\ UNCHANGED <<inlink, cmds, resp, adv, seen, bleEvts>>
        /\ pc = "BLE" => bleEvts = <<>>
    BY <1>2 DEF EndOfStage, loopvars, peripheral
  <2>2. ~EndAhead
    <3>1. bleEvts = <<>> => DOMAIN bleEvts = 1 .. 0
      BY <1>0, LenProperties, EmptySeq
    <3> QED
      BY <2>1, <3>1 DEF EndAhead, Disconnecting
  <2> QED
    BY <2>1, <2>2, GateStutter DEF Disconnecting
<1>3. CASE NoFlip \/ FlipToScanning
  <2>1. /\ UNCHANGED <<inlink, cmds, resp, seen, bleEvts>> /\ pc = "TICK"
        /\ adv' = adv \/ adv' = [active |-> FALSE, on |-> FALSE]
    BY <1>3 DEF NoFlip, FlipToScanning, Tick, peripheral
  <2> QED
    BY <2>1, GateStutter DEF EndAhead, Disconnecting
<1>4. CASE FlipToAdvertising
  <2>1. /\ UNCHANGED <<inlink, cmds, resp, bleEvts>>
        /\ pc = "TICK" /\ pc' = "BLE"
    BY <1>4 DEF FlipToAdvertising, Tick, peripheral
  <2>2. /\ seen'.dropped = seen.dropped /\ seen'.recorded = seen.recorded
        /\ ~seen'.readvertised =>
              /\ ~seen.readvertised
              /\ adv.active \/ \A l \in Link : ~inlink[l].up
    BY <1>0, <1>4 DEF FlipToAdvertising, History
  <2>3. CASE adv.active
    <3>1. adv' = adv
      BY <1>4, <2>3 DEF FlipToAdvertising
    <3> QED
      BY <2>1, <2>2, <3>1, GateStutter DEF EndAhead, Disconnecting
  <2>4. CASE ~adv.active
    <3>1. ASSUME ~seen'.readvertised, ~EndAhead'
          PROVE  \A L : ~OnlyOf(L)
      BY <2>1, <2>2, <2>4, <3>1 DEF OnlyOf, EndAhead, Disconnecting
    <3>2. ~EndAhead
      BY <2>1 DEF EndAhead
    <3>3. Awaited' => Awaited
      BY <2>1 DEF Awaited, HasCmd
    <3> QED
      BY <2>1, <2>2, <3>1, <3>2, <3>3 DEF Gate
  <2> QED
    BY <2>3, <2>4
<1>5. ASSUME NEW l \in Link, InboundUp(l)
      PROVE  Gate'
  <2>1. /\ adv.on /\ UNCHANGED <<pc, cmds, resp>>
        /\ inlink'[l].says \in {"PROPOSE", "COMMAND"}
        /\ \A k \in Link : k # l => inlink'[k] = inlink[k]
        /\ PostBle("CONNECTED", TRUE)
    <3>1. PICK first \in {"PROPOSE", "COMMAND"} :
             inlink' = [inlink EXCEPT ![l] = [up |-> TRUE, says |-> first]]
      BY <1>5 DEF InboundUp
    <3>2. /\ inlink'[l].says \in {"PROPOSE", "COMMAND"}
          /\ \A k \in Link : k # l => inlink'[k] = inlink[k]
      BY <3>1 DEF TypeOK
    <3> QED
      BY <1>5, <3>2 DEF InboundUp, loopvars
  <2>2. ~seen'.dropped =>
           seen' = seen /\ (EndAhead' <=> EndAhead)
    BY <2>1, PostBleFacts DEF BleEvent, EndAhead
  <2>3. Awaited' => Awaited
    BY <2>1 DEF Awaited, HasCmd
  <2>4. \A L : ~OnlyOf(L)
    BY <2>1 DEF OnlyOf
  <2> QED
    BY <2>1, <2>2, <2>3, <2>4 DEF Gate
<1>6. ASSUME NEW l \in Link, InboundEnds(l)
      PROVE  Gate'
  <2>1. /\ UNCHANGED <<pc, cmds, resp, adv>>
        /\ ~inlink'[l].up /\ inlink'[l].says = "GONE"
        /\ \A k \in Link : k # l => inlink'[k] = inlink[k]
        /\ PostBle("DISCONNECTED", FALSE)
    BY <1>6 DEF InboundEnds, TypeOK, loopvars
  <2>2. ~seen'.dropped => seen' = seen /\ Disconnecting'
    BY <2>1, PostBleFacts DEF BleEvent
  <2>3. Awaited' => Awaited
    BY <2>1 DEF Awaited, HasCmd
  <2>4. ~seen'.dropped /\ ~EndAhead' => ~EndAhead
    BY <2>1, <2>2 DEF EndAhead
  <2>5. ~seen'.dropped => \A L : OnlyOf(L) => OnlyOf(L)'
    BY <2>1, <2>2 DEF OnlyOf
  <2> QED
    BY <2>1, <2>2, <2>3, <2>4, <2>5 DEF Gate
<1>7. ASSUME NEW l \in Link, PeerCommand(l)
      PROVE  Gate'
  <2>1. /\ UNCHANGED <<pc, resp, adv, seen, bleEvts>>
        /\ \A k \in Link : /\ inlink'[k].up = inlink[k].up
                           /\ k # l => inlink'[k] = inlink[k]
        /\ inlink[l].up /\ inlink'[l].says # "CONFIRM"
    BY <1>7, SaysNext DEF PeerCommand, loopvars
  <2>2. \A i \in DOMAIN cmds' :
           \/ i \in DOMAIN cmds /\ cmds'[i] = cmds[i]
           \/ cmds'[i].type = inlink[l].says /\ cmds'[i].link = l
    BY <1>7, CmdGrows
  <2>3. Awaited' => Awaited
    <3>1. \A k \in Link : HasCmd("CONFIRM", k)' =>
             HasCmd("CONFIRM", k) \/ inlink[k].says = "CONFIRM"
      BY <2>2 DEF HasCmd
    <3>2. \A k \in Link : inlink'[k].says = "CONFIRM" =>
                             inlink[k].says = "CONFIRM"
      BY <2>1
    <3> QED
      BY <2>1, <3>1, <3>2 DEF Awaited
  <2>4. \A L : OnlyOf(L) => OnlyOf(L)'
    BY <2>1, <2>2 DEF OnlyOf, Disconnecting
  <2> QED
    BY <2>1, <2>3, <2>4 DEF Gate, EndAhead, Disconnecting
<1>8. CASE OnInboundConnect
  <2>1. /\ pc = "BLE" /\ pc' = "BLE" /\ resp' = Armed
        /\ bleEvts # <<>> /\ Head(bleEvts) = "CONNECTED"
        /\ bleEvts' = Tail(bleEvts)
        /\ UNCHANGED <<inlink, cmds, adv, seen>>
    BY <1>8 DEF OnInboundConnect, peripheral
  <2>2. resp'.done = resp.done /\ resp'.state = "INIT"
    BY <2>1 DEF Armed, TypeOK
  <2>3. ~EndAhead' => ~EndAhead /\ ~Disconnecting
    BY <2>1, BleTailFacts DEF EndAhead
  <2>4. ~Disconnecting => \A L : OnlyOf(L) => OnlyOf(L)'
    BY <2>1 DEF OnlyOf
  <2> QED
    BY <2>1, <2>2, <2>3, <2>4 DEF Gate, Awaited
<1>9. CASE OnInboundDisconnect
  BY <1>9 DEF OnInboundDisconnect, RespIdle, Gate, Awaited
<1>10. CASE PeerCommandStep
  BY <1>10, GatePeerCommand
<1>11. CASE UNCHANGED vars
  BY <1>11, GateStutter DEF vars, EndAhead, Disconnecting
<1> QED
  BY <1>1, <1>2, <1>3, <1>4, <1>5, <1>6, <1>7, <1>8, <1>9, <1>10, <1>11, Kinds
  DEF TickStep


------------------------------------------------------------------------------
\* File commands are answered behind the gate only.
LEMMA ServedStep ==
    ASSUME TypeOK, Gate, ServedAfterRecord, [Next]_vars
    PROVE  ServedAfterRecord'
PROOF
<1>0. seen \in History
  BY DEF TypeOK
<1>1. ASSUME seen'.served = seen.served,
             seen.recorded \subseteq seen'.recorded,
             ~seen'.dropped => ~seen.dropped,
             ~seen'.readvertised => ~seen.readvertised
      PROVE  ServedAfterRecord'
  BY <1>1 DEF ServedAfterRecord
<1>2. CASE CentralStep
  BY <1>1, <1>2, CentralFrame
<1>3. CASE EndOfStage \/ OnInboundConnect \/ OnInboundDisconnect
           \/ UNCHANGED vars
  BY <1>1, <1>3 DEF EndOfStage, OnInboundConnect, OnInboundDisconnect, vars
<1>4. CASE TickStep
  <2>1. ~seen'.readvertised => ~seen.readvertised
    BY <1>0, <1>4
    DEF TickStep, NoFlip, FlipToAdvertising, FlipToScanning, History
  <2> QED
    BY <1>1, <1>4, <2>1, TickFacts
<1>5. ASSUME NEW l \in Link, InboundUp(l) \/ InboundEnds(l) \/ PeerCommand(l)
      PROVE  ServedAfterRecord'
  <2>1. UNCHANGED seen \/ seen' = [seen EXCEPT !.dropped = TRUE]
    BY <1>5 DEF InboundUp, InboundEnds, PeerCommand, PostBle
  <2> QED
    BY <1>0, <1>1, <2>1 DEF History
<1>6. CASE TakePropose \/ RefuseCommand
  BY <1>1, <1>6 DEF TakePropose, RefuseCommand
<1>7. CASE TakeConfirm
  <2>1. seen' = [seen EXCEPT !.recorded = @ \cup {Head(cmds).link}]
    BY <1>7 DEF TakeConfirm
  <2> QED
    BY <1>0, <1>1, <2>1 DEF History
<1>8. CASE ServeCommand
  <2>1. /\ resp.done /\ pc = "PEER"
        /\ \/ UNCHANGED seen
           \/ seen' = [seen EXCEPT !.served = @ \cup {Head(cmds).link}]
    BY <1>8 DEF ServeCommand, PeerCommandAtHand
  <2>2. ~seen.dropped /\ ~seen.readvertised =>
           Head(cmds).link \in seen.recorded
    <3>1. 1 \in DOMAIN cmds /\ Head(cmds) = cmds[1]
      BY <1>8, CmdShrinks DEF PeerCommandStep
    <3> QED
      BY <2>1, <3>1 DEF Gate, EndAhead, OnlyOf
  <2> QED
    BY <1>0, <2>1, <2>2 DEF ServedAfterRecord, History
<1> QED
  BY <1>2, <1>3, <1>4, <1>5, <1>6, <1>7, <1>8, Kinds DEF PeerCommandStep

------------------------------------------------------------------------------
\* The strengthened invariant holds in every behaviour of the two tasks: what
\* the queues hold, what main.cpp, peer_sync and the NimBLE client remember and
\* what the radio does stay consistent, whichever way host and loop interleave.
THEOREM Invariant == Spec => []IInv
PROOF
<1>1. ASSUME IInv, [Next]_vars
      PROVE  IInv'
  <2>1. /\ TypeOK /\ AttemptAlive /\ OneAttempt /\ IdleBetween /\ OneAnswer
        /\ RecordsWhatItSynced /\ LastBleEvent /\ ThawsWhenAlone
        /\ CentralSaid /\ OneInbound /\ Gate /\ ServedAfterRecord
    BY <1>1 DEF IInv
  <2>2. TypeOK' /\ AttemptAlive' /\ OneAttempt' /\ IdleBetween' /\ OneAnswer'
    BY <1>1, <2>1, TypeStep, AttemptAliveStep, OneAttemptStep, IdleBetweenStep,
       OneAnswerStep
  <2>3. RecordsWhatItSynced' /\ LastBleEvent' /\ ThawsWhenAlone'
    BY <1>1, <2>1, RecordsStep, LastBleEventStep, ThawsStep
  <2>4. CentralSaid' /\ OneInbound' /\ Gate' /\ ServedAfterRecord'
    BY <1>1, <2>1, CentralSaidStep, OneInboundStep, GateStep, ServedStep
  <2> QED
    BY <2>2, <2>3, <2>4 DEF IInv
<1> QED
  BY <1>1, InitIInv, PTL DEF Spec

\* Every variable keeps its type; the queues keep their fixed depth, since a
\* post to a full one is dropped.
THEOREM TypeCorrect == Spec => []TypeOK
PROOF
<1>1. IInv => TypeOK
  BY DEF IInv
<1> QED
  BY <1>1, Invariant, PTL

\* The peer table's successes are syncs with those very peers, although the
\* callback that records one runs long after the address was stored and
\* sightings of other peers come between (on_peer_seen, on_client_response);
\* as long as no response arrived that this node had not asked for.
THEOREM SuccessesAreTrue == Spec => []RecordsWhatItSynced
PROOF
<1>1. IInv => RecordsWhatItSynced
  BY DEF IInv
<1> QED
  BY <1>1, Invariant, PTL

\* What ends a pending attempt is always under way, unless a queue was full:
\* g_sync_pending does not keep all other peers waiting for nothing.
THEOREM AttemptsAreEnded == Spec => []PendingAttemptEnds
PROOF
<1>1. IInv => PendingAttemptEnds
  BY DEF IInv, AttemptAlive, PendingAttemptEnds, Queued, Holds
<1> QED
  BY <1>1, Invariant, PTL

\* What main.cpp holds in g_sync is a session in use.
HeldInUse == out.sync => inUse

\* Every step keeps it so.
LEMMA HeldIsUsed ==
    ASSUME TypeOK, HeldInUse, [Next]_vars
    PROVE  HeldInUse'
PROOF
<1>1. CASE UNCHANGED <<out, inUse>>
  BY <1>1 DEF HeldInUse
<1>2. CASE StartPeerSync
  BY <1>2 DEF StartPeerSync, TypeOK, HeldInUse
<1>3. CASE out'.sync = out.sync /\ inUse' = inUse
  BY <1>3 DEF HeldInUse
<1>4. CASE OnDisconnected
  BY <1>4 DEF OnDisconnected, OutIdle, HeldInUse
<1>5. \/ UNCHANGED <<out, inUse>>
      \/ StartPeerSync
      \/ out'.sync = out.sync /\ inUse' = inUse
      \/ OnDisconnected
  <2> SUFFICES ASSUME Next
               PROVE  \/ UNCHANGED <<out, inUse>>
                      \/ StartPeerSync
                      \/ out'.sync = out.sync /\ inUse' = inUse
                      \/ OnDisconnected
    BY DEF vars
  <2>1. CASE Host
    BY <2>1 DEF Host, SeePeer, Respond, OutboundEnds, InboundUp, InboundEnds,
                PeerCommand, loopvars
  <2>2. CASE OnInboundConnect \/ OnInboundDisconnect \/ EndOfStage \/ IgnorePeer
    BY <2>2 DEF OnInboundConnect, OnInboundDisconnect, EndOfStage, IgnorePeer,
                loopvars
  <2>3. CASE OnPeerSeen
    BY <2>3 DEF OnPeerSeen, TypeOK
  <2>4. CASE \/ ConnectFails \/ ConnectSucceeds \/ DiscoveryFails \/ Discovered
    BY <2>4 DEF ConnectFails, ConnectSucceeds, DiscoveryFails, Discovered,
                Blocked, loopvars
  <2>5. CASE OnConnected
    BY <2>5 DEF OnConnected, TypeOK
  <2>6. CASE OnAccept
    BY <2>6 DEF OnAccept, TypeOK
  <2>7. CASE OnAck \/ OnDisconnected
    BY <2>7 DEF OnAck
  <2>8. CASE OnSyncGoesOn \/ OnStrayResponse
    BY <2>8 DEF OnSyncGoesOn, OnStrayResponse, loopvars
  <2>9. ASSUME NEW result \in {"SUCCESS", "FAILED"}, OnSyncOver(result)
        PROVE  out'.sync = out.sync /\ inUse' = inUse
    BY <2>9 DEF OnSyncOver, TypeOK
  <2>10. CASE TakePropose \/ TakeConfirm \/ ServeCommand \/ RefuseCommand
    BY <2>10 DEF TakePropose, TakeConfirm, ServeCommand, RefuseCommand,
                 PeerCommandAtHand
  <2>11. CASE NoFlip \/ FlipToAdvertising \/ FlipToScanning
    BY <2>11 DEF NoFlip, FlipToAdvertising, FlipToScanning, Tick
  <2> QED
    BY <2>1, <2>2, <2>3, <2>4, <2>5, <2>6, <2>7, <2>8, <2>9, <2>10, <2>11
       DEF Next, Loop
<1> QED
  BY <1>1, <1>2, <1>3, <1>4, <1>5

\* main.cpp never goes on with a session of peer_sync that has ended; and one
\* that is in use without main.cpp holding it, which would refuse every later
\* sync, comes from a Connected after the end of its connection, never from
\* another order of the events of host and loop.
THEOREM SessionsAreHeld == Spec => []SessionIsHeld
PROOF
<1>1. Init => HeldInUse
  BY DEF Init, OutIdle, HeldInUse
<1>2. TypeOK /\ HeldInUse /\ [Next]_vars => HeldInUse'
  BY HeldIsUsed
<1>3. Spec => []HeldInUse
  BY <1>1, <1>2, TypeCorrect, PTL DEF Spec
<1>4. IInv /\ HeldInUse => SessionIsHeld
  BY DEF IInv, IdleBetween, HeldInUse, SessionIsHeld
<1> QED
  BY <1>3, <1>4, Invariant, PTL

\* mesh_state is not frozen by a connection that is gone and whose end nobody
\* will report, unless a queue was full or a Connected came too late.
THEOREM ScheduleThaws == Spec => []ThawsWhenAlone
PROOF
<1>1. IInv => ThawsWhenAlone
  BY DEF IInv
<1> QED
  BY <1>1, Invariant, PTL

\* A file command is answered on a connection with a complete record only,
\* although g_resp_done is one flag for all connections and commands come
\* through another queue than connects and disconnects.
THEOREM ServesAfterRecord == Spec => []ServedAfterRecord
PROOF
<1>1. IInv => ServedAfterRecord
  BY DEF IInv
<1> QED
  BY <1>1, Invariant, PTL
==============================================================================
