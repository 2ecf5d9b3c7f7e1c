--------------------------- MODULE MeshLinkProofs ---------------------------
(***************************************************************************)
(* The safety properties of MeshLink, for every set of peers and every     *)
(* range of versions.                                                      *)
(***************************************************************************)
EXTENDS MeshLink, FiniteSetTheorems, TLAPS

\* The globals of main.c name the peer at the other end of the outbound
\* connection, and the version it advertised.
TargetIsLinked ==
    outbound.state # "NONE" =>
        /\ target.peer \in Peer
        /\ outbound.peer = target.peer
        /\ outbound.version = target.version

TableFits == IsFiniteSet(Known) /\ Cardinality(Known) <= TableCap

IInv ==
    /\ Types
    /\ TableFits
    /\ SessionOverLink
    /\ ThawsWhenAlone
    /\ TargetIsLinked
    /\ RecordsWhatItSynced

------------------------------------------------------------------------------
\* A node that has just started satisfies all of it.
LEMMA InitIInv == Init => IInv
PROOF
<1> SUFFICES ASSUME Init
             PROVE  IInv
  OBVIOUS
<1>1. TableFits
  <2>1. Known = {}
    BY DEF Init, Known, NoEntry
  <2> QED
    BY <2>1, FS_EmptySet, MeshLinkAssumption DEF TableFits
<1>2. Types /\ SessionOverLink /\ ThawsWhenAlone /\ TargetIsLinked
         /\ RecordsWhatItSynced
  BY MeshLinkAssumption
  DEF Init, Types, SessionOverLink, ThawsWhenAlone, TargetIsLinked,
      RecordsWhatItSynced, NoLink, NoEntry, Entry, Version, ClientState
<1> QED
  BY <1>1, <1>2 DEF IInv

\* The tables that record_sync can leave behind: an entry that is there was
\* there before, or is the new one.
LEMMA RecordedTables ==
    ASSUME NEW p \in Peer, NEW v \in Version,
           NEW r \in {"SUCCESS", "FAILED"}, Types,
           NEW t \in Recorded(p, v, r)
    PROVE  /\ t \in [Peer -> Entry]
           /\ t[p].version = v /\ t[p].result = r
           /\ \A q \in Peer \ {p} : t[q].used => t[q] = table[q]
PROOF
<1>1. PICK u \in WithSlot(p) :
          t = [u EXCEPT ![p] = [used |-> TRUE, version |-> v, result |-> r,
                                due |-> FALSE]]
  BY DEF Recorded
<1>2. NoEntry \in Entry
  BY MeshLinkAssumption DEF NoEntry, Entry, Version
<1>3. /\ u \in [Peer -> Entry]
      /\ \A q \in Peer : u[q].used => u[q] = table[q]
  <2>1. CASE u = table
    BY <2>1 DEF Types
  <2>2. CASE \E q \in Known : u = [table EXCEPT ![q] = NoEntry]
    BY <2>2, <1>2 DEF Types, Known, NoEntry
  <2> QED
    BY <2>1, <2>2 DEF WithSlot
<1> QED
  BY <1>1, <1>3 DEF Entry

\* record_sync keeps the table within its slots.
LEMMA RecordedFits ==
    ASSUME NEW p \in Peer, NEW v, NEW r, Types, TableFits,
           table' \in Recorded(p, v, r)
    PROVE  TableFits'
PROOF
<1>1. PICK u \in WithSlot(p) :
          table' = [u EXCEPT ![p] = [used |-> TRUE, version |-> v,
                                     result |-> r, due |-> FALSE]]
  BY DEF Recorded
<1>2. CASE p \in Known
  <2>1. u = table
    BY <1>2 DEF WithSlot, Known
  <2>2. Known' = Known
    BY <1>1, <1>2, <2>1 DEF Known, Types
  <2> QED
    BY <2>2 DEF TableFits
<1>3. CASE p \notin Known /\ Cardinality(Known) < TableCap
  <2>1. u = table
    BY <1>3 DEF WithSlot, Known
  <2>2. Known' = Known \cup {p}
    BY <1>1, <2>1 DEF Known, Types
  <2>3. /\ IsFiniteSet(Known \cup {p})
        /\ Cardinality(Known \cup {p}) = Cardinality(Known) + 1
    BY <1>3, FS_AddElement DEF TableFits
  <2>4. Cardinality(Known) \in Nat
    BY FS_CardinalityType DEF TableFits
  <2> QED
    BY <1>3, <2>2, <2>3, <2>4, MeshLinkAssumption DEF TableFits
<1>4. CASE p \notin Known /\ ~(Cardinality(Known) < TableCap)
  <2>1. PICK q \in Known : u = [table EXCEPT ![q] = NoEntry]
    BY <1>4 DEF WithSlot, Known
  <2>2. Known' = (Known \ {q}) \cup {p}
    BY <1>1, <1>4, <2>1 DEF Known, NoEntry, Types
  <2>3. /\ IsFiniteSet(Known \ {q})
        /\ Cardinality(Known \ {q}) = Cardinality(Known) - 1
    BY FS_RemoveElement DEF TableFits
  <2>4. /\ IsFiniteSet((Known \ {q}) \cup {p})
        /\ Cardinality((Known \ {q}) \cup {p}) = Cardinality(Known) - 1 + 1
    BY <1>4, <2>3, FS_AddElement
  <2>5. Cardinality(Known) \in Nat
    BY FS_CardinalityType DEF TableFits
  <2> QED
    BY <2>2, <2>4, <2>5 DEF TableFits
<1> QED
  BY <1>2, <1>3, <1>4

\* Every step keeps the table within its slots.
LEMMA TableStep ==
    ASSUME IInv, [Next]_vars
    PROVE  TableFits'
PROOF
<1>1. ASSUME NEW p \in Peer, BackoffEnds(p)
      PROVE  TableFits'
  <2>1. Known' = Known
    BY <1>1 DEF BackoffEnds, Known, IInv, Types, Entry
  <2> QED
    BY <2>1 DEF IInv, TableFits
<1>2. CASE SyncOver
  <2>1. target.peer \in Peer
    BY <1>2 DEF SyncOver, Notified, IInv, SessionOverLink, TargetIsLinked
  <2>2. \E r \in {"SUCCESS", "FAILED"} :
            table' \in Recorded(target.peer, target.version, r)
    BY <1>2 DEF SyncOver
  <2> QED
    BY <2>1, <2>2, RecordedFits DEF IInv
<1>3. CASE UNCHANGED table
  BY <1>3 DEF IInv, TableFits, Known
<1>4. \/ \E p \in Peer : BackoffEnds(p)
      \/ SyncOver
      \/ UNCHANGED table
  BY DEF Next, vars, central, FlipToAdvertising, FlipToScanning, PeerSeen,
         PeerChanges, ConnectSucceeds, ConnectFails, OnClientDisconnected,
         Discovered, DiscoveryFails, HandshakeGoesOn, HandshakeFails,
         SendFails, ClientDisconnected, OutboundBreaks, InboundArrives,
         InboundConnected, InboundDisconnected, InboundBreaks
<1> QED
  BY <1>1, <1>2, <1>3, <1>4

\* Every step keeps the types.
LEMMA TypeStep ==
    ASSUME IInv, [Next]_vars
    PROVE  Types'
PROOF
<1> USE MeshLinkAssumption DEF IInv, Types, Version, Entry, ClientState, TargetIsLinked, SessionOverLink
<1>1. CASE FlipToAdvertising
  BY <1>1 DEF FlipToAdvertising, Dwelling
<1>2. CASE FlipToScanning
  BY <1>2 DEF FlipToScanning, Dwelling
<1>3. ASSUME NEW p \in Peer, PeerSeen(p)
      PROVE  Types'
  BY <1>3 DEF PeerSeen, ClientConnect
<1>4. ASSUME NEW p \in Peer, PeerChanges(p)
      PROVE  Types'
  BY <1>4 DEF PeerChanges, central
<1>5. ASSUME NEW p \in Peer, BackoffEnds(p)
      PROVE  Types'
  <2>1. table' \in [Peer -> Entry]
    BY <1>5 DEF BackoffEnds
  <2> QED
    BY <1>5, <2>1 DEF BackoffEnds, central
<1>6. CASE ConnectSucceeds
  BY <1>6 DEF ConnectSucceeds
<1>7. CASE ConnectFails
  BY <1>7 DEF ConnectFails, OnClientDisconnected, Thaw, NoLink
<1>8. CASE Discovered
  BY <1>8 DEF Discovered, ClientDisconnect, Broken, Freeze
<1>9. CASE DiscoveryFails
  BY <1>9 DEF DiscoveryFails, ClientDisconnect, Broken
<1>10. CASE HandshakeGoesOn
  BY <1>10 DEF HandshakeGoesOn, Notified, ClientDisconnect, Broken
<1>11. CASE HandshakeFails
  BY <1>11 DEF HandshakeFails, Notified, ClientDisconnect, Broken
<1>12. CASE SyncOver
  <2>1. /\ outbound.peer \in Peer
        /\ outbound.version \in Version
        /\ target.peer \in Peer
        /\ target.version \in Version
    BY <1>12 DEF SyncOver, Notified
  <2>2. \E r \in {"SUCCESS", "FAILED"} :
            table' \in Recorded(target.peer, target.version, r)
    BY <1>12 DEF SyncOver
  <2>3. table' \in [Peer -> Entry]
    BY <2>1, <2>2, RecordedTables
  <2>4. synced' \subseteq Peer \X Version
    BY <1>12, <2>1 DEF SyncOver
  <2>5. /\ client' \in ClientState
        /\ outbound' \in [state : {"NONE", "PENDING", "UP", "DOWN"},
                          peer : Peer \cup {NoPeer}, version : Version]
        /\ UNCHANGED <<phase, adv, out, target, inbound, version>>
    BY <1>12 DEF SyncOver, ClientDisconnect, Broken
  <2> QED
    BY <2>3, <2>4, <2>5
<1>13. CASE SendFails
  BY <1>13 DEF SendFails, Notified, ClientDisconnect, Broken
<1>14. CASE ClientDisconnected
  BY <1>14 DEF ClientDisconnected, OnClientDisconnected, Thaw, NoLink
<1>15. CASE OutboundBreaks
  BY <1>15 DEF OutboundBreaks, Broken
<1>16. CASE InboundArrives
  BY <1>16 DEF InboundArrives, Reachable, central
<1>17. CASE InboundConnected
  BY <1>17 DEF InboundConnected, Freeze, central
<1>18. CASE InboundDisconnected
  BY <1>18 DEF InboundDisconnected, Thaw, central
<1>19. CASE InboundBreaks
  BY <1>19 DEF InboundBreaks, central
<1>20. CASE UNCHANGED vars
  BY <1>20 DEF vars, central
<1> QED
  BY <1>1, <1>2, <1>3, <1>4, <1>5, <1>6, <1>7, <1>8, <1>9, <1>10,
     <1>11, <1>12, <1>13, <1>14, <1>15, <1>16, <1>17, <1>18, <1>19, <1>20 DEF Next

\* Every step keeps program and radio in agreement.
LEMMA SessionStep ==
    ASSUME IInv, [Next]_vars
    PROVE  SessionOverLink'
PROOF
<1> USE MeshLinkAssumption DEF IInv, SessionOverLink, Types
<1>1. CASE FlipToAdvertising
  BY <1>1 DEF FlipToAdvertising, Dwelling
<1>2. CASE FlipToScanning
  BY <1>2 DEF FlipToScanning, Dwelling
<1>3. ASSUME NEW p \in Peer, PeerSeen(p)
      PROVE  SessionOverLink'
  BY <1>3 DEF PeerSeen, ClientConnect
<1>4. ASSUME NEW p \in Peer, PeerChanges(p)
      PROVE  SessionOverLink'
  BY <1>4 DEF PeerChanges, central
<1>5. ASSUME NEW p \in Peer, BackoffEnds(p)
      PROVE  SessionOverLink'
  BY <1>5 DEF BackoffEnds, central
<1>6. CASE ConnectSucceeds
  BY <1>6 DEF ConnectSucceeds
<1>7. CASE ConnectFails
  BY <1>7 DEF ConnectFails, OnClientDisconnected, Thaw, NoLink
<1>8. CASE Discovered
  BY <1>8 DEF Discovered, ClientDisconnect, Broken, Freeze
<1>9. CASE DiscoveryFails
  BY <1>9 DEF DiscoveryFails, ClientDisconnect, Broken
<1>10. CASE HandshakeGoesOn
  BY <1>10 DEF HandshakeGoesOn, Notified, ClientDisconnect, Broken
<1>11. CASE HandshakeFails
  BY <1>11 DEF HandshakeFails, Notified, ClientDisconnect, Broken
<1>12. CASE SyncOver
  BY <1>12 DEF SyncOver, Notified, ClientDisconnect, Broken
<1>13. CASE SendFails
  BY <1>13 DEF SendFails, Notified, ClientDisconnect, Broken
<1>14. CASE ClientDisconnected
  BY <1>14 DEF ClientDisconnected, OnClientDisconnected, Thaw, NoLink
<1>15. CASE OutboundBreaks
  BY <1>15 DEF OutboundBreaks, Broken
<1>16. CASE InboundArrives
  BY <1>16 DEF InboundArrives, Reachable, central
<1>17. CASE InboundConnected
  BY <1>17 DEF InboundConnected, Freeze, central
<1>18. CASE InboundDisconnected
  BY <1>18 DEF InboundDisconnected, Thaw, central
<1>19. CASE InboundBreaks
  BY <1>19 DEF InboundBreaks, central
<1>20. CASE UNCHANGED vars
  BY <1>20 DEF vars, central
<1> QED
  BY <1>1, <1>2, <1>3, <1>4, <1>5, <1>6, <1>7, <1>8, <1>9, <1>10,
     <1>11, <1>12, <1>13, <1>14, <1>15, <1>16, <1>17, <1>18, <1>19, <1>20 DEF Next

\* Every step that ends a connection thaws the schedule.
LEMMA ThawStep ==
    ASSUME IInv, [Next]_vars
    PROVE  ThawsWhenAlone'
PROOF
<1> USE MeshLinkAssumption DEF IInv, ThawsWhenAlone, SessionOverLink, Types
<1>1. CASE FlipToAdvertising
  BY <1>1 DEF FlipToAdvertising, Dwelling
<1>2. CASE FlipToScanning
  BY <1>2 DEF FlipToScanning, Dwelling
<1>3. ASSUME NEW p \in Peer, PeerSeen(p)
      PROVE  ThawsWhenAlone'
  BY <1>3 DEF PeerSeen, ClientConnect
<1>4. ASSUME NEW p \in Peer, PeerChanges(p)
      PROVE  ThawsWhenAlone'
  BY <1>4 DEF PeerChanges, central
<1>5. ASSUME NEW p \in Peer, BackoffEnds(p)
      PROVE  ThawsWhenAlone'
  BY <1>5 DEF BackoffEnds, central
<1>6. CASE ConnectSucceeds
  BY <1>6 DEF ConnectSucceeds
<1>7. CASE ConnectFails
  BY <1>7 DEF ConnectFails, OnClientDisconnected, Thaw, NoLink
<1>8. CASE Discovered
  BY <1>8 DEF Discovered, ClientDisconnect, Broken, Freeze
<1>9. CASE DiscoveryFails
  BY <1>9 DEF DiscoveryFails, ClientDisconnect, Broken
<1>10. CASE HandshakeGoesOn
  BY <1>10 DEF HandshakeGoesOn, Notified, ClientDisconnect, Broken
<1>11. CASE HandshakeFails
  BY <1>11 DEF HandshakeFails, Notified, ClientDisconnect, Broken
<1>12. CASE SyncOver
  BY <1>12 DEF SyncOver, Notified, ClientDisconnect, Broken
<1>13. CASE SendFails
  BY <1>13 DEF SendFails, Notified, ClientDisconnect, Broken
<1>14. CASE ClientDisconnected
  BY <1>14 DEF ClientDisconnected, OnClientDisconnected, Thaw, NoLink
<1>15. CASE OutboundBreaks
  BY <1>15 DEF OutboundBreaks, Broken
<1>16. CASE InboundArrives
  BY <1>16 DEF InboundArrives, Reachable, central
<1>17. CASE InboundConnected
  BY <1>17 DEF InboundConnected, Freeze, central
<1>18. CASE InboundDisconnected
  BY <1>18 DEF InboundDisconnected, Thaw, central
<1>19. CASE InboundBreaks
  BY <1>19 DEF InboundBreaks, central
<1>20. CASE UNCHANGED vars
  BY <1>20 DEF vars, central
<1> QED
  BY <1>1, <1>2, <1>3, <1>4, <1>5, <1>6, <1>7, <1>8, <1>9, <1>10,
     <1>11, <1>12, <1>13, <1>14, <1>15, <1>16, <1>17, <1>18, <1>19, <1>20 DEF Next

\* The globals change only while there is no outbound connection.
LEMMA TargetStep ==
    ASSUME IInv, [Next]_vars
    PROVE  TargetIsLinked'
PROOF
<1> USE MeshLinkAssumption DEF IInv, TargetIsLinked, SessionOverLink, Types, Version, Entry, ClientState
<1>1. CASE FlipToAdvertising
  BY <1>1 DEF FlipToAdvertising, Dwelling
<1>2. CASE FlipToScanning
  BY <1>2 DEF FlipToScanning, Dwelling
<1>3. ASSUME NEW p \in Peer, PeerSeen(p)
      PROVE  TargetIsLinked'
  BY <1>3 DEF PeerSeen, ClientConnect
<1>4. ASSUME NEW p \in Peer, PeerChanges(p)
      PROVE  TargetIsLinked'
  BY <1>4 DEF PeerChanges, central
<1>5. ASSUME NEW p \in Peer, BackoffEnds(p)
      PROVE  TargetIsLinked'
  BY <1>5 DEF BackoffEnds, central
<1>6. CASE ConnectSucceeds
  BY <1>6 DEF ConnectSucceeds
<1>7. CASE ConnectFails
  BY <1>7 DEF ConnectFails, OnClientDisconnected, Thaw, NoLink
<1>8. CASE Discovered
  BY <1>8 DEF Discovered, ClientDisconnect, Broken, Freeze
<1>9. CASE DiscoveryFails
  BY <1>9 DEF DiscoveryFails, ClientDisconnect, Broken
<1>10. CASE HandshakeGoesOn
  BY <1>10 DEF HandshakeGoesOn, Notified, ClientDisconnect, Broken
<1>11. CASE HandshakeFails
  BY <1>11 DEF HandshakeFails, Notified, ClientDisconnect, Broken
<1>12. CASE SyncOver
  BY <1>12 DEF SyncOver, Notified, ClientDisconnect, Broken
<1>13. CASE SendFails
  BY <1>13 DEF SendFails, Notified, ClientDisconnect, Broken
<1>14. CASE ClientDisconnected
  BY <1>14 DEF ClientDisconnected, OnClientDisconnected, Thaw, NoLink
<1>15. CASE OutboundBreaks
  BY <1>15 DEF OutboundBreaks, Broken
<1>16. CASE InboundArrives
  BY <1>16 DEF InboundArrives, Reachable, central
<1>17. CASE InboundConnected
  BY <1>17 DEF InboundConnected, Freeze, central
<1>18. CASE InboundDisconnected
  BY <1>18 DEF InboundDisconnected, Thaw, central
<1>19. CASE InboundBreaks
  BY <1>19 DEF InboundBreaks, central
<1>20. CASE UNCHANGED vars
  BY <1>20 DEF vars, central
<1> QED
  BY <1>1, <1>2, <1>3, <1>4, <1>5, <1>6, <1>7, <1>8, <1>9, <1>10,
     <1>11, <1>12, <1>13, <1>14, <1>15, <1>16, <1>17, <1>18, <1>19, <1>20 DEF Next

\* A success is recorded for the peer and version of the connection.
LEMMA RecordStep ==
    ASSUME IInv, [Next]_vars
    PROVE  RecordsWhatItSynced'
PROOF
<1> USE MeshLinkAssumption DEF IInv, RecordsWhatItSynced, TargetIsLinked, SessionOverLink, Types, Version, Entry, ClientState
<1>1. CASE FlipToAdvertising
  BY <1>1 DEF FlipToAdvertising, Dwelling
<1>2. CASE FlipToScanning
  BY <1>2 DEF FlipToScanning, Dwelling
<1>3. ASSUME NEW p \in Peer, PeerSeen(p)
      PROVE  RecordsWhatItSynced'
  BY <1>3 DEF PeerSeen, ClientConnect
<1>4. ASSUME NEW p \in Peer, PeerChanges(p)
      PROVE  RecordsWhatItSynced'
  BY <1>4 DEF PeerChanges, central
<1>5. ASSUME NEW p \in Peer, BackoffEnds(p)
      PROVE  RecordsWhatItSynced'
  <2>1. \A q \in Peer : /\ table'[q].used = table[q].used
                        /\ table'[q].version = table[q].version
                        /\ table'[q].result = table[q].result
    BY <1>5 DEF BackoffEnds
  <2>2. UNCHANGED synced
    BY <1>5 DEF BackoffEnds
  <2> QED
    BY <2>1, <2>2
<1>6. CASE ConnectSucceeds
  BY <1>6 DEF ConnectSucceeds
<1>7. CASE ConnectFails
  BY <1>7 DEF ConnectFails, OnClientDisconnected, Thaw, NoLink
<1>8. CASE Discovered
  BY <1>8 DEF Discovered, ClientDisconnect, Broken, Freeze
<1>9. CASE DiscoveryFails
  BY <1>9 DEF DiscoveryFails, ClientDisconnect, Broken
<1>10. CASE HandshakeGoesOn
  BY <1>10 DEF HandshakeGoesOn, Notified, ClientDisconnect, Broken
<1>11. CASE HandshakeFails
  BY <1>11 DEF HandshakeFails, Notified, ClientDisconnect, Broken
<1>12. CASE SyncOver
  <2>1. /\ target.peer \in Peer
        /\ target.version \in Version
        /\ outbound.peer = target.peer
        /\ outbound.version = target.version
    BY <1>12 DEF SyncOver, Notified
  <2>2. CASE /\ table' \in Recorded(target.peer, target.version, "SUCCESS")
             /\ synced' = synced \cup {<<outbound.peer, outbound.version>>}
    <3>1. /\ table'[target.peer].version = target.version
          /\ table'[target.peer].result = "SUCCESS"
          /\ \A q \in Peer \ {target.peer} :
                table'[q].used => table'[q] = table[q]
      BY <2>1, <2>2, RecordedTables
    <3> QED
      BY <2>1, <2>2, <3>1
  <2>3. CASE /\ table' \in Recorded(target.peer, target.version, "FAILED")
             /\ UNCHANGED synced
    <3>1. /\ table'[target.peer].version = target.version
          /\ table'[target.peer].result = "FAILED"
          /\ \A q \in Peer \ {target.peer} :
                table'[q].used => table'[q] = table[q]
      BY <2>1, <2>3, RecordedTables
    <3> QED
      BY <2>1, <2>3, <3>1
  <2> QED
    BY <1>12, <2>2, <2>3 DEF SyncOver
<1>13. CASE SendFails
  BY <1>13 DEF SendFails, Notified, ClientDisconnect, Broken
<1>14. CASE ClientDisconnected
  BY <1>14 DEF ClientDisconnected, OnClientDisconnected, Thaw, NoLink
<1>15. CASE OutboundBreaks
  BY <1>15 DEF OutboundBreaks, Broken
<1>16. CASE InboundArrives
  BY <1>16 DEF InboundArrives, Reachable, central
<1>17. CASE InboundConnected
  BY <1>17 DEF InboundConnected, Freeze, central
<1>18. CASE InboundDisconnected
  BY <1>18 DEF InboundDisconnected, Thaw, central
<1>19. CASE InboundBreaks
  BY <1>19 DEF InboundBreaks, central
<1>20. CASE UNCHANGED vars
  BY <1>20 DEF vars, central
<1> QED
  BY <1>1, <1>2, <1>3, <1>4, <1>5, <1>6, <1>7, <1>8, <1>9, <1>10,
     <1>11, <1>12, <1>13, <1>14, <1>15, <1>16, <1>17, <1>18, <1>19, <1>20 DEF Next

\* The invariant is inductive.
THEOREM Invariant == Spec => []IInv
PROOF
<1>1. IInv /\ [Next]_vars => IInv'
  BY TypeStep, TableStep, SessionStep, ThawStep, TargetStep, RecordStep DEF IInv
<1> QED
  BY InitIInv, <1>1, PTL DEF Spec

------------------------------------------------------------------------------
\* All variables have their types at all times.
THEOREM TypeCorrect == Spec => []TypeOK
PROOF
<1>1. IInv => TypeOK
  BY DEF IInv, TableFits, TypeOK
<1> QED
  BY Invariant, <1>1, PTL

\* main.c, ble_client.c and the radio agree on the outbound connection, so a
\* session never outlives its link.
THEOREM Agreement == Spec => []SessionOverLink
PROOF
<1>1. IInv => SessionOverLink
  BY DEF IInv
<1> QED
  BY Invariant, <1>1, PTL

\* The schedule is never left frozen without a connection.
THEOREM NeverFrozenAlone == Spec => []ThawsWhenAlone
PROOF
<1>1. IInv => ThawsWhenAlone
  BY DEF IInv
<1> QED
  BY Invariant, <1>1, PTL

\* The peer table calls a success only what was one, with this peer at this
\* version.
THEOREM RecordsAreTrue == Spec => []RecordsWhatItSynced
PROOF
<1>1. IInv => RecordsWhatItSynced
  BY DEF IInv
<1> QED
  BY Invariant, <1>1, PTL
==============================================================================
