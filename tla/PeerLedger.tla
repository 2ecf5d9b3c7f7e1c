------------------------------ MODULE PeerLedger ------------------------------
(***************************************************************************)
(* The per-peer running totals of core/peer_ledger.c as an abstract data   *)
(* type: a ledger is the sequence g_entries[0 .. g_used - 1], and there is *)
(* one operator per call.  Encounter applies them to the ledger of a node. *)
(*                                                                         *)
(* One total stands for the three of an entry, which change alike; the     *)
(* reputation score is never set by this code and left out.                *)
(***************************************************************************)
EXTENDS Integers, Sequences

CONSTANTS
    Node,       \* nodes, by their full public key
    LedgerCap,  \* PEER_LEDGER_CAP
    MaxTotal    \* UINT64_MAX, where totals stop

ASSUME LedgerAssumption ==
    /\ LedgerCap \in Nat \ {0}
    /\ MaxTotal \in Nat

LedgerEntry == [peer : Node, met : Nat, total : 0 .. MaxTotal]

Ledger == {l \in Seq(LedgerEntry) : Len(l) <= LedgerCap}

FirstContact(p) == [peer |-> p, met |-> 0, total |-> 0]

\* find_index(p) >= 0
Knows(l, p) == \E i \in DOMAIN l : l[i].peer = p

\* pick_eviction_victim: the lowest last_meeting_count, the first of them
Victim(l) ==
    CHOOSE i \in DOMAIN l : \A j \in DOMAIN l :
        l[i].met < l[j].met \/ (l[i].met = l[j].met /\ i <= j)

\* upsert_slot
Upserted(l, p) ==
    IF Knows(l, p) THEN l
    ELSE IF Len(l) < LedgerCap THEN Append(l, FirstContact(p))
    ELSE [l EXCEPT ![Victim(l)] = FirstContact(p)]

\* MUTANT: a sum that wraps
SatAddWraps(x, y) == (x + y) % (MaxTotal + 1)

\* MUTANT: a sum without end
SatAddPlain(x, y) == x + y

\* sat_add_u64
SatAdd(x, y) == IF y > MaxTotal - x THEN MaxTotal ELSE x + y

\* MUTANT: the count of every call is taken over
AppliedLatest(l, p, delta, count) ==
    LET slots == Upserted(l, p) IN
    [i \in DOMAIN slots |->
        IF slots[i].peer # p THEN slots[i]
        ELSE [slots[i] EXCEPT !.total = SatAdd(@, delta), !.met = count]]

\* peer_ledger_apply: a count of 0 leaves last_meeting_count alone
Applied(l, p, delta, count) ==
    LET slots == Upserted(l, p) IN
    [i \in DOMAIN slots |->
        IF slots[i].peer # p THEN slots[i]
        ELSE [slots[i] EXCEPT !.total = SatAdd(@, delta),
                              !.met = IF count > @ THEN count ELSE @]]

\* peer_ledger_get in peer_ledger_late_bind: 0 for a peer not in the ledger
Lifetime(l, p) ==
    IF Knows(l, p) THEN l[CHOOSE i \in DOMAIN l : l[i].peer = p].total ELSE 0
==============================================================================
