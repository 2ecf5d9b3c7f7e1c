---------------------------- MODULE CompanionClient ----------------------------
(***************************************************************************)
(* BLEManager.swift, the phone's end of the file commands: one connection, *)
(* one command at a time with one handler for its answer, a watchdog, and  *)
(* a queue of operations that take several commands each.                  *)
(*                                                                         *)
(* Everything here runs on the main queue, so every callback is one step.  *)
(* Answers carry nothing that says which command they answer.  Views only  *)
(* enqueue an operation from a completion while its own operation still    *)
(* holds the slot, so that is an Enqueue just before.                      *)
(*                                                                         *)
(* An operation ends with its first failure, except pullV2Encounters: it   *)
(* goes on with its next file, and tells how many it has added.            *)
(***************************************************************************)
EXTENDS Naturals, Sequences, SequencesExt

CONSTANTS
    Op,        \* operations a view may ask for, each once
    Commands,  \* the commands of each, if nothing fails
    Pulls      \* those that go on with the next file when one fails

Command == {"write_start", "write_chunk", "write_end",
            "read_start", "read_chunk", "ls", "delete"}

ASSUME CommandsAssumption ==
    \A o \in Op : Commands[o] \in Seq(Command) /\ Commands[o] # <<>>

\* pullV2Encounters begins with a listing.
ASSUME PullsAssumption ==
    Pulls \subseteq Op /\ \A o \in Pulls : Commands[o][1] = "ls"

VARIABLES
    \* the phone
    conn,       \* connectionState of the node
    current,    \* connectedNode is this node
    subscribed, \* notificationsReady
    handler,    \* fileResponseHandler: <<operation, number of the command>>
    watchdog,   \* fileResponseWatchdog is armed
    inFlight,   \* operationInFlight
    pending,    \* pendingOperations
    outcome,    \* what the caller of each operation has been told
    \* CoreBluetooth, the link and the node
    link,       \* the connection is up
    asked,      \* connect() has not been answered
    notice,     \* a didDisconnectPeripheral is on its way
    reading,    \* the read of the identity has not been answered
    toNode,     \* commands written
    toPhone,    \* answers notified
    executed,   \* commands the node has carried out, those of pulls apart
    givenUp     \* on this link a command was given up whose answer may come

conns == <<conn, current, subscribed>>
queue == <<handler, watchdog, inFlight, pending, outcome>>
radio == <<link, asked, notice, reading>>
air == <<toNode, toPhone, executed>>
vars == <<conns, queue, radio, air, givenUp>>

NoHandler == <<>>

\* "added" is a number of files, which does not tell that others failed.
Told == {"done", "unsure", "failed", "added"}

Outcome == Told \cup {"idle", "queued", "running", "dropped"}

Init ==
    /\ conn = "disconnected" /\ current = FALSE /\ subscribed = FALSE
    /\ handler = NoHandler /\ watchdog = FALSE
    /\ inFlight = FALSE /\ pending = <<>>
    /\ outcome = [o \in Op |-> "idle"]
    /\ link = FALSE /\ asked = FALSE /\ notice = FALSE /\ reading = FALSE
    /\ toNode = <<>> /\ toPhone = <<>> /\ executed = {}
    /\ givenUp = FALSE

------------------------------------------------------------------------------
(***************************************************************************)
(* The queue.                                                              *)
(***************************************************************************)
\* The guards of sendFileCommand
CanSend == current /\ conn = "ready" /\ subscribed

\* A write on a link that is down, but not yet reported so, goes nowhere.
Send(o, k) ==
    /\ handler' = <<o, k>>
    /\ watchdog' = TRUE
    /\ toNode' = IF link THEN Append(toNode, <<o, k>>) ELSE toNode

Quiet ==
    /\ handler' = NoHandler
    /\ watchdog' = FALSE
    /\ UNCHANGED toNode

\* Everything in the queue fails, one after the other, at its first command.
Drained(out, waiting) ==
    [o \in Op |-> IF o \in ToSet(waiting) THEN "failed" ELSE out[o]]

\* The completion of o, then finishOperation
Finish(o, how) ==
    LET out == [outcome EXCEPT ![o] = how]
    IN IF pending # <<>> /\ CanSend
       THEN /\ Send(Head(pending), 1)
            /\ outcome' = [out EXCEPT ![Head(pending)] = "running"]
            /\ pending' = Tail(pending)
            /\ UNCHANGED inFlight
       ELSE /\ Quiet
            /\ outcome' = Drained(out, pending)
            /\ pending' = <<>>
            /\ inFlight' = FALSE

\* listFiles, writeFileChunked, readFileChunked, deleteFile and so on
Enqueue(o) ==
    /\ outcome[o] = "idle"
    /\ IF inFlight
       THEN /\ pending' = Append(pending, o)
            /\ outcome' = [outcome EXCEPT ![o] = "queued"]
            /\ UNCHANGED <<handler, watchdog, inFlight, toNode>>
       ELSE IF CanSend
       THEN /\ Send(o, 1)
            /\ outcome' = [outcome EXCEPT ![o] = "running"]
            /\ inFlight' = TRUE
            /\ UNCHANGED pending
       ELSE Finish(o, "failed")
    /\ UNCHANGED <<conns, radio, toPhone, executed, givenUp>>

\* fetchV2EncountersSequentially: what is left after command k is another file.
MoreFiles(o, k) ==
    {j \in DOMAIN Commands[o] : j > k /\ Commands[o][j] = "read_start"}

\* What the caller hears when o ends with the failure of its command k
Failure(o, k) ==
    IF o \in Pulls /\ Commands[o][k] # "ls" THEN "added" ELSE "failed"

\* Command k of o has failed.  A pull goes on with its next file, and when it
\* cannot send, every file that is left fails at once.
Fail(o, k) ==
    IF Failure(o, k) = "added" /\ MoreFiles(o, k) # {} /\ CanSend
    THEN /\ \E j \in MoreFiles(o, k) :
               /\ \A i \in MoreFiles(o, k) : j <= i
               /\ Send(o, j)
         /\ UNCHANGED <<inFlight, pending, outcome>>
    ELSE Finish(o, Failure(o, k))

\* pendingOperations.removeAll, without a word to those who wait
Forgotten(out) ==
    [o \in Op |-> IF o \in ToSet(pending) THEN "dropped" ELSE out[o]]

\* The queue is emptied and the outstanding handler gets an error; its
\* finishOperation then finds nothing to start.
Reset ==
    /\ handler' = NoHandler
    /\ watchdog' = FALSE
    /\ inFlight' = FALSE
    /\ pending' = <<>>
    /\ outcome' = Forgotten(IF handler = NoHandler THEN outcome
                            ELSE [outcome EXCEPT ![handler[1]] =
                                      Failure(handler[1], handler[2])])

(***************************************************************************)
(* Answers.                                                                *)
(***************************************************************************)
\* What the answer to each command has in it, besides an error
Fields(c) == CASE c = "read_start" -> {"ok", "size"}
               [] c = "read_chunk" -> {"ok", "data"}
               [] c = "ls"         -> {"files"}
               [] OTHER            -> {"ok"}

\* What the handler of command c makes of an answer to command d: a page goes
\* on as long as its own answer names a next one; the others go on with ok.
Accepts(c, d) == Fields(c) \subseteq Fields(d)

\* read_start takes data instead of a size for the whole file.
WholeFile(c, d) == c = "read_start" /\ d = "read_chunk"

\* MUTANT: one command after the last
IsLastLate(o, k) == k > Len(Commands[o])

\* MUTANT: an operation is over one command before its last
IsLastEarly(o, k) == k >= Len(Commands[o]) - 1

IsLast(o, k) == k >= Len(Commands[o])

Success(o) ==
    IF o \in Pulls THEN "added" ELSE IF givenUp THEN "unsure" ELSE "done"

\* handleFileResponse
AnswerArrives ==
    /\ link /\ toPhone # <<>>
    /\ toPhone' = Tail(toPhone)
    /\ IF handler = NoHandler
       THEN UNCHANGED <<queue, toNode>>
       ELSE LET o == handler[1]
                k == handler[2]
                c == Commands[o][k]
                d == Commands[Head(toPhone).to[1]][Head(toPhone).to[2]]
                ok == Head(toPhone).ok
            IN \/ /\ ok /\ Accepts(c, d) /\ ~IsLast(o, k)
                  /\ IF CanSend
                     THEN /\ Send(o, k + 1)
                          /\ UNCHANGED <<inFlight, pending, outcome>>
                     ELSE Fail(o, k + 1)
               \/ /\ ok
                  /\ \/ Accepts(c, d) /\ IsLast(o, k)
                     \/ WholeFile(c, d) /\ o \notin Pulls
                  /\ Finish(o, Success(o))
               \/ /\ \/ ~ok
                     \/ ~(Accepts(c, d) \/ WholeFile(c, d))
                     \/ WholeFile(c, d) /\ o \in Pulls
                  /\ Fail(o, k)
    /\ UNCHANGED <<conns, radio, executed, givenUp>>

\* MUTANT: handleFileResponse returns without a word
GarbledIgnored ==
    /\ link /\ toPhone # <<>>
    /\ toPhone' = Tail(toPhone)
    /\ watchdog' = FALSE
    /\ UNCHANGED <<handler, inFlight, pending, outcome, toNode>>
    /\ UNCHANGED <<conns, radio, executed, givenUp>>

\* An empty or truncated answer: deliverFileResponseError
Garbled ==
    /\ link /\ toPhone # <<>>
    /\ toPhone' = Tail(toPhone)
    /\ IF handler = NoHandler THEN UNCHANGED <<queue, toNode>>
                              ELSE Fail(handler[1], handler[2])
    /\ UNCHANGED <<conns, radio, executed, givenUp>>

\* No answer for fileResponseTimeout; it may still come.
Watchdog ==
    /\ watchdog
    /\ handler # NoHandler
    /\ Fail(handler[1], handler[2])
    /\ givenUp' = link
    /\ UNCHANGED <<conns, radio, toPhone, executed>>

(***************************************************************************)
(* The node: commands in order, an answer for each that may be dropped.    *)
(***************************************************************************)
NodeExecutes ==
    /\ link /\ toNode # <<>>
    /\ toNode' = Tail(toNode)
    /\ \E ok \in BOOLEAN :
          /\ executed' = IF ok /\ Head(toNode)[1] \notin Pulls
                         THEN executed \cup {Head(toNode)} ELSE executed
          /\ \/ UNCHANGED toPhone
             \/ /\ subscribed
                /\ toPhone' = Append(toPhone, [to |-> Head(toNode), ok |-> ok])
    /\ UNCHANGED <<conns, queue, radio, givenUp>>

(***************************************************************************)
(* The connection.                                                         *)
(***************************************************************************)
IsConnected == conn \in {"connected", "readingIdentity", "ready"}

\* connect(to:)
Connect ==
    /\ ~(current /\ IsConnected)
    /\ conn' = "connecting"
    /\ current' = TRUE
    /\ asked' = TRUE
    /\ UNCHANGED <<subscribed, queue, link, notice, reading, air, givenUp>>

\* What a lost link takes with it
LinkGone ==
    /\ link' = FALSE
    /\ notice' = TRUE
    /\ reading' = FALSE
    /\ toNode' = <<>>
    /\ toPhone' = <<>>
    /\ givenUp' = FALSE

\* disconnect()
Disconnect ==
    /\ current
    /\ conn' = "disconnected"
    /\ current' = FALSE
    /\ subscribed' = FALSE
    /\ Reset
    /\ asked' = FALSE
    /\ LinkGone
    /\ UNCHANGED executed

LinkBreaks ==
    /\ link
    /\ LinkGone
    /\ UNCHANGED <<conns, queue, asked, executed>>

\* didConnect: the outstanding handler goes without a word, and on a link
\* that was up all the time its answer may still come.
DidConnect ==
    /\ asked
    /\ asked' = FALSE
    /\ link' = TRUE
    /\ conn' = "connected"
    /\ subscribed' = FALSE
    /\ handler' = NoHandler
    /\ watchdog' = FALSE
    /\ inFlight' = FALSE
    /\ pending' = <<>>
    /\ outcome' = Forgotten(IF handler = NoHandler THEN outcome
                            ELSE [outcome EXCEPT ![handler[1]] = "dropped"])
    /\ givenUp' = (link /\ (givenUp \/ handler # NoHandler))
    /\ UNCHANGED <<current, notice, reading, air>>

\* didFailToConnect
DidFailToConnect ==
    /\ asked /\ ~link
    /\ asked' = FALSE
    /\ conn' = "failed"
    /\ current' = FALSE
    /\ UNCHANGED <<subscribed, queue, link, notice, reading, air, givenUp>>

\* MUTANT: a stale notice is taken for the new connection's
DidDisconnectUnguarded ==
    /\ notice
    /\ notice' = FALSE
    /\ conn' = "disconnected"
    /\ current' = FALSE
    /\ IF current THEN subscribed' = FALSE /\ Reset
                  ELSE UNCHANGED <<subscribed, queue>>
    /\ UNCHANGED <<link, asked, reading, air, givenUp>>

\* MUTANT: the slot is not given back
DidDisconnectHoldsSlot ==
    /\ notice
    /\ notice' = FALSE
    /\ IF link \/ asked
       THEN UNCHANGED <<conns, queue>>
       ELSE /\ conn' = "disconnected"
            /\ current' = FALSE
            /\ IF current
               THEN /\ subscribed' = FALSE
                    /\ handler' = NoHandler
                    /\ watchdog' = FALSE
                    /\ pending' = <<>>
                    /\ outcome' = Forgotten(outcome)
                    /\ UNCHANGED inFlight
               ELSE UNCHANGED <<subscribed, queue>>
    /\ UNCHANGED <<link, asked, reading, air, givenUp>>

\* didDisconnectPeripheral; peripheral.state tells a stale one.
DidDisconnect ==
    /\ notice
    /\ notice' = FALSE
    /\ IF link \/ asked
       THEN UNCHANGED <<conns, queue>>
       ELSE /\ conn' = "disconnected"
            /\ current' = FALSE
            /\ IF current THEN subscribed' = FALSE /\ Reset
                          ELSE UNCHANGED <<subscribed, queue>>
    /\ UNCHANGED <<link, asked, reading, air, givenUp>>

\* didDiscoverServices, didDiscoverCharacteristicsFor and then
\* didUpdateNotificationStateFor, or its seed from a cached isNotifying, or the
\* one late after the other, whatever the app shows by then
Subscribed ==
    /\ link
    /\ subscribed' = TRUE
    /\ conn' = "readingIdentity"
    /\ reading' = TRUE
    /\ UNCHANGED <<current, queue, link, asked, notice, air, givenUp>>

\* One of these reports an error or misses something.
SetupFails ==
    /\ link
    /\ conn' = "failed"
    /\ subscribed' \in BOOLEAN
    /\ UNCHANGED <<current, queue, radio, air, givenUp>>

\* didUpdateNotificationStateFor with isNotifying off
Unsubscribed ==
    /\ link /\ subscribed
    /\ subscribed' = FALSE
    /\ conn' = IF IsConnected THEN "disconnected" ELSE conn
    /\ toPhone' = <<>>
    /\ UNCHANGED <<current, queue, radio, toNode, executed, givenUp>>

\* didUpdateValueFor the identity; an error is only news while reading it.
IdentityRead ==
    /\ link /\ reading
    /\ reading' = FALSE
    /\ \/ conn' \in {"ready", "failed"}
       \/ conn # "readingIdentity" /\ UNCHANGED conn
    /\ UNCHANGED <<current, subscribed, queue, link, asked, notice, air, givenUp>>

Next ==
    \/ \E o \in Op : Enqueue(o)
    \/ AnswerArrives \/ Garbled \/ Watchdog
    \/ NodeExecutes
    \/ Connect \/ Disconnect \/ LinkBreaks
    \/ DidConnect \/ DidFailToConnect \/ DidDisconnect
    \/ Subscribed \/ SetupFails \/ Unsubscribed \/ IdentityRead

Spec == Init /\ [][Next]_vars

\* The main queue runs a work item whose time has come.
FairSpec == Spec /\ WF_vars(Watchdog)

------------------------------------------------------------------------------
Call == {c \in Op \X Nat : c[2] \in DOMAIN Commands[c[1]]}

QueueTypes ==
    /\ handler \in Call \cup {NoHandler}
    /\ watchdog \in BOOLEAN
    /\ inFlight \in BOOLEAN
    /\ pending \in Seq(Op)
    /\ IsInjective(pending)
    /\ outcome \in [Op -> Outcome]

\* Every variable has its type, pending operations wait once each, and every
\* handler and message is about a command its operation has.
TypeOK ==
    /\ conn \in {"disconnected", "connecting", "connected",
                 "readingIdentity", "ready", "failed"}
    /\ {current, subscribed} \subseteq BOOLEAN
    /\ {link, asked, notice, reading, givenUp} \subseteq BOOLEAN
    /\ QueueTypes
    /\ toNode \in Seq(Call)
    /\ toPhone \in Seq([to : Call, ok : BOOLEAN])
    /\ executed \subseteq Call

\* The slot belongs to one operation, which waits for an answer with a
\* watchdog armed, and every operation that waits is behind it: no order of
\* answers, timeouts and connection callbacks leaves the slot taken with
\* nobody to give it back (enqueueOperation, finishOperation).
NeverWedged ==
    /\ inFlight <=> handler # NoHandler
    /\ inFlight <=> watchdog
    /\ \A o \in Op : outcome[o] = "running" <=> inFlight /\ handler[1] = o
    /\ \A o \in Op : outcome[o] = "queued" <=> o \in ToSet(pending)
    /\ pending # <<>> => inFlight

\* An operation reported a success has had each of its commands carried out by
\* the node, if no command was given up on this link before (sendFileCommand
\* and the handlers of the operations): without a number in the answers, an
\* answer that comes after its watchdog is taken for the next command's.  A
\* pull claims no more than the number of files it has added.
TrueReports ==
    \A o \in Op : outcome[o] = "done" =>
        \A k \in DOMAIN Commands[o] : <<o, k>> \in executed

\* A node shown as ready is the connected one, and its link is up or a
\* callback that will say otherwise is on its way, however late the callbacks
\* of earlier connections come (didDisconnectPeripheral's race guard).
ReadyIsReal ==
    conn = "ready" => current /\ (link \/ notice \/ asked)

\* Every operation comes to an end, whatever is lost.
EveryOperationEnds ==
    \A o \in Op : outcome[o] \in {"queued", "running"} ~>
                      outcome[o] \in Told \cup {"dropped"}
==============================================================================
