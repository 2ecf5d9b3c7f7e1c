------------------------- MODULE CompanionClientProofs -------------------------
(***************************************************************************)
(* The safety properties of CompanionClient, for every set of operations   *)
(* and whatever commands each of them takes.                               *)
(*                                                                         *)
(* NeverWedged and ReadyIsReal need little beside themselves.  TrueReports *)
(* needs to know why the answer at hand is the handler's: as long as no    *)
(* command was given up on the link, at most one message is between the    *)
(* two ends, and it is about the command the handler waits for.            *)
(***************************************************************************)
EXTENDS CompanionClient, SequenceTheorems, TLAPS

\* Who is connected, and what a link that is down can carry
LinkSane ==
    /\ link \/ asked => current
    /\ reading => link
    /\ ~link => toNode = <<>> /\ toPhone = <<>>

\* The command has been carried out; for pulls no account is kept.
Carried(h, done) == h[1] \in Pulls \/ h \in done

\* Every message on the link is about the outstanding command.
OneAtATime ==
    /\ Len(toNode) + Len(toPhone) <= 1
    /\ \A i \in DOMAIN toNode : toNode[i] = handler
    /\ \A i \in DOMAIN toPhone :
          /\ toPhone[i].to = handler
          /\ toPhone[i].ok => Carried(handler, executed)

\* The commands before the outstanding one have been carried out, unless it
\* belongs to a pull, which may have skipped files.
Done(h, done) ==
    h[1] \in Pulls \/ \A k \in 1 .. h[2] - 1 : <<h[1], k>> \in done

Attuned ==
    link /\ ~givenUp =>
        /\ OneAtATime
        /\ handler # NoHandler => Done(handler, executed)

IInv ==
    /\ TypeOK
    /\ NeverWedged
    /\ ReadyIsReal
    /\ LinkSane
    /\ Attuned
    /\ TrueReports

------------------------------------------------------------------------------
(* Waiting operations and calls. *)

\* The set of a sequence with one element more
LEMMA SetOfAppend ==
  ASSUME NEW S, NEW s \in Seq(S), NEW e \in S
  PROVE  ToSet(Append(s, e)) = ToSet(s) \cup {e}
  <1>1. /\ DOMAIN s = 1 .. Len(s)
        /\ DOMAIN Append(s, e) = 1 .. Len(s) + 1
        /\ Len(s) \in Nat
        /\ \A i \in 1 .. Len(s) : Append(s, e)[i] = s[i]
        /\ Append(s, e)[Len(s) + 1] = e
    BY AppendProperties, LenProperties
  <1> QED
    BY <1>1 DEF ToSet

\* A new element at the end of a sequence without repetition
LEMMA InjectiveAppend ==
  ASSUME NEW S, NEW s \in Seq(S), NEW e \in S, IsInjective(s), e \notin ToSet(s)
  PROVE  IsInjective(Append(s, e))
  <1>1. /\ DOMAIN s = 1 .. Len(s)
        /\ DOMAIN Append(s, e) = 1 .. Len(s) + 1
        /\ Len(s) \in Nat
        /\ \A i \in 1 .. Len(s) : Append(s, e)[i] = s[i]
        /\ Append(s, e)[Len(s) + 1] = e
    BY AppendProperties, LenProperties
  <1>2. \A i \in 1 .. Len(s) : s[i] # e
    BY <1>1 DEF ToSet
  <1>3. \A i, j \in 1 .. Len(s) : s[i] = s[j] => i = j
    BY <1>1 DEF IsInjective
  <1> QED
    BY <1>1, <1>2, <1>3 DEF IsInjective

\* A sequence without repetition loses exactly its head.
LEMMA InjectiveTail ==
  ASSUME NEW S, NEW s \in Seq(S), s # <<>>, IsInjective(s)
  PROVE  /\ Head(s) \in S
         /\ Tail(s) \in Seq(S)
         /\ IsInjective(Tail(s))
         /\ ToSet(Tail(s)) = ToSet(s) \ {Head(s)}
         /\ Head(s) \in ToSet(s)
  <1>1. /\ Head(s) \in S
        /\ Tail(s) \in Seq(S)
        /\ Len(Tail(s)) = Len(s) - 1
        /\ \A i \in 1 .. Len(Tail(s)) : Tail(s)[i] = s[i + 1]
    BY HeadTailProperties
  <1>2. /\ DOMAIN s = 1 .. Len(s)
        /\ DOMAIN Tail(s) = 1 .. Len(s) - 1
        /\ Len(s) \in Nat \ {0}
        /\ Head(s) = s[1]
    BY <1>1, LenProperties, EmptySeq
  <1>3. \A i, j \in 1 .. Len(s) : s[i] = s[j] => i = j
    BY <1>2 DEF IsInjective
  <1>4. \A i \in 1 .. Len(s) - 1 : Tail(s)[i] = s[i + 1] /\ i + 1 \in 1 .. Len(s)
    BY <1>1, <1>2
  <1>5. IsInjective(Tail(s))
    BY <1>2, <1>3, <1>4 DEF IsInjective
  <1>6. ToSet(Tail(s)) \subseteq ToSet(s) \ {Head(s)}
    BY <1>2, <1>3, <1>4 DEF ToSet
  <1>7. ToSet(s) \ {Head(s)} \subseteq ToSet(Tail(s))
    <2> SUFFICES ASSUME NEW i \in 1 .. Len(s), s[i] # Head(s)
                 PROVE  s[i] \in ToSet(Tail(s))
      BY <1>2 DEF ToSet
    <2>1. i - 1 \in 1 .. Len(s) - 1
      BY <1>2
    <2>2. Tail(s)[i - 1] = s[i]
      BY <1>4, <2>1
    <2> QED
      BY <1>2, <2>1, <2>2 DEF ToSet
  <1>8. Head(s) \in ToSet(s)
    BY <1>2 DEF ToSet
  <1> QED
    BY <1>1, <1>5, <1>6, <1>7, <1>8

\* The first element of a sequence, and the others
LEMMA FirstAndRest ==
  ASSUME NEW S, NEW s \in Seq(S), s # <<>>
  PROVE  /\ Head(s) \in S
         /\ Tail(s) \in Seq(S)
         /\ Len(Tail(s)) = Len(s) - 1
         /\ Len(s) \in Nat \ {0}
         /\ Head(s) = s[1]
         /\ \A i \in 1 .. Len(s) - 1 : Tail(s)[i] = s[i + 1]
  BY HeadTailProperties, LenProperties, EmptySeq

\* The empty queue
LEMMA EmptyQueue ==
  ASSUME NEW S
  PROVE  /\ <<>> \in Seq(S)
         /\ IsInjective(<<>>)
         /\ ToSet(<<>>) = {}
         /\ Len(<<>>) = 0
         /\ DOMAIN <<>> = {}
  BY DEF IsInjective, ToSet

\* A call is a pair.
LEMMA CallShape ==
  ASSUME NEW c \in Call
  PROVE  /\ c[1] \in Op /\ c[2] \in 1 .. Len(Commands[c[1]])
         /\ c = <<c[1], c[2]>>
         /\ c # NoHandler
  <1>1. c \in Op \X Nat /\ c[2] \in DOMAIN Commands[c[1]]
    BY DEF Call
  <1>2. PICK o \in Op, k \in Nat : c = <<o, k>>
    BY <1>1
  <1>3. DOMAIN Commands[o] = 1 .. Len(Commands[o])
    BY CommandsAssumption, LenProperties
  <1>4. Len(<<o, k>>) = 2 /\ Len(<<>>) = 0
    OBVIOUS
  <1> QED
    BY <1>1, <1>2, <1>3, <1>4 DEF NoHandler

\* A command its operation has, is a call; each operation has a first one.
LEMMA CallIntro ==
  ASSUME NEW o \in Op
  PROVE  /\ Len(Commands[o]) \in Nat
         /\ DOMAIN Commands[o] = 1 .. Len(Commands[o])
         /\ \A k \in 1 .. Len(Commands[o]) : <<o, k>> \in Call
         /\ 1 \in 1 .. Len(Commands[o])
  <1>1. Commands[o] \in Seq(Command) /\ Commands[o] # <<>>
    BY CommandsAssumption
  <1>2. /\ Len(Commands[o]) \in Nat \ {0}
        /\ DOMAIN Commands[o] = 1 .. Len(Commands[o])
    BY <1>1, LenProperties, EmptySeq
  <1>3. ASSUME NEW k \in 1 .. Len(Commands[o])
        PROVE  <<o, k>> \in Call
    BY <1>2 DEF Call
  <1> QED
    BY <1>2, <1>3

------------------------------------------------------------------------------
(* What the operations of the queue do, for any action that uses them. *)

\* What a step may do to the outstanding command: leave the phone with none,
\* or with the first one of an operation, or with a later one of a pull, sent
\* if the link is up.
NextFirst ==
    \/ handler' = NoHandler /\ toNode' = toNode
    \/ \E p \in Op, k \in Nat :
          /\ k = 1 \/ p \in Pulls
          /\ handler' = <<p, k>>
          /\ toNode' = IF link THEN Append(toNode, <<p, k>>) ELSE toNode

\* finishOperation hands the slot to the next in the queue, or gives it back
\* and leaves nobody waiting.
LEMMA FinishQueue ==
  ASSUME TypeOK, NeverWedged,
         NEW o \in Op, o \notin ToSet(pending), inFlight => handler[1] = o,
         NEW how \in Told, Finish(o, how)
  PROVE  /\ QueueTypes' /\ NeverWedged'
         /\ toNode' \in Seq(Call)
         /\ NextFirst
         /\ \A q \in Op : outcome'[q] = "done" =>
               outcome[q] = "done" \/ (q = o /\ how = "done")
  <1> USE DEF Outcome, Told
  <1>0. /\ QueueTypes
        /\ toNode \in Seq(Call)
    BY DEF TypeOK
  <1>1. CASE pending # <<>> /\ CanSend
    <2> DEFINE p == Head(pending)
    <2>1. /\ p \in Op /\ p # o
          /\ Tail(pending) \in Seq(Op)
          /\ IsInjective(Tail(pending))
          /\ ToSet(Tail(pending)) = ToSet(pending) \ {p}
      BY <1>0, <1>1, InjectiveTail DEF QueueTypes
    <2>2. <<p, 1>> \in Call
      BY <2>1, CallIntro
    <2>3. <<p, 1>> # NoHandler
      BY <2>2, CallShape
    <2>4. /\ handler' = <<p, 1>>
          /\ watchdog' = TRUE
          /\ toNode' = IF link THEN Append(toNode, <<p, 1>>) ELSE toNode
          /\ outcome' = [[outcome EXCEPT ![o] = how] EXCEPT ![p] = "running"]
          /\ pending' = Tail(pending)
          /\ inFlight' = inFlight
      BY <1>1 DEF Finish, Send
    <2>5. inFlight = TRUE
      BY <1>0, <1>1 DEF NeverWedged, QueueTypes
    <2> HIDE DEF p
    <2>6. QueueTypes'
      BY <1>0, <2>1, <2>2, <2>4, <2>5 DEF QueueTypes
    <2>7. toNode' \in Seq(Call)
      BY <1>0, <2>2, <2>4, AppendProperties
    <2>8. NeverWedged'
      <3>1. (inFlight <=> handler # NoHandler)' /\ (inFlight <=> watchdog)'
        BY <2>3, <2>4, <2>5
      <3>2. ASSUME NEW q \in Op
            PROVE  (outcome[q] = "running" <=> inFlight /\ handler[1] = q)'
        <4>1. outcome'[q] = IF q = p THEN "running"
                            ELSE IF q = o THEN how ELSE outcome[q]
          BY <1>0, <2>4 DEF QueueTypes
        <4>2. q # p /\ q # o => outcome[q] # "running"
          BY <2>5 DEF NeverWedged
        <4>3. handler'[1] = p
          BY <2>4
        <4> QED
          BY <2>1, <2>4, <2>5, <4>1, <4>2, <4>3
      <3>3. ASSUME NEW q \in Op
            PROVE  (outcome[q] = "queued" <=> q \in ToSet(pending))'
        <4>1. outcome'[q] = IF q = p THEN "running"
                            ELSE IF q = o THEN how ELSE outcome[q]
          BY <1>0, <2>4 DEF QueueTypes
        <4>2. outcome[q] = "queued" <=> q \in ToSet(pending)
          BY DEF NeverWedged
        <4>3. ToSet(pending)' = ToSet(pending) \ {p}
          BY <2>1, <2>4 DEF ToSet
        <4> QED
          BY <2>1, <4>1, <4>2, <4>3
      <3> QED
        BY <2>4, <2>5, <3>1, <3>2, <3>3 DEF NeverWedged
    <2>9. NextFirst
      BY <2>1, <2>4 DEF NextFirst
    <2>10. \A q \in Op : outcome'[q] = "done" =>
              outcome[q] = "done" \/ (q = o /\ how = "done")
      BY <1>0, <2>1, <2>4 DEF QueueTypes
    <2> QED
      BY <2>6, <2>7, <2>8, <2>9, <2>10
  <1>2. CASE ~(pending # <<>> /\ CanSend)
    <2>1. /\ handler' = NoHandler /\ watchdog' = FALSE /\ toNode' = toNode
          /\ pending' = <<>> /\ inFlight' = FALSE
          /\ outcome' = Drained([outcome EXCEPT ![o] = how], pending)
      BY <1>2 DEF Finish, Quiet
    <2>2. \A q \in Op : outcome'[q] = IF q \in ToSet(pending) THEN "failed"
                            ELSE IF q = o THEN how ELSE outcome[q]
      BY <1>0, <2>1 DEF Drained, QueueTypes
    <2>3. outcome' \in [Op -> Outcome]
      BY <1>0, <2>1, <2>2 DEF Drained, QueueTypes
    <2>4. QueueTypes'
      BY <2>1, <2>3, EmptyQueue DEF QueueTypes
    <2>5. ASSUME NEW q \in Op
          PROVE  outcome'[q] # "running" /\ outcome'[q] # "queued"
      <3>1. /\ outcome[q] = "running" => inFlight /\ handler[1] = q
            /\ outcome[q] = "queued" => q \in ToSet(pending)
        BY DEF NeverWedged
      <3> QED
        BY <2>2, <3>1
    <2>6. ToSet(pending)' = {}
      BY <2>1, EmptyQueue DEF ToSet
    <2>7. NeverWedged'
      BY <2>1, <2>5, <2>6 DEF NeverWedged
    <2> QED
      BY <1>0, <2>1, <2>2, <2>4, <2>7 DEF NextFirst
  <1> QED
    BY <1>1, <1>2

\* The operation that holds the slot goes on to another of its commands.
LEMMA GoesOn ==
  ASSUME TypeOK, NeverWedged, handler # NoHandler,
         NEW j \in 1 .. Len(Commands[handler[1]]), Send(handler[1], j),
         UNCHANGED <<inFlight, pending, outcome>>
  PROVE  QueueTypes' /\ NeverWedged' /\ toNode' \in Seq(Call)
  <1> DEFINE o == handler[1]
  <1>1. QueueTypes /\ toNode \in Seq(Call)
    BY DEF TypeOK
  <1>2. /\ o \in Op
        /\ inFlight
    BY <1>1, CallShape DEF QueueTypes, NeverWedged
  <1>3. <<o, j>> \in Call /\ <<o, j>> # NoHandler
    BY <1>2, CallIntro, CallShape
  <1>4. /\ handler' = <<o, j>> /\ watchdog' = TRUE
        /\ toNode' = IF link THEN Append(toNode, <<o, j>>) ELSE toNode
        /\ UNCHANGED <<inFlight, pending, outcome>>
    BY DEF Send
  <1>5. toNode' \in Seq(Call)
    BY <1>1, <1>3, <1>4, AppendProperties
  <1>6. QueueTypes'
    BY <1>1, <1>3, <1>4 DEF QueueTypes
  <1>7. handler'[1] = handler[1] /\ ToSet(pending)' = ToSet(pending)
    BY <1>4 DEF ToSet
  <1>8. NeverWedged'
    BY <1>2, <1>3, <1>4, <1>7 DEF NeverWedged
  <1> QED
    BY <1>5, <1>6, <1>8

\* A command that fails ends its operation, or a pull goes on with a file.
LEMMA FailQueue ==
  ASSUME TypeOK, NeverWedged, handler # NoHandler, NEW k,
         Fail(handler[1], k)
  PROVE  /\ QueueTypes' /\ NeverWedged' /\ toNode' \in Seq(Call)
         /\ NextFirst
         /\ \A q \in Op : outcome'[q] = "done" => outcome[q] = "done"
  <1> DEFINE o == handler[1]
             how == Failure(o, k)
  <1>1. /\ o \in Op /\ o \notin ToSet(pending)
        /\ DOMAIN Commands[o] = 1 .. Len(Commands[o])
        /\ Len(Commands[o]) \in Nat
    BY CallShape, CallIntro DEF TypeOK, QueueTypes, NeverWedged
  <1>2. how \in {"added", "failed"}
    BY DEF Failure
  <1>3. ASSUME NEW j \in MoreFiles(o, k), how = "added", Send(o, j),
               UNCHANGED <<inFlight, pending, outcome>>
        PROVE  /\ QueueTypes' /\ NeverWedged' /\ toNode' \in Seq(Call)
               /\ NextFirst
    <2>1. o \in Pulls
      BY <1>3 DEF Failure
    <2>2. j \in 1 .. Len(Commands[o]) /\ j \in Nat
      BY <1>1 DEF MoreFiles
    <2>3. QueueTypes' /\ NeverWedged' /\ toNode' \in Seq(Call)
      BY <1>3, <2>2, GoesOn
    <2>4. /\ handler' = <<o, j>>
          /\ toNode' = IF link THEN Append(toNode, <<o, j>>) ELSE toNode
      BY <1>3 DEF Send
    <2> QED
      BY <1>1, <2>1, <2>2, <2>3, <2>4 DEF NextFirst
  <1>4. CASE Finish(o, how)
    <2>1. how \in Told /\ how # "done"
      BY <1>2 DEF Told
    <2>2. inFlight => handler[1] = o
      OBVIOUS
    <2> HIDE DEF o, how
    <2> QED
      BY <1>1, <1>4, <2>1, <2>2, FinishQueue
  <1> HIDE DEF how
  <1>5. \/ Finish(o, how)
        \/ /\ how = "added" /\ UNCHANGED <<inFlight, pending, outcome>>
           /\ \E j \in MoreFiles(o, k) : Send(o, j)
    BY DEF Fail, how
  <1> QED
    BY <1>3, <1>4, <1>5

\* A new connection, or the end of one, empties the queue.
LEMMA QueueEmptied ==
  ASSUME TypeOK, NeverWedged, NEW how \in {"failed", "dropped", "added"},
         handler' = NoHandler, watchdog' = FALSE, inFlight' = FALSE,
         pending' = <<>>,
         outcome' = Forgotten(IF handler = NoHandler THEN outcome
                              ELSE [outcome EXCEPT ![handler[1]] = how])
  PROVE  /\ QueueTypes' /\ NeverWedged'
         /\ \A q \in Op : outcome'[q] = "done" => outcome[q] = "done"
  <1> USE DEF Outcome, Told
  <1>0. QueueTypes
    BY DEF TypeOK
  <1>1. \A q \in Op : outcome'[q] =
            IF q \in ToSet(pending) THEN "dropped"
            ELSE IF handler # NoHandler /\ handler[1] = q THEN how
            ELSE outcome[q]
    BY <1>0 DEF Forgotten, QueueTypes
  <1>2. outcome' \in [Op -> Outcome]
    BY <1>0, <1>1 DEF Forgotten, QueueTypes
  <1>3. QueueTypes'
    BY <1>2, EmptyQueue DEF QueueTypes
  <1>4. ASSUME NEW q \in Op
        PROVE  outcome'[q] # "running" /\ outcome'[q] # "queued"
    <2>1. /\ outcome[q] = "running" => handler # NoHandler /\ handler[1] = q
          /\ outcome[q] = "queued" => q \in ToSet(pending)
      BY DEF NeverWedged
    <2> QED
      BY <1>1, <2>1
  <1>5. ToSet(pending)' = {}
    BY EmptyQueue DEF ToSet
  <1>6. NeverWedged'
    BY <1>4, <1>5 DEF NeverWedged
  <1> QED
    BY <1>1, <1>3, <1>6

\* disconnect() and didDisconnectPeripheral, as far as the queue goes
LEMMA ResetQueue ==
  ASSUME TypeOK, NeverWedged, Reset
  PROVE  /\ QueueTypes' /\ NeverWedged'
         /\ \A q \in Op : outcome'[q] = "done" => outcome[q] = "done"
  <1> DEFINE how == Failure(handler[1], handler[2])
  <1>1. how \in {"failed", "dropped", "added"}
    BY DEF Failure
  <1>2. /\ handler' = NoHandler /\ watchdog' = FALSE /\ inFlight' = FALSE
        /\ pending' = <<>>
        /\ outcome' = Forgotten(IF handler = NoHandler THEN outcome
                                ELSE [outcome EXCEPT ![handler[1]] = how])
    BY DEF Reset
  <1> HIDE DEF how
  <1> QED
    BY <1>1, <1>2, QueueEmptied

------------------------------------------------------------------------------
(* The initial state and the types. *)

\* A phone that has just started satisfies all of it.
LEMMA InitIInv == Init => IInv
  <1> SUFFICES ASSUME Init
               PROVE  IInv
    OBVIOUS
  <1>1. TypeOK
    BY EmptyQueue DEF Init, TypeOK, QueueTypes, Outcome
  <1>2. NeverWedged
    BY EmptyQueue DEF Init, NeverWedged
  <1>3. ReadyIsReal /\ LinkSane /\ Attuned
    BY DEF Init, ReadyIsReal, LinkSane, Attuned
  <1>4. TrueReports
    BY DEF Init, TrueReports
  <1> QED
    BY <1>1, <1>2, <1>3, <1>4 DEF IInv

\* An operation that is asked for and cannot wait or start, fails at once.
LEMMA EnqueueQueue ==
  ASSUME TypeOK, NeverWedged, NEW o \in Op, Enqueue(o)
  PROVE  /\ QueueTypes' /\ NeverWedged' /\ toNode' \in Seq(Call)
         /\ \/ handler' = handler /\ toNode' = toNode
            \/ handler = NoHandler /\ NextFirst
         /\ \A q \in Op : outcome'[q] = "done" => outcome[q] = "done"
  <1> USE DEF Outcome, Told
  <1>0. /\ QueueTypes /\ toNode \in Seq(Call) /\ outcome[o] = "idle"
        /\ o \notin ToSet(pending)
        /\ ~(inFlight /\ handler[1] = o)
    BY DEF TypeOK, Enqueue, NeverWedged
  <1>1. CASE inFlight
    <2>1. /\ pending' = Append(pending, o)
          /\ outcome' = [outcome EXCEPT ![o] = "queued"]
          /\ UNCHANGED <<handler, watchdog, inFlight, toNode>>
      BY <1>1 DEF Enqueue
    <2>2. /\ Append(pending, o) \in Seq(Op)
          /\ IsInjective(Append(pending, o))
          /\ ToSet(Append(pending, o)) = ToSet(pending) \cup {o}
      BY <1>0, AppendProperties, InjectiveAppend, SetOfAppend DEF QueueTypes
    <2>3. QueueTypes'
      BY <1>0, <2>1, <2>2 DEF QueueTypes
    <2>4. ToSet(pending)' = ToSet(pending) \cup {o}
      BY <2>1, <2>2 DEF ToSet
    <2>5. NeverWedged'
      <3>1. \A q \in Op : outcome'[q] = IF q = o THEN "queued" ELSE outcome[q]
        BY <1>0, <2>1 DEF QueueTypes
      <3> QED
        BY <1>0, <1>1, <2>1, <2>4, <3>1 DEF NeverWedged
    <2> QED
      BY <1>0, <2>1, <2>3, <2>5 DEF QueueTypes
  <1>2. CASE ~inFlight /\ CanSend
    <2>1. /\ handler' = <<o, 1>>
          /\ watchdog' = TRUE
          /\ toNode' = IF link THEN Append(toNode, <<o, 1>>) ELSE toNode
          /\ outcome' = [outcome EXCEPT ![o] = "running"]
          /\ inFlight' = TRUE
          /\ pending' = pending
      BY <1>2 DEF Enqueue, Send
    <2>2. <<o, 1>> \in Call /\ <<o, 1>> # NoHandler
      BY CallIntro, CallShape
    <2>3. toNode' \in Seq(Call)
      BY <1>0, <2>1, <2>2, AppendProperties
    <2>4. QueueTypes'
      BY <1>0, <2>1, <2>2 DEF QueueTypes
    <2>5. pending = <<>> /\ handler = NoHandler
      BY <1>2 DEF NeverWedged
    <2>6. ToSet(pending)' = ToSet(pending)
      BY <2>1 DEF ToSet
    <2>7. NeverWedged'
      <3>1. \A q \in Op : outcome'[q] = IF q = o THEN "running" ELSE outcome[q]
        BY <1>0, <2>1 DEF QueueTypes
      <3>2. handler'[1] = o
        BY <2>1
      <3> QED
        BY <1>0, <1>2, <2>1, <2>2, <2>5, <2>6, <3>1, <3>2 DEF NeverWedged
    <2>8. NextFirst
      BY <2>1 DEF NextFirst
    <2> QED
      BY <1>0, <2>1, <2>3, <2>4, <2>5, <2>7, <2>8 DEF QueueTypes
  <1>3. CASE ~inFlight /\ ~CanSend
    <2>1. Finish(o, "failed")
      BY <1>3 DEF Enqueue
    <2>2. handler = NoHandler
      BY <1>3 DEF NeverWedged
    <2>3. /\ QueueTypes' /\ NeverWedged' /\ toNode' \in Seq(Call) /\ NextFirst
          /\ \A q \in Op : outcome'[q] = "done" =>
                outcome[q] = "done" \/ (q = o /\ "failed" = "done")
      BY <1>0, <1>3, <2>1, FinishQueue
    <2> QED
      BY <2>2, <2>3
  <1> QED
    BY <1>1, <1>2, <1>3

\* What an answer does to the queue: nothing, the operation's next command,
\* or the operation's end.
LEMMA AnswerQueue ==
  ASSUME TypeOK, NeverWedged, AnswerArrives
  PROVE  /\ QueueTypes' /\ NeverWedged' /\ toNode' \in Seq(Call)
         /\ \/ handler = NoHandler /\ UNCHANGED <<queue, toNode>>
            \/ /\ handler \in Call /\ Head(toPhone).ok
               /\ handler' = <<handler[1], handler[2] + 1>>
               /\ toNode' = IF link THEN Append(toNode, handler') ELSE toNode
               /\ outcome' = outcome
            \/ /\ handler \in Call /\ NextFirst
               /\ \A q \in Op : outcome'[q] = "done" =>
                     \/ outcome[q] = "done"
                     \/ /\ q = handler[1] /\ q \notin Pulls
                        /\ ~givenUp /\ Head(toPhone).ok
                        /\ \/ handler[2] >= Len(Commands[q])
                           \/ Head(toPhone).to # handler
  <1> USE DEF Outcome, Told
  <1>0. /\ QueueTypes /\ toNode \in Seq(Call) /\ givenUp \in BOOLEAN
        /\ toPhone # <<>>
    BY DEF TypeOK, AnswerArrives
  <1>1. CASE handler = NoHandler
    <2>1. UNCHANGED <<queue, toNode>>
      BY <1>1 DEF AnswerArrives
    <2>2. QueueTypes' /\ NeverWedged'
      BY <1>0, <2>1 DEF QueueTypes, NeverWedged, queue, ToSet, IsInjective
    <2> QED
      BY <1>0, <1>1, <2>1, <2>2
  <1>2. CASE handler # NoHandler
    <2> DEFINE o == handler[1]
               k == handler[2]
               h == Head(toPhone)
               c == Commands[o][k]
               d == Commands[h.to[1]][h.to[2]]
    <2>1. /\ handler \in Call /\ o \in Op /\ k \in 1 .. Len(Commands[o])
          /\ handler = <<o, k>>
      BY <1>0, <1>2, CallShape DEF QueueTypes
    <2>2. inFlight /\ outcome[o] = "running" /\ o \notin ToSet(pending)
      BY <1>2, <2>1 DEF NeverWedged
    <2>3. \/ /\ h.ok /\ ~IsLast(o, k)
             /\ Send(o, k + 1)
             /\ UNCHANGED <<inFlight, pending, outcome>>
          \/ /\ h.ok /\ (IsLast(o, k) \/ WholeFile(c, d))
             /\ Finish(o, Success(o))
          \/ Fail(o, k) \/ Fail(o, k + 1)
      BY <1>2 DEF AnswerArrives
    <2> HIDE DEF o, k, h
    <2>4. CASE /\ h.ok /\ ~IsLast(o, k)
               /\ Send(o, k + 1)
               /\ UNCHANGED <<inFlight, pending, outcome>>
      <3>1. k + 1 \in 1 .. Len(Commands[o])
        BY <2>1, <2>4, CallIntro DEF IsLast
      <3>2. /\ handler' = <<o, k + 1>>
            /\ toNode' = IF link THEN Append(toNode, <<o, k + 1>>) ELSE toNode
            /\ outcome' = outcome
        BY <2>4 DEF Send
      <3>3. QueueTypes' /\ NeverWedged' /\ toNode' \in Seq(Call)
        BY <1>2, <2>4, <3>1, GoesOn DEF o
      <3> QED
        BY <2>1, <2>4, <3>2, <3>3 DEF o, k, h
    <2>5. CASE /\ h.ok /\ (IsLast(o, k) \/ WholeFile(c, d))
               /\ Finish(o, Success(o))
      <3> DEFINE how == Success(o)
      <3>1. how \in Told
        BY DEF Success
      <3>2. inFlight => handler[1] = o
        BY DEF o
      <3>4. how = "done" => ~givenUp /\ o \notin Pulls
        BY DEF Success
      <3>5. IsLast(o, k) => k >= Len(Commands[o])
        BY DEF IsLast
      <3>6. WholeFile(c, d) => h.to # handler
        BY <2>1 DEF WholeFile
      <3> HIDE DEF how
      <3>7. Finish(o, how)
        BY <2>5 DEF how
      <3>3. /\ QueueTypes' /\ NeverWedged' /\ toNode' \in Seq(Call) /\ NextFirst
            /\ \A q \in Op : outcome'[q] = "done" =>
                  outcome[q] = "done" \/ (q = o /\ how = "done")
        BY <2>1, <2>2, <3>1, <3>2, <3>7, FinishQueue
      <3> QED
        BY <2>1, <2>5, <3>3, <3>4, <3>5, <3>6 DEF o, k, h
    <2>6. CASE Fail(o, k) \/ Fail(o, k + 1)
      <3>1. /\ QueueTypes' /\ NeverWedged' /\ toNode' \in Seq(Call) /\ NextFirst
            /\ \A q \in Op : outcome'[q] = "done" => outcome[q] = "done"
        BY <1>2, <2>6, FailQueue DEF o
      <3> QED
        BY <2>1, <3>1
    <2> QED
      BY <2>3, <2>4, <2>5, <2>6
  <1> QED
    BY <1>1, <1>2

------------------------------------------------------------------------------
(* The connection. *)

\* What each step does to the connection, as far as LinkSane needs it.
LEMMA LinkStep ==
  ASSUME IInv, Next
  PROVE  LinkSane' /\ ReadyIsReal'
  <1>0. /\ TypeOK /\ NeverWedged /\ ReadyIsReal /\ LinkSane
    BY DEF IInv
  <1> USE DEF LinkSane, ReadyIsReal, conns, radio
  <1>1. ASSUME NEW o \in Op, Enqueue(o)
        PROVE  LinkSane' /\ ReadyIsReal'
    <2>1. /\ UNCHANGED <<conns, radio, toPhone>>
          /\ ~link => toNode' = toNode
      <3>1. (handler' = handler /\ toNode' = toNode) \/ NextFirst
        BY <1>0, <1>1, EnqueueQueue
      <3> QED
        BY <1>1, <3>1 DEF Enqueue, NextFirst
    <2> QED
      BY <1>0, <2>1
  <1>2. CASE AnswerArrives \/ Garbled
    BY <1>0, <1>2 DEF AnswerArrives, Garbled
  <1>3. CASE Watchdog
    <2>1. ~link => toNode' = toNode
      BY <1>3 DEF Watchdog, Fail, Finish, Send, Quiet
    <2> QED
      BY <1>0, <1>3, <2>1 DEF Watchdog
  <1>4. CASE NodeExecutes
    BY <1>0, <1>4 DEF NodeExecutes
  <1>5. CASE Connect \/ Disconnect \/ LinkBreaks
    BY <1>0, <1>5 DEF Connect, Disconnect, LinkBreaks, LinkGone, air
  <1>6. CASE DidConnect \/ DidFailToConnect \/ DidDisconnect
    BY <1>0, <1>6 DEF DidConnect, DidFailToConnect, DidDisconnect, air
  <1>7. CASE Subscribed \/ SetupFails \/ IdentityRead
    BY <1>0, <1>7 DEF Subscribed, SetupFails, IdentityRead, air
  <1>8. CASE Unsubscribed
    BY <1>0, <1>8 DEF Unsubscribed
  <1> QED
    BY <1>1, <1>2, <1>3, <1>4, <1>5, <1>6, <1>7, <1>8 DEF Next

------------------------------------------------------------------------------
(* Types and the queue. *)

\* No step leaves the slot taken with nobody to give it back.
LEMMA QueueStep ==
  ASSUME IInv, Next
  PROVE  QueueTypes' /\ NeverWedged' /\ toNode' \in Seq(Call)
  <1>0. /\ TypeOK /\ NeverWedged /\ QueueTypes /\ toNode \in Seq(Call)
    BY DEF IInv, TypeOK
  <1>a. UNCHANGED queue => QueueTypes' /\ NeverWedged'
    BY <1>0 DEF QueueTypes, NeverWedged, queue, ToSet, IsInjective
  <1>b. Reset => QueueTypes' /\ NeverWedged'
    BY <1>0, ResetQueue
  <1>c. <<>> \in Seq(Call)
    OBVIOUS
  <1>1. ASSUME NEW o \in Op, Enqueue(o)
        PROVE  QueueTypes' /\ NeverWedged' /\ toNode' \in Seq(Call)
    BY <1>0, <1>1, EnqueueQueue
  <1>2. CASE AnswerArrives
    BY <1>0, <1>2, AnswerQueue
  <1>3. CASE (Garbled /\ handler # NoHandler) \/ Watchdog
    <2>1. handler # NoHandler /\ Fail(handler[1], handler[2])
      BY <1>3 DEF Garbled, Watchdog
    <2> QED
      BY <1>0, <2>1, FailQueue
  <1>4. CASE Garbled /\ handler = NoHandler
    BY <1>0, <1>a, <1>4 DEF Garbled
  <1>5. CASE NodeExecutes
    <2>1. Tail(toNode) \in Seq(Call)
      BY <1>0, <1>5, HeadTailProperties DEF NodeExecutes
    <2> QED
      BY <1>a, <1>5, <2>1 DEF NodeExecutes
  <1>6. CASE Disconnect
    BY <1>b, <1>c, <1>6 DEF Disconnect, LinkGone
  <1>7. CASE LinkBreaks
    BY <1>a, <1>c, <1>7 DEF LinkBreaks, LinkGone
  <1>8. CASE DidConnect
    BY <1>0, <1>8, QueueEmptied DEF DidConnect, air
  <1>9. CASE DidDisconnect
    <2>1. CASE UNCHANGED queue
      BY <1>0, <1>a, <1>9, <2>1 DEF DidDisconnect, air
    <2>2. CASE Reset
      BY <1>0, <1>b, <1>9, <2>2 DEF DidDisconnect, air
    <2> QED
      BY <1>9, <2>1, <2>2 DEF DidDisconnect
  <1>10. CASE Connect \/ DidFailToConnect \/ Subscribed \/ SetupFails
              \/ IdentityRead
    BY <1>0, <1>a, <1>10
    DEF Connect, DidFailToConnect, Subscribed, SetupFails, IdentityRead, air
  <1>11. CASE Unsubscribed
    BY <1>0, <1>a, <1>11 DEF Unsubscribed
  <1> QED
    BY <1>1, <1>2, <1>3, <1>4, <1>5, <1>6, <1>7, <1>8, <1>9, <1>10, <1>11
    DEF Next

\* Every step keeps the types.
LEMMA TypeStep ==
  ASSUME IInv, Next
  PROVE  TypeOK'
  <1> DEFINE Answer == [to : Call, ok : BOOLEAN]
             Radio == /\ conn \in {"disconnected", "connecting", "connected",
                                   "readingIdentity", "ready", "failed"}
                      /\ {current, subscribed} \subseteq BOOLEAN
                      /\ {link, asked, notice, reading, givenUp}
                            \subseteq BOOLEAN
  <1>0. TypeOK /\ Radio /\ toNode \in Seq(Call) /\ toPhone \in Seq(Answer)
            /\ executed \subseteq Call
    BY DEF IInv, TypeOK
  <1>1. QueueTypes' /\ toNode' \in Seq(Call)
    BY QueueStep
  <1>2. Radio'
    <2>1. CASE \E o \in Op : Enqueue(o)
      BY <1>0, <2>1 DEF Enqueue, conns, radio
    <2>2. CASE AnswerArrives \/ Garbled \/ NodeExecutes
      BY <1>0, <2>2 DEF AnswerArrives, Garbled, NodeExecutes, conns, radio
    <2>3. CASE Watchdog
      BY <1>0, <2>3 DEF Watchdog, conns, radio
    <2>4. CASE Connect \/ Disconnect \/ LinkBreaks
      BY <1>0, <2>4 DEF Connect, Disconnect, LinkBreaks, LinkGone, conns
    <2>5. CASE DidConnect
      BY <1>0, <2>5 DEF DidConnect
    <2>6. CASE DidFailToConnect \/ DidDisconnect
      BY <1>0, <2>6 DEF DidFailToConnect, DidDisconnect, conns
    <2>7. CASE Subscribed \/ SetupFails \/ IdentityRead
      BY <1>0, <2>7 DEF Subscribed, SetupFails, IdentityRead, radio
    <2>8. CASE Unsubscribed
      BY <1>0, <2>8 DEF Unsubscribed, IsConnected, radio
    <2> QED
      BY <2>1, <2>2, <2>3, <2>4, <2>5, <2>6, <2>7, <2>8 DEF Next
  <1>3. executed' \subseteq Call
    <2>1. CASE NodeExecutes
      <3>1. Head(toNode) \in Call
        BY <1>0, <2>1, HeadTailProperties DEF NodeExecutes
      <3> QED
        BY <1>0, <2>1, <3>1 DEF NodeExecutes
    <2>2. CASE ~NodeExecutes
      BY <1>0, <2>2
      DEF Next, Enqueue, AnswerArrives, Garbled, Watchdog, Connect,
          Disconnect, LinkBreaks, DidConnect, DidFailToConnect, DidDisconnect,
          Subscribed, SetupFails, Unsubscribed, IdentityRead, air
    <2> QED
      BY <2>1, <2>2
  <1>4. toPhone' \in Seq(Answer)
    <2> <<>> \in Seq(Answer)
      OBVIOUS
    <2>1. CASE NodeExecutes
      <3>1. Head(toNode) \in Call
        BY <1>0, <2>1, HeadTailProperties DEF NodeExecutes
      <3>2. PICK ok \in BOOLEAN :
                \/ toPhone' = toPhone
                \/ toPhone' = Append(toPhone, [to |-> Head(toNode), ok |-> ok])
        BY <2>1 DEF NodeExecutes
      <3>3. [to |-> Head(toNode), ok |-> ok] \in Answer
        BY <3>1
      <3> HIDE DEF Answer
      <3> QED
        BY <1>0, <3>2, <3>3, AppendProperties
    <2>2. CASE AnswerArrives \/ Garbled
      <3> HIDE DEF Answer
      <3> QED
        BY <1>0, <2>2, HeadTailProperties DEF AnswerArrives, Garbled
    <2>3. CASE ~NodeExecutes /\ ~AnswerArrives /\ ~Garbled
      <3> HIDE DEF Answer
      <3>1. toPhone' = toPhone \/ toPhone' = <<>>
        BY <2>3
        DEF Next, Enqueue, Watchdog, Connect, Disconnect, LinkBreaks, LinkGone,
            DidConnect, DidFailToConnect, DidDisconnect, Subscribed,
            SetupFails, Unsubscribed, IdentityRead, air
      <3> QED
        BY <1>0, <3>1
    <2> QED
      BY <2>1, <2>2, <2>3
  <1> QED
    BY <1>1, <1>2, <1>3, <1>4 DEF TypeOK

------------------------------------------------------------------------------
(* Answers and the commands they are about. *)

\* A link on which nothing was given up carries nothing when no command is
\* outstanding, and nothing else when there is an answer.
LEMMA OneMessage ==
  ASSUME TypeOK, OneAtATime
  PROVE  /\ handler = NoHandler => toNode = <<>> /\ toPhone = <<>>
         /\ toPhone # <<>> => /\ toNode = <<>>
                              /\ Tail(toPhone) = <<>>
                              /\ Head(toPhone).to = handler
                              /\ Head(toPhone).ok => Carried(handler, executed)
         /\ toNode # <<>> => /\ toPhone = <<>>
                             /\ Tail(toNode) = <<>>
                             /\ Head(toNode) = handler
  <1> DEFINE Answer == [to : Call, ok : BOOLEAN]
  <1>1. toNode \in Seq(Call) /\ toPhone \in Seq(Answer)
    BY DEF TypeOK
  <1>a. \A a \in Answer : a.to \in Call
    OBVIOUS
  <1> HIDE DEF Answer
  <1>2. /\ Len(toNode) \in Nat /\ DOMAIN toNode = 1 .. Len(toNode)
        /\ Len(toPhone) \in Nat /\ DOMAIN toPhone = 1 .. Len(toPhone)
        /\ toNode = <<>> <=> Len(toNode) = 0
        /\ toPhone = <<>> <=> Len(toPhone) = 0
    BY <1>1, LenProperties, EmptySeq
  <1>3. ASSUME toPhone # <<>>
        PROVE  /\ Head(toPhone) \in Answer /\ Head(toPhone) = toPhone[1]
               /\ Tail(toPhone) = <<>> /\ toNode = <<>>
               /\ 1 \in DOMAIN toPhone
    <2>1. /\ Head(toPhone) \in Answer /\ Head(toPhone) = toPhone[1]
          /\ Tail(toPhone) \in Seq(Answer)
          /\ Len(Tail(toPhone)) = Len(toPhone) - 1
      BY <1>1, <1>3, FirstAndRest
    <2>2. Len(toPhone) = 1 /\ Len(toNode) = 0
      BY <1>2, <1>3 DEF OneAtATime
    <2>3. Len(Tail(toPhone)) = 0
      BY <2>1, <2>2
    <2>4. Tail(toPhone) = <<>>
      BY <2>1, <2>3, EmptySeq
    <2> QED
      BY <1>2, <2>1, <2>2, <2>4
  <1>4. ASSUME toNode # <<>>
        PROVE  /\ Head(toNode) \in Call /\ Head(toNode) = toNode[1]
               /\ Tail(toNode) = <<>> /\ toPhone = <<>>
               /\ 1 \in DOMAIN toNode
    <2>1. /\ Head(toNode) \in Call /\ Head(toNode) = toNode[1]
          /\ Tail(toNode) \in Seq(Call)
          /\ Len(Tail(toNode)) = Len(toNode) - 1
      BY <1>1, <1>4, FirstAndRest
    <2>2. Len(toNode) = 1 /\ Len(toPhone) = 0
      BY <1>2, <1>4 DEF OneAtATime
    <2>3. Len(Tail(toNode)) = 0
      BY <2>1, <2>2
    <2>4. Tail(toNode) = <<>>
      BY <2>1, <2>3, EmptySeq
    <2> QED
      BY <1>2, <2>1, <2>2, <2>4
  <1>5. toPhone # <<>> => handler = Head(toPhone).to /\ handler # NoHandler
    BY <1>3, <1>a, CallShape DEF OneAtATime
  <1>6. toNode # <<>> => handler = Head(toNode) /\ handler # NoHandler
    BY <1>4, CallShape DEF OneAtATime
  <1>7. toPhone # <<>> /\ Head(toPhone).ok => Carried(handler, executed)
    BY <1>3 DEF OneAtATime
  <1> QED
    BY <1>3, <1>4, <1>5, <1>6, <1>7

\* A command sent on an empty link is the only message there.
LEMMA OneSent ==
  ASSUME NEW c, toNode' = <<c>>, toPhone' = <<>>, handler' = c
  PROVE  OneAtATime'
  BY DEF OneAtATime

\* No message is one too many for no handler.
LEMMA NoneSent ==
  ASSUME toNode' = <<>>, toPhone' = <<>>
  PROVE  OneAtATime'
  BY DEF OneAtATime

\* A command with which something begins, or none, on an empty link
LEMMA FirstSent ==
  ASSUME link, toNode = <<>>, toPhone' = <<>>, NextFirst
  PROVE  /\ OneAtATime'
         /\ handler' # NoHandler => Done(handler', executed')
  <1>1. CASE handler' = NoHandler /\ toNode' = toNode
    BY <1>1, NoneSent
  <1>2. ASSUME NEW p \in Op, NEW k \in Nat, k = 1 \/ p \in Pulls,
               handler' = <<p, k>>, toNode' = Append(toNode, <<p, k>>)
        PROVE  OneAtATime' /\ Done(handler', executed')
    <2>1. toNode' = <<<<p, k>>>>
      BY <1>2
    <2>2. handler'[1] = p /\ handler'[2] = k
      BY <1>2
    <2>3. OneAtATime'
      BY <1>2, <2>1, OneSent
    <2>4. Done(handler', executed')
      BY <1>2, <2>2 DEF Done
    <2> QED
      BY <2>3, <2>4
  <1> QED
    BY <1>1, <1>2 DEF NextFirst

\* The node carries commands out; what has been carried out stays so.
LEMMA ExecutedGrows ==
  ASSUME Next
  PROVE  executed \subseteq executed'
  BY DEF Next, Enqueue, AnswerArrives, Garbled, Watchdog, NodeExecutes, Connect,
         Disconnect, LinkBreaks, DidConnect, DidFailToConnect, DidDisconnect,
         Subscribed, SetupFails, Unsubscribed, IdentityRead, air

\* Unless a command is given up, what is on the link is about the handler's.
LEMMA AttunedStep ==
  ASSUME IInv, Next
  PROVE  Attuned'
  <1> SUFFICES ASSUME link', ~givenUp'
               PROVE  /\ OneAtATime'
                      /\ handler' # NoHandler => Done(handler', executed')
    BY DEF Attuned
  <1>0. /\ TypeOK /\ NeverWedged /\ Attuned /\ LinkSane /\ QueueTypes
        /\ givenUp \in BOOLEAN /\ link \in BOOLEAN
    BY DEF IInv, TypeOK
  <1>a. ASSUME link, ~givenUp
        PROVE  /\ OneAtATime
               /\ handler # NoHandler => Done(handler, executed)
    BY <1>0, <1>a DEF Attuned
  <1>b. ASSUME link, ~givenUp, UNCHANGED <<handler, air>>
        PROVE  /\ OneAtATime'
               /\ handler' # NoHandler => Done(handler', executed')
    BY <1>a, <1>b DEF OneAtATime, Done, air
  <1>1. ASSUME NEW o \in Op, Enqueue(o)
        PROVE  /\ OneAtATime'
               /\ handler' # NoHandler => Done(handler', executed')
    <2>1. link /\ ~givenUp /\ toPhone' = toPhone /\ executed' = executed
      BY <1>1 DEF Enqueue, radio
    <2>2. CASE handler' = handler /\ toNode' = toNode
      BY <1>b, <2>1, <2>2 DEF air
    <2>3. CASE handler = NoHandler /\ NextFirst
      <3>1. toNode = <<>> /\ toPhone' = <<>>
        BY <1>0, <1>a, <2>1, <2>3, OneMessage
      <3> QED
        BY <2>1, <2>3, <3>1, FirstSent
    <2> QED
      BY <1>0, <1>1, <2>2, <2>3, EnqueueQueue
  <1>2. CASE AnswerArrives
    <2>1. /\ link /\ ~givenUp /\ toPhone # <<>> /\ toPhone' = Tail(toPhone)
          /\ executed' = executed
      BY <1>2 DEF AnswerArrives, radio
    <2>2. /\ toNode = <<>> /\ toPhone' = <<>> /\ handler # NoHandler
          /\ Head(toPhone).ok => Carried(handler, executed)
          /\ Done(handler, executed)
      BY <1>0, <1>a, <2>1, OneMessage
    <2>3. CASE /\ handler \in Call /\ Head(toPhone).ok
               /\ handler' = <<handler[1], handler[2] + 1>>
               /\ toNode' = IF link THEN Append(toNode, handler') ELSE toNode
      <3>1. /\ handler = <<handler[1], handler[2]>>
            /\ handler[2] \in Nat
        BY <2>3, CallShape, CallIntro
      <3>2. toNode' = <<handler'>>
        BY <2>1, <2>2, <2>3
      <3>3. OneAtATime'
        BY <2>2, <3>2, OneSent
      <3>4. Done(handler', executed')
        <4> SUFFICES ASSUME handler[1] \notin Pulls,
                            NEW k \in 1 .. handler[2]
                     PROVE  <<handler[1], k>> \in executed
          BY <2>1, <2>3, <3>1 DEF Done
        <4>1. CASE k = handler[2]
          BY <2>2, <2>3, <3>1, <4>1 DEF Carried
        <4>2. CASE k # handler[2]
          BY <2>2, <3>1, <4>2 DEF Done
        <4> QED
          BY <4>1, <4>2
      <3> QED
        BY <3>3, <3>4
    <2>4. CASE NextFirst
      BY <2>1, <2>2, <2>4, FirstSent
    <2> QED
      BY <1>0, <1>2, <2>2, <2>3, <2>4, AnswerQueue
  <1>3. CASE Garbled
    <2>1. /\ link /\ ~givenUp /\ toPhone # <<>> /\ toPhone' = Tail(toPhone)
      BY <1>3 DEF Garbled, radio
    <2>2. toNode = <<>> /\ toPhone' = <<>> /\ handler # NoHandler
      BY <1>0, <1>a, <2>1, OneMessage
    <2>4. NextFirst
      BY <1>0, <1>3, <2>2, FailQueue DEF Garbled
    <2> QED
      BY <2>1, <2>2, <2>4, FirstSent
  <1>4. CASE Watchdog
    BY <1>4 DEF Watchdog, radio
  <1>5. CASE NodeExecutes
    <2>1. /\ link /\ ~givenUp /\ toNode # <<>> /\ toNode' = Tail(toNode)
          /\ handler' = handler
      BY <1>5 DEF NodeExecutes, queue, radio
    <2>2. /\ toPhone = <<>> /\ toNode' = <<>> /\ Head(toNode) = handler
          /\ handler # NoHandler /\ Done(handler, executed)
      BY <1>0, <1>a, <2>1, OneMessage
    <2>3. executed \subseteq executed'
      BY ExecutedGrows
    <2>4. Done(handler', executed')
      BY <2>1, <2>2, <2>3 DEF Done
    <2>5. PICK ok \in BOOLEAN :
              /\ executed' = IF ok /\ Head(toNode)[1] \notin Pulls
                             THEN executed \cup {Head(toNode)} ELSE executed
              /\ \/ toPhone' = toPhone
                 \/ toPhone' = Append(toPhone, [to |-> Head(toNode), ok |-> ok])
      BY <1>5 DEF NodeExecutes
    <2>6. CASE toPhone' = toPhone
      BY <2>2, <2>4, <2>6, NoneSent
    <2>7. CASE toPhone' = Append(toPhone, [to |-> Head(toNode), ok |-> ok])
      <3>1. toPhone' = <<[to |-> handler', ok |-> ok]>>
        BY <2>1, <2>2, <2>7
      <3>2. ok => Carried(handler', executed')
        BY <2>1, <2>2, <2>5 DEF Carried
      <3>3. OneAtATime'
        BY <2>2, <3>1, <3>2 DEF OneAtATime
      <3> QED
        BY <2>4, <3>3
    <2> QED
      BY <2>5, <2>6, <2>7
  <1>6. CASE Connect \/ DidFailToConnect \/ Subscribed \/ SetupFails
             \/ IdentityRead
    BY <1>b, <1>6
    DEF Connect, DidFailToConnect, Subscribed, SetupFails, IdentityRead, queue,
        radio
  <1>7. CASE Disconnect \/ LinkBreaks
    BY <1>7 DEF Disconnect, LinkBreaks, LinkGone
  <1>8. CASE DidConnect
    <2>1. handler' = NoHandler /\ toNode' = toNode /\ toPhone' = toPhone
      BY <1>8 DEF DidConnect, air
    <2>2. CASE ~link
      BY <1>0, <2>1, <2>2, NoneSent DEF LinkSane
    <2>3. CASE link
      <3>1. ~givenUp /\ handler = NoHandler
        BY <1>8, <2>3 DEF DidConnect
      <3>2. toNode = <<>> /\ toPhone = <<>>
        BY <1>0, <1>a, <2>3, <3>1, OneMessage
      <3> QED
        BY <2>1, <3>2, NoneSent
    <2> QED
      BY <2>2, <2>3
  <1>9. CASE DidDisconnect
    BY <1>b, <1>9 DEF DidDisconnect, queue
  <1>10. CASE Unsubscribed
    <2>1. /\ link /\ ~givenUp /\ toPhone' = <<>>
          /\ UNCHANGED <<handler, toNode, executed>>
      BY <1>10 DEF Unsubscribed, queue, radio
    <2>2. OneAtATime'
      <3>1. /\ Len(toNode) <= 1
            /\ \A i \in DOMAIN toNode : toNode[i] = handler
        <4>1. OneAtATime
          BY <1>a, <2>1
        <4>2. Len(toNode) \in Nat /\ Len(toPhone) \in Nat
          BY <1>0, LenProperties DEF TypeOK
        <4> QED
          BY <4>1, <4>2 DEF OneAtATime
      <3> QED
        BY <2>1, <3>1, EmptyQueue DEF OneAtATime
    <2> QED
      BY <1>a, <2>1, <2>2
  <1> QED
    BY <1>1, <1>2, <1>3, <1>4, <1>5, <1>6, <1>7, <1>8, <1>9, <1>10 DEF Next

\* What a step newly reports as a success has been carried out.
LEMMA ReportStep ==
  ASSUME IInv, Next
  PROVE  TrueReports'
  <1>0. /\ TypeOK /\ NeverWedged /\ QueueTypes /\ Attuned /\ TrueReports
    BY DEF IInv, TypeOK
  <1>1. executed \subseteq executed'
    BY ExecutedGrows
  <1>2. SUFFICES ASSUME NEW q \in Op, outcome'[q] = "done", outcome[q] # "done"
                 PROVE  \A k \in DOMAIN Commands[q] : <<q, k>> \in executed
    BY <1>0, <1>1 DEF TrueReports
  <1>3. AnswerArrives
    <2>1. ASSUME NEW o \in Op, Enqueue(o)
          PROVE  FALSE
      BY <1>0, <1>2, <2>1, EnqueueQueue
    <2>2. ASSUME (Garbled /\ handler # NoHandler) \/ Watchdog
          PROVE  FALSE
      <3>1. handler # NoHandler /\ Fail(handler[1], handler[2])
        BY <2>2 DEF Garbled, Watchdog
      <3> QED
        BY <1>0, <1>2, <3>1, FailQueue
    <2>3. ASSUME Disconnect \/ DidConnect \/ (DidDisconnect /\ Reset)
          PROVE  FALSE
      BY <1>0, <1>2, <2>3, QueueEmptied, ResetQueue DEF Disconnect, DidConnect
    <2>4. outcome' # outcome
      BY <1>2
    <2> QED
      BY <2>1, <2>2, <2>3, <2>4
      DEF Next, Garbled, NodeExecutes, Connect, LinkBreaks, DidFailToConnect,
          DidDisconnect, Subscribed, SetupFails, Unsubscribed, IdentityRead,
          queue
  <1>4. /\ handler \in Call /\ q = handler[1] /\ q \notin Pulls
        /\ ~givenUp /\ Head(toPhone).ok
        /\ handler[2] >= Len(Commands[q]) \/ Head(toPhone).to # handler
    BY <1>0, <1>2, <1>3, AnswerQueue DEF queue
  <1>5. /\ OneAtATime /\ Done(handler, executed) /\ toPhone # <<>>
    BY <1>0, <1>3, <1>4, CallShape DEF Attuned, AnswerArrives
  <1>6. Head(toPhone).to = handler /\ handler \in executed
    BY <1>0, <1>4, <1>5, OneMessage DEF Carried
  <1>7. /\ handler = <<q, handler[2]>>
        /\ handler[2] \in 1 .. Len(Commands[q])
        /\ Len(Commands[q]) \in Nat
        /\ DOMAIN Commands[q] = 1 .. Len(Commands[q])
    BY <1>4, CallShape, CallIntro
  <1> SUFFICES ASSUME NEW k \in 1 .. Len(Commands[q])
               PROVE  <<q, k>> \in executed
    BY <1>7
  <1>8. CASE k = handler[2]
    BY <1>6, <1>7, <1>8
  <1>9. CASE k # handler[2]
    BY <1>4, <1>5, <1>6, <1>7, <1>9 DEF Done
  <1> QED
    BY <1>8, <1>9

------------------------------------------------------------------------------
\* A step in which nothing of the model changes
LEMMA StutterIInv == IInv /\ UNCHANGED vars => IInv'
  BY DEF IInv, TypeOK, QueueTypes, NeverWedged, ReadyIsReal, LinkSane, Attuned,
         OneAtATime, Carried, Done, TrueReports, vars, conns, queue, radio, air, Call,
         ToSet, IsInjective

\* Every step keeps the invariant.
LEMMA NextIInv == IInv /\ [Next]_vars => IInv'
  <1>1. IInv /\ Next => IInv'
    BY TypeStep, QueueStep, LinkStep, AttunedStep, ReportStep DEF IInv
  <1> QED
    BY <1>1, StutterIInv

\* The invariant of BLEManager's queue and connection
THEOREM ClientInvariant == Spec => []IInv
  BY InitIInv, NextIInv, PTL DEF Spec

\* Every variable has its type.
THEOREM TypeCorrect == Spec => []TypeOK
  <1>1. IInv => TypeOK
    BY DEF IInv
  <1> QED
    BY <1>1, ClientInvariant, PTL

\* No order of answers, timeouts and connection callbacks leaves the slot of
\* the queue taken with nobody to give it back (enqueueOperation,
\* finishOperation, the watchdog of sendFileCommand).
THEOREM QueueNeverWedged == Spec => []NeverWedged
  <1>1. IInv => NeverWedged
    BY DEF IInv
  <1> QED
    BY <1>1, ClientInvariant, PTL

\* As long as no command was given up on the link, an operation reported a
\* success, pulls apart, has had every command carried out, although answers
\* have no number (sendFileCommand and the handlers of the operations).
THEOREM ReportsAreTrue == Spec => []TrueReports
  <1>1. IInv => TrueReports
    BY DEF IInv
  <1> QED
    BY <1>1, ClientInvariant, PTL

\* A node shown as ready is the connected one, and its link is up or a
\* callback is on its way (didDisconnectPeripheral's race guard).
THEOREM ReadyNodesAreReal == Spec => []ReadyIsReal
  <1>1. IInv => ReadyIsReal
    BY DEF IInv
  <1> QED
    BY <1>1, ClientInvariant, PTL
==============================================================================
