--------------------------- MODULE LoopbackProofs ---------------------------
(***************************************************************************)
(* Proofs about Loopback, for sockets of every capacity.  The datagrams in *)
(* the two sockets are a network that makes up no datagram, so the         *)
(* invariant of Transfer is one of Loopback: Transfer's own proofs carry   *)
(* over, the calls that fail left out.                                     *)
(***************************************************************************)
EXTENDS Loopback, TLAPS, FiniteSetTheorems

InSocket(s) == {s[k] : k \in DOMAIN s}

T == INSTANCE TransferTheorems
        WITH toReceiver <- InSocket(receiverSocket), toSender <- InSocket(senderSocket),
             IoFaults <- FALSE, Duplicates <- TRUE, Losses <- TRUE,
             Corruption <- FALSE, EarlyTimeout <- FALSE

SocketTypeOK == receiverSocket \in Seq(Datagram) /\ senderSocket \in Seq(Datagram)

NoWrap == Chunks + 1 < Seqnums

LoopbackInv == SocketTypeOK /\ T!DeliveryInv

----------------------------------------------------------------------------
(* The actions of the two programs are those of Transfer. *)

LEMMA SameAssumptions ==
    /\ T!SeqnumsAssumption /\ T!WindowAssumption /\ T!ChunksAssumption
    /\ T!MinuteAssumption /\ T!FaultsAssumption /\ T!NullAssumption
    /\ T!InputAssumption /\ T!NetworkAssumption
BY SeqnumsAssumption, WindowAssumption, ChunksAssumption, MinuteAssumption,
   InputAssumption, NullAssumption
   DEF T!SeqnumsAssumption, T!WindowAssumption, T!ChunksAssumption, T!MinuteAssumption,
       T!FaultsAssumption, T!NullAssumption, T!InputAssumption, T!NetworkAssumption,
       Packet, T!Packet, Datagram, T!Datagram, Seqnum, T!Seqnum, Chunk, T!Chunk,
       Second, T!Second

LEMMA SameSent ==
    /\ Retransmitted = T!Retransmitted
    /\ pkt_encode(NextPacket) = T!pkt_encode(T!NextPacket)
    /\ Ack = T!Ack
BY DEF Retransmitted, T!Retransmitted, FastRetransmitted, T!FastRetransmitted,
       TimerRetransmitted, T!TimerRetransmitted, Expired, T!Expired,
       Occupied, T!Occupied, Slot, T!Slot, pkt_encode, T!pkt_encode,
       NextPacket, T!NextPacket, Ack, T!Ack, Acknowledgment, T!Acknowledgment

LEMMA SameCardinality ==
    ASSUME NEW S
    PROVE  T!Cardinality(S) = Cardinality(S)
BY DEF Cardinality, T!Cardinality

LEMMA SamePoll ==
    /\ \A a : PollWithDatagram(a) => T!PollWithDatagram(a)
    /\ PollWithoutDatagram => T!PollWithoutDatagram
<1>1. /\ CountAfterRetransmission = T!CountAfterRetransmission
      /\ EndOfPoll <=> T!EndOfPoll
  BY DEF CountAfterRetransmission, T!CountAfterRetransmission,
         FastRetransmitted, T!FastRetransmitted, EndOfPoll, T!EndOfPoll,
         Readable, T!Readable, Occupied, T!Occupied, Slot, T!Slot
<1>2. ASSUME NEW a
      PROVE  TakeAck(a) => T!TakeAck(a)
  <2>1. Acknowledged(a) = T!Acknowledged(a) /\ Slot = T!Slot
    BY DEF Acknowledged, T!Acknowledged, Occupied, T!Occupied, Slot, T!Slot
  <2>2. Cardinality(Acknowledged(a)) = T!Cardinality(T!Acknowledged(a))
    BY <2>1, SameCardinality
  <2>3. QED
    BY <1>1, <2>1, <2>2 DEF TakeAck, T!TakeAck, NewLastAck, T!NewLastAck,
                            Uint8, T!Uint8, pkt_decode, T!pkt_decode
<1>3. \A a : PollWithDatagram(a) => T!PollWithDatagram(a)
  BY <1>1, <1>2 DEF PollWithDatagram, T!PollWithDatagram, inputVars, T!inputVars
<1>4. PollWithoutDatagram => T!PollWithoutDatagram
  BY <1>1 DEF PollWithoutDatagram, T!PollWithoutDatagram, Readable, T!Readable,
              HungUp, T!HungUp, inputVars, T!inputVars
<1>5. QED
  BY <1>3, <1>4

LEMMA SameInput ==
    /\ ReadChunk => T!ReadChunk
    /\ ReadEof => T!ReadEof
    /\ WindowShut => T!WindowShut
    /\ Tick => T!Tick
BY DEF ReadChunk, T!ReadChunk, ReadEof, T!ReadEof, AfterEof, T!AfterEof,
       WindowShut, T!WindowShut, WindowOpen, T!WindowOpen, Tick, T!Tick,
       StorePacket, T!StorePacket, NextPacket, T!NextPacket, FirstOf, T!FirstOf,
       EmptySlots, T!EmptySlots, Slot, T!Slot, inc_seqnum, T!inc_seqnum, Uint8, T!Uint8,
       senderVars, T!senderVars, inputVars, T!inputVars

LEMMA SameReceive ==
    ASSUME NEW d
    PROVE  /\ KeepEarly(d) => T!KeepEarly(d)
           /\ RefuseUnexpected(d) => T!RefuseUnexpected(d)
           /\ ReceiveExpected(d) => T!ReceiveExpected(d)
<1>1. \A i \in Slot : Kept(d, i) <=> T!Kept(d, i)
  BY DEF Kept, T!Kept, InWindow, T!InWindow, FirstOf, T!FirstOf, StopSlots, T!StopSlots,
         Slot, T!Slot
<1>2. Slot = T!Slot /\ (ValidData(d) <=> T!ValidData(d))
  BY DEF Slot, T!Slot, ValidData, T!ValidData, pkt_decode, T!pkt_decode
<1>3. KeepEarly(d) => T!KeepEarly(d)
  BY <1>1, <1>2 DEF KeepEarly, T!KeepEarly, WindowAfterStore, T!WindowAfterStore,
                    Uint8, T!Uint8
<1>4. RefuseUnexpected(d) => T!RefuseUnexpected(d)
  BY <1>1, <1>2 DEF RefuseUnexpected, T!RefuseUnexpected, receiverVars, T!receiverVars
<1>5. ReceiveExpected(d) => T!ReceiveExpected(d)
  BY <1>2 DEF ReceiveExpected, T!ReceiveExpected, inc_seqnum, T!inc_seqnum, Uint8, T!Uint8
<1>6. QED
  BY <1>3, <1>4, <1>5

LEMMA SameScan ==
    /\ WriteBuffered => T!WriteBuffered
    /\ EndDrain => T!EndDrain
    /\ Timeout => T!Timeout
<1>1. Slot = T!Slot /\ Deliverable = T!Deliverable
  BY DEF Slot, T!Slot, Deliverable, T!Deliverable, Occupied, T!Occupied
<1>2. WriteBuffered => T!WriteBuffered
  BY <1>1 DEF WriteBuffered, T!WriteBuffered, FreeDelivered, T!FreeDelivered,
              FirstOf, T!FirstOf, WindowAfterWrite, T!WindowAfterWrite,
              inc_seqnum, T!inc_seqnum, Uint8, T!Uint8
<1>3. (EndDrain => T!EndDrain) /\ (Timeout => T!Timeout)
  BY <1>1 DEF EndDrain, T!EndDrain, Timeout, T!Timeout
<1>4. QED
  BY <1>2, <1>3

----------------------------------------------------------------------------
(* The sockets. *)

(* A socket loses what does not fit, and holds nothing that did not come. *)
LEMMA QueuedHolds ==
    ASSUME NEW s \in Seq(Datagram), NEW ds \in Seq(Datagram)
    PROVE  /\ Queued(s, ds) \in Seq(Datagram)
           /\ InSocket(Queued(s, ds)) \subseteq InSocket(s) \cup InSocket(ds)
<1> DEFINE all == s \o ds
<1>1. all \in Seq(Datagram) /\ Len(all) = Len(s) + Len(ds)
  OBVIOUS
<1>2. InSocket(all) \subseteq InSocket(s) \cup InSocket(ds)
  <2> SUFFICES ASSUME NEW k \in 1 .. Len(s) + Len(ds)
               PROVE  all[k] \in InSocket(s) \cup InSocket(ds)
    BY <1>1 DEF InSocket
  <2>1. CASE k <= Len(s)
    BY <2>1 DEF InSocket
  <2>2. CASE k > Len(s)
    <3>1. k - Len(s) \in DOMAIN ds /\ all[k] = ds[k - Len(s)]
      BY <2>2
    <3>2. QED
      BY <3>1 DEF InSocket
  <2>3. QED
    BY <2>1, <2>2
<1>3. CASE Len(all) <= SocketCapacity
  BY <1>1, <1>2, <1>3 DEF Queued
<1>4. CASE ~(Len(all) <= SocketCapacity)
  <2> DEFINE first == SubSeq(all, 1, SocketCapacity)
  <2> HIDE DEF all
  <2>1. SocketCapacity \in Nat /\ SocketCapacity >= 1
    BY LoopbackAssumption
  <2>2. /\ first \in Seq(Datagram)
        /\ DOMAIN first = 1 .. SocketCapacity
        /\ \A k \in 1 .. SocketCapacity : first[k] = all[k] /\ k \in 1 .. Len(all)
    BY <1>1, <1>4, <2>1
  <2>3. InSocket(first) \subseteq InSocket(all)
    BY <1>1, <2>2 DEF InSocket
  <2>4. Queued(s, ds) = first
    BY <1>4 DEF Queued, all
  <2>5. QED
    BY <1>2, <2>2, <2>3, <2>4
<1>5. QED
  BY <1>3, <1>4

LEMMA TailHolds ==
    ASSUME NEW s \in Seq(Datagram), s # <<>>
    PROVE  /\ Tail(s) \in Seq(Datagram)
           /\ Head(s) \in InSocket(s)
           /\ InSocket(Tail(s)) \subseteq InSocket(s)
<1>1. /\ Len(s) \in Nat /\ Len(s) >= 1
      /\ Tail(s) \in Seq(Datagram)
      /\ Head(s) = s[1]
  OBVIOUS
<1>2. InSocket(Tail(s)) \subseteq InSocket(s)
  <2> SUFFICES ASSUME NEW k \in DOMAIN Tail(s)
               PROVE  Tail(s)[k] \in InSocket(s)
    BY DEF InSocket
  <2>1. k + 1 \in DOMAIN s /\ Tail(s)[k] = s[k + 1]
    OBVIOUS
  <2>2. QED
    BY <2>1 DEF InSocket
<1>3. QED
  BY <1>1, <1>2 DEF InSocket

LEMMA OneDatagram ==
    ASSUME NEW d \in Datagram
    PROVE  <<d>> \in Seq(Datagram) /\ InSocket(<<d>>) = {d}
BY DEF InSocket

LEMMA NothingInSocket == InSocket(<<>>) = {}
BY DEF InSocket

(* What the sender sends again goes to the socket in some order. *)
LEMMA CopiesHold ==
    ASSUME sender_buffer \in [Slot -> Packet \cup {NULL}],
           NEW S, S \subseteq Occupied(sender_buffer), NEW order \in Increasing(S)
    PROVE  /\ Copies(order) \in Seq(Datagram)
           /\ InSocket(Copies(order)) \subseteq {pkt_encode(sender_buffer[i]) : i \in S}
<1>1. Cardinality(S) \in Nat
  <2>1. IsFiniteSet(Slot)
    BY FS_Interval, WindowAssumption DEF Slot
  <2>2. QED
    BY <2>1, FS_Subset, FS_CardinalityType DEF Occupied
<1>2. order \in [1 .. Cardinality(S) -> S]
  BY DEF Increasing
<1>3. \A i \in S : pkt_encode(sender_buffer[i]) \in Datagram
  BY DEF Occupied, Packet, pkt_encode, Datagram
<1>4. Copies(order) \in [1 .. Cardinality(S) -> Datagram]
  BY <1>2, <1>3 DEF Copies
<1>5. Copies(order) \in Seq(Datagram)
  BY <1>1, <1>4
<1>6. QED
  BY <1>2, <1>5 DEF Copies, InSocket

LEMMA RetransmissionsHold ==
    ASSUME SocketTypeOK, sender_buffer \in [Slot -> Packet \cup {NULL}],
           RetransmitsInOrder
    PROVE  /\ receiverSocket' \in Seq(Datagram)
           /\ InSocket(receiverSocket') \subseteq InSocket(receiverSocket) \cup Retransmitted
<1>1. PICK fast \in Increasing(FastRetransmitted), timer \in Increasing(TimerRetransmitted) :
          receiverSocket' = Queued(receiverSocket, Copies(fast) \o Copies(timer))
  BY DEF RetransmitsInOrder
<1>2. /\ FastRetransmitted \subseteq Occupied(sender_buffer)
      /\ TimerRetransmitted \subseteq Occupied(sender_buffer)
  BY DEF FastRetransmitted, TimerRetransmitted
<1>3. /\ Copies(fast) \in Seq(Datagram) /\ Copies(timer) \in Seq(Datagram)
      /\ InSocket(Copies(fast)) \subseteq Retransmitted
      /\ InSocket(Copies(timer)) \subseteq Retransmitted
  <2>1. /\ {pkt_encode(sender_buffer[i]) : i \in FastRetransmitted} \subseteq Retransmitted
        /\ {pkt_encode(sender_buffer[i]) : i \in TimerRetransmitted} \subseteq Retransmitted
    BY DEF Retransmitted
  <2>2. /\ Copies(fast) \in Seq(Datagram)
        /\ InSocket(Copies(fast)) \subseteq
               {pkt_encode(sender_buffer[i]) : i \in FastRetransmitted}
    BY <1>2, CopiesHold
  <2>3. /\ Copies(timer) \in Seq(Datagram)
        /\ InSocket(Copies(timer)) \subseteq
               {pkt_encode(sender_buffer[i]) : i \in TimerRetransmitted}
    BY <1>2, CopiesHold
  <2>4. QED
    BY <2>1, <2>2, <2>3
<1> DEFINE f == Copies(fast)
           t == Copies(timer)
<1> HIDE DEF f, t
<1>4. /\ f \o t \in Seq(Datagram)
      /\ InSocket(f \o t) \subseteq InSocket(f) \cup InSocket(t)
  <2>1. f \in Seq(Datagram) /\ t \in Seq(Datagram)
    BY <1>3 DEF f, t
  <2>2. f \o t \in Seq(Datagram)
    BY <2>1
  <2>3. \A k \in DOMAIN (f \o t) : \/ k \in DOMAIN f /\ (f \o t)[k] = f[k]
                                   \/ k - Len(f) \in DOMAIN t /\ (f \o t)[k] = t[k - Len(f)]
    BY <2>1
  <2>4. QED
    BY <2>2, <2>3 DEF InSocket
<1>5. QED
  BY <1>1, <1>3, <1>4, QueuedHolds DEF f, t, SocketTypeOK

----------------------------------------------------------------------------
(* Every step of Loopback is one of the two programs joined by a network    *)
(* that makes up no datagram.                                               *)

LEMMA SenderSteps ==
    ASSUME LoopbackInv, SenderNext \/ ClockTicks
    PROVE  SocketTypeOK' /\ T!SenderMoves
<1>1. /\ sender_buffer \in [Slot -> Packet \cup {NULL}]
      /\ nread \in 0 .. Chunks /\ fed \in 0 .. Chunks /\ sender_seqnum \in Seqnum
      /\ SocketTypeOK
  BY DEF LoopbackInv, T!DeliveryInv, T!TypeInv, T!TypeOK, T!SenderTypeOK, Slot, T!Slot,
         Packet, T!Packet, Seqnum, T!Seqnum, Chunk, T!Chunk, Second, T!Second
<1>2. CASE SenderTakesDatagram
  <2>1. /\ Head(senderSocket) \in InSocket(senderSocket)
        /\ senderSocket' \in Seq(Datagram)
        /\ InSocket(senderSocket') \subseteq InSocket(senderSocket)
    BY <1>1, <1>2, TailHolds DEF SenderTakesDatagram, SocketTypeOK
  <2>2. /\ receiverSocket' \in Seq(Datagram)
        /\ InSocket(receiverSocket') \subseteq InSocket(receiverSocket) \cup Retransmitted
    BY <1>1, <1>2, RetransmissionsHold DEF SenderTakesDatagram
  <2>3. T!PollWithDatagram(Head(senderSocket))
    BY <1>2, SamePoll DEF SenderTakesDatagram
  <2>4. UNCHANGED T!receiverVars
    BY <1>2 DEF SenderTakesDatagram, receiverVars, T!receiverVars
  <2>5. T!Carries(T!Retransmitted, {})
    BY <2>1, <2>2, SameSent DEF T!Carries
  <2>6. QED
    BY <2>1, <2>2, <2>3, <2>4, <2>5 DEF SocketTypeOK, T!SenderMoves
<1>3. CASE SenderTurns
  <2>1. /\ receiverSocket' \in Seq(Datagram)
        /\ InSocket(receiverSocket') \subseteq InSocket(receiverSocket) \cup Retransmitted
    BY <1>1, <1>3, RetransmissionsHold DEF SenderTurns
  <2>2. T!PollWithoutDatagram /\ UNCHANGED T!receiverVars
    BY <1>3, SamePoll DEF SenderTurns, receiverVars, T!receiverVars
  <2>3. UNCHANGED senderSocket
    BY <1>3 DEF SenderTurns
  <2>4. T!Carries(T!Retransmitted, {})
    BY <2>1, <2>3, SameSent DEF T!Carries
  <2>5. QED
    BY <1>1, <2>1, <2>2, <2>3, <2>4 DEF SocketTypeOK, T!SenderMoves
<1>4. CASE SenderSendsChunk
  <2>1. pkt_encode(NextPacket) \in Datagram
    BY <1>1, <1>4, ChunksAssumption
       DEF SenderSendsChunk, ReadChunk, NextPacket, pkt_encode, Datagram, Chunk
  <2>2. /\ receiverSocket' \in Seq(Datagram)
        /\ InSocket(receiverSocket')
               \subseteq InSocket(receiverSocket) \cup {pkt_encode(NextPacket)}
    BY <1>1, <1>4, <2>1, OneDatagram, QueuedHolds DEF SenderSendsChunk, SocketTypeOK
  <2>3. T!ReadChunk /\ UNCHANGED T!receiverVars
    BY <1>4, SameInput DEF SenderSendsChunk, receiverVars, T!receiverVars
  <2>4. UNCHANGED senderSocket
    BY <1>4 DEF SenderSendsChunk
  <2>5. T!Carries({T!pkt_encode(T!NextPacket)}, {})
    BY <2>2, <2>4, SameSent DEF T!Carries
  <2>6. QED
    BY <1>1, <2>2, <2>3, <2>4, <2>5 DEF SocketTypeOK, T!SenderMoves
<1>5. CASE SenderReadsEof \/ SenderWindowShut \/ ClockTicks
  <2>1. /\ T!ReadEof \/ T!WindowShut \/ T!Tick
        /\ UNCHANGED T!receiverVars
        /\ UNCHANGED <<receiverSocket, senderSocket>>
    BY <1>5, SameInput DEF SenderReadsEof, SenderWindowShut, ClockTicks, sockets,
                           receiverVars, T!receiverVars
  <2>2. T!Carries({}, {})
    BY <2>1 DEF T!Carries
  <2>3. QED
    BY <1>1, <2>1, <2>2 DEF SocketTypeOK, T!SenderMoves
<1>6. QED
  BY <1>2, <1>3, <1>4, <1>5 DEF SenderNext

LEMMA ReceiverSteps ==
    ASSUME LoopbackInv, ReceiverNext
    PROVE  SocketTypeOK' /\ T!ReceiverMoves
<1>1. SocketTypeOK /\ receiver_seqnum \in Seqnum
  BY DEF LoopbackInv, T!DeliveryInv, T!TypeInv, T!TypeOK, T!ReceiverTypeOK,
         Seqnum, T!Seqnum
<1>2. Ack \in Datagram
  BY <1>1, ChunksAssumption DEF Ack, Acknowledgment, Datagram, Chunk
<1>3. T!ReceiverStep
  BY DEF ReceiverNext, ReceiverAnswers, ReceiverTakesExpected, ReceiverWritesBuffered,
         ReceiverEndsDrain, ReceiverTimesOut, ReceiverStep, T!ReceiverStep,
         senderVars, T!senderVars, inputVars, T!inputVars
<1>4. SendsAck => /\ senderSocket' \in Seq(Datagram)
                  /\ InSocket(senderSocket') \subseteq InSocket(senderSocket) \cup {T!Ack}
  <2>1. <<Ack>> \in Seq(Datagram) /\ InSocket(<<Ack>>) = {T!Ack}
    BY <1>2, OneDatagram, SameSent
  <2>2. /\ Queued(senderSocket, <<Ack>>) \in Seq(Datagram)
        /\ InSocket(Queued(senderSocket, <<Ack>>))
               \subseteq InSocket(senderSocket) \cup InSocket(<<Ack>>)
    BY <1>1, <2>1, QueuedHolds DEF SocketTypeOK
  <2>3. QED
    BY <2>1, <2>2 DEF SendsAck
<1>5. receiverSocket # <<>> => /\ Tail(receiverSocket) \in Seq(Datagram)
                               /\ Head(receiverSocket) \in InSocket(receiverSocket)
                               /\ InSocket(Tail(receiverSocket)) \subseteq InSocket(receiverSocket)
  BY <1>1, TailHolds DEF SocketTypeOK
<1>6. CASE ReceiverAnswers
  <2>1. /\ SocketTypeOK'
        /\ Head(receiverSocket) \in InSocket(receiverSocket)
        /\ T!Carries({}, {T!Ack})
    BY <1>4, <1>5, <1>6 DEF ReceiverAnswers, SocketTypeOK, T!Carries
  <2>2. \/ T!KeepEarly(Head(receiverSocket))
        \/ T!RefuseUnexpected(Head(receiverSocket))
    BY <1>6, SameReceive DEF ReceiverAnswers
  <2>3. QED
    BY <1>3, <2>1, <2>2 DEF T!ReceiverMoves
<1>7. CASE ReceiverTakesExpected
  <2>1. /\ SocketTypeOK'
        /\ Head(receiverSocket) \in InSocket(receiverSocket)
        /\ T!Carries({}, {T!Ack})
    BY <1>1, <1>5, <1>7 DEF ReceiverTakesExpected, SocketTypeOK, T!Carries
  <2>2. T!ReceiveExpected(Head(receiverSocket))
    BY <1>7, SameReceive DEF ReceiverTakesExpected
  <2>3. QED
    BY <1>3, <2>1, <2>2 DEF T!ReceiverMoves
<1>8. CASE ReceiverWritesBuffered \/ ReceiverTimesOut
  <2>1. UNCHANGED <<receiverSocket, senderSocket>> /\ (T!WriteBuffered \/ T!Timeout)
    BY <1>8, SameScan DEF ReceiverWritesBuffered, ReceiverTimesOut, sockets
  <2>2. SocketTypeOK' /\ T!Carries({}, {T!Ack})
    BY <1>1, <2>1 DEF SocketTypeOK, T!Carries
  <2>3. QED
    BY <1>3, <2>1, <2>2 DEF T!ReceiverMoves
<1>9. CASE ReceiverEndsDrain
  <2>1. T!EndDrain
    BY <1>9, SameScan DEF ReceiverEndsDrain
  <2>2. SocketTypeOK' /\ T!Carries({}, {T!Ack})
    BY <1>1, <1>4, <1>9 DEF ReceiverEndsDrain, SocketTypeOK, T!Carries
  <2>3. QED
    BY <1>3, <2>1, <2>2 DEF T!ReceiverMoves
<1>10. QED
  BY <1>6, <1>7, <1>8, <1>9 DEF ReceiverNext

LEMMA LoopbackMoves ==
    ASSUME LoopbackInv, [Next]_vars
    PROVE  SocketTypeOK' /\ T!Moves
<1>1. CASE UNCHANGED vars
  <2>1. /\ UNCHANGED <<receiverSocket, senderSocket>>
        /\ T!EndsUntouched
    BY <1>1 DEF vars, sockets, T!EndsUntouched, senderVars, T!senderVars,
                inputVars, T!inputVars, receiverVars, T!receiverVars
  <2>2. SocketTypeOK' /\ T!NetworkMoves
    BY <2>1 DEF LoopbackInv, SocketTypeOK, T!NetworkMoves, T!Carries
  <2>3. QED
    BY <2>2 DEF T!Moves
<1>2. CASE Next
  BY <1>2, SenderSteps, ReceiverSteps DEF Next, T!Moves
<1>3. QED
  BY <1>1, <1>2

----------------------------------------------------------------------------

LEMMA InitLoopback == Init => LoopbackInv
<1>1. Init => T!Init
  BY NothingInSocket
     DEF Init, T!Init, SenderInit, T!SenderInit, ReceiverInit, T!ReceiverInit,
         EmptyBuffer, T!EmptyBuffer, Slot, T!Slot, Second, T!Second
<1>2. T!Init => T!DeliveryInv
  BY T!InitDelivery, SameAssumptions
<1>3. Init => SocketTypeOK
  BY DEF Init, SocketTypeOK
<1>4. QED
  BY <1>1, <1>2, <1>3 DEF LoopbackInv

LEMMA LoopbackStep ==
    ASSUME NoWrap, LoopbackInv, [Next]_vars
    PROVE  LoopbackInv'
<1>1. SocketTypeOK' /\ T!Moves
  BY LoopbackMoves
<1>2. T!DeliveryInv /\ T!NoWrap
  BY DEF LoopbackInv, NoWrap, T!NoWrap
<1>3. T!DeliveryInv'
  BY <1>1, <1>2, T!DeliveryMoves, SameAssumptions
<1>4. QED
  BY <1>1, <1>3 DEF LoopbackInv

(* The invariant of Transfer holds in Loopback. *)
THEOREM LoopbackInvariant ==
    ASSUME NoWrap
    PROVE  Spec => []LoopbackInv
<1>1. LoopbackInv /\ [Next]_vars => LoopbackInv'
  BY LoopbackStep
<1>2. QED
  BY <1>1, InitLoopback, PTL DEF Spec

(* Whatever the sockets drop, the output file is a prefix of what was read. *)
THEOREM LoopbackPrefix ==
    ASSUME NoWrap
    PROVE  Spec => []PrefixDelivery
<1>1. LoopbackInv => PrefixDelivery
  <2>1. T!DeliveryInv => T!PrefixDelivery
    BY T!ExpectedCountsWritten, SameAssumptions DEF T!PrefixDelivery
  <2>2. T!PrefixDelivery => PrefixDelivery
    BY DEF PrefixDelivery, T!PrefixDelivery
  <2>3. QED
    BY <2>1, <2>2 DEF LoopbackInv
<1>2. QED
  BY <1>1, LoopbackInvariant, PTL

(* The transfer on the loopback interface implements the reliable stream. *)
THEOREM LoopbackRefinement ==
    ASSUME NoWrap
    PROVE  Spec => ImplementsStream
<1>1. Init => Stream!StreamInit
  BY DEF Init, SenderInit, ReceiverInit, Stream!StreamInit
<1>2. LoopbackInv /\ [Next]_vars => [Stream!StreamNext]_(Stream!streamVars)
  <2>1. LoopbackInv /\ [Next]_vars => T!DeliveryInv /\ T!Moves
    BY LoopbackMoves DEF LoopbackInv
  <2>2. T!DeliveryInv /\ T!Moves => [T!Stream!StreamNext]_(T!Stream!streamVars)
    BY T!StreamMoves, SameAssumptions
  <2>3. [T!Stream!StreamNext]_(T!Stream!streamVars) => [Stream!StreamNext]_(Stream!streamVars)
    BY DEF T!Stream!StreamNext, T!Stream!streamVars, Stream!StreamNext, Stream!streamVars,
           T!Stream!Take, T!Stream!Deliver, T!Stream!Complete,
           Stream!Take, Stream!Deliver, Stream!Complete
  <2>4. QED
    BY <2>1, <2>2, <2>3
<1>3. QED
  BY <1>1, <1>2, LoopbackInvariant, PTL DEF Spec, ImplementsStream, Stream!StreamSpec
============================================================================
