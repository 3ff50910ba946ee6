--------------------------- MODULE TransferProofs ---------------------------
(***************************************************************************)
(* Proofs about Transfer that hold for every value of its constants, with   *)
(* no bound on the length of the input: the sequence numbers may wrap.     *)
(***************************************************************************)
EXTENDS TransferInvariants, TLAPS, FiniteSetTheorems

----------------------------------------------------------------------------
(* The arithmetic of a uint8_t. *)

LEMMA Uint8Type ==
    ASSUME NEW n \in Int
    PROVE  Uint8(n) \in Seqnum
BY SeqnumsAssumption DEF Uint8, Seqnum

LEMMA Uint8Small ==
    ASSUME NEW n \in Seqnum
    PROVE  Uint8(n) = n
BY SeqnumsAssumption DEF Uint8, Seqnum

LEMMA CounterTypes ==
    ASSUME NEW n \in Seqnum
    PROVE  /\ Uint8(n - 1) \in Seqnum
           /\ Uint8(n + 1) \in Seqnum
           /\ inc_seqnum(n) \in Seqnum
<1>1. n - 1 \in Int /\ n + 1 \in Int
  BY SeqnumsAssumption DEF Seqnum
<1>2. Uint8(n - 1) \in Seqnum /\ Uint8(n + 1) \in Seqnum
  BY <1>1, Uint8Type
<1>3. QED
  BY <1>2 DEF inc_seqnum

LEMMA SecondType ==
    ASSUME NEW n \in Int
    PROVE  n % Minute \in Second
BY MinuteAssumption DEF Second

(* Every set of slots is finite: what a counter of slots counts is a number. *)
LEMMA SlotsFinite ==
    ASSUME NEW S \in SUBSET Slot
    PROVE  /\ IsFiniteSet(S)
           /\ Cardinality(S) \in Nat
           /\ Cardinality(S) <= WindowSize
<1>1. IsFiniteSet(Slot) /\ Cardinality(Slot) = WindowSize
  BY FS_Interval, WindowAssumption DEF Slot
<1>2. QED
  BY <1>1, FS_Subset, FS_CardinalityType

----------------------------------------------------------------------------
(* Type correctness. *)

LEMMA ValidChunk ==
    ASSUME NEW d \in Datagram, ValidData(d)
    PROVE  d.chunk \in 1 .. Chunks
BY ChunksAssumption DEF ValidData, pkt_decode, Datagram, Chunk

LEMMA InitTypes == Init => TypeInv
<1> SUFFICES ASSUME Init PROVE TypeInv
  OBVIOUS
<1> USE DEF Init, SenderInit, ReceiverInit
<1>1. SenderTypeOK
  BY SeqnumsAssumption, WindowAssumption, ChunksAssumption, InputAssumption
     DEF SenderTypeOK, Seqnum, Slot, Chunk, EmptyBuffer
<1>2. ReceiverTypeOK
  BY SeqnumsAssumption, WindowAssumption
     DEF ReceiverTypeOK, Seqnum, Slot, EmptyBuffer
<1>3. BufferedValid
  BY DEF BufferedValid, Occupied, EmptyBuffer
<1>4. QED
  BY <1>1, <1>2, <1>3 DEF TypeInv, TypeOK

(* What the sender hands to sendto() is a datagram. *)
LEMMA RetransmittedType == SenderTypeOK => Retransmitted \subseteq Datagram
BY DEF SenderTypeOK, Retransmitted, FastRetransmitted, TimerRetransmitted,
       Occupied, pkt_encode, Packet, Datagram

LEMMA PollTypes ==
    ASSUME SenderTypeOK, 
           \/ \E a \in Datagram : PollWithDatagram(a)
           \/ PollWithoutDatagram
           \/ PollSocketError
    PROVE  SenderTypeOK'
<1>1. CountAfterRetransmission \in 0 .. 3
  BY DEF CountAfterRetransmission, SenderTypeOK
<1>2. ASSUME NEW a \in Datagram, PollWithDatagram(a)
      PROVE  SenderTypeOK'
  <2>1. CASE pkt_decode(a) = "PKT_OK" /\ a.type = "ACK"
    <3>1. Acknowledged(a) \in SUBSET Slot
      BY DEF Acknowledged, Occupied
    <3>2. sender_buffer_size + Cardinality(Acknowledged(a)) \in Int
      BY <3>1, SlotsFinite, SeqnumsAssumption DEF SenderTypeOK, Seqnum
    <3>3. sender_buffer_size' \in Seqnum
      BY <1>2, <2>1, <3>2, Uint8Type DEF PollWithDatagram, TakeAck
    <3>4. sender_buffer' \in [Slot -> Packet \cup {NULL}]
      BY <1>2, <2>1 DEF PollWithDatagram, TakeAck, SenderTypeOK
    <3>5. lastack' \in Seqnum /\ count' \in 0 .. 3
      BY <1>1, <1>2, <2>1 DEF PollWithDatagram, TakeAck, NewLastAck, Datagram
    <3>6. QED
      BY <1>2, <3>3, <3>4, <3>5
         DEF PollWithDatagram, EndOfPoll, SenderTypeOK, inputVars
  <2>2. CASE ~(pkt_decode(a) = "PKT_OK" /\ a.type = "ACK")
    BY <1>1, <1>2, <2>2
       DEF PollWithDatagram, TakeAck, EndOfPoll, SenderTypeOK, inputVars
  <2>3. QED
    BY <2>1, <2>2
<1>3. CASE PollWithoutDatagram
  BY <1>1, <1>3 DEF PollWithoutDatagram, EndOfPoll, SenderTypeOK, inputVars
<1>4. CASE PollSocketError
  BY <1>1, <1>4 DEF PollSocketError, SenderTypeOK, inputVars
<1>5. QED
  BY <1>2, <1>3, <1>4

(* The rest of the loop, and what surrounds the sender. *)
LEMMA InputTypes ==
    ASSUME SenderTypeOK,
           \/ ReadChunk \/ ReadEof \/ ReadError \/ PollError \/ WindowShut
           \/ SendEof \/ NothingToRead
           \/ WriterFeeds \/ WriterCloses \/ Tick
    PROVE  SenderTypeOK'
<1>1. /\ Uint8(sender_buffer_size - 1) \in Seqnum
      /\ inc_seqnum(sender_seqnum) \in Seqnum
  BY CounterTypes DEF SenderTypeOK
<1>2. EofPacket \in Packet
  BY ChunksAssumption DEF EofPacket, Packet, SenderTypeOK, Chunk
<1>3. CASE ReadChunk
  <2>1. nread' \in Chunk /\ NextPacket \in Packet
    BY <1>3, ChunksAssumption
       DEF ReadChunk, SenderTypeOK, Chunk, NextPacket, Packet
  <2>2. /\ sender_buffer' \in [Slot -> Packet \cup {NULL}]
        /\ sender_seqnum' \in Seqnum
    BY <1>1, <1>3, <2>1 DEF ReadChunk, StorePacket, SenderTypeOK
  <2>3. QED
    BY <1>1, <1>3, <2>1, <2>2 DEF ReadChunk, SenderTypeOK, inputVars
<1>4. CASE SendEof
  BY <1>1, <1>2, <1>4 DEF SendEof, SenderTypeOK, inputVars
<1>5. CASE ReadEof \/ ReadError \/ PollError \/ WindowShut \/ NothingToRead
  BY <1>5 DEF ReadEof, AfterEof, ReadError, PollError, WindowShut, NothingToRead,
              SenderTypeOK, inputVars
<1>6. CASE WriterFeeds \/ WriterCloses
  <2>1. fed' \in Chunk /\ UNCHANGED <<senderVars, clock>>
    BY <1>6, ChunksAssumption DEF WriterFeeds, WriterCloses, SenderTypeOK, Chunk
  <2>2. closed' \in BOOLEAN
    BY <1>6 DEF WriterFeeds, WriterCloses, SenderTypeOK
  <2>3. QED
    BY <2>1, <2>2 DEF SenderTypeOK, senderVars
<1>7. CASE Tick
  <2>1. (clock + 1) % Minute \in Second
    BY SecondType, MinuteAssumption DEF SenderTypeOK, Second
  <2>2. QED
    BY <1>7, <2>1 DEF Tick, SenderTypeOK, senderVars, inputVars
<1>8. QED
  BY <1>3, <1>4, <1>5, <1>6, <1>7

(* The receiver. *)
LEMMA ReceiveTypes ==
    ASSUME ReceiverTypeOK, BufferedValid,
           NEW d \in Datagram,
           \/ KeepEarly(d) \/ RefuseUnexpected(d) \/ RefuseInvalid(d)
           \/ ReceiveExpected(d) \/ WriteError(d)
    PROVE  ReceiverTypeOK' /\ BufferedValid'
<1>1. /\ Uint8(window - 1) \in Seqnum
      /\ inc_seqnum(receiver_seqnum) \in Seqnum
  BY CounterTypes DEF ReceiverTypeOK
<1>2. CASE KeepEarly(d)
  <2>1. PICK i \in Slot : receiver_buffer' = [receiver_buffer EXCEPT ![i] = d]
    BY <1>2 DEF KeepEarly
  <2>2. ReceiverTypeOK'
    BY <1>1, <1>2, <2>1 DEF KeepEarly, WindowAfterStore, ReceiverTypeOK
  <2>3. BufferedValid'
    BY <1>2, <2>1 DEF KeepEarly, BufferedValid, Occupied, ReceiverTypeOK
  <2>4. QED
    BY <2>2, <2>3
<1>3. CASE RefuseUnexpected(d) \/ RefuseInvalid(d)
  BY <1>3 DEF RefuseUnexpected, RefuseInvalid, receiverVars, ReceiverTypeOK,
              BufferedValid, Occupied
<1>4. CASE ReceiveExpected(d)
  <2>1. Append(written, d.chunk) \in Seq(1 .. Chunks)
    BY <1>4, ValidChunk DEF ReceiveExpected, ReceiverTypeOK
  <2>2. QED
    BY <1>1, <1>4, <2>1 DEF ReceiveExpected, ReceiverTypeOK, BufferedValid, Occupied
<1>5. CASE WriteError(d)
  BY <1>1, <1>5 DEF WriteError, ReceiverTypeOK, BufferedValid, Occupied
<1>6. QED
  BY <1>2, <1>3, <1>4, <1>5

LEMMA DrainTypes ==
    ASSUME ReceiverTypeOK, BufferedValid,
           ReceiveError \/ WriteBuffered \/ LoseBuffered \/ EndDrain \/ Timeout
    PROVE  ReceiverTypeOK' /\ BufferedValid'
<1>1. ASSUME NEW i \in Slot, FreeDelivered(i), written' \in Seq(1 .. Chunks)
      PROVE  ReceiverTypeOK' /\ BufferedValid'
  <2>1. /\ Uint8(window + 1) \in Seqnum
        /\ inc_seqnum(receiver_seqnum) \in Seqnum
    BY CounterTypes DEF ReceiverTypeOK
  <2>2. QED
    BY <1>1, <2>1 DEF FreeDelivered, WindowAfterWrite, ReceiverTypeOK,
                      BufferedValid, Occupied
<1>2. CASE WriteBuffered
  <2>1. PICK i \in Slot : /\ FreeDelivered(i)
                          /\ written' = Append(written, receiver_buffer[i].chunk)
    BY <1>2 DEF WriteBuffered
  <2>2. receiver_buffer[i] \in Datagram /\ ValidData(receiver_buffer[i])
    BY <2>1 DEF FreeDelivered, FirstOf, Deliverable, Occupied, BufferedValid,
                ReceiverTypeOK
  <2>3. written' \in Seq(1 .. Chunks)
    BY <2>1, <2>2, ValidChunk DEF ReceiverTypeOK
  <2>4. QED
    BY <1>1, <2>1, <2>3
<1>3. CASE LoseBuffered
  BY <1>1, <1>3 DEF LoseBuffered, ReceiverTypeOK
<1>4. CASE ReceiveError \/ EndDrain \/ Timeout
  BY <1>4 DEF ReceiveError, EndDrain, Timeout, receiverVars, ReceiverTypeOK,
              BufferedValid, Occupied
<1>5. QED
  BY <1>2, <1>3, <1>4

----------------------------------------------------------------------------
(* The steps of the two programs and of the network. *)

LEMMA SenderTypes ==
    ASSUME TypeInv, SenderMoves
    PROVE  SenderTypeOK'
<1>1. SenderTypeOK /\ toSender \subseteq Datagram
  BY DEF TypeInv, TypeOK
<1>2. \/ (\E a \in Datagram : PollWithDatagram(a)) \/ PollWithoutDatagram \/ PollSocketError
      \/ ReadChunk \/ ReadEof \/ ReadError \/ PollError \/ WindowShut
      \/ SendEof \/ NothingToRead \/ WriterFeeds \/ WriterCloses \/ Tick
  BY <1>1 DEF SenderMoves
<1>3. QED
  BY <1>1, <1>2, PollTypes, InputTypes

(* The programs send datagrams. *)
LEMMA SentTypes ==
    ASSUME TypeInv
    PROVE  /\ Retransmitted \subseteq Datagram
           /\ ReadChunk => pkt_encode(NextPacket) \in Datagram
           /\ pkt_encode(EofPacket) \in Datagram
           /\ Ack \in Datagram
           /\ Garbled \in Datagram
<1>1. Retransmitted \subseteq Datagram
  BY RetransmittedType DEF TypeInv, TypeOK
<1>2. ReadChunk => pkt_encode(NextPacket) \in Datagram
  BY ChunksAssumption
     DEF ReadChunk, NextPacket, pkt_encode, Datagram, TypeInv, TypeOK, SenderTypeOK, Chunk
<1>3. pkt_encode(EofPacket) \in Datagram
  BY ChunksAssumption
     DEF EofPacket, pkt_encode, Datagram, TypeInv, TypeOK, SenderTypeOK, Chunk
<1>4. Ack \in Datagram /\ Garbled \in Datagram
  BY SeqnumsAssumption, ChunksAssumption
     DEF Ack, Acknowledgment, Garbled, Datagram, TypeInv, TypeOK, ReceiverTypeOK, Chunk,
         Seqnum
<1>5. QED
  BY <1>1, <1>2, <1>3, <1>4

LEMMA SenderSteps ==
    ASSUME TypeInv, SenderMoves
    PROVE  TypeInv'
<1>1. SenderTypeOK'
  BY SenderTypes
<1>2. ReceiverTypeOK' /\ BufferedValid'
  BY DEF SenderMoves, TypeInv, TypeOK, receiverVars, ReceiverTypeOK, BufferedValid, Occupied
<1>3. toReceiver' \subseteq Datagram /\ toSender' \subseteq Datagram
  BY SentTypes DEF SenderMoves, Carries, TypeInv, TypeOK
<1>4. QED
  BY <1>1, <1>2, <1>3 DEF TypeInv, TypeOK

LEMMA ReceiverSteps ==
    ASSUME TypeInv, ReceiverMoves
    PROVE  TypeInv'
<1>1. ReceiverTypeOK' /\ BufferedValid'
  <2>1. ReceiverTypeOK /\ BufferedValid /\ toReceiver \subseteq Datagram
    BY DEF TypeInv, TypeOK
  <2>2. CASE \E d \in Datagram : \/ KeepEarly(d) \/ RefuseUnexpected(d) \/ RefuseInvalid(d)
                                 \/ ReceiveExpected(d) \/ WriteError(d)
    BY <2>1, <2>2, ReceiveTypes
  <2>3. CASE ReceiveError \/ WriteBuffered \/ LoseBuffered \/ EndDrain \/ Timeout
    BY <2>1, <2>3, DrainTypes
  <2>4. QED
    BY <2>1, <2>2, <2>3 DEF ReceiverMoves
<1>2. SenderTypeOK'
  BY DEF ReceiverMoves, ReceiverStep, TypeInv, TypeOK, SenderTypeOK, senderVars, inputVars
<1>3. toReceiver' \subseteq Datagram /\ toSender' \subseteq Datagram
  BY SentTypes DEF ReceiverMoves, Carries, TypeInv, TypeOK
<1>4. QED
  BY <1>1, <1>2, <1>3 DEF TypeInv, TypeOK

LEMMA NetworkSteps ==
    ASSUME TypeInv, NetworkMoves
    PROVE  TypeInv'
<1>1. toReceiver' \subseteq Datagram /\ toSender' \subseteq Datagram
  BY SentTypes DEF NetworkMoves, Carries, TypeInv, TypeOK
<1>2. QED
  BY <1>1 DEF NetworkMoves, TypeInv, TypeOK, SenderTypeOK, ReceiverTypeOK, BufferedValid,
              Occupied, EndsUntouched, senderVars, inputVars, receiverVars

LEMMA TypeMoves ==
    ASSUME TypeInv, Moves
    PROVE  TypeInv'
BY SenderSteps, ReceiverSteps, NetworkSteps DEF Moves

(* The network of Transfer is such a network. *)
LEMMA StepMoves ==
    ASSUME [Next]_vars
    PROVE  Moves
<1> USE DEF Carries, Without
<1>1. CASE SenderNext
  <2> SUFFICES SenderMoves
    BY DEF Moves
  <2> USE DEF SenderMoves
  <2>1. CASE \E a \in toSender : SenderTakesDatagram(a)
    BY <2>1 DEF SenderTakesDatagram
  <2>2. CASE SenderTurns \/ SenderSocketError \/ SenderSendsChunk \/ SenderSendsEof
    BY <2>2 DEF SenderTurns, SenderSocketError, SenderSendsChunk, SenderSendsEof, SenderStep
  <2>3. CASE \/ SenderPollError \/ SenderReadsEof \/ SenderReadError \/ SenderWindowShut
             \/ SenderNothingToRead
    BY <2>3 DEF SenderPollError, SenderReadsEof, SenderReadError, SenderWindowShut,
                SenderNothingToRead, network
  <2>4. QED
    BY <1>1, <2>1, <2>2, <2>3 DEF SenderNext
<1>2. CASE InputNext \/ ClockTicks
  BY <1>2 DEF InputNext, InputFed, InputClosed, ClockTicks, network, SenderMoves, Moves
<1>3. CASE ReceiverNext
  <2> SUFFICES ReceiverMoves
    BY DEF Moves
  <2> USE DEF ReceiverMoves
  <2>1. CASE \E d \in toReceiver : \/ ReceiverKeepsEarly(d) \/ ReceiverRefuses(d)
                                   \/ ReceiverAnswersBad(d)
    BY <2>1 DEF ReceiverKeepsEarly, ReceiverRefuses, ReceiverAnswersBad, Answered
  <2>2. CASE \E d \in toReceiver : ReceiverTakesExpected(d) \/ ReceiverWriteError(d)
    BY <2>2 DEF ReceiverTakesExpected, ReceiverWriteError
  <2>3. CASE \/ ReceiverAnswersError \/ ReceiverWritesBuffered \/ ReceiverLosesBuffered
             \/ ReceiverEndsDrain \/ ReceiverTimesOut
    BY <2>3 DEF ReceiverAnswersError, ReceiverWritesBuffered, ReceiverLosesBuffered,
                ReceiverEndsDrain, ReceiverTimesOut, network
  <2>4. QED
    BY <1>3, <2>1, <2>2, <2>3 DEF ReceiverNext
<1>4. CASE NetworkNext
  BY <1>4 DEF NetworkNext, LoseData, LoseAck, GarbleData, GarbleAck, NetworkMoves, Moves
<1>5. CASE UNCHANGED vars
  BY <1>5 DEF vars, network, EndsUntouched, NetworkMoves, Moves
<1>6. QED
  BY <1>1, <1>2, <1>3, <1>4, <1>5 DEF Next

LEMMA TypeStep == TypeInv /\ [Next]_vars => TypeInv'
BY StepMoves, TypeMoves

(* Every variable keeps its type, for every value of the constants: in      *)
(* particular the two uint8_t counters and sequence numbers stay in their   *)
(* range, and only chunks of the input are written (never a packet of       *)
(* length 0 nor a garbled one).                                             *)
THEOREM TypeCorrect == Spec => []TypeOK
<1>1. TypeInv => TypeOK
  BY DEF TypeInv
<1>2. QED
  BY InitTypes, TypeStep, <1>1, PTL DEF Spec
============================================================================
