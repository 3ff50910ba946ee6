-------------------------- MODULE TransferTheorems --------------------------
(***************************************************************************)
(* What the transfer guarantees, whatever the window, the network and the   *)
(* input, as long as the sequence numbers do not wrap (NoWrap): each        *)
(* theorem follows from DeliveryInv, which DeliveryProofs shows invariant.  *)
(***************************************************************************)
EXTENDS DeliveryProofs

(* The uint8_t counters of both programs agree with their slots in every    *)
(* reachable state, with failing calls too.                                 *)
THEOREM CountersCorrect ==
    ASSUME NoWrap
    PROVE  Spec => []CountersMatchSlots
<1>1. DeliveryInv => CountersMatchSlots
  BY DEF DeliveryInv
<1>2. QED
  BY <1>1, DeliveryInvariant, PTL

(* The output file has the chunks in the order of the input, without        *)
(* repetition, with failing calls too.                                      *)
THEOREM OutputInOrder ==
    ASSUME NoWrap
    PROVE  Spec => []WrittenInOrder
<1>1. DeliveryInv => WrittenInOrder
  BY DEF DeliveryInv
<1>2. QED
  BY <1>1, DeliveryInvariant, PTL

----------------------------------------------------------------------------
(* Below, write() and the rest do not fail. *)

(* The number that the receiver expects counts the chunks written, and the  *)
(* sender has read them all.                                                *)
LEMMA ExpectedCountsWritten ==
    ASSUME DeliveryInv, ~IoFaults
    PROVE  /\ Len(written) = receiver_seqnum
           /\ \A k \in 1 .. Len(written) : written[k] = k
           /\ receiver_seqnum \in Nat
           /\ receiver_seqnum <= nread
<1>1. PICK e \in Seqnum : EofAt(e) /\ receiver_seqnum <= e
  BY DEF DeliveryInv, SeqnumInv
<1>2. receiver_seqnum \in Nat /\ receiver_seqnum <= nread
  BY <1>1, Numbers, SeqnumsAssumption DEF DeliveryInv, EofAt, Seqnum
<1>3. QED
  BY <1>2 DEF DeliveryInv, WrittenBelowExpected

LEMMA ExpectedIsWritten ==
    ASSUME DeliveryInv, ~IoFaults, NEW c \in Nat, 1 <= c, c <= receiver_seqnum
    PROVE  IsWritten(c)
BY ExpectedCountsWritten DEF IsWritten

(* The output file is at every moment a prefix of what was read. *)
THEOREM PrefixDelivered ==
    ASSUME NoWrap, ~IoFaults
    PROVE  Spec => []PrefixDelivery
<1>1. DeliveryInv => PrefixDelivery
  BY ExpectedCountsWritten DEF PrefixDelivery
<1>2. QED
  BY <1>1, DeliveryInvariant, PTL

(* No ACK, in flight or remembered, is for a chunk that is not written. *)
THEOREM CumulativeAcks ==
    ASSUME NoWrap, ~IoFaults
    PROVE  Spec => []AcksAreCumulative
<1>1. DeliveryInv => AcksAreCumulative
  BY ExpectedCountsWritten DEF AcksAreCumulative, DeliveryInv, AcksBelowExpected
<1>2. QED
  BY <1>1, DeliveryInvariant, PTL

(* The sender keeps each chunk until it is written, so it can send it again.*)
THEOREM ReleasedWhenWritten ==
    ASSUME NoWrap, ~IoFaults
    PROVE  Spec => []NoPrematureRelease
<1>1. DeliveryInv => NoPrematureRelease
  <2> SUFFICES ASSUME DeliveryInv, NEW c \in 1 .. nread, ~IsBuffered(c)
               PROVE  IsWritten(c)
    BY DEF NoPrematureRelease
  <2>1. c <= receiver_seqnum
    BY DEF DeliveryInv, UnexpectedKept
  <2>2. c \in Nat /\ 1 <= c
    BY Numbers DEF DeliveryInv
  <2>3. QED
    BY <2>1, <2>2, ExpectedIsWritten
<1>2. QED
  BY <1>1, DeliveryInvariant, PTL

(* A sender that has left its loop in success has transferred everything. *)
THEOREM FinishedDelivered ==
    ASSUME NoWrap, ~IoFaults
    PROVE  Spec => []FinishedMeansDelivered
<1>1. DeliveryInv => FinishedMeansDelivered
  <2> SUFFICES ASSUME DeliveryInv, sender_pc = "finished", NEW c \in 1 .. fed
               PROVE  IsWritten(c)
    BY DEF FinishedMeansDelivered
  <2>1. fed <= receiver_seqnum
    BY DEF DeliveryInv, InputInv
  <2>2. c \in Nat /\ 1 <= c /\ c <= receiver_seqnum
    BY <2>1, Numbers DEF DeliveryInv
  <2>3. QED
    BY <2>2, ExpectedIsWritten
<1>2. QED
  BY <1>1, DeliveryInvariant, PTL

----------------------------------------------------------------------------
(* The packet of length 0 is above all that the receiver goes past. *)
LEMMA EofAboveExpected ==
    ASSUME DeliveryInv, NEW i \in Occupied(sender_buffer), sender_buffer[i].chunk = 0
    PROVE  receiver_seqnum <= sender_buffer[i].seqnum
<1>1. PICK e \in Seqnum : DataNumbered(e) /\ receiver_seqnum <= e
  BY DEF DeliveryInv, SeqnumInv
<1>2. /\ sender_buffer[i].seqnum \in Nat /\ e \in Nat /\ receiver_seqnum \in Nat
  BY Numbers, SeqnumsAssumption DEF DeliveryInv, Seqnum
<1>3. sender_buffer[i].seqnum < e => sender_buffer[i].chunk = sender_buffer[i].seqnum + 1
  BY <1>1 DEF DataNumbered, Numbered
<1>4. QED
  BY <1>1, <1>2, <1>3

(* Nothing read after the packet of length 0 is ever written. *)
THEOREM StuckAfterEof ==
    ASSUME NoWrap, ~IoFaults
    PROVE  Spec => []NothingWrittenAfterEof
<1>1. DeliveryInv => NothingWrittenAfterEof
  BY ExpectedCountsWritten, EofAboveExpected DEF NothingWrittenAfterEof
<1>2. QED
  BY <1>1, DeliveryInvariant, PTL

(* How a step may change the sender's buffer. *)
LEMMA SenderBufferSteps ==
    ASSUME Moves
    PROVE  \/ UNCHANGED <<sender_buffer, sender_seqnum, lastack>>
           \/ \E a \in toSender :
                 /\ a.type = "ACK"
                 /\ sender_buffer' = [i \in Slot |-> IF i \in Acknowledged(a) THEN NULL
                                                     ELSE sender_buffer[i]]
                 /\ lastack' = a.seqnum
                 /\ UNCHANGED sender_seqnum
           \/ ReadChunk
           \/ SendEof
<1>1. ASSUME NEW a \in toSender, PollWithDatagram(a)
      PROVE  \/ UNCHANGED <<sender_buffer, sender_seqnum, lastack>>
             \/ /\ a.type = "ACK"
                /\ sender_buffer' = [i \in Slot |-> IF i \in Acknowledged(a) THEN NULL
                                                    ELSE sender_buffer[i]]
                /\ lastack' = a.seqnum
                /\ UNCHANGED sender_seqnum
  BY <1>1 DEF PollWithDatagram, TakeAck, NewLastAck
<1>2. CASE \/ PollWithoutDatagram \/ PollSocketError \/ ReadEof \/ ReadError \/ PollError
           \/ WindowShut \/ NothingToRead \/ WriterFeeds \/ WriterCloses \/ Tick
  BY <1>2 DEF PollWithoutDatagram, PollSocketError, ReadEof, ReadError, PollError, WindowShut,
              NothingToRead, WriterFeeds, WriterCloses, Tick, senderVars
<1>3. CASE ReceiverMoves \/ NetworkMoves
  BY <1>3 DEF ReceiverMoves, ReceiverStep, NetworkMoves, EndsUntouched, senderVars
<1>4. QED
  BY <1>1, <1>2, <1>3 DEF Moves, SenderMoves

(* What stays in a slot when a chunk is read: an empty slot takes it. *)
LEMMA ReadChunkFills ==
    ASSUME TypeInv, ReadChunk
    PROVE  \/ UNCHANGED sender_buffer
           \/ \E i \in EmptySlots(sender_buffer) :
                 /\ sender_buffer'[i] # NULL
                 /\ \A j \in Slot \ {i} : sender_buffer'[j] = sender_buffer[j]
<1>1. CASE EmptySlots(sender_buffer) = {}
  BY <1>1 DEF ReadChunk, StorePacket, FirstOf
<1>2. CASE EmptySlots(sender_buffer) # {}
  <2>1. PICK i \in EmptySlots(sender_buffer) :
           sender_buffer' = [sender_buffer EXCEPT ![i] = NextPacket]
    BY <1>2 DEF ReadChunk, StorePacket, FirstOf
  <2>2. NextPacket \in Packet
    BY ChunksAssumption
       DEF TypeInv, TypeOK, SenderTypeOK, ReadChunk, NextPacket, Packet, Chunk
  <2>3. QED
    BY <2>1, <2>2, NullAssumption DEF TypeInv, TypeOK, SenderTypeOK, EmptySlots
<1>3. QED
  BY <1>1, <1>2

(* SendEof finds every slot empty. *)
LEMMA SendEofFindsEmpty ==
    ASSUME CountersMatchSlots, SendEof
    PROVE  Occupied(sender_buffer) = {}
BY AllEmpty DEF CountersMatchSlots, WindowMatchesSlots, SendEof, NothingOutstanding

(* The packet of length 0, once sent, stays in its slot: with the previous  *)
(* theorem, what is read after it is lost.                                  *)
THEOREM EofStays ==
    ASSUME NoWrap
    PROVE  Spec => EofNeverReleased
<1>1. ASSUME DeliveryInv, Moves,
             NEW i \in Occupied(sender_buffer), sender_buffer[i].chunk = 0
      PROVE  sender_buffer'[i] = sender_buffer[i]
  <2>1. TypeInv /\ CountersMatchSlots /\ i \in Slot /\ sender_buffer[i] # NULL
    BY <1>1 DEF DeliveryInv, Occupied
  <2>2. ASSUME NEW a \in toSender, a.type = "ACK",
               sender_buffer' = [j \in Slot |-> IF j \in Acknowledged(a) THEN NULL
                                                ELSE sender_buffer[j]]
        PROVE  sender_buffer'[i] = sender_buffer[i]
    <3>1. a.seqnum <= receiver_seqnum
      BY <2>2, <1>1 DEF DeliveryInv, AcksBelowExpected
    <3>2. receiver_seqnum <= sender_buffer[i].seqnum
      BY <1>1, EofAboveExpected
    <3>3. ~(a.seqnum > sender_buffer[i].seqnum)
      BY <2>1, <3>1, <3>2, Numbers
    <3>4. QED
      BY <2>1, <2>2, <3>3 DEF Acknowledged
  <2>3. CASE ReadChunk
    BY <2>1, <2>3, ReadChunkFills DEF EmptySlots
  <2>4. CASE SendEof
    BY <1>1, <2>1, <2>4, SendEofFindsEmpty
  <2>5. QED
    BY <1>1, <2>1, <2>2, <2>3, <2>4, SenderBufferSteps
<1>2. DeliveryInv /\ [Next]_vars =>
         [\A i \in Occupied(sender_buffer) :
             sender_buffer[i].chunk = 0 => sender_buffer'[i] = sender_buffer[i]]_sender_buffer
  BY <1>1, StepMoves
<1>3. QED
  BY <1>2, DeliveryInvariant, PTL DEF Spec, EofNeverReleased

----------------------------------------------------------------------------
(* The packets outstanding have distinct sequence numbers between the last  *)
(* ACK and the next sequence number.                                        *)
LEMMA OutstandingBound ==
    ASSUME DeliveryInv
    PROVE  Cardinality(Occupied(sender_buffer)) <= sender_seqnum - lastack
<1> DEFINE O == Occupied(sender_buffer)
           R == lastack .. sender_seqnum - 1
           f == [i \in O |-> sender_buffer[i].seqnum]
<1>1. PICK e \in Seqnum : EofAt(e) /\ DataNumbered(e) /\ receiver_seqnum <= e
  BY DEF DeliveryInv, SeqnumInv
<1>2. /\ sender_seqnum \in Nat /\ lastack \in Nat
      /\ lastack <= sender_seqnum
  BY <1>1, Numbers, SeqnumsAssumption
     DEF DeliveryInv, AcksBelowExpected, EofAt, Seqnum
<1>3. \A i \in O : sender_buffer[i].seqnum \in R
  BY <1>1, <1>2, Numbers DEF DeliveryInv, Outstanding, DataNumbered, Numbered
<1>4. f \in Injection(O, R)
  BY <1>3 DEF DeliveryInv, Outstanding, Injection, IsInjective
<1>5. IsFiniteSet(R) /\ Cardinality(R) = sender_seqnum - lastack
  <2>1. sender_seqnum - 1 \in Int /\ lastack \in Int
    BY <1>2
  <2>2. /\ IsFiniteSet(R)
        /\ Cardinality(R) = IF lastack > sender_seqnum - 1 THEN 0
                            ELSE sender_seqnum - 1 - lastack + 1
    BY <2>1, FS_Interval
  <2>3. QED
    BY <1>2, <2>2
<1>6. QED
  BY <1>4, <1>5, FS_Injection

(* The sender never has more than half of its slots outstanding. *)
LEMMA HalfMoves ==
    ASSUME DeliveryInv, AtMostHalfOutstanding, Moves
    PROVE  AtMostHalfOutstanding'
<1> SUFFICES 2 * Cardinality(Occupied(sender_buffer')) <= WindowSize + 1
  BY DEF AtMostHalfOutstanding
<1>1. /\ TypeInv /\ CountersMatchSlots
      /\ WindowSize \in Nat /\ 2 <= WindowSize
      /\ Cardinality(Occupied(sender_buffer)) \in Nat
      /\ 2 * Cardinality(Occupied(sender_buffer)) <= WindowSize + 1
  BY EmptyAndOccupied, WindowAssumption DEF DeliveryInv, AtMostHalfOutstanding
<1>2. CASE UNCHANGED sender_buffer
  BY <1>1, <1>2
<1>3. ASSUME NEW a \in toSender,
             sender_buffer' = [i \in Slot |-> IF i \in Acknowledged(a) THEN NULL
                                              ELSE sender_buffer[i]]
      PROVE  Cardinality(Occupied(sender_buffer')) <= Cardinality(Occupied(sender_buffer))
  <2>1. Occupied(sender_buffer') \in SUBSET Occupied(sender_buffer)
    BY <1>3 DEF Occupied
  <2>2. Occupied(sender_buffer) \in SUBSET Slot
    BY DEF Occupied
  <2>3. IsFiniteSet(Occupied(sender_buffer))
    BY <2>2, SlotsFinite
  <2>4. QED
    BY <2>1, <2>3, FS_Subset
<1>4. ASSUME ReadChunk \/ SendEof
      PROVE  Cardinality(Occupied(sender_buffer')) <=
                 Cardinality(Occupied(sender_buffer)) + 1
  <2>1. PICK i \in Slot : \A j \in Slot \ {i} : sender_buffer'[j] = sender_buffer[j]
    <3>1. CASE ReadChunk
      <4>1. 0 \in Slot
        BY WindowAssumption DEF Slot
      <4>2. QED
        BY <1>1, <3>1, <4>1, ReadChunkFills DEF EmptySlots
    <3>2. CASE SendEof
      <4>1. PICK i \in Slot : i = sender_seqnum % (WindowSize - 1)
        BY <1>1, Numbers, WindowAssumption DEF Slot
      <4>2. \A j \in Slot \ {i} : sender_buffer'[j] = sender_buffer[j]
        BY <1>1, <3>2, <4>1 DEF SendEof, TypeInv, TypeOK, SenderTypeOK
      <4>3. QED
        BY <4>2
    <3>3. QED
      BY <1>4, <3>1, <3>2
  <2>2. Occupied(sender_buffer') \in SUBSET (Occupied(sender_buffer) \cup {i})
    BY <2>1 DEF Occupied
  <2>3. Occupied(sender_buffer) \in SUBSET Slot
    BY DEF Occupied
  <2>4. /\ IsFiniteSet(Occupied(sender_buffer) \cup {i})
        /\ Cardinality(Occupied(sender_buffer) \cup {i}) \in Nat
        /\ Cardinality(Occupied(sender_buffer) \cup {i}) <=
              Cardinality(Occupied(sender_buffer)) + 1
    BY <1>1, <2>3, SlotsFinite, FS_AddElement
  <2>5. Cardinality(Occupied(sender_buffer')) <=
           Cardinality(Occupied(sender_buffer) \cup {i})
    BY <2>2, <2>4, FS_Subset
  <2>6. Cardinality(Occupied(sender_buffer')) \in Nat
    BY EmptyAndOccupied
  <2>7. QED
    BY <1>1, <2>4, <2>5, <2>6
<1>5. CASE ReadChunk
  <2>1. /\ sender_seqnum < lastack + sender_buffer_size
        /\ sender_seqnum \in Nat /\ lastack \in Nat
    BY <1>1, <1>5, Numbers DEF ReadChunk, WindowOpen
  <2>2. Cardinality(Occupied(sender_buffer)) <= sender_seqnum - lastack
    BY OutstandingBound
  <2>3. sender_buffer_size = WindowSize - Cardinality(Occupied(sender_buffer))
    BY <1>1, EmptyAndOccupied, Numbers DEF CountersMatchSlots, WindowMatchesSlots
  <2>4. 2 * (Cardinality(Occupied(sender_buffer)) + 1) <= WindowSize + 1
    BY <1>1, <2>1, <2>2, <2>3
  <2>5. Cardinality(Occupied(sender_buffer')) \in Nat
    BY EmptyAndOccupied
  <2>6. QED
    BY <1>1, <1>4, <1>5, <2>4, <2>5
<1>6. CASE SendEof
  <2>1. Cardinality(Occupied(sender_buffer)) = 0
    BY <1>1, <1>6, SendEofFindsEmpty, FS_EmptySet
  <2>2. Cardinality(Occupied(sender_buffer')) \in Nat
    BY EmptyAndOccupied
  <2>3. QED
    BY <1>1, <1>4, <1>6, <2>1, <2>2
<1>7. QED
  <2>1. ASSUME NEW a \in toSender,
               Cardinality(Occupied(sender_buffer')) <=
                   Cardinality(Occupied(sender_buffer))
        PROVE  2 * Cardinality(Occupied(sender_buffer')) <= WindowSize + 1
    BY <1>1, <2>1, EmptyAndOccupied
  <2>2. QED
    BY <1>1, <1>2, <1>3, <1>5, <1>6, <2>1, SenderBufferSteps

(* Half of the window: what the sender has outstanding, counted by lastack  *)
(* and by sender_buffer_size, stays below it however its ACKs are reordered.*)
THEOREM HalfWindow ==
    ASSUME NoWrap
    PROVE  Spec => []AtMostHalfOutstanding
<1>1. Init => AtMostHalfOutstanding
  BY EmptyBufferCount, FS_EmptySet, WindowAssumption
     DEF Init, SenderInit, AtMostHalfOutstanding
<1>2. DeliveryInv /\ AtMostHalfOutstanding /\ [Next]_vars => AtMostHalfOutstanding'
  BY StepMoves, HalfMoves
<1>3. QED
  BY <1>1, <1>2, DeliveryInvariant, PTL DEF Spec

----------------------------------------------------------------------------
(* The sender of a regular file. *)

(* No packet of the sender is below the last ACK, nor has a number that is  *)
(* not given yet.                                                           *)
LEMMA OutstandingRange ==
    ASSUME DeliveryInv
    PROVE  /\ lastack <= sender_seqnum
           /\ \A a \in toSender : a.type = "ACK" => a.seqnum <= sender_seqnum
           /\ \A i \in Occupied(sender_buffer) :
                 lastack <= sender_buffer[i].seqnum /\ sender_buffer[i].seqnum < sender_seqnum
<1>1. PICK e \in Seqnum : EofAt(e) /\ DataNumbered(e) /\ receiver_seqnum <= e
  BY DEF DeliveryInv, SeqnumInv
<1>2. e \in Nat /\ e <= sender_seqnum
  BY <1>1, SeqnumsAssumption, Numbers DEF DeliveryInv, EofAt, Seqnum
<1>3. QED
  BY <1>1, <1>2, Numbers
     DEF DeliveryInv, AcksBelowExpected, Outstanding, DataNumbered, Numbered

(* With the last number acknowledged nothing is outstanding, and the window *)
(* is open.                                                                 *)
LEMMA AllAcknowledged ==
    ASSUME DeliveryInv, lastack = sender_seqnum
    PROVE  /\ Occupied(sender_buffer) = {}
           /\ sender_buffer_size = WindowSize
           /\ WindowOpen
<1>1. Occupied(sender_buffer) = {}
  BY OutstandingRange, Numbers DEF DeliveryInv
<1>2. sender_buffer_size = WindowSize
  <2>1. Cardinality(Occupied(sender_buffer)) = 0
    BY <1>1, FS_EmptySet
  <2>2. sender_buffer_size = Cardinality(EmptySlots(sender_buffer))
    BY DEF DeliveryInv, CountersMatchSlots
  <2>3. QED
    BY <2>1, <2>2, EmptyAndOccupied, WindowAssumption
<1>3. QED
  BY <1>1, <1>2, Numbers, WindowAssumption DEF DeliveryInv, WindowOpen

LEMMA ReadyPoll ==
    ASSUME DeliveryInv, ReadyInv, ~InputIsPipe, sender_pc = "poll",
           \/ \E a \in toSender : PollWithDatagram(a)
           \/ PollWithoutDatagram
    PROVE  ReadyInv'
<1>1. sender_pc' = "input" /\ UNCHANGED sender_seqnum
  BY DEF PollWithDatagram, PollWithoutDatagram, EndOfPoll, Readable
<1>2. CASE UNCHANGED <<sender_buffer, lastack>>
  BY <1>1, <1>2 DEF ReadyInv, LatestHeld, Occupied
<1>3. ASSUME NEW a \in toSender, PollWithDatagram(a),
             pkt_decode(a) = "PKT_OK", a.type = "ACK"
      PROVE  LatestHeld' \/ lastack' = sender_seqnum'
  <2>1. /\ lastack' = a.seqnum
        /\ sender_buffer' =
              [i \in Slot |-> IF i \in Acknowledged(a) THEN NULL ELSE sender_buffer[i]]
    BY <1>3 DEF PollWithDatagram, TakeAck, NewLastAck
  <2>2. a.seqnum \in Nat /\ sender_seqnum \in Nat /\ a.seqnum <= sender_seqnum
    BY <1>3, OutstandingRange, Numbers DEF DeliveryInv
  <2>3. CASE sender_seqnum = 0
    BY <1>1, <2>1, <2>2, <2>3
  <2>4. ASSUME NEW i \in Occupied(sender_buffer), sender_buffer[i].seqnum + 1 = sender_seqnum
        PROVE  LatestHeld' \/ lastack' = sender_seqnum'
    <3>1. CASE i \in Acknowledged(a)
      <4>1. a.seqnum > sender_buffer[i].seqnum /\ sender_buffer[i].seqnum \in Nat
        BY <3>1, Numbers DEF Acknowledged, DeliveryInv
      <4>2. QED
        BY <1>1, <2>1, <2>2, <2>4, <4>1
    <3>2. CASE i \notin Acknowledged(a)
      <4>1. i \in Slot /\ sender_buffer[i] # NULL
        BY DEF Occupied
      <4>2. i \in Occupied(sender_buffer') /\ sender_buffer'[i] = sender_buffer[i]
        BY <2>1, <3>2, <4>1 DEF Occupied
      <4>3. QED
        BY <1>1, <2>4, <4>2 DEF LatestHeld
    <3>3. QED
      BY <3>1, <3>2
  <2>5. QED
    BY <2>3, <2>4 DEF ReadyInv, LatestHeld
<1>4. QED
  <2>1. CASE PollWithoutDatagram
    BY <1>2, <2>1 DEF PollWithoutDatagram
  <2>2. ASSUME NEW a \in toSender, PollWithDatagram(a)
        PROVE  \/ UNCHANGED <<sender_buffer, lastack>>
               \/ pkt_decode(a) = "PKT_OK" /\ a.type = "ACK"
    BY <2>2 DEF PollWithDatagram, TakeAck
  <2>3. QED
    BY <1>1, <1>2, <1>3, <2>1, <2>2 DEF ReadyInv

(* A chunk that is read takes a slot and the next number. *)
LEMMA ReadyRead ==
    ASSUME DeliveryInv, NoWrap, ReadChunk
    PROVE  ReadyInv'
<1>1. sender_buffer_size > 0
  BY OutstandingRange, Numbers DEF ReadChunk, WindowOpen, DeliveryInv
<1>2. EmptySlots(sender_buffer) # {}
  BY <1>1, SomeEmpty DEF DeliveryInv, CountersMatchSlots
<1>3. PICK i \in EmptySlots(sender_buffer) :
         /\ sender_buffer' = [sender_buffer EXCEPT ![i] = NextPacket]
         /\ sender_seqnum' = inc_seqnum(sender_seqnum)
  BY <1>2 DEF ReadChunk, StorePacket, FirstOf
<1>4. sender_seqnum' = sender_seqnum + 1
  <2>1. PICK e \in Seqnum : EofAt(e) /\ DataNumbered(e) /\ receiver_seqnum <= e
    BY DEF DeliveryInv, SeqnumInv
  <2>2. nread < Chunks
    BY Numbers, ChunksAssumption DEF DeliveryInv, ReadChunk
  <2>3. QED
    BY <1>3, <2>1, <2>2, NextSeqnum
<1>5. i \in Occupied(sender_buffer') /\ sender_buffer'[i] = NextPacket
  <2>1. NextPacket \in Packet
    BY ChunksAssumption
       DEF DeliveryInv, TypeInv, TypeOK, SenderTypeOK, ReadChunk, NextPacket, Packet, Chunk
  <2>2. QED
    BY <1>3, <2>1, NullAssumption
       DEF DeliveryInv, TypeInv, TypeOK, SenderTypeOK, EmptySlots, Occupied
<1>6. LatestHeld'
  BY <1>4, <1>5 DEF LatestHeld, NextPacket
<1>7. sender_pc' = "poll"
  BY DEF ReadChunk
<1>8. QED
  BY <1>6, <1>7 DEF ReadyInv

(* The sender comes back to poll() without a chunk only when a packet is    *)
(* outstanding.                                                             *)
LEMMA ReadyNoChunk ==
    ASSUME DeliveryInv, ReadyInv, ReadEof \/ WindowShut
    PROVE  ReadyInv'
<1>1. /\ sender_pc = "input"
      /\ UNCHANGED <<sender_buffer, sender_seqnum, lastack>>
      /\ \/ sender_pc' = "finished"
         \/ sender_pc' = "poll" /\ (sender_buffer_size # WindowSize \/ ~WindowOpen)
  BY DEF ReadEof, AfterEof, WindowShut
<1>2. sender_pc' = "poll" => LatestHeld
  BY <1>1, AllAcknowledged DEF ReadyInv
<1>3. LatestHeld => LatestHeld'
  BY <1>1 DEF LatestHeld, Occupied
<1>4. QED
  BY <1>1, <1>2, <1>3 DEF ReadyInv

LEMMA ReadyMoves ==
    ASSUME DeliveryInv, ReadyInv, NoWrap, ~InputIsPipe, Moves
    PROVE  ReadyInv'
<1>1. CASE (\E a \in toSender : PollWithDatagram(a)) \/ PollWithoutDatagram
  <2>1. sender_pc = "poll"
    BY <1>1 DEF PollWithDatagram, PollWithoutDatagram
  <2>2. QED
    BY <1>1, <2>1, ReadyPoll
<1>2. CASE ReadChunk
  BY <1>2, ReadyRead
<1>3. CASE ReadEof \/ WindowShut
  BY <1>3, ReadyNoChunk
<1>4. CASE PollError \/ PollSocketError \/ ReadError
  BY <1>4 DEF PollError, PollSocketError, ReadError, ReadyInv
<1>5. CASE SendEof \/ NothingToRead
  BY <1>5 DEF SendEof, NothingToRead, ReadyInv
<1>6. CASE ReceiverMoves \/ NetworkMoves \/ WriterFeeds \/ WriterCloses \/ Tick
  <2>1. UNCHANGED senderVars
    BY <1>6 DEF ReceiverMoves, ReceiverStep, NetworkMoves, EndsUntouched, WriterFeeds,
                WriterCloses, Tick
  <2>2. QED
    BY <2>1 DEF ReadyInv, LatestHeld, Occupied, senderVars
<1>7. QED
  BY <1>1, <1>2, <1>3, <1>4, <1>5, <1>6 DEF Moves, SenderMoves

(* The sender of a regular file never stops reading with nothing            *)
(* outstanding, however its ACKs are reordered, lost or repeated.           *)
THEOREM IdleReads ==
    ASSUME NoWrap, ~InputIsPipe
    PROVE  Spec => []IdleSenderReads
<1>1. Init => ReadyInv
  BY DEF Init, SenderInit, ReadyInv
<1>2. DeliveryInv /\ ReadyInv /\ [Next]_vars => ReadyInv'
  BY StepMoves, ReadyMoves
<1>3. DeliveryInv /\ ReadyInv => IdleSenderReads
  BY AllAcknowledged DEF ReadyInv, LatestHeld, IdleSenderReads
<1>4. QED
  BY <1>1, <1>2, <1>3, DeliveryInvariant, PTL DEF Spec

----------------------------------------------------------------------------
(* The refinement. *)

(* The packet that the receiver writes is the next one of the stream.       *)
LEMMA NextChunk ==
    ASSUME DeliveryInv, ~IoFaults, NEW e \in Seqnum, EofAt(e), receiver_seqnum <= e,
           NEW p, Numbered(p, e), p.seqnum = receiver_seqnum, p.chunk # 0
    PROVE  p.chunk = Len(written) + 1 /\ Len(written) < nread
<1>1. p.chunk = receiver_seqnum + 1 /\ receiver_seqnum + 1 <= e
  BY ExpectedPacket
<1>2. e <= nread /\ e \in Nat /\ nread \in Nat
  BY Numbers, SeqnumsAssumption DEF DeliveryInv, EofAt, Seqnum
<1>3. Len(written) = receiver_seqnum /\ receiver_seqnum \in Nat
  BY ExpectedCountsWritten
<1>4. QED
  BY <1>1, <1>2, <1>3

(* The variables of the reliable stream, seen from a step of the programs.  *)
LEMMA StreamSender ==
    ASSUME DeliveryInv, ~IoFaults, SenderMoves
    PROVE  \/ UNCHANGED <<nread, written, sender_pc = "finished">>
           \/ /\ nread < Chunks /\ nread' = nread + 1
              /\ sender_pc # "finished" /\ sender_pc' # "finished"
              /\ UNCHANGED written
           \/ /\ sender_pc # "finished" /\ sender_pc' = "finished"
              /\ nread = Chunks /\ Len(written) = Chunks
              /\ UNCHANGED <<nread, written>>
<1>1. /\ InputInv
      /\ nread \in Nat /\ fed \in Nat /\ nread <= Chunks /\ fed <= Chunks
      /\ Len(written) = receiver_seqnum
      /\ receiver_seqnum \in Nat /\ receiver_seqnum <= nread
  BY Numbers, ExpectedCountsWritten DEF DeliveryInv
<1>2. UNCHANGED <<receiver_seqnum, written>>
  BY DEF SenderMoves, receiverVars
<1>3. CASE ReadChunk
  <2>1. /\ nread < fed /\ nread' = nread + 1
        /\ sender_pc = "input" /\ sender_pc' = "poll"
    BY <1>3 DEF ReadChunk
  <2>2. QED
    BY <1>1, <1>2, <2>1, ChunksAssumption
<1>4. CASE ReadEof
  <2>1. /\ sender_pc = "input" /\ nread = fed
        /\ UNCHANGED <<nread, fed, closed>>
        /\ sender_pc' \in {"poll", "finished"}
    BY <1>4 DEF ReadEof, AfterEof, inputVars
  <2>2. CASE sender_pc' = "finished"
    <3>1. InputInv'
      BY <1>2, <1>4, QuietInput
    <3>2. nread = Chunks /\ Len(written) = Chunks
      BY <1>1, <1>2, <2>1, <2>2, <3>1, ChunksAssumption DEF InputInv
    <3>3. QED
      BY <1>2, <2>1, <2>2, <3>2
  <2>3. CASE sender_pc' = "poll"
    BY <1>2, <2>1, <2>3
  <2>4. QED
    BY <2>1, <2>2, <2>3
<1>5. CASE \/ \E a \in toSender : PollWithDatagram(a)
           \/ PollWithoutDatagram \/ PollSocketError \/ SendEof \/ ReadError \/ PollError
           \/ WindowShut \/ NothingToRead
  <2>1. /\ UNCHANGED nread
        /\ sender_pc # "finished" /\ sender_pc' # "finished"
    BY <1>5
       DEF PollWithDatagram, PollWithoutDatagram, PollSocketError, SendEof, ReadError,
           PollError, WindowShut, NothingToRead, EndOfPoll
  <2>2. QED
    BY <1>2, <2>1
<1>6. CASE WriterFeeds \/ WriterCloses \/ Tick
  BY <1>2, <1>6 DEF WriterFeeds, WriterCloses, Tick, senderVars
<1>7. QED
  BY <1>3, <1>4, <1>5, <1>6 DEF SenderMoves

LEMMA StreamReceiver ==
    ASSUME DeliveryInv, ~IoFaults, ReceiverMoves
    PROVE  \/ UNCHANGED <<nread, written, sender_pc>>
           \/ /\ written' = Append(written, Len(written) + 1)
              /\ Len(written) < nread
              /\ UNCHANGED <<nread, sender_pc>>
<1>1. UNCHANGED <<nread, sender_pc>>
  BY DEF ReceiverMoves, ReceiverStep, senderVars
<1>2. PICK e \in Seqnum : EofAt(e) /\ DataNumbered(e) /\ receiver_seqnum <= e
  BY DEF DeliveryInv, SeqnumInv
<1>3. ASSUME NEW d \in toReceiver, ReceiveExpected(d)
      PROVE  written' = Append(written, Len(written) + 1) /\ Len(written) < nread
  <2>1. /\ d.seqnum = receiver_seqnum /\ ValidData(d)
        /\ written' = Append(written, d.chunk)
    BY <1>3 DEF ReceiveExpected
  <2>2. Numbered(d, e) /\ d.chunk # 0
    BY <1>2, <2>1 DEF DataNumbered, ValidData, pkt_decode
  <2>3. QED
    BY <1>2, <2>1, <2>2, NextChunk
<1>4. CASE WriteBuffered
  <2>1. PICK i \in Occupied(receiver_buffer) :
           /\ receiver_buffer[i].seqnum = receiver_seqnum
           /\ written' = Append(written, receiver_buffer[i].chunk)
    BY <1>4 DEF WriteBuffered, FreeDelivered, FirstOf, Deliverable
  <2>2. Numbered(receiver_buffer[i], e) /\ receiver_buffer[i].chunk # 0
    BY <1>2
       DEF DataNumbered, DeliveryInv, TypeInv, BufferedValid, ValidData, pkt_decode
  <2>3. QED
    BY <1>1, <1>2, <2>1, <2>2, NextChunk
<1>5. CASE \/ \E d \in toReceiver : KeepEarly(d) \/ RefuseUnexpected(d) \/ RefuseInvalid(d)
           \/ ReceiveError \/ EndDrain \/ Timeout
  BY <1>1, <1>5
     DEF KeepEarly, RefuseUnexpected, RefuseInvalid, ReceiveError, EndDrain, Timeout,
         receiverVars
<1>6. QED
  BY <1>1, <1>3, <1>4, <1>5 DEF ReceiverMoves, WriteError, LoseBuffered

LEMMA StreamMoves ==
    ASSUME DeliveryInv, ~IoFaults, Moves
    PROVE  [Stream!StreamNext]_(Stream!streamVars)
<1> USE DEF Stream!StreamNext, Stream!streamVars
<1>1. CASE SenderMoves
  BY <1>1, StreamSender DEF Stream!Take, Stream!Complete
<1>2. CASE ReceiverMoves
  BY <1>2, StreamReceiver DEF Stream!Deliver
<1>3. CASE NetworkMoves
  BY <1>3 DEF NetworkMoves, EndsUntouched, senderVars, receiverVars
<1>4. QED
  BY <1>1, <1>2, <1>3 DEF Moves

(* The transfer implements the reliable stream: each of its steps is a step *)
(* of the stream, or leaves the stream unchanged.                           *)
THEOREM Refinement ==
    ASSUME NoWrap, ~IoFaults
    PROVE  Spec => ImplementsStream
<1>1. Init => Stream!StreamInit
  BY DEF Init, SenderInit, ReceiverInit, Stream!StreamInit
<1>2. DeliveryInv /\ [Next]_vars => [Stream!StreamNext]_(Stream!streamVars)
  BY StepMoves, StreamMoves
<1>3. QED
  BY <1>1, <1>2, DeliveryInvariant, PTL DEF Spec, ImplementsStream, Stream!StreamSpec

----------------------------------------------------------------------------
(* Whatever the length of the input. *)

LEMMA WindowStep ==
    ASSUME TypeInv, WindowMatchesSlots, [Next]_vars
    PROVE  WindowMatchesSlots'
<1>1. receiver_buffer \in [Slot -> Datagram \cup {NULL}] /\ window \in Seqnum
  BY DEF TypeInv, TypeOK, ReceiverTypeOK
<1>2. Cardinality(EmptySlots(receiver_buffer')) \in Seqnum
  BY EmptyAndOccupied, WindowAssumption, SeqnumsAssumption DEF Seqnum
<1>3. ASSUME NEW d \in toReceiver, KeepEarly(d)
      PROVE  WindowMatchesSlots'
  <2>1. PICK i \in Slot : /\ receiver_buffer[i] = NULL
                          /\ receiver_buffer' = [receiver_buffer EXCEPT ![i] = d]
    BY <1>3 DEF KeepEarly, Kept
  <2>2. d # NULL
    BY NullAssumption DEF TypeInv, TypeOK
  <2>3. /\ i \in EmptySlots(receiver_buffer)
        /\ receiver_buffer'[i] # NULL
        /\ \A j \in Slot \ {i} : receiver_buffer'[j] = receiver_buffer[j]
    BY <1>1, <2>1, <2>2 DEF EmptySlots
  <2>4. Cardinality(EmptySlots(receiver_buffer')) =
            Cardinality(EmptySlots(receiver_buffer)) - 1
    BY ONLY <2>3, FillSlot
  <2>5. window' = Uint8(window - 1)
    BY <1>3 DEF KeepEarly, WindowAfterStore
  <2>6. QED
    BY <1>2, <2>4, <2>5, Uint8Small DEF WindowMatchesSlots
<1>4. ASSUME NEW i \in Slot, FreeDelivered(i)
      PROVE  WindowMatchesSlots'
  <2>1. /\ i \in Occupied(receiver_buffer)
        /\ receiver_buffer' = [receiver_buffer EXCEPT ![i] = NULL]
        /\ window' = Uint8(window + 1)
    BY <1>4 DEF FreeDelivered, FirstOf, Deliverable, WindowAfterWrite
  <2>2. /\ receiver_buffer'[i] = NULL
        /\ \A j \in Slot \ {i} : receiver_buffer'[j] = receiver_buffer[j]
    BY <1>1, <2>1
  <2>3. Cardinality(EmptySlots(receiver_buffer')) =
            Cardinality(EmptySlots(receiver_buffer)) + 1
    BY ONLY <2>1, <2>2, FreeSlot
  <2>4. QED
    BY <1>2, <2>1, <2>3, Uint8Small DEF WindowMatchesSlots
<1>5. CASE UNCHANGED <<receiver_buffer, window>>
  BY <1>5 DEF WindowMatchesSlots
<1>6. \/ \E d \in toReceiver : KeepEarly(d)
      \/ \E i \in Slot : FreeDelivered(i)
      \/ UNCHANGED <<receiver_buffer, window>>
  <2>1. CASE ReceiverNext
    BY <2>1 DEF ReceiverNext, ReceiverKeepsEarly, ReceiverRefuses, ReceiverAnswersBad,
                ReceiverTakesExpected, ReceiverWriteError, ReceiverAnswersError,
                ReceiverWritesBuffered, ReceiverLosesBuffered, ReceiverEndsDrain,
                ReceiverTimesOut, RefuseUnexpected, RefuseInvalid, ReceiveExpected,
                WriteError, ReceiveError, WriteBuffered, LoseBuffered, EndDrain, Timeout,
                receiverVars
  <2>2. CASE SenderNext \/ NetworkNext \/ InputNext \/ ClockTicks
    BY <2>2 DEF SenderNext, SenderTakesDatagram, SenderTurns, SenderPollError,
                SenderSocketError, SenderSendsChunk, SenderSendsEof, SenderReadsEof,
                SenderReadError, SenderWindowShut, SenderNothingToRead, SenderStep,
                NetworkNext, LoseData, LoseAck, GarbleData, GarbleAck, EndsUntouched,
                InputNext, InputFed, InputClosed, ClockTicks, receiverVars
  <2>3. CASE UNCHANGED vars
    BY <2>3 DEF vars, receiverVars
  <2>4. QED
    BY <2>1, <2>2, <2>3 DEF Next
<1>7. QED
  BY <1>3, <1>4, <1>5, <1>6

(* The receiver's window counts its empty slots, with wrapped sequence      *)
(* numbers and failing calls too: the uint8_t never passes 0 or             *)
(* WINDOW_SIZE.                                                             *)
THEOREM WindowCorrect == Spec => []WindowMatchesSlots
<1>1. Init => WindowMatchesSlots
  BY EmptyBufferCount DEF Init, ReceiverInit, WindowMatchesSlots
<1>2. Spec => []TypeInv
  BY InitTypes, TypeStep, PTL DEF Spec
<1>3. TypeInv /\ WindowMatchesSlots /\ [Next]_vars => WindowMatchesSlots'
  BY WindowStep
<1>4. QED
  BY <1>1, <1>2, <1>3, PTL DEF Spec

LEMMA ScanStep ==
    ASSUME TypeInv, ScanReachesBack, [Next]_vars
    PROVE  ScanReachesBack'
<1>1. receiver_buffer \in [Slot -> Datagram \cup {NULL}] /\ receiver_index \in {0, 1} /\ Slot \subseteq Nat
  BY WindowAssumption DEF TypeInv, TypeOK, ReceiverTypeOK, Slot
<1>2. ASSUME NEW d, KeepEarly(d)
      PROVE  ScanReachesBack'
  BY <1>1, <1>2 DEF KeepEarly, ScanReachesBack, Occupied
<1>3. CASE EndDrain
  <2>1. Deliverable = {} /\ UNCHANGED <<receiver_seqnum, receiver_buffer>>
    BY <1>3 DEF EndDrain
  <2>2. ASSUME NEW i \in Occupied(receiver_buffer), i # 0
        PROVE  receiver_buffer[i].seqnum # receiver_seqnum
    <3>1. i \in Slot /\ i >= receiver_index
      BY <1>1, <2>2 DEF Occupied
    <3> QED
      BY <2>1, <2>2, <3>1 DEF Deliverable
  <2> QED
    BY <2>1, <2>2 DEF ScanReachesBack, Occupied
<1>4. CASE receiver_pc' # "poll"
  BY <1>4 DEF ScanReachesBack
<1>5. CASE UNCHANGED receiverVars
  BY <1>5 DEF ScanReachesBack, Occupied, receiverVars
<1>6. \/ \E d : KeepEarly(d)
      \/ EndDrain
      \/ receiver_pc' # "poll"
      \/ UNCHANGED receiverVars
  <2>1. Moves
    BY StepMoves
  <2>2. CASE ReceiverMoves
    BY <2>2 DEF ReceiverMoves, RefuseUnexpected, RefuseInvalid, ReceiveExpected, WriteError, ReceiveError,
                WriteBuffered, LoseBuffered, FreeDelivered, Timeout
  <2>3. CASE SenderMoves \/ NetworkMoves
    BY <2>3 DEF SenderMoves, NetworkMoves, EndsUntouched
  <2> QED
    BY <2>1, <2>2, <2>3 DEF Moves
<1> QED
  BY <1>2, <1>3, <1>4, <1>5, <1>6

(* The scan of the receiver leaves the packet expected next in no slot but  *)
(* slot 0, in whatever order the packets came and whether or not the        *)
(* sequence numbers have wrapped.                                           *)
THEOREM ScanComplete == Spec => []ScanReachesBack
<1>1. Init => ScanReachesBack
  BY DEF Init, ReceiverInit, ScanReachesBack, Occupied, EmptyBuffer
<1>2. Spec => []TypeInv
  BY InitTypes, TypeStep, PTL DEF Spec
<1>3. TypeInv /\ ScanReachesBack /\ [Next]_vars => ScanReachesBack'
  BY ScanStep
<1>4. QED
  BY <1>1, <1>2, <1>3, PTL DEF Spec
=============================================================================
