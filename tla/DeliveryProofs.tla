--------------------------- MODULE DeliveryProofs ---------------------------
(***************************************************************************)
(* Proofs of what the transfer delivers, for every input short enough for   *)
(* the sequence numbers not to wrap (NoWrap), every window, every network   *)
(* and either kind of input.  The argument is in DeliveryInv.              *)
(***************************************************************************)
EXTENDS TransferProofs, SequenceTheorems

----------------------------------------------------------------------------
(* Counting slots.  b is a buffer of either program. *)

LEMMA EmptyAndOccupied ==
    ASSUME NEW b
    PROVE  /\ Cardinality(Occupied(b)) + Cardinality(EmptySlots(b)) = WindowSize
           /\ Cardinality(Occupied(b)) \in Nat
           /\ Cardinality(EmptySlots(b)) \in 0 .. WindowSize
<1>1. Occupied(b) \in SUBSET Slot /\ EmptySlots(b) \in SUBSET Slot
  BY DEF Occupied, EmptySlots
<1>2. Occupied(b) \cup EmptySlots(b) = Slot /\ Occupied(b) \cap EmptySlots(b) = {}
  BY DEF Occupied, EmptySlots
<1>3. Cardinality(Slot) = WindowSize
  BY FS_Interval, WindowAssumption DEF Slot
<1>4. Cardinality({}) = 0
  BY FS_EmptySet
<1>5. Cardinality(Slot) = Cardinality(Occupied(b)) + Cardinality(EmptySlots(b)) - 0
  BY <1>1, <1>2, <1>4, SlotsFinite, FS_Union
<1>6. QED
  BY <1>1, <1>3, <1>5, SlotsFinite, WindowAssumption

(* A packet takes a slot. *)
LEMMA FillSlot ==
    ASSUME NEW b, NEW c, NEW i \in EmptySlots(b),
           c[i] # NULL,
           \A j \in Slot \ {i} : c[j] = b[j]
    PROVE  /\ Occupied(c) = Occupied(b) \cup {i}
           /\ Cardinality(EmptySlots(c)) = Cardinality(EmptySlots(b)) - 1
           /\ Cardinality(EmptySlots(b)) >= 1
<1>1. Occupied(c) = Occupied(b) \cup {i} /\ EmptySlots(c) = EmptySlots(b) \ {i}
  BY DEF Occupied, EmptySlots
<1>2. EmptySlots(b) \in SUBSET Slot
  BY DEF EmptySlots
<1>3. Cardinality(EmptySlots(c)) = Cardinality(EmptySlots(b)) - 1
  BY <1>1, <1>2, SlotsFinite, FS_RemoveElement
<1>4. Cardinality(EmptySlots(b)) \in Nat /\ Cardinality(EmptySlots(c)) \in Nat
  BY EmptyAndOccupied
<1>5. Cardinality(EmptySlots(b)) >= 1
  BY <1>3, <1>4
<1>6. QED
  BY <1>1, <1>3, <1>5

(* Packets leave their slots. *)
LEMMA FreeSlots ==
    ASSUME NEW b, NEW c, NEW S \in SUBSET Occupied(b),
           c = [i \in Slot |-> IF i \in S THEN NULL ELSE b[i]]
    PROVE  /\ Occupied(c) = Occupied(b) \ S
           /\ \A i \in Occupied(c) : c[i] = b[i]
           /\ Cardinality(EmptySlots(c)) = Cardinality(EmptySlots(b)) + Cardinality(S)
<1>1. /\ Occupied(c) = Occupied(b) \ S
      /\ EmptySlots(c) = EmptySlots(b) \cup S
      /\ EmptySlots(b) \cap S = {}
      /\ \A i \in Occupied(c) : c[i] = b[i]
  BY DEF Occupied, EmptySlots
<1>2. EmptySlots(b) \in SUBSET Slot /\ S \in SUBSET Slot
  BY DEF EmptySlots, Occupied
<1>3. Cardinality({}) = 0
  BY FS_EmptySet
<1>4. Cardinality(EmptySlots(c)) = Cardinality(EmptySlots(b)) + Cardinality(S) - 0
  BY <1>1, <1>2, <1>3, SlotsFinite, FS_Union
<1>5. QED
  BY <1>1, <1>2, <1>4, SlotsFinite

(* A packet leaves its slot. *)
LEMMA FreeSlot ==
    ASSUME NEW b, NEW c, NEW i \in Occupied(b),
           c[i] = NULL,
           \A j \in Slot \ {i} : c[j] = b[j]
    PROVE  /\ Occupied(c) = Occupied(b) \ {i}
           /\ Cardinality(EmptySlots(c)) = Cardinality(EmptySlots(b)) + 1
<1>1. /\ Occupied(c) = Occupied(b) \ {i}
      /\ EmptySlots(c) = EmptySlots(b) \cup {i}
      /\ i \notin EmptySlots(b)
  BY DEF Occupied, EmptySlots
<1>2. EmptySlots(b) \in SUBSET Slot
  BY DEF EmptySlots
<1>3. QED
  BY <1>1, <1>2, SlotsFinite, FS_AddElement

LEMMA EmptyBufferCount ==
    /\ Occupied(EmptyBuffer) = {}
    /\ Cardinality(EmptySlots(EmptyBuffer)) = WindowSize
<1>1. Occupied(EmptyBuffer) = {} /\ EmptySlots(EmptyBuffer) = Slot
  BY DEF Occupied, EmptySlots, EmptyBuffer
<1>2. QED
  BY <1>1, FS_Interval, WindowAssumption DEF Slot

(* When every slot is empty, and only then, the count is WINDOW_SIZE. *)
LEMMA AllEmpty ==
    ASSUME NEW b, Cardinality(EmptySlots(b)) = WindowSize
    PROVE  Occupied(b) = {}
<1>1. Cardinality(Occupied(b)) = 0
  BY EmptyAndOccupied, WindowAssumption
<1>2. Occupied(b) \in SUBSET Slot
  BY DEF Occupied
<1>3. QED
  BY <1>1, <1>2, SlotsFinite, FS_EmptySet

LEMMA SomeEmpty ==
    ASSUME NEW b, Cardinality(EmptySlots(b)) > 0
    PROVE  EmptySlots(b) # {}
BY FS_EmptySet

----------------------------------------------------------------------------
LEMMA InitDelivery == Init => DeliveryInv
<1> SUFFICES ASSUME Init PROVE DeliveryInv
  OBVIOUS
<1> USE DEF Init, SenderInit, ReceiverInit
<1>1. TypeInv
  BY InitTypes
<1>2. Occupied(sender_buffer) = {} /\ Occupied(receiver_buffer) = {}
  BY EmptyBufferCount
<1>3. CountersMatchSlots
  BY EmptyBufferCount DEF CountersMatchSlots, WindowMatchesSlots
<1>4. SeqnumInv
  <2>1. 0 \in Seqnum
    BY SeqnumsAssumption DEF Seqnum
  <2>2. EofAt(0) /\ DataNumbered(0) /\ receiver_seqnum <= 0
    BY <1>2 DEF EofAt, DataNumbered
  <2>3. QED
    BY <2>1, <2>2 DEF SeqnumInv
<1>5. AcksBelowExpected /\ WrittenBelowExpected /\ WrittenInOrder
  BY DEF AcksBelowExpected, WrittenBelowExpected, WrittenInOrder
<1>6. UnexpectedKept /\ Outstanding
  BY <1>2 DEF UnexpectedKept, Outstanding
<1>7. InputInv
  <2>1. InputIsPipe \/ closed
    BY Zenon
  <2>2. nread <= fed /\ (InputIsPipe \/ fed = Chunks)
    BY ChunksAssumption
  <2>3. QED
    BY <2>1, <2>2 DEF InputInv
<1>8. QED
  BY <1>1, <1>3, <1>4, <1>5, <1>6, <1>7 DEF DeliveryInv

(* A retransmission is a copy of a packet that the sender holds. *)
LEMMA RetransmittedNumbered ==
    ASSUME NEW e, DataNumbered(e), NEW d \in Retransmitted
    PROVE  Numbered(d, e)
BY DEF Retransmitted, FastRetransmitted, TimerRetransmitted, DataNumbered, Numbered,
       pkt_encode

(* Most steps leave alone all that the invariant speaks of, but for the     *)
(* datagrams in flight.                                                     *)
LEMMA QuietStep ==
    ASSUME DeliveryInv, TypeInv', InputInv',
           UNCHANGED <<sender_seqnum, sender_buffer, sender_buffer_size, lastack, nread,
                       receiver_seqnum, window, receiver_buffer, written>>,
           toReceiver' \subseteq toReceiver \cup Retransmitted \cup {Garbled},
           toSender' \subseteq toSender \cup {Ack, Garbled}
    PROVE  DeliveryInv'
<1>1. CountersMatchSlots'
  BY DEF DeliveryInv, CountersMatchSlots, WindowMatchesSlots, EmptySlots
<1>2. SeqnumInv'
  <2>1. PICK e \in Seqnum : EofAt(e) /\ DataNumbered(e) /\ receiver_seqnum <= e
    BY DEF DeliveryInv, SeqnumInv
  <2>2. EofAt(e)'
    BY <2>1 DEF EofAt, Occupied
  <2>3. ASSUME NEW d \in toReceiver', d.type = "DATA"
        PROVE  Numbered(d, e)
    BY <2>1, <2>3, RetransmittedNumbered DEF DataNumbered, Garbled
  <2>4. DataNumbered(e)'
    BY <2>1, <2>3 DEF DataNumbered, Numbered, Occupied
  <2>5. QED
    BY <2>1, <2>2, <2>4 DEF SeqnumInv
<1>3. AcksBelowExpected'
  BY SeqnumsAssumption
     DEF DeliveryInv, AcksBelowExpected, Ack, Acknowledgment, Garbled, TypeInv, TypeOK,
         ReceiverTypeOK, Seqnum
<1>4. WrittenBelowExpected' /\ WrittenInOrder'
  BY DEF DeliveryInv, WrittenBelowExpected, WrittenInOrder
<1>5. UnexpectedKept' /\ Outstanding'
  BY DEF DeliveryInv, UnexpectedKept, Outstanding, IsBuffered, Occupied
<1>6. QED
  BY <1>1, <1>2, <1>3, <1>4, <1>5 DEF DeliveryInv

----------------------------------------------------------------------------
(* The sender. *)

LEMMA QuietInput ==
    ASSUME DeliveryInv,
           \/ \E a \in Datagram : PollWithDatagram(a)
           \/ PollWithoutDatagram
           \/ PollSocketError
           \/ ReadEof \/ ReadError \/ PollError \/ WindowShut \/ NothingToRead
           \/ WriterFeeds \/ WriterCloses \/ Tick,
           UNCHANGED receiver_seqnum
    PROVE  InputInv'
<1>1. /\ InputInv
      /\ nread \in 0 .. Chunks /\ fed \in 0 .. Chunks /\ receiver_seqnum \in Seqnum
  BY DEF DeliveryInv, TypeInv, TypeOK, SenderTypeOK, ReceiverTypeOK, Chunk
<1>2. CASE \/ \E a \in Datagram : PollWithDatagram(a)
           \/ PollWithoutDatagram
           \/ PollSocketError
  <2>1. UNCHANGED <<nread, fed, closed>>
    BY <1>2 DEF PollWithDatagram, PollWithoutDatagram, PollSocketError, inputVars
  <2>2. /\ sender_pc' # "finished"
        /\ sender_pc' = "input" => Readable
    BY <1>2 DEF PollWithDatagram, PollWithoutDatagram, PollSocketError, EndOfPoll
  <2>3. QED
    BY <1>1, <2>1, <2>2 DEF InputInv, Readable
<1>3. CASE ReadEof
  <2>1. /\ sender_pc = "input"
        /\ nread = fed
        /\ sender_pc' = "poll" \/ sender_buffer_size = WindowSize
        /\ sender_pc' \in {"poll", "finished"}
        /\ UNCHANGED <<nread, fed, closed>>
    BY <1>3 DEF ReadEof, AfterEof, inputVars
  <2>2. ~InputIsPipe
    BY <1>1, <2>1, ChunksAssumption DEF InputInv
  <2>3. ASSUME sender_buffer_size = WindowSize
        PROVE  fed <= receiver_seqnum
    <3>1. Occupied(sender_buffer) = {}
      BY <2>3, AllEmpty DEF DeliveryInv, CountersMatchSlots
    <3>2. \A c \in 1 .. nread : c <= receiver_seqnum
      BY <3>1 DEF DeliveryInv, UnexpectedKept, IsBuffered
    <3>3. nread = 0 \/ nread <= receiver_seqnum
      BY <1>1, <3>2, ChunksAssumption
    <3>4. QED
      BY <1>1, <2>1, <3>3, SeqnumsAssumption, ChunksAssumption DEF Seqnum
  <2>4. QED
    BY <1>1, <2>1, <2>2, <2>3 DEF InputInv
<1>4. CASE ReadError \/ PollError \/ WindowShut \/ NothingToRead
  <2>1. UNCHANGED <<nread, fed, closed>> /\ sender_pc' \in {"poll", "failed"}
    BY <1>4 DEF ReadError, PollError, WindowShut, NothingToRead, inputVars
  <2>2. QED
    BY <1>1, <2>1 DEF InputInv
<1>5. CASE WriterFeeds
  <2>1. /\ UNCHANGED <<nread, sender_pc, closed>>
        /\ fed' = fed + 1
        /\ InputIsPipe
    BY <1>1, <1>5 DEF WriterFeeds, InputInv, senderVars
  <2>2. QED
    BY <1>1, <2>1, ChunksAssumption DEF InputInv
<1>6. CASE WriterCloses
  <2>1. UNCHANGED <<nread, sender_pc, fed>> /\ InputIsPipe
    BY <1>1, <1>6 DEF WriterCloses, InputInv, senderVars
  <2>2. QED
    BY <1>1, <2>1 DEF InputInv
<1>7. CASE Tick
  <2>1. UNCHANGED <<nread, sender_pc, fed, closed>>
    BY <1>7 DEF Tick, senderVars, inputVars
  <2>2. QED
    BY <1>1, <2>1 DEF InputInv
<1>8. QED
  BY <1>2, <1>3, <1>4, <1>5, <1>6, <1>7

(* The types that the arithmetic below needs. *)
LEMMA Numbers ==
    ASSUME TypeInv
    PROVE  /\ Seqnums \in Nat /\ WindowSize \in Nat /\ WindowSize < Seqnums
           /\ sender_seqnum \in Nat /\ lastack \in Nat /\ nread \in Nat /\ fed \in Nat
           /\ receiver_seqnum \in Nat /\ sender_buffer_size \in Nat /\ window \in Nat
           /\ sender_seqnum < Seqnums /\ nread <= Chunks /\ fed <= Chunks
           /\ \A i \in Occupied(sender_buffer) :
                 sender_buffer[i].seqnum \in Nat /\ sender_buffer[i].chunk \in Nat
           /\ \A i \in Occupied(receiver_buffer) :
                 /\ receiver_buffer[i].seqnum \in Nat
                 /\ receiver_buffer[i].chunk \in Nat
           /\ \A d \in toReceiver : d.seqnum \in Nat /\ d.chunk \in Nat
           /\ \A a \in toSender : a.seqnum \in Nat
BY SeqnumsAssumption, WindowAssumption, ChunksAssumption
   DEF TypeInv, TypeOK, SenderTypeOK, ReceiverTypeOK, Seqnum, Chunk, Occupied, Packet,
       Datagram

(* An ACK releases only packets that the receiver has gone past: never the  *)
(* packet of length 0.                                                      *)
LEMMA ReleaseStep ==
    ASSUME DeliveryInv, TypeInv', InputInv',
           NEW a \in toSender, PollWithDatagram(a), a.type = "ACK",
           Carries(Retransmitted, {}),
           UNCHANGED receiverVars
    PROVE  DeliveryInv'
<1> USE DEF receiverVars, Carries
<1>1. TypeInv /\ CountersMatchSlots /\ AcksBelowExpected /\ UnexpectedKept /\ Outstanding
  BY DEF DeliveryInv
<1>2. /\ lastack' = a.seqnum
      /\ sender_buffer' =
            [i \in Slot |-> IF i \in Acknowledged(a) THEN NULL ELSE sender_buffer[i]]
      /\ sender_buffer_size' = Uint8(sender_buffer_size + Cardinality(Acknowledged(a)))
      /\ UNCHANGED <<sender_seqnum, nread>>
  <2>1. pkt_decode(a) = "PKT_OK"
    BY DEF pkt_decode
  <2>2. QED
    BY <2>1 DEF PollWithDatagram, TakeAck, NewLastAck
<1>3. Acknowledged(a) \in SUBSET Occupied(sender_buffer)
  BY DEF Acknowledged
<1>4. /\ Occupied(sender_buffer') = Occupied(sender_buffer) \ Acknowledged(a)
      /\ \A i \in Occupied(sender_buffer') : sender_buffer'[i] = sender_buffer[i]
      /\ Cardinality(EmptySlots(sender_buffer')) =
            Cardinality(EmptySlots(sender_buffer)) + Cardinality(Acknowledged(a))
  <2> DEFINE S == Acknowledged(a)
             c == sender_buffer'
  <2>1. S \in SUBSET Occupied(sender_buffer)
    BY <1>3
  <2>2. c = [i \in Slot |-> IF i \in S THEN NULL ELSE sender_buffer[i]]
    BY <1>2
  <2> HIDE DEF S, c
  <2>3. /\ Occupied(c) = Occupied(sender_buffer) \ S
        /\ \A i \in Occupied(c) : c[i] = sender_buffer[i]
        /\ Cardinality(EmptySlots(c)) = Cardinality(EmptySlots(sender_buffer)) + Cardinality(S)
    BY ONLY <2>1, <2>2, FreeSlots
  <2>4. QED
    BY <2>3 DEF S, c
<1>5. PICK e \in Seqnum : EofAt(e) /\ DataNumbered(e) /\ receiver_seqnum <= e
  BY DEF DeliveryInv, SeqnumInv
<1>6. a.seqnum <= receiver_seqnum /\ e \in Nat /\ e <= sender_seqnum
  BY <1>1, <1>5, Numbers DEF AcksBelowExpected, EofAt, Seqnum
<1>7. \A i \in Occupied(sender_buffer) :
         /\ i \in Acknowledged(a) => sender_buffer[i].seqnum < a.seqnum
         /\ i \notin Acknowledged(a) => a.seqnum <= sender_buffer[i].seqnum
  BY <1>1, <1>5, <1>6, Numbers DEF Acknowledged
<1>8. CountersMatchSlots'
  <2>1. Cardinality(EmptySlots(sender_buffer')) \in Seqnum
    BY EmptyAndOccupied, WindowAssumption, SeqnumsAssumption DEF Seqnum
  <2>2. sender_buffer_size' = Cardinality(EmptySlots(sender_buffer'))
    BY <1>1, <1>2, <1>4, <2>1, Uint8Small DEF CountersMatchSlots, WindowMatchesSlots
  <2>3. QED
    BY <1>1, <2>2 DEF CountersMatchSlots, WindowMatchesSlots
<1>9. SeqnumInv'
  <2>1. EofAt(e)'
    <3>1. ASSUME NEW i \in Occupied(sender_buffer), sender_buffer[i].seqnum = e
          PROVE  i \in Occupied(sender_buffer') /\ sender_buffer'[i] = sender_buffer[i]
      BY <1>1, <1>4, <1>5, <1>6, <1>7, <3>1, Numbers
    <3>2. QED
      BY <1>2, <1>5, <3>1 DEF EofAt
  <2>2. DataNumbered(e)'
    BY <1>2, <1>4, <1>5, RetransmittedNumbered DEF DataNumbered, Numbered, Garbled
  <2>3. QED
    BY <1>5, <2>1, <2>2 DEF SeqnumInv
<1>10. AcksBelowExpected'
  BY <1>1, <1>2, <1>6 DEF AcksBelowExpected, Garbled
<1>11. UnexpectedKept'
  <2>1. ASSUME NEW c \in 1 .. nread, ~(c <= receiver_seqnum)
        PROVE  \E i \in Occupied(sender_buffer') : sender_buffer'[i].chunk = c
    <3>1. PICK i \in Occupied(sender_buffer) : sender_buffer[i].chunk = c
      BY <1>1, <2>1 DEF UnexpectedKept, IsBuffered
    <3>2. sender_buffer[i].seqnum < e => c = sender_buffer[i].seqnum + 1
      BY <1>5, <3>1 DEF DataNumbered, Numbered
    <3>3. i \notin Acknowledged(a)
      BY <1>1, <1>5, <1>6, <1>7, <2>1, <3>2, Numbers
    <3>4. QED
      BY <1>4, <3>1, <3>3
  <2>2. QED
    BY <1>2, <2>1 DEF UnexpectedKept, IsBuffered
<1>12. Outstanding'
  BY <1>1, <1>2, <1>4, <1>7 DEF Outstanding
<1>13. WrittenBelowExpected' /\ WrittenInOrder'
  BY DEF DeliveryInv, WrittenBelowExpected, WrittenInOrder
<1>14. QED
  BY <1>8, <1>9, <1>10, <1>11, <1>12, <1>13 DEF DeliveryInv

(* A slot takes a packet p with the next sequence number: what ReadChunk    *)
(* and SendEof have in common.  f is the value of e after the step.         *)
LEMMA SendStep ==
    ASSUME DeliveryInv, TypeInv', InputInv',
           NEW i \in EmptySlots(sender_buffer), NEW p \in Packet,
           p.seqnum = sender_seqnum,
           sender_buffer'[i] = p,
           \A j \in Slot \ {i} : sender_buffer'[j] = sender_buffer[j],
           sender_buffer_size' = Uint8(sender_buffer_size - 1),
           sender_seqnum' = sender_seqnum + 1,
           NEW e \in Seqnum, DataNumbered(e), receiver_seqnum <= e, e <= sender_seqnum,
           NEW f \in Seqnum, EofAt(f)', Numbered(p, f)', e <= f,
           e < f => e = sender_seqnum,
           p.chunk = nread' \/ nread' = nread,
           nread' \in nread .. nread + 1,
           Carries({pkt_encode(p)}, {}),
           UNCHANGED <<lastack, receiverVars>>
    PROVE  DeliveryInv'
<1> USE DEF receiverVars, Carries
<1>1. /\ TypeInv /\ CountersMatchSlots /\ AcksBelowExpected /\ UnexpectedKept
      /\ Outstanding
  BY DEF DeliveryInv
<1>2. sender_buffer'[i] # NULL
  BY NullAssumption
<1>3. /\ Occupied(sender_buffer') = Occupied(sender_buffer) \cup {i}
      /\ Cardinality(EmptySlots(sender_buffer')) =
            Cardinality(EmptySlots(sender_buffer)) - 1
  BY ONLY <1>2, FillSlot, i \in EmptySlots(sender_buffer),
          \A j \in Slot \ {i} : sender_buffer'[j] = sender_buffer[j]
<1>4. /\ i \notin Occupied(sender_buffer)
      /\ sender_buffer'[i] = p
      /\ \A j \in Occupied(sender_buffer) : sender_buffer'[j] = sender_buffer[j]
  BY <1>2 DEF EmptySlots, Occupied
<1>5. CountersMatchSlots'
  <2>1. Cardinality(EmptySlots(sender_buffer')) \in Seqnum
    BY EmptyAndOccupied, WindowAssumption, SeqnumsAssumption DEF Seqnum
  <2>2. sender_buffer_size' = Cardinality(EmptySlots(sender_buffer'))
    BY <1>1, <1>3, <2>1, Uint8Small DEF CountersMatchSlots, WindowMatchesSlots
  <2>3. QED
    BY <1>1, <2>2 DEF CountersMatchSlots, WindowMatchesSlots
<1>6. e \in Nat /\ f \in Nat /\ sender_seqnum \in Nat
  BY <1>1, Numbers, SeqnumsAssumption DEF Seqnum
<1>7. SeqnumInv'
  <2> DEFINE Fits(q) == /\ q.seqnum < sender_seqnum + 1
                        /\ q.seqnum < f => q.chunk = q.seqnum + 1
                        /\ q.seqnum = f => q.chunk = 0
  <2>1. ASSUME NEW q, q.seqnum \in Nat, Numbered(q, e)
        PROVE  Fits(q)
    BY <1>6, <2>1 DEF Numbered
  <2>2. Fits(p) /\ Fits(pkt_encode(p))
    BY DEF Numbered, pkt_encode
  <2> HIDE DEF Fits
  <2>3. \A j \in Occupied(sender_buffer') : Fits(sender_buffer'[j])
    <3>1. \A j \in Occupied(sender_buffer) : Fits(sender_buffer[j])
      BY <1>1, <2>1, Numbers DEF DataNumbered
    <3>2. QED
      BY <1>3, <1>4, <2>2, <3>1
  <2>4. \A d \in toReceiver' : d.type = "DATA" => Fits(d)
    BY <1>1, <2>1, <2>2, Numbers DEF DataNumbered, Garbled
  <2>5. \A j \in Occupied(receiver_buffer') : Fits(receiver_buffer'[j])
    BY <1>1, <2>1, Numbers DEF DataNumbered
  <2>6. DataNumbered(f)'
    BY <2>3, <2>4, <2>5 DEF DataNumbered, Numbered, Fits
  <2>7. receiver_seqnum' <= f
    BY <1>1, <1>6, Numbers
  <2>8. QED
    BY <2>6, <2>7 DEF SeqnumInv
<1>8. AcksBelowExpected'
  BY <1>1 DEF AcksBelowExpected, Garbled
<1>9. UnexpectedKept'
  <2>1. ASSUME NEW c \in 1 .. nread', ~(c <= receiver_seqnum)
        PROVE  \E j \in Occupied(sender_buffer') : sender_buffer'[j].chunk = c
    <3>1. CASE c \in 1 .. nread
      <4>1. PICK j \in Occupied(sender_buffer) : sender_buffer[j].chunk = c
        BY <1>1, <2>1, <3>1 DEF UnexpectedKept, IsBuffered
      <4>2. QED
        BY <1>3, <1>4, <4>1
    <3>2. CASE c = nread' /\ p.chunk = nread'
      BY <1>3, <1>4, <3>2
    <3>3. nread' = nread \/ (nread' = nread + 1 /\ p.chunk = nread')
      BY <1>1, Numbers
    <3>4. QED
      BY <1>1, <3>1, <3>2, <3>3, Numbers
  <2>2. QED
    BY <2>1 DEF UnexpectedKept, IsBuffered
<1>10. Outstanding'
  <2>1. \A j \in Occupied(sender_buffer) : sender_buffer[j].seqnum < sender_seqnum
    BY DEF DataNumbered, Numbered
  <2>2. lastack <= sender_seqnum
    BY <1>1, <1>6, Numbers DEF AcksBelowExpected
  <2>3. \A j \in Occupied(sender_buffer') : lastack <= sender_buffer'[j].seqnum
    BY <1>1, <1>3, <1>4, <2>2 DEF Outstanding
  <2>4. \A j \in Occupied(sender_buffer) : sender_buffer'[j].seqnum # sender_seqnum
    BY <1>1, <1>4, <2>1, Numbers
  <2>5. \A j, k \in Occupied(sender_buffer') :
           sender_buffer'[j].seqnum = sender_buffer'[k].seqnum => j = k
    BY <1>1, <1>3, <1>4, <2>4 DEF Outstanding
  <2>6. QED
    BY <2>3, <2>5 DEF Outstanding
<1>11. WrittenBelowExpected' /\ WrittenInOrder'
  BY DEF DeliveryInv, WrittenBelowExpected, WrittenInOrder
<1>12. QED
  BY <1>5, <1>7, <1>8, <1>9, <1>10, <1>11 DEF DeliveryInv

(* The next sequence number does not wrap. *)
LEMMA NextSeqnum ==
    ASSUME DeliveryInv, NoWrap, NEW e \in Seqnum, EofAt(e), nread < Chunks \/ e = sender_seqnum
    PROVE  /\ inc_seqnum(sender_seqnum) = sender_seqnum + 1
           /\ sender_seqnum + 1 \in Seqnum
           /\ e <= sender_seqnum
<1>1. sender_seqnum \in Nat /\ nread \in Nat /\ nread <= Chunks /\ Seqnums \in Nat
  BY Numbers DEF DeliveryInv
<1>2. sender_seqnum = nread \/ (sender_seqnum = nread + 1 /\ nread < Chunks)
  BY <1>1, SeqnumsAssumption DEF EofAt, Seqnum
<1>3. e <= sender_seqnum
  BY <1>1, SeqnumsAssumption DEF EofAt, Seqnum
<1>4. sender_seqnum + 1 \in Seqnum
  BY <1>1, <1>2, ChunksAssumption DEF NoWrap, Seqnum
<1>5. QED
  BY <1>3, <1>4, Uint8Small DEF inc_seqnum

LEMMA ReadChunkStep ==
    ASSUME DeliveryInv, TypeInv', NoWrap, ReadChunk,
           Carries({pkt_encode(NextPacket)}, {}),
           UNCHANGED receiverVars
    PROVE  DeliveryInv'
<1>1. TypeInv /\ CountersMatchSlots /\ AcksBelowExpected /\ InputInv
  BY DEF DeliveryInv
<1>2. PICK e \in Seqnum : EofAt(e) /\ DataNumbered(e) /\ receiver_seqnum <= e
  BY DEF DeliveryInv, SeqnumInv
<1>3. /\ sender_pc = "input" /\ sender_pc' = "poll"
      /\ nread < fed /\ nread' = nread + 1
      /\ WindowOpen /\ StorePacket(NextPacket)
      /\ sender_buffer_size' = Uint8(sender_buffer_size - 1)
      /\ UNCHANGED <<lastack, fed, closed>>
  BY DEF ReadChunk, inputVars
<1>4. nread \in Nat /\ nread < Chunks /\ nread + 1 \in Chunk /\ fed \in Nat
  BY <1>1, <1>3, Numbers, ChunksAssumption DEF Chunk
<1>5. /\ inc_seqnum(sender_seqnum) = sender_seqnum + 1
      /\ sender_seqnum + 1 \in Seqnum
      /\ e <= sender_seqnum
  BY <1>2, <1>4, NextSeqnum
<1>6. sender_buffer_size > 0
  <2>1. e \in Nat /\ lastack <= sender_seqnum
    BY <1>1, <1>2, <1>5, Numbers, SeqnumsAssumption DEF AcksBelowExpected, Seqnum
  <2>2. QED
    BY <1>1, <1>3, <2>1, Numbers DEF WindowOpen
<1>7. EmptySlots(sender_buffer) # {}
  BY <1>1, <1>6, SomeEmpty DEF CountersMatchSlots, WindowMatchesSlots
<1>8. PICK i \in EmptySlots(sender_buffer) :
         /\ sender_buffer' = [sender_buffer EXCEPT ![i] = NextPacket]
         /\ sender_seqnum' = sender_seqnum + 1
  BY <1>3, <1>5, <1>7 DEF StorePacket, FirstOf
<1>9. /\ sender_buffer'[i] = NextPacket
      /\ \A j \in Slot \ {i} : sender_buffer'[j] = sender_buffer[j]
      /\ NextPacket \in Packet
      /\ i \in Slot /\ i \notin Occupied(sender_buffer)
  BY <1>1, <1>4, <1>8
     DEF TypeInv, TypeOK, SenderTypeOK, NextPacket, Packet, EmptySlots, Occupied
<1>10. InputInv'
  BY <1>1, <1>3, <1>4 DEF InputInv
<1>11. PICK f \in Seqnum : f = IF e = sender_seqnum THEN sender_seqnum + 1 ELSE e
  BY <1>5
<1>12. PICK p \in Packet : p = NextPacket
  BY <1>9
<1>13. EofAt(f)'
  <2>1. CASE e = sender_seqnum
    <3>1. nread = sender_seqnum
      BY <1>1, <1>2, <2>1, Numbers DEF EofAt
    <3>2. QED
      BY <1>3, <1>8, <1>11, <2>1, <3>1 DEF EofAt
  <2>2. CASE e # sender_seqnum
    <3>1. /\ nread + 1 = sender_seqnum
          /\ \E j \in Occupied(sender_buffer) :
                sender_buffer[j].seqnum = e /\ sender_buffer[j].chunk = 0
      BY <1>2, <2>2 DEF EofAt
    <3>2. PICK j \in Occupied(sender_buffer) :
             sender_buffer[j].seqnum = e /\ sender_buffer[j].chunk = 0
      BY <3>1
    <3>3. j \in Occupied(sender_buffer') /\ sender_buffer'[j] = sender_buffer[j]
      BY <1>9, <3>2 DEF Occupied
    <3>4. f < sender_seqnum' /\ nread' + 1 = sender_seqnum'
      BY <1>1, <1>2, <1>3, <1>5, <1>8, <1>11, <2>2, <3>1, Numbers, SeqnumsAssumption
         DEF Seqnum
    <3>5. QED
      BY <1>11, <2>2, <3>2, <3>3, <3>4 DEF EofAt
  <2>3. QED
    BY <2>1, <2>2
<1>14. Numbered(p, f)'
  <2>1. p.seqnum = sender_seqnum /\ p.chunk = nread + 1
    BY <1>12 DEF NextPacket
  <2>2. sender_seqnum < f => nread = sender_seqnum
    BY <1>1, <1>2, <1>5, <1>11, Numbers, SeqnumsAssumption DEF EofAt, Seqnum
  <2>3. sender_seqnum # f
    BY <1>1, <1>8, <1>11, Numbers
  <2>4. QED
    BY <1>1, <1>8, <2>1, <2>2, <2>3, Numbers DEF Numbered
<1>15. /\ p.seqnum = sender_seqnum /\ p.chunk = nread'
       /\ sender_buffer'[i] = p
       /\ Carries({pkt_encode(p)}, {})
  BY <1>3, <1>9, <1>12 DEF NextPacket
<1>16. e <= f /\ (e < f => e = sender_seqnum) /\ nread' \in nread .. nread + 1
  BY <1>1, <1>2, <1>3, <1>4, <1>11, Numbers, SeqnumsAssumption DEF Seqnum
<1>17. QED
  BY <1>2, <1>3, <1>5, <1>8, <1>9, <1>10, <1>13, <1>14, <1>15, <1>16, SendStep

(* The packet of length 0 is sent with every slot empty, so it overwrites   *)
(* nothing, and there is no such packet yet.                                *)
LEMMA SendEofStep ==
    ASSUME DeliveryInv, TypeInv', NoWrap, SendEof,
           Carries({pkt_encode(EofPacket)}, {}),
           UNCHANGED receiverVars
    PROVE  DeliveryInv'
<1>1. TypeInv /\ CountersMatchSlots /\ InputInv
  BY DEF DeliveryInv
<1>2. PICK e \in Seqnum : EofAt(e) /\ DataNumbered(e) /\ receiver_seqnum <= e
  BY DEF DeliveryInv, SeqnumInv
<1>3. /\ sender_pc' = "poll"
      /\ sender_buffer' =
            [sender_buffer EXCEPT ![sender_seqnum % (WindowSize - 1)] = EofPacket]
      /\ sender_buffer_size' = Uint8(sender_buffer_size - 1)
      /\ sender_buffer_size = WindowSize
      /\ UNCHANGED <<lastack, nread, fed, closed>>
  BY DEF SendEof, NothingOutstanding, inputVars
<1>4. Occupied(sender_buffer) = {}
  BY <1>1, <1>3, AllEmpty DEF CountersMatchSlots, WindowMatchesSlots
<1>5. e = sender_seqnum /\ nread = sender_seqnum
  BY <1>2, <1>4 DEF EofAt
<1>6. /\ sender_seqnum' = sender_seqnum + 1
      /\ sender_seqnum + 1 \in Seqnum
  BY <1>2, <1>5, NextSeqnum DEF SendEof
<1>7. PICK p \in Packet : p = EofPacket
  BY <1>1, ChunksAssumption
     DEF EofPacket, Packet, TypeInv, TypeOK, SenderTypeOK, Chunk
<1>8. PICK i \in Slot : i = sender_seqnum % (WindowSize - 1)
  BY <1>1, Numbers, WindowAssumption DEF Slot
<1>9. /\ i \in EmptySlots(sender_buffer)
      /\ sender_buffer'[i] = p
      /\ \A j \in Slot \ {i} : sender_buffer'[j] = sender_buffer[j]
  BY <1>1, <1>3, <1>4, <1>7, <1>8
     DEF TypeInv, TypeOK, SenderTypeOK, EmptySlots, Occupied
<1>10. p.seqnum = sender_seqnum /\ p.chunk = 0
  BY <1>7 DEF EofPacket
<1>11. InputInv'
  BY <1>1, <1>3 DEF InputInv, SendEof, receiverVars
<1>12. e \in Nat /\ e < sender_seqnum' /\ nread' + 1 = sender_seqnum'
  BY <1>1, <1>3, <1>5, <1>6, Numbers
<1>13. i \in Occupied(sender_buffer') /\ p # NULL
  BY <1>9, NullAssumption DEF Occupied, EmptySlots
<1>14. EofAt(e)'
  BY <1>5, <1>9, <1>10, <1>12, <1>13 DEF EofAt
<1>15. Numbered(p, e)'
  BY <1>5, <1>10, <1>12 DEF Numbered
<1>16. /\ nread' \in nread .. nread + 1 /\ e <= e /\ e <= sender_seqnum
       /\ ~(e < e) /\ nread' = nread
  BY <1>1, <1>3, <1>5, Numbers
<1>17. /\ Carries({pkt_encode(p)}, {})
       /\ UNCHANGED lastack
  BY <1>3, <1>7
<1>18. QED
  BY <1>2, <1>3, <1>6, <1>9, <1>10, <1>11, <1>14, <1>15, <1>16, <1>17, SendStep

----------------------------------------------------------------------------
(* The receiver. *)

(* A packet ahead of the expected one goes to an empty slot. *)
LEMMA KeepEarlyStep ==
    ASSUME DeliveryInv, TypeInv', NEW d \in toReceiver, KeepEarly(d), ReceiverStep,
           Carries({}, {Ack})
    PROVE  DeliveryInv'
<1>1. TypeInv /\ CountersMatchSlots /\ AcksBelowExpected /\ InputInv
  BY DEF DeliveryInv
<1>2. PICK i \in Slot : /\ receiver_buffer[i] = NULL
                        /\ receiver_buffer' = [receiver_buffer EXCEPT ![i] = d]
  BY DEF KeepEarly, Kept
<1>3. /\ i \in EmptySlots(receiver_buffer)
      /\ receiver_buffer'[i] = d /\ receiver_buffer'[i] # NULL
      /\ \A j \in Slot \ {i} : receiver_buffer'[j] = receiver_buffer[j]
  BY <1>1, <1>2, NullAssumption DEF TypeInv, TypeOK, ReceiverTypeOK, EmptySlots
<1>4. /\ Occupied(receiver_buffer') = Occupied(receiver_buffer) \cup {i}
      /\ Cardinality(EmptySlots(receiver_buffer')) =
            Cardinality(EmptySlots(receiver_buffer)) - 1
  BY ONLY <1>3, FillSlot
<1>5. /\ window' = Uint8(window - 1) /\ d.type = "DATA"
      /\ UNCHANGED <<sender_pc, sender_seqnum, sender_buffer, sender_buffer_size, lastack,
                     nread, fed, closed, receiver_seqnum, written>>
      /\ toReceiver' \subseteq toReceiver \cup {Garbled}
      /\ toSender' \subseteq toSender \cup {Ack, Garbled}
  BY DEF KeepEarly, WindowAfterStore, ValidData, ReceiverStep, senderVars, inputVars,
         Carries
<1>6. CountersMatchSlots'
  <2>1. Cardinality(EmptySlots(receiver_buffer')) \in Seqnum
    BY EmptyAndOccupied, WindowAssumption, SeqnumsAssumption DEF Seqnum
  <2>2. window' = Cardinality(EmptySlots(receiver_buffer'))
    BY <1>1, <1>4, <1>5, <2>1, Uint8Small DEF CountersMatchSlots, WindowMatchesSlots
  <2>3. QED
    BY <1>1, <1>5, <2>2 DEF CountersMatchSlots, WindowMatchesSlots, EmptySlots
<1>7. SeqnumInv'
  <2>1. PICK e \in Seqnum : EofAt(e) /\ DataNumbered(e) /\ receiver_seqnum <= e
    BY DEF DeliveryInv, SeqnumInv
  <2>2. EofAt(e)'
    BY <1>5, <2>1 DEF EofAt, Occupied
  <2>3. \A j \in Occupied(receiver_buffer') : Numbered(receiver_buffer'[j], e)
    <3>1. ASSUME NEW j \in Occupied(receiver_buffer), j # i
          PROVE  receiver_buffer'[j] = receiver_buffer[j]
      BY <1>3, <3>1 DEF Occupied
    <3>2. QED
      BY <1>3, <1>4, <1>5, <2>1, <3>1 DEF DataNumbered
  <2>4. DataNumbered(e)'
    BY <1>5, <2>1, <2>3 DEF DataNumbered, Numbered, Occupied, Garbled
  <2>5. QED
    BY <1>5, <2>1, <2>2, <2>4 DEF SeqnumInv
<1>8. AcksBelowExpected'
  BY <1>1, <1>5, Numbers DEF AcksBelowExpected, Ack, Acknowledgment, Garbled
<1>9. WrittenBelowExpected' /\ WrittenInOrder'
  BY <1>5 DEF DeliveryInv, WrittenBelowExpected, WrittenInOrder
<1>10. UnexpectedKept' /\ Outstanding' /\ InputInv'
  BY <1>5 DEF DeliveryInv, UnexpectedKept, Outstanding, IsBuffered, Occupied, InputInv
<1>11. QED
  BY <1>6, <1>7, <1>8, <1>9, <1>10 DEF DeliveryInv

(* The expected packet, wherever it comes from, is the next chunk. *)
LEMMA ExpectedPacket ==
    ASSUME DeliveryInv, NEW e \in Seqnum, receiver_seqnum <= e,
           NEW p, Numbered(p, e), p.seqnum = receiver_seqnum, p.chunk # 0
    PROVE  /\ p.chunk = receiver_seqnum + 1
           /\ receiver_seqnum + 1 <= e
           /\ inc_seqnum(receiver_seqnum) = receiver_seqnum + 1
<1>1. receiver_seqnum \in Nat /\ e \in Nat
  BY Numbers, SeqnumsAssumption DEF DeliveryInv, Seqnum
<1>2. receiver_seqnum < e
  BY <1>1 DEF Numbered
<1>3. receiver_seqnum + 1 \in Seqnum
  BY <1>1, <1>2, SeqnumsAssumption DEF Seqnum
<1>4. QED
  BY <1>1, <1>2, <1>3, Uint8Small DEF Numbered, inc_seqnum

(* One more chunk at the end of the output file. *)
LEMMA AppendedChunk ==
    ASSUME NEW w \in Seq(1 .. Chunks), NEW c, NEW v, v = Append(w, c)
    PROVE  /\ Len(w) \in Nat /\ Len(v) = Len(w) + 1
           /\ v[Len(w) + 1] = c
           /\ \A k \in 1 .. Len(w) : w[k] \in Nat /\ v[k] = w[k]
<1>1. Len(w) \in Nat
  OBVIOUS
<1>2. Len(v) = Len(w) + 1 /\ v[Len(w) + 1] = c
  BY <1>1
<1>3. ASSUME NEW k \in 1 .. Len(w)
      PROVE  w[k] \in Nat /\ v[k] = w[k]
  <2>1. w[k] \in 1 .. Chunks
    BY ONLY <1>3, w \in Seq(1 .. Chunks), ElementOfSeq
  <2>2. w[k] \in Nat
    BY ONLY <2>1, ChunksAssumption
  <2>3. QED
    BY <1>1, <2>2
<1>4. QED
  BY <1>1, <1>2, <1>3

(* The receiver goes past it, and has written it unless write() failed. *)
LEMMA AdvanceStep ==
    ASSUME DeliveryInv, TypeInv', CountersMatchSlots', SeqnumInv',
           receiver_seqnum' = receiver_seqnum + 1,
           \/ written' = Append(written, receiver_seqnum + 1)
           \/ IoFaults /\ written' = written,
           ReceiverStep, Carries({}, {Ack})
    PROVE  DeliveryInv'
<1>1. TypeInv /\ AcksBelowExpected /\ UnexpectedKept /\ Outstanding /\ InputInv
      /\ WrittenBelowExpected /\ WrittenInOrder
  BY DEF DeliveryInv
<1>2. UNCHANGED <<sender_pc, sender_buffer, lastack, nread, fed, closed>>
  BY DEF ReceiverStep, senderVars, inputVars
<1>3. AcksBelowExpected'
  BY <1>1, <1>2, Numbers DEF AcksBelowExpected, Carries, Ack, Acknowledgment, Garbled
<1>4. UnexpectedKept'
  BY <1>1, <1>2, Numbers DEF UnexpectedKept, IsBuffered, Occupied
<1>5. Outstanding'
  BY <1>1, <1>2 DEF Outstanding, Occupied
<1>6. InputInv'
  BY <1>1, <1>2, Numbers DEF InputInv
<1>7. CASE written' = Append(written, receiver_seqnum + 1)
  <2>1. /\ written \in Seq(1 .. Chunks) /\ receiver_seqnum \in Nat
        /\ Len(written) \in Nat /\ Len(written') = Len(written) + 1
        /\ written'[Len(written) + 1] = receiver_seqnum + 1
        /\ \A k \in 1 .. Len(written) : written[k] \in Nat /\ written'[k] = written[k]
    <3>1. written \in Seq(1 .. Chunks)
      BY <1>1 DEF TypeInv, TypeOK, ReceiverTypeOK
    <3>2. receiver_seqnum \in Nat
      BY <1>1, Numbers
    <3>3. QED
      BY ONLY <1>7, <3>1, <3>2, AppendedChunk
  <2>2. \A k \in 1 .. Len(written') : k \in 1 .. Len(written) \/ k = Len(written) + 1
    BY <2>1
  <2>3. WrittenBelowExpected'
    BY <1>1, <2>1, <2>2 DEF WrittenBelowExpected
  <2>4. ASSUME NEW j \in 1 .. Len(written'), NEW k \in 1 .. Len(written'), j < k
        PROVE  written'[j] < written'[k]
    <3>1. j \in 1 .. Len(written)
      BY <2>1, <2>4
    <3>2. CASE k \in 1 .. Len(written)
      BY <1>1, <2>1, <2>4, <3>1, <3>2 DEF WrittenInOrder
    <3>3. CASE k = Len(written) + 1
      BY <1>1, <2>1, <3>1, <3>3 DEF WrittenBelowExpected
    <3>4. QED
      BY <2>2, <3>2, <3>3
  <2>5. WrittenInOrder'
    BY <2>4 DEF WrittenInOrder
  <2>6. QED
    BY <1>3, <1>4, <1>5, <1>6, <2>3, <2>5 DEF DeliveryInv
<1>8. CASE IoFaults /\ written' = written
  <2>1. /\ receiver_seqnum \in Nat
        /\ \A k \in 1 .. Len(written) : written[k] \in Nat
    <3>1. written \in Seq(1 .. Chunks)
      BY <1>1 DEF TypeInv, TypeOK, ReceiverTypeOK
    <3>2. \A k \in 1 .. Len(written) : written[k] \in 1 .. Chunks
      BY <3>1, ElementOfSeq
    <3>3. receiver_seqnum \in Nat
      BY <1>1, Numbers
    <3>4. QED
      BY <3>2, <3>3, ChunksAssumption
  <2>2. WrittenBelowExpected' /\ WrittenInOrder'
    BY <1>1, <1>8, <2>1 DEF WrittenBelowExpected, WrittenInOrder
  <2>3. QED
    BY <1>3, <1>4, <1>5, <1>6, <2>2 DEF DeliveryInv
<1>9. QED
  BY <1>7, <1>8

LEMMA ExpectedStep ==
    ASSUME DeliveryInv, TypeInv', NEW d \in toReceiver,
           ReceiveExpected(d) \/ WriteError(d), ReceiverStep, Carries({}, {Ack})
    PROVE  DeliveryInv'
<1>1. /\ d.seqnum = receiver_seqnum /\ ValidData(d)
      /\ receiver_seqnum' = inc_seqnum(receiver_seqnum)
      /\ written' = Append(written, d.chunk) \/ (IoFaults /\ written' = written)
      /\ UNCHANGED <<window, receiver_buffer>>
      /\ toReceiver' \subseteq toReceiver \cup {Garbled}
  BY DEF ReceiveExpected, WriteError, Carries
<1>2. PICK e \in Seqnum : EofAt(e) /\ DataNumbered(e) /\ receiver_seqnum <= e
  BY DEF DeliveryInv, SeqnumInv
<1>3. Numbered(d, e) /\ d.chunk # 0
  BY <1>1, <1>2 DEF DataNumbered, ValidData, pkt_decode
<1>4. /\ d.chunk = receiver_seqnum + 1
      /\ receiver_seqnum + 1 <= e
      /\ inc_seqnum(receiver_seqnum) = receiver_seqnum + 1
  BY <1>1, <1>2, <1>3, ExpectedPacket
<1>5. UNCHANGED <<sender_seqnum, sender_buffer, sender_buffer_size, nread>>
  BY DEF ReceiverStep, senderVars
<1>6. CountersMatchSlots'
  BY <1>1, <1>5 DEF DeliveryInv, CountersMatchSlots, WindowMatchesSlots, EmptySlots
<1>7. SeqnumInv'
  <2>1. EofAt(e)'
    BY <1>2, <1>5 DEF EofAt, Occupied
  <2>2. DataNumbered(e)'
    BY <1>1, <1>2, <1>5 DEF DataNumbered, Numbered, Occupied, Garbled
  <2>3. QED
    BY <1>1, <1>4, <2>1, <2>2 DEF SeqnumInv
<1>8. QED
  BY <1>1, <1>4, <1>6, <1>7, AdvanceStep

(* The scan frees one slot and writes what was in it, or loses it. *)
LEMMA BufferedStep ==
    ASSUME DeliveryInv, TypeInv', WriteBuffered \/ LoseBuffered, ReceiverStep,
           Carries({}, {Ack})
    PROVE  DeliveryInv'
<1>1. PICK i \in Slot :
         /\ FreeDelivered(i)
         /\ \/ written' = Append(written, receiver_buffer[i].chunk)
            \/ IoFaults /\ written' = written
  BY DEF WriteBuffered, LoseBuffered
<1>2. TypeInv /\ CountersMatchSlots
  BY DEF DeliveryInv
<1>3. PICK e \in Seqnum : EofAt(e) /\ DataNumbered(e) /\ receiver_seqnum <= e
  BY DEF DeliveryInv, SeqnumInv
<1>4. /\ i \in Occupied(receiver_buffer)
      /\ receiver_buffer[i].seqnum = receiver_seqnum
      /\ receiver_buffer' = [receiver_buffer EXCEPT ![i] = NULL]
      /\ window' = Uint8(window + 1)
      /\ receiver_seqnum' = inc_seqnum(receiver_seqnum)
  BY <1>1 DEF FreeDelivered, FirstOf, Deliverable, WindowAfterWrite
<1>5. ValidData(receiver_buffer[i]) /\ receiver_buffer[i].chunk # 0
  BY <1>2, <1>4 DEF TypeInv, BufferedValid, ValidData, pkt_decode
<1>6. Numbered(receiver_buffer[i], e)
  BY <1>3, <1>4 DEF DataNumbered
<1>7. /\ receiver_buffer[i].chunk = receiver_seqnum + 1
      /\ receiver_seqnum + 1 <= e
      /\ inc_seqnum(receiver_seqnum) = receiver_seqnum + 1
  BY <1>3, <1>4, <1>5, <1>6, ExpectedPacket
<1>8. /\ receiver_buffer'[i] = NULL
      /\ \A j \in Slot \ {i} : receiver_buffer'[j] = receiver_buffer[j]
  BY <1>2, <1>4 DEF TypeInv, TypeOK, ReceiverTypeOK
<1>9. /\ Occupied(receiver_buffer') = Occupied(receiver_buffer) \ {i}
      /\ Cardinality(EmptySlots(receiver_buffer')) =
            Cardinality(EmptySlots(receiver_buffer)) + 1
  BY ONLY <1>4, <1>8, FreeSlot
<1>10. UNCHANGED <<sender_seqnum, sender_buffer, sender_buffer_size, nread>>
  BY DEF ReceiverStep, senderVars
<1>11. CountersMatchSlots'
  <2>1. Cardinality(EmptySlots(receiver_buffer')) \in Seqnum
    BY EmptyAndOccupied, WindowAssumption, SeqnumsAssumption DEF Seqnum
  <2>2. window' = Cardinality(EmptySlots(receiver_buffer'))
    BY <1>2, <1>4, <1>9, <2>1, Uint8Small DEF CountersMatchSlots, WindowMatchesSlots
  <2>3. QED
    BY <1>2, <1>10, <2>2 DEF CountersMatchSlots, WindowMatchesSlots, EmptySlots
<1>12. SeqnumInv'
  <2>1. EofAt(e)'
    BY <1>3, <1>10 DEF EofAt, Occupied
  <2>2. \A j \in Occupied(receiver_buffer') : Numbered(receiver_buffer'[j], e)
    BY <1>3, <1>8, <1>9 DEF DataNumbered, Occupied
  <2>3. DataNumbered(e)'
    BY <1>1, <1>3, <1>10, <2>2 DEF DataNumbered, Numbered, Occupied, Garbled, Carries
  <2>4. QED
    BY <1>4, <1>7, <2>1, <2>3 DEF SeqnumInv
<1>13. QED
  BY <1>1, <1>2, <1>4, <1>7, <1>11, <1>12, AdvanceStep

----------------------------------------------------------------------------
(* The steps of the two programs and of the network. *)

LEMMA SenderDelivery ==
    ASSUME DeliveryInv, TypeInv', NoWrap, SenderMoves
    PROVE  DeliveryInv'
<1> USE DEF SenderMoves
<1>1. ASSUME NEW a \in toSender, PollWithDatagram(a), Carries(Retransmitted, {})
      PROVE  DeliveryInv'
  <2>1. InputInv'
    BY <1>1, QuietInput DEF receiverVars, DeliveryInv, TypeInv, TypeOK
  <2>2. CASE a.type = "ACK"
    BY <1>1, <2>1, <2>2, ReleaseStep
  <2>3. CASE a.type # "ACK"
    <3>1. UNCHANGED <<sender_seqnum, sender_buffer, sender_buffer_size, lastack, nread>>
      BY <1>1, <2>3 DEF PollWithDatagram, TakeAck
    <3>2. QED
      BY <1>1, <2>1, <3>1, QuietStep DEF receiverVars, Carries
  <2>4. QED
    BY <2>2, <2>3
<1>2. CASE (PollWithoutDatagram \/ PollSocketError) /\ Carries(Retransmitted, {})
  <2>1. InputInv'
    BY <1>2, QuietInput DEF receiverVars
  <2>2. UNCHANGED <<sender_seqnum, sender_buffer, sender_buffer_size, lastack, nread>>
    BY <1>2 DEF PollWithoutDatagram, PollSocketError
  <2>3. QED
    BY <1>2, <2>1, <2>2, QuietStep DEF receiverVars, Carries
<1>3. CASE ReadChunk /\ Carries({pkt_encode(NextPacket)}, {})
  BY <1>3, ReadChunkStep
<1>4. CASE SendEof /\ Carries({pkt_encode(EofPacket)}, {})
  BY <1>4, SendEofStep
<1>5. CASE /\ \/ ReadEof \/ ReadError \/ PollError \/ WindowShut \/ NothingToRead
              \/ WriterFeeds \/ WriterCloses \/ Tick
           /\ Carries({}, {})
  <2>1. InputInv'
    BY <1>5, QuietInput DEF receiverVars
  <2>2. UNCHANGED <<sender_seqnum, sender_buffer, sender_buffer_size, lastack, nread>>
    BY <1>5 DEF ReadEof, ReadError, PollError, WindowShut, NothingToRead, WriterFeeds,
                WriterCloses, Tick, senderVars
  <2>3. QED
    BY <1>5, <2>1, <2>2, QuietStep DEF receiverVars, Carries
<1>6. QED
  BY <1>1, <1>2, <1>3, <1>4, <1>5

(* A step of the receiver that is only an answer, and one of the network. *)
LEMMA AnswerDelivery ==
    ASSUME DeliveryInv, TypeInv',
           UNCHANGED <<senderVars, inputVars, receiver_seqnum, window, receiver_buffer,
                       written>>,
           Carries({}, {Ack})
    PROVE  DeliveryInv'
<1>1. InputInv'
  BY DEF DeliveryInv, InputInv, senderVars, inputVars
<1>2. QED
  BY <1>1, QuietStep DEF senderVars, Carries

LEMMA ReceiverDelivery ==
    ASSUME DeliveryInv, TypeInv', ReceiverMoves
    PROVE  DeliveryInv'
<1>1. ReceiverStep /\ Carries({}, {Ack})
  BY DEF ReceiverMoves
<1>2. CASE \E d \in toReceiver : KeepEarly(d)
  BY <1>1, <1>2, KeepEarlyStep
<1>3. CASE \E d \in toReceiver : ReceiveExpected(d) \/ WriteError(d)
  BY <1>1, <1>3, ExpectedStep
<1>4. CASE WriteBuffered \/ LoseBuffered
  BY <1>1, <1>4, BufferedStep
<1>5. CASE \/ \E d \in toReceiver : RefuseUnexpected(d) \/ RefuseInvalid(d)
           \/ ReceiveError \/ EndDrain \/ Timeout
  <2>1. UNCHANGED <<senderVars, inputVars, receiver_seqnum, window, receiver_buffer, written>>
    BY <1>1, <1>5 DEF ReceiverStep, RefuseUnexpected, RefuseInvalid, ReceiveError, EndDrain,
                      Timeout, receiverVars
  <2>2. QED
    BY <1>1, <2>1, AnswerDelivery
<1>6. QED
  BY <1>2, <1>3, <1>4, <1>5 DEF ReceiverMoves

LEMMA NetworkDelivery ==
    ASSUME DeliveryInv, TypeInv', NetworkMoves
    PROVE  DeliveryInv'
BY AnswerDelivery DEF NetworkMoves, EndsUntouched, receiverVars, Carries

LEMMA DeliveryMoves ==
    ASSUME NoWrap, DeliveryInv, Moves
    PROVE  DeliveryInv'
<1>1. TypeInv'
  BY TypeMoves DEF DeliveryInv
<1>2. QED
  BY <1>1, SenderDelivery, ReceiverDelivery, NetworkDelivery DEF Moves

LEMMA DeliveryStep == NoWrap /\ DeliveryInv /\ [Next]_vars => DeliveryInv'
BY StepMoves, DeliveryMoves

(* The invariant holds in every reachable state. *)
THEOREM DeliveryInvariant ==
    ASSUME NoWrap
    PROVE  Spec => []DeliveryInv
<1>1. DeliveryInv /\ [Next]_vars => DeliveryInv'
  BY DeliveryStep
<1>2. QED
  BY <1>1, InitDelivery, PTL DEF Spec
============================================================================
