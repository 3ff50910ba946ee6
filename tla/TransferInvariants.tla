------------------------- MODULE TransferInvariants -------------------------
(***************************************************************************)
(* The inductive invariants on which the proofs about Transfer rest.  They  *)
(* are in a module of their own so that TLC can check them too.            *)
(***************************************************************************)
EXTENDS Transfer

(* All that the proofs ask of the network is that it makes up no datagram.  *)
(* What is under way after a step was under way before, was sent in it, or  *)
(* is garbled; what the network loses, keeps and repeats does not matter,   *)
(* nor does the order in which it delivers.                                 *)
Carries(data, acks) ==
    /\ toReceiver' \subseteq toReceiver \cup data \cup {Garbled}
    /\ toSender' \subseteq toSender \cup acks \cup {Garbled}

SenderMoves ==
    /\ UNCHANGED receiverVars
    /\ \/ \E a \in toSender : PollWithDatagram(a) /\ Carries(Retransmitted, {})
       \/ (PollWithoutDatagram \/ PollSocketError) /\ Carries(Retransmitted, {})
       \/ ReadChunk /\ Carries({pkt_encode(NextPacket)}, {})
       \/ SendEof /\ Carries({pkt_encode(EofPacket)}, {})
       \/ /\ \/ ReadEof \/ ReadError \/ PollError \/ WindowShut \/ NothingToRead
             \/ WriterFeeds \/ WriterCloses \/ Tick
          /\ Carries({}, {})

ReceiverMoves ==
    /\ ReceiverStep
    /\ Carries({}, {Ack})
    /\ \/ \E d \in toReceiver : \/ KeepEarly(d) \/ RefuseUnexpected(d) \/ RefuseInvalid(d)
                               \/ ReceiveExpected(d) \/ WriteError(d)
       \/ ReceiveError \/ WriteBuffered \/ LoseBuffered \/ EndDrain \/ Timeout

NetworkMoves == EndsUntouched /\ Carries({}, {})

(* A step of the two programs joined by any such network. *)
Moves == SenderMoves \/ ReceiverMoves \/ NetworkMoves

----------------------------------------------------------------------------
(* What the receiver has buffered passed the decoder: the scan writes it    *)
(* without looking at it again.                                             *)
BufferedValid ==
    \A i \in Occupied(receiver_buffer) : ValidData(receiver_buffer[i])

TypeInv == TypeOK /\ BufferedValid

----------------------------------------------------------------------------
(* From here on the input is short enough for the sequence numbers not to   *)
(* wrap: one for each chunk, and one for the packet of length 0.            *)
NoWrap == Chunks + 1 < Seqnums

(* e is the sequence number of the packet of length 0, once it is sent, and *)
(* the next sequence number before.  The packet stays in its slot, so it is *)
(* sent once.                                                               *)
EofAt(e) ==
    \/ /\ e = sender_seqnum
       /\ nread = sender_seqnum
    \/ /\ e < sender_seqnum
       /\ nread + 1 = sender_seqnum
       /\ \E i \in Occupied(sender_buffer) :
             sender_buffer[i].seqnum = e /\ sender_buffer[i].chunk = 0

(* Below e, chunk k has sequence number k - 1. *)
Numbered(p, e) ==
    /\ p.seqnum < sender_seqnum
    /\ p.seqnum < e => p.chunk = p.seqnum + 1
    /\ p.seqnum = e => p.chunk = 0

(* Wherever a DATA packet is: with the sender, under way, with the receiver.*)
DataNumbered(e) ==
    /\ \A i \in Occupied(sender_buffer) : Numbered(sender_buffer[i], e)
    /\ \A d \in toReceiver : d.type = "DATA" => Numbered(d, e)
    /\ \A i \in Occupied(receiver_buffer) : Numbered(receiver_buffer[i], e)

(* The receiver never gets past the packet of length 0. *)
SeqnumInv ==
    \E e \in Seqnum : EofAt(e) /\ DataNumbered(e) /\ receiver_seqnum <= e

(* No ACK, in flight or remembered, is above the number that the receiver   *)
(* expects.                                                                 *)
AcksBelowExpected ==
    /\ lastack <= receiver_seqnum
    /\ \A a \in toSender : a.type = "ACK" => a.seqnum <= receiver_seqnum

(* The chunks in the output file are below the number that is expected, and *)
(* are all of these when write() does not fail.                             *)
WrittenBelowExpected ==
    /\ \A k \in 1 .. Len(written) : written[k] <= receiver_seqnum
    /\ ~IoFaults => /\ Len(written) = receiver_seqnum
                    /\ \A k \in 1 .. Len(written) : written[k] = k

(* The sender keeps every chunk that the receiver has not gone past. *)
UnexpectedKept == \A c \in 1 .. nread : c <= receiver_seqnum \/ IsBuffered(c)

(* The packets of the sender have distinct sequence numbers, none below the *)
(* last ACK.                                                                *)
Outstanding ==
    /\ \A i \in Occupied(sender_buffer) : lastack <= sender_buffer[i].seqnum
    /\ \A i, j \in Occupied(sender_buffer) :
          sender_buffer[i].seqnum = sender_buffer[j].seqnum => i = j

(* What poll() saw of the input, and what a successful exit means. *)
InputInv ==
    /\ nread <= fed
    /\ InputIsPipe \/ closed
    /\ InputIsPipe \/ fed = Chunks
    /\ sender_pc = "input" => nread < fed \/ ~InputIsPipe
    /\ sender_pc = "finished" => /\ ~InputIsPipe
                                 /\ fed <= receiver_seqnum

DeliveryInv ==
    /\ TypeInv
    /\ CountersMatchSlots
    /\ SeqnumInv
    /\ AcksBelowExpected
    /\ WrittenBelowExpected
    /\ WrittenInOrder
    /\ UnexpectedKept
    /\ Outstanding
    /\ InputInv
----------------------------------------------------------------------------
(* The sender of a regular file reads in the turn in which its last packet  *)
(* is acknowledged.  It so comes back to poll() with its latest packet in   *)
(* the buffer, unless it has sent nothing yet.                              *)
LatestHeld ==
    \E i \in Occupied(sender_buffer) : sender_buffer[i].seqnum + 1 = sender_seqnum

ReadyInv ==
    /\ sender_pc # "quiet"
    /\ sender_pc = "poll" => LatestHeld \/ (sender_seqnum = 0 /\ lastack = 0)
    /\ sender_pc = "input" => LatestHeld \/ lastack = sender_seqnum
============================================================================
