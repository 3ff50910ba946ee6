------------------------------ MODULE Transfer ------------------------------
(***************************************************************************)
(* The whole transfer: the sender's loop, the receiver's loop and the      *)
(* network between them (UDP, or UDP through the link simulator the tests  *)
(* put in the middle).                                                     *)
(*                                                                         *)
(* The network is two sets of datagrams, so it reorders without limit.     *)
(* With Duplicates a delivered datagram stays in its set: every datagram   *)
(* ever sent can come again at any later time, or never, and the network   *)
(* both duplicates and loses.                                              *)
(***************************************************************************)
EXTENDS Endpoints

CONSTANTS
    Duplicates,     \* a delivered datagram may be delivered again
    Losses,         \* a datagram may be dropped
    Corruption,     \* a datagram may arrive with a byte changed
    EarlyTimeout    \* the receiver's 3 s may pass while the sender runs

ASSUME NetworkAssumption ==
    /\ Duplicates \in BOOLEAN
    /\ Losses \in BOOLEAN
    /\ Corruption \in BOOLEAN
    /\ EarlyTimeout \in BOOLEAN

VARIABLES
    toReceiver,   \* DATA datagrams in flight
    toSender      \* ACK datagrams in flight

network == <<toReceiver, toSender>>
vars    == <<senderVars, inputVars, clock, receiverVars, network>>

TypeOK ==
    /\ SenderTypeOK
    /\ ReceiverTypeOK
    /\ toReceiver \subseteq Datagram
    /\ toSender \subseteq Datagram

Init ==
    /\ SenderInit
    /\ ReceiverInit
    /\ toReceiver = {}
    /\ toSender = {}

----------------------------------------------------------------------------
(* What is left in flight once d is received. *)
Without(net, d) == IF Duplicates THEN net ELSE net \ {d}

(* The sender's steps, with what they send. *)
SenderStep == UNCHANGED <<receiverVars, toSender>>

SenderTakesDatagram(a) ==
    /\ a \in toSender
    /\ PollWithDatagram(a)
    /\ toSender' = Without(toSender, a)
    /\ toReceiver' = toReceiver \cup Retransmitted
    /\ UNCHANGED receiverVars

SenderTurns ==
    /\ PollWithoutDatagram
    /\ toReceiver' = toReceiver \cup Retransmitted
    /\ SenderStep

SenderSocketError ==
    /\ PollSocketError
    /\ toReceiver' = toReceiver \cup Retransmitted
    /\ SenderStep

SenderSendsChunk ==
    /\ ReadChunk
    /\ toReceiver' = toReceiver \cup {pkt_encode(NextPacket)}
    /\ SenderStep

SenderSendsEof ==
    /\ SendEof
    /\ toReceiver' = toReceiver \cup {pkt_encode(EofPacket)}
    /\ SenderStep

SenderPollError      == PollError /\ UNCHANGED <<receiverVars, network>>
SenderReadsEof       == ReadEof /\ UNCHANGED <<receiverVars, network>>
SenderReadError      == ReadError /\ UNCHANGED <<receiverVars, network>>
SenderWindowShut     == WindowShut /\ UNCHANGED <<receiverVars, network>>
SenderNothingToRead  == NothingToRead /\ UNCHANGED <<receiverVars, network>>

InputFed    == WriterFeeds /\ UNCHANGED <<receiverVars, network>>
InputClosed == WriterCloses /\ UNCHANGED <<receiverVars, network>>
ClockTicks  == Tick /\ UNCHANGED <<receiverVars, network>>

----------------------------------------------------------------------------
(* The receiver's steps, with the ACK they send. *)
ReceiverStep == UNCHANGED <<senderVars, inputVars, clock>>

(* An answer to d, with the ACK that receiver_seqnum asks for. *)
Answered(d) ==
    /\ d \in toReceiver
    /\ toReceiver' = Without(toReceiver, d)
    /\ toSender' = toSender \cup {Ack}
    /\ ReceiverStep

ReceiverKeepsEarly(d)  == KeepEarly(d) /\ Answered(d)
ReceiverRefuses(d)     == RefuseUnexpected(d) /\ Answered(d)
ReceiverAnswersBad(d)  == RefuseInvalid(d) /\ Answered(d)

ReceiverAnswersError ==
    /\ ReceiveError
    /\ toSender' = toSender \cup {Ack}
    /\ UNCHANGED toReceiver
    /\ ReceiverStep

ReceiverTakesExpected(d) ==
    /\ d \in toReceiver
    /\ ReceiveExpected(d)
    /\ toReceiver' = Without(toReceiver, d)
    /\ UNCHANGED toSender
    /\ ReceiverStep

ReceiverWriteError(d) ==
    /\ d \in toReceiver
    /\ WriteError(d)
    /\ toReceiver' = Without(toReceiver, d)
    /\ UNCHANGED toSender
    /\ ReceiverStep

ReceiverWritesBuffered == WriteBuffered /\ UNCHANGED network /\ ReceiverStep
ReceiverLosesBuffered  == LoseBuffered /\ UNCHANGED network /\ ReceiverStep

ReceiverEndsDrain ==
    /\ EndDrain
    /\ toSender' = toSender \cup {Ack}
    /\ UNCHANGED toReceiver
    /\ ReceiverStep

(* Whatever the receiver does with d.  *)
ReceiverConsumes(d) ==
    \/ ReceiverKeepsEarly(d)
    \/ ReceiverRefuses(d)
    \/ ReceiverAnswersBad(d)
    \/ ReceiverTakesExpected(d)

(* Without EarlyTimeout the peer and the network are quick enough for the   *)
(* receiver: its three seconds pass only after the sender has left.         *)
ReceiverTimesOut ==
    /\ EarlyTimeout \/ sender_pc \in {"finished", "failed"}
    /\ Timeout
    /\ UNCHANGED network
    /\ ReceiverStep

----------------------------------------------------------------------------
(* The network's own steps. *)
EndsUntouched == UNCHANGED <<senderVars, inputVars, clock, receiverVars>>

LoseData(d) ==
    /\ Losses
    /\ d \in toReceiver
    /\ toReceiver' = toReceiver \ {d}
    /\ UNCHANGED toSender
    /\ EndsUntouched

LoseAck(a) ==
    /\ Losses
    /\ a \in toSender
    /\ toSender' = toSender \ {a}
    /\ UNCHANGED toReceiver
    /\ EndsUntouched

GarbleData(d) ==
    /\ Corruption
    /\ d \in toReceiver
    /\ toReceiver' = Without(toReceiver, d) \cup {Garbled}
    /\ UNCHANGED toSender
    /\ EndsUntouched

GarbleAck(a) ==
    /\ Corruption
    /\ a \in toSender
    /\ toSender' = Without(toSender, a) \cup {Garbled}
    /\ UNCHANGED toReceiver
    /\ EndsUntouched

----------------------------------------------------------------------------
SenderNext ==
    \/ \E a \in toSender : SenderTakesDatagram(a)
    \/ SenderTurns
    \/ SenderPollError
    \/ SenderSocketError
    \/ SenderSendsChunk
    \/ SenderSendsEof
    \/ SenderReadsEof
    \/ SenderReadError
    \/ SenderWindowShut
    \/ SenderNothingToRead

ReceiverNext ==
    \/ \E d \in toReceiver : ReceiverKeepsEarly(d)
    \/ \E d \in toReceiver : ReceiverRefuses(d)
    \/ \E d \in toReceiver : ReceiverAnswersBad(d)
    \/ \E d \in toReceiver : ReceiverTakesExpected(d)
    \/ \E d \in toReceiver : ReceiverWriteError(d)
    \/ ReceiverAnswersError
    \/ ReceiverWritesBuffered
    \/ ReceiverLosesBuffered
    \/ ReceiverEndsDrain
    \/ ReceiverTimesOut

NetworkNext ==
    \/ \E d \in toReceiver : LoseData(d)
    \/ \E a \in toSender : LoseAck(a)
    \/ \E d \in toReceiver : GarbleData(d)
    \/ \E a \in toSender : GarbleAck(a)

InputNext == InputFed \/ InputClosed

Next == SenderNext \/ ReceiverNext \/ NetworkNext \/ InputNext \/ ClockTicks

Spec == Init /\ [][Next]_vars

----------------------------------------------------------------------------
(* Fairness.  On a regular file the sender's loop never sleeps, and it      *)
(* turns many times in each second of the clock.  The receiver's scan goes  *)
(* on.  The network may lose any datagram, but not all the copies of one    *)
(* that is sent again and again to a program still in its loop.             *)

FairLoss ==
    /\ \A s \in Seqnum :
          []<>(SenderRuns /\ Acknowledgment(s) \in toSender)
              => []<><<SenderTakesDatagram(Acknowledgment(s))>>_vars
    /\ \A c \in Chunk :
          []<>(ReceiverRuns /\ \E d \in toReceiver : d.type = "DATA" /\ d.chunk = c)
              => []<><<\E d \in toReceiver : d.chunk = c /\ ReceiverConsumes(d)>>_vars

Fairness ==
    /\ \A t \in Second :
          []<>(SenderRuns /\ clock = t) => []<><<SenderTurns /\ clock = t>>_vars
    /\ WF_vars(SenderSendsChunk \/ SenderReadsEof \/ SenderWindowShut)
    /\ WF_vars(SenderSendsEof \/ SenderNothingToRead)
    /\ WF_vars(ReceiverWritesBuffered \/ ReceiverEndsDrain)
    /\ WF_vars(ReceiverTimesOut)
    /\ WF_vars(ClockTicks)
    /\ FairLoss

FairSpec == Spec /\ Fairness

----------------------------------------------------------------------------
(* Safety. *)

(* An ACK, in flight or remembered, speaks only for chunks written: it is   *)
(* cumulative, whatever is buffered ahead (l. 218-226, 256-265 of           *)
(* transport_interface.c).                                                  *)
AcksAreCumulative ==
    /\ lastack <= Len(written)
    /\ \A a \in toSender : a.type = "ACK" => a.seqnum <= Len(written)

(* Nothing read after the packet of length 0 is ever written: the receiver  *)
(* refuses that packet (l. 154-158 of packet_interface.c) and waits for its *)
(* sequence number for ever.                                                *)
NothingWrittenAfterEof ==
    \A i \in Occupied(sender_buffer) :
        sender_buffer[i].chunk = 0 => Len(written) <= sender_buffer[i].seqnum

(* The packet of length 0, once sent, is never released nor overwritten.    *)
EofNeverReleased ==
    [][\A i \in Occupied(sender_buffer) :
          sender_buffer[i].chunk = 0 => sender_buffer'[i] = sender_buffer[i]]_sender_buffer

----------------------------------------------------------------------------
(* What the repository says and the code does not do: each of these is      *)
(* violated.                                                                *)

(* "Sender is reading stdin and converting read data into packages" (l. 45  *)
(* of transport_interface.h): with nothing outstanding and nothing in       *)
(* flight, the sender is willing to read.  An overtaken ACK sets lastack    *)
(* back, and no other ACK will come.                                        *)
IdleSenderReads ==
    (/\ sender_pc = "input"
     /\ receiver_pc = "poll"
     /\ Occupied(sender_buffer) = {}
     /\ toReceiver = {}
     /\ toSender = {}) => WindowOpen

============================================================================
