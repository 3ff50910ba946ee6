------------------------------ MODULE Loopback ------------------------------
(***************************************************************************)
(* The transfer on the loopback interface, without the link simulator, as  *)
(* tests/simple_test.sh runs it: the input is a regular file, and the      *)
(* kernel keeps the datagrams in order and changes none.  The socket of    *)
(* each program holds what comes until the program reads it, and drops     *)
(* what comes when it is full.                                             *)
(***************************************************************************)
EXTENDS Endpoints

CONSTANT SocketCapacity   \* datagrams a socket holds

ASSUME LoopbackAssumption == SocketCapacity \in Nat \ {0} /\ ~InputIsPipe

VARIABLES
    receiverSocket,  \* DATA datagrams in the receiver's socket, oldest first
    senderSocket     \* ACK datagrams in the sender's socket, oldest first

sockets == <<receiverSocket, senderSocket>>
vars    == <<senderVars, inputVars, clock, receiverVars, sockets>>

Init ==
    /\ SenderInit
    /\ ReceiverInit
    /\ receiverSocket = <<>>
    /\ senderSocket = <<>>

----------------------------------------------------------------------------
(* The socket s after the datagrams ds came, in this order. *)
Queued(s, ds) ==
    LET all == s \o ds
    IN  IF Len(all) <= SocketCapacity THEN all ELSE SubSeq(all, 1, SocketCapacity)

(* The retransmissions go through the slots in increasing order, the fast   *)
(* one first.                                                               *)
Increasing(S) ==
    {order \in [1 .. Cardinality(S) -> S] :
        \A j, k \in DOMAIN order : j < k => order[j] < order[k]}

Copies(order) == [k \in DOMAIN order |-> pkt_encode(sender_buffer[order[k]])]

RetransmitsInOrder ==
    \E fast \in Increasing(FastRetransmitted), timer \in Increasing(TimerRetransmitted) :
        receiverSocket' = Queued(receiverSocket, Copies(fast) \o Copies(timer))

(* The sender's steps.  poll() tells whether the socket holds a datagram. *)
SenderTakesDatagram ==
    /\ senderSocket # <<>>
    /\ PollWithDatagram(Head(senderSocket))
    /\ senderSocket' = Tail(senderSocket)
    /\ RetransmitsInOrder
    /\ UNCHANGED receiverVars

SenderTurns ==
    /\ senderSocket = <<>>
    /\ PollWithoutDatagram
    /\ RetransmitsInOrder
    /\ UNCHANGED <<receiverVars, senderSocket>>

SenderSendsChunk ==
    /\ ReadChunk
    /\ receiverSocket' = Queued(receiverSocket, <<pkt_encode(NextPacket)>>)
    /\ UNCHANGED <<receiverVars, senderSocket>>

SenderReadsEof   == ReadEof /\ UNCHANGED <<receiverVars, sockets>>
SenderWindowShut == WindowShut /\ UNCHANGED <<receiverVars, sockets>>
ClockTicks       == Tick /\ UNCHANGED <<receiverVars, sockets>>

----------------------------------------------------------------------------
(* The receiver's steps, on the oldest datagram of its socket. *)
ReceiverStep == UNCHANGED <<senderVars, inputVars, clock>>

SendsAck == senderSocket' = Queued(senderSocket, <<Ack>>)

ReceiverAnswers ==
    /\ receiverSocket # <<>>
    /\ KeepEarly(Head(receiverSocket)) \/ RefuseUnexpected(Head(receiverSocket))
    /\ receiverSocket' = Tail(receiverSocket)
    /\ SendsAck
    /\ ReceiverStep

ReceiverTakesExpected ==
    /\ receiverSocket # <<>>
    /\ ReceiveExpected(Head(receiverSocket))
    /\ receiverSocket' = Tail(receiverSocket)
    /\ UNCHANGED senderSocket
    /\ ReceiverStep

ReceiverWritesBuffered == WriteBuffered /\ UNCHANGED sockets /\ ReceiverStep

ReceiverEndsDrain ==
    /\ EndDrain
    /\ SendsAck
    /\ UNCHANGED receiverSocket
    /\ ReceiverStep

(* Three seconds without a datagram: on this network, only once the sender  *)
(* has left its loop.                                                       *)
ReceiverTimesOut ==
    /\ receiverSocket = <<>>
    /\ ~SenderRuns
    /\ Timeout
    /\ UNCHANGED sockets
    /\ ReceiverStep

----------------------------------------------------------------------------
SenderNext ==
    SenderTakesDatagram \/ SenderTurns \/ SenderSendsChunk \/ SenderReadsEof
        \/ SenderWindowShut

ReceiverNext ==
    ReceiverAnswers \/ ReceiverTakesExpected \/ ReceiverWritesBuffered
        \/ ReceiverEndsDrain \/ ReceiverTimesOut

Next == SenderNext \/ ReceiverNext \/ ClockTicks

Spec == Init /\ [][Next]_vars

(* Both loops run on: the sender never sleeps on a regular file, and the    *)
(* receiver wakes for each datagram and after its three seconds.  In each   *)
(* second of the clock the sender turns many times, and at some of them the *)
(* receiver has caught up.                                                  *)
CaughtUpTurn ==
    /\ receiverSocket = <<>>
    /\ SenderTakesDatagram \/ SenderTurns

FairSpec ==
    /\ Spec
    /\ WF_vars(SenderNext)
    /\ WF_vars(ReceiverNext)
    /\ WF_vars(ClockTicks)
    /\ \A t \in Second :
          []<>(SenderRuns /\ clock = t) => []<><<CaughtUpTurn /\ clock = t>>_vars
============================================================================
