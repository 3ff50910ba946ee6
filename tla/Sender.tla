------------------------------- MODULE Sender -------------------------------
(***************************************************************************)
(* The loop of the sender (read_write_loop, sender.c).                     *)
(*                                                                         *)
(* One turn of the loop is two steps.  The first is poll(), the            *)
(* retransmissions and the socket: it ends with revents of the input file, *)
(* as poll() saw it, in sender_pc.  The second is what the loop does with  *)
(* the file.  The two are apart because the writer of a pipe may run in    *)
(* between.  The module does not know the network: each step that sends    *)
(* has an operator for the datagrams it hands to sendto().                 *)
(***************************************************************************)
EXTENDS PacketInterface

CONSTANTS
    InputIsPipe,   \* the input is a pipe or a FIFO, not a regular file
    InputIsStdin   \* file_d == fileno(stdin): no -f option

ASSUME InputAssumption == InputIsPipe \in BOOLEAN /\ InputIsStdin \in BOOLEAN

VARIABLES
    sender_pc,           \* "poll": at poll(); "input", "quiet": revents of the file;
                         \* "finished", "failed": out of the loop
    sender_seqnum,       \* seqnum: the next sequence number to use
    sender_buffer,       \* the packets sent and not released
    sender_buffer_size,  \* a uint8_t that counts the empty slots
    lastack,             \* seqnum of the last ACK received
    count,               \* ACKs in a row that repeat lastack, counted up to 3
    nread,               \* chunks read so far
    fed,                 \* chunks the writer of the pipe has written
    closed,              \* the writer of the pipe has closed its end
    clock                \* tm_sec

senderVars == <<sender_pc, sender_seqnum, sender_buffer, sender_buffer_size,
                lastack, count, nread>>
inputVars  == <<fed, closed>>

SenderTypeOK ==
    /\ sender_pc \in {"poll", "input", "quiet", "finished", "failed"}
    /\ sender_seqnum \in Seqnum
    /\ sender_buffer \in [Slot -> Packet \cup {NULL}]
    /\ sender_buffer_size \in Seqnum
    /\ lastack \in Seqnum
    /\ count \in 0 .. 3
    /\ nread \in Chunk
    /\ fed \in Chunk
    /\ closed \in BOOLEAN
    /\ clock \in Second

SenderInit ==
    /\ sender_pc = "poll"
    /\ sender_seqnum = 0
    /\ sender_buffer = EmptyBuffer
    /\ sender_buffer_size = WindowSize
    /\ lastack = 0
    /\ count = 0
    /\ nread = 0
    /\ fed = IF InputIsPipe THEN 0 ELSE Chunks
    /\ closed = ~InputIsPipe
    /\ clock \in Second

----------------------------------------------------------------------------
(* The top of the loop. *)

(* poll() always reports a regular file readable, at its end too.  A pipe   *)
(* is readable while it holds data; once empty and closed it reports        *)
(* POLLHUP, which wakes poll() without POLLIN.                              *)
Readable == ~InputIsPipe \/ nread < fed
HungUp   == InputIsPipe /\ closed

(* The fast retransmission, after three ACKs that repeat lastack. *)
FastRetransmitted ==
    {i \in Occupied(sender_buffer) : count >= 3 /\ sender_buffer[i].seqnum = lastack}

CountAfterRetransmission == IF FastRetransmitted = {} THEN count ELSE 0

(* The retransmission on time: the second of the minute, now, against the   *)
(* one of the first transmission, which a retransmission leaves as it was.  *)
Mutant_ExpiredIfAcknowledged(p) == clock > p.stamp /\ p.seqnum < lastack

Expired(p) == clock > p.stamp /\ p.seqnum <= sender_seqnum

TimerRetransmitted ==
    {i \in Occupied(sender_buffer) :
        sender_buffer_size < WindowSize /\ Expired(sender_buffer[i])}

Retransmitted ==
    {pkt_encode(sender_buffer[i]) : i \in FastRetransmitted \cup TimerRetransmitted}

EndOfPoll == sender_pc' = IF Readable THEN "input" ELSE "quiet"

(* The slots an ACK releases. *)
Mutant_ReleaseThroughAck(a) ==
    {i \in Occupied(sender_buffer) :
        a.seqnum >= sender_buffer[i].seqnum /\ a.seqnum <= sender_seqnum}

Acknowledged(a) ==
    {i \in Occupied(sender_buffer) :
        a.seqnum > sender_buffer[i].seqnum /\ a.seqnum <= sender_seqnum}

Mutant_LastAckKept(a) == lastack

NewLastAck(a) == a.seqnum

(* What a datagram on the socket changes. *)
TakeAck(a) ==
    IF pkt_decode(a) = "PKT_OK" /\ a.type = "ACK"
    THEN /\ count' = IF a.seqnum = lastack /\ CountAfterRetransmission < 3
                     THEN CountAfterRetransmission + 1
                     ELSE CountAfterRetransmission
         /\ lastack' = NewLastAck(a)
         /\ sender_buffer' =
                [i \in Slot |-> IF i \in Acknowledged(a) THEN NULL ELSE sender_buffer[i]]
         /\ sender_buffer_size' = Uint8(sender_buffer_size + Cardinality(Acknowledged(a)))
    ELSE /\ count' = CountAfterRetransmission
         /\ UNCHANGED <<lastack, sender_buffer, sender_buffer_size>>

(* A turn with a datagram on the socket. *)
PollWithDatagram(a) ==
    /\ sender_pc = "poll"
    /\ TakeAck(a)
    /\ EndOfPoll
    /\ UNCHANGED <<sender_seqnum, nread, inputVars, clock>>

(* A turn with nothing on the socket: the file woke poll(). *)
PollWithoutDatagram ==
    /\ sender_pc = "poll"
    /\ Readable \/ HungUp
    /\ count' = CountAfterRetransmission
    /\ EndOfPoll
    /\ UNCHANGED <<sender_seqnum, sender_buffer, sender_buffer_size, lastack, nread,
                   inputVars, clock>>

(* poll() fails: out of the loop, before anything is sent again. *)
PollError ==
    /\ IoFaults
    /\ sender_pc = "poll"
    /\ sender_pc' = "failed"
    /\ UNCHANGED <<sender_seqnum, sender_buffer, sender_buffer_size, lastack, count,
                   nread, inputVars, clock>>

(* recvfrom() fails, on an ICMP error for one: out of the loop. *)
PollSocketError ==
    /\ IoFaults
    /\ sender_pc = "poll"
    /\ sender_pc' = "failed"
    /\ count' = CountAfterRetransmission
    /\ UNCHANGED <<sender_seqnum, sender_buffer, sender_buffer_size, lastack, nread,
                   inputVars, clock>>

----------------------------------------------------------------------------
(* The bottom of the loop: the file is readable. *)

Mutant_WindowIgnoresBuffer == sender_seqnum < lastack + WindowSize

WindowOpen == sender_seqnum < lastack + sender_buffer_size

NextPacket == [seqnum |-> sender_seqnum, chunk |-> nread + 1, stamp |-> clock]
EofPacket  == [seqnum |-> sender_seqnum, chunk |-> 0, stamp |-> clock]

(* A chunk is read and sent.  The sequence number advances with the store   *)
(* only: with no empty slot the packet is sent and forgotten.               *)
StorePacket(p) ==
    \/ \E i \in Slot :
          /\ FirstOf(i, EmptySlots(sender_buffer))
          /\ sender_buffer' = [sender_buffer EXCEPT ![i] = p]
          /\ sender_seqnum' = inc_seqnum(sender_seqnum)
    \/ /\ EmptySlots(sender_buffer) = {}
       /\ UNCHANGED <<sender_buffer, sender_seqnum>>

ReadChunk ==
    /\ sender_pc = "input"
    /\ WindowOpen
    /\ nread < fed
    /\ nread' = nread + 1
    /\ sender_buffer_size' = Uint8(sender_buffer_size - 1)
    /\ StorePacket(NextPacket)
    /\ sender_pc' = "poll"
    /\ UNCHANGED <<lastack, count, inputVars, clock>>

(* read() returns 0: the end of a regular file, which ends the loop once    *)
(* every packet is acknowledged.                                            *)
Mutant_FinishOnEof == sender_pc' = "finished"

AfterEof ==
    sender_pc' = IF sender_buffer_size = WindowSize THEN "finished" ELSE "poll"

ReadEof ==
    /\ sender_pc = "input"
    /\ WindowOpen
    /\ nread = fed
    /\ AfterEof
    /\ UNCHANGED <<sender_seqnum, sender_buffer, sender_buffer_size, lastack, count,
                   nread, inputVars, clock>>

ReadError ==
    /\ IoFaults
    /\ sender_pc = "input"
    /\ WindowOpen
    /\ sender_pc' = "failed"
    /\ UNCHANGED <<sender_seqnum, sender_buffer, sender_buffer_size, lastack, count,
                   nread, inputVars, clock>>

WindowShut ==
    /\ sender_pc = "input"
    /\ ~WindowOpen
    /\ sender_pc' = "poll"
    /\ UNCHANGED <<sender_seqnum, sender_buffer, sender_buffer_size, lastack, count,
                   nread, inputVars, clock>>

----------------------------------------------------------------------------
(* The bottom of the loop: nothing to read. *)

Mutant_EofAtOnce == TRUE

NothingOutstanding == sender_buffer_size = WindowSize

(* With -f, a file that is not readable while nothing is outstanding is     *)
(* taken for a file at its end: a packet of length 0 is sent.               *)
SendEof ==
    /\ sender_pc = "quiet"
    /\ ~InputIsStdin
    /\ NothingOutstanding
    /\ sender_buffer_size' = Uint8(sender_buffer_size - 1)
    /\ sender_buffer' =
          [sender_buffer EXCEPT ![sender_seqnum % (WindowSize - 1)] = EofPacket]
    /\ sender_seqnum' = inc_seqnum(sender_seqnum)
    /\ sender_pc' = "poll"
    /\ UNCHANGED <<lastack, count, nread, inputVars, clock>>

NothingToRead ==
    /\ sender_pc = "quiet"
    /\ InputIsStdin \/ ~NothingOutstanding
    /\ sender_pc' = "poll"
    /\ UNCHANGED <<sender_seqnum, sender_buffer, sender_buffer_size, lastack, count,
                   nread, inputVars, clock>>

----------------------------------------------------------------------------
(* The surroundings of the sender. *)

WriterFeeds ==
    /\ ~closed
    /\ fed < Chunks
    /\ fed' = fed + 1
    /\ UNCHANGED <<senderVars, closed, clock>>

WriterCloses ==
    /\ ~closed
    /\ closed' = TRUE
    /\ UNCHANGED <<senderVars, fed, clock>>

Tick ==
    /\ clock' = (clock + 1) % Minute
    /\ UNCHANGED <<senderVars, inputVars>>
============================================================================
