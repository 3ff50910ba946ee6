------------------------------ MODULE Receiver ------------------------------
(***************************************************************************)
(* The loop of the receiver (receiver_loop, transport_interface.c).        *)
(*                                                                         *)
(* Each datagram is handled in one step, but for the one that carries the  *)
(* expected sequence number: the scan that then writes what was buffered   *)
(* takes one step for each packet it finds, and one that sends the ACK.    *)
(* Like Sender, the module does not know the network.                      *)
(***************************************************************************)
EXTENDS PacketInterface

VARIABLES
    receiver_pc,      \* "poll": at poll(); "drain": in the scan; "done": timed out;
                      \* "failed": a write() failed
    receiver_index,   \* where the scan has to look next
    receiver_seqnum,  \* seqnum: the expected sequence number
    window,           \* a uint8_t that counts the empty slots
    receiver_buffer,  \* the packets received ahead of the expected one
    written           \* the chunks written to the output file, in order

receiverVars == <<receiver_pc, receiver_index, receiver_seqnum, window,
                  receiver_buffer, written>>

ReceiverTypeOK ==
    /\ receiver_pc \in {"poll", "drain", "done", "failed"}
    /\ receiver_index \in {0, 1}
    /\ receiver_seqnum \in Seqnum
    /\ window \in Seqnum
    /\ receiver_buffer \in [Slot -> Datagram \cup {NULL}]
    /\ written \in Seq(1 .. Chunks)

ReceiverInit ==
    /\ receiver_pc = "poll"
    /\ receiver_index = 0
    /\ receiver_seqnum = 0
    /\ window = WindowSize
    /\ receiver_buffer = EmptyBuffer
    /\ written = <<>>

----------------------------------------------------------------------------
ValidData(d) == pkt_decode(d) = "PKT_OK" /\ d.type = "DATA"

Mutant_AckOneMore == Acknowledgment(receiver_seqnum + 1)

Ack == Acknowledgment(receiver_seqnum)

(* A valid packet that is not the expected one: the int comparison of the   *)
(* code, that does not wrap.                                                *)
InWindow(d) ==
    /\ d.seqnum < receiver_seqnum + window
    /\ d.seqnum > receiver_seqnum

(* The scan stops at the first slot that is empty or has this seqnum: a     *)
(* copy further on does not stop it.                                        *)
StopSlots(d) ==
    {i \in Slot : IF receiver_buffer[i] = NULL THEN TRUE
                  ELSE receiver_buffer[i].seqnum = d.seqnum}

Kept(d, i) ==
    /\ InWindow(d)
    /\ FirstOf(i, StopSlots(d))
    /\ receiver_buffer[i] = NULL

WindowAfterStore == Uint8(window - 1)

KeepEarly(d) ==
    /\ receiver_pc = "poll"
    /\ ValidData(d)
    /\ d.seqnum # receiver_seqnum
    /\ \E i \in Slot :
          /\ Kept(d, i)
          /\ receiver_buffer' = [receiver_buffer EXCEPT ![i] = d]
    /\ window' = WindowAfterStore
    /\ UNCHANGED <<receiver_pc, receiver_index, receiver_seqnum, written>>

RefuseUnexpected(d) ==
    /\ receiver_pc = "poll"
    /\ ValidData(d)
    /\ d.seqnum # receiver_seqnum
    /\ ~ \E i \in Slot : Kept(d, i)
    /\ UNCHANGED receiverVars

(* A datagram that pkt_decode refuses is answered with an ACK; so is a      *)
(* recvfrom() that fails, the zeroed buffer being decoded all the same.     *)
RefuseInvalid(d) ==
    /\ receiver_pc = "poll"
    /\ pkt_decode(d) # "PKT_OK"
    /\ UNCHANGED receiverVars

ReceiveError ==
    /\ IoFaults
    /\ receiver_pc = "poll"
    /\ UNCHANGED receiverVars

----------------------------------------------------------------------------
(* The expected packet is written, then the scan starts. *)
ReceiveExpected(d) ==
    /\ receiver_pc = "poll"
    /\ ValidData(d)
    /\ d.seqnum = receiver_seqnum
    /\ receiver_seqnum' = inc_seqnum(receiver_seqnum)
    /\ written' = Append(written, d.chunk)
    /\ receiver_pc' = "drain"
    /\ receiver_index' = 0
    /\ UNCHANGED <<window, receiver_buffer>>

(* write() fails: out of the loop, with no ACK. *)
WriteError(d) ==
    /\ IoFaults
    /\ receiver_pc = "poll"
    /\ ValidData(d)
    /\ d.seqnum = receiver_seqnum
    /\ receiver_seqnum' = inc_seqnum(receiver_seqnum)
    /\ receiver_pc' = "failed"
    /\ UNCHANGED <<receiver_index, window, receiver_buffer, written>>

(* The next packet the scan writes: i=0 and the i++ of the for statement    *)
(* take it back to slot 1, never to slot 0.                                 *)
Mutant_AnyBuffered ==
    {i \in Occupied(receiver_buffer) : i >= receiver_index}

Deliverable ==
    {i \in Occupied(receiver_buffer) :
        i >= receiver_index /\ receiver_buffer[i].seqnum = receiver_seqnum}

Mutant_WindowNotGivenBack == window

WindowAfterWrite == Uint8(window + 1)

Mutant_ScanGoesOn(i) ==
    /\ receiver_pc = "drain"
    /\ FirstOf(i, Deliverable)
    /\ receiver_buffer' = [receiver_buffer EXCEPT ![i] = NULL]
    /\ window' = WindowAfterWrite
    /\ receiver_seqnum' = inc_seqnum(receiver_seqnum)
    /\ receiver_index' = i + 1
    /\ UNCHANGED receiver_pc

FreeDelivered(i) ==
    /\ receiver_pc = "drain"
    /\ FirstOf(i, Deliverable)
    /\ receiver_buffer' = [receiver_buffer EXCEPT ![i] = NULL]
    /\ window' = WindowAfterWrite
    /\ receiver_seqnum' = inc_seqnum(receiver_seqnum)
    /\ receiver_index' = 1
    /\ UNCHANGED receiver_pc

WriteBuffered ==
    \E i \in Slot :
        /\ FreeDelivered(i)
        /\ written' = Append(written, receiver_buffer[i].chunk)

(* write() fails inside the scan: the error is printed and the scan goes on.*)
LoseBuffered ==
    /\ IoFaults
    /\ \E i \in Slot : FreeDelivered(i)
    /\ UNCHANGED written

EndDrain ==
    /\ receiver_pc = "drain"
    /\ Deliverable = {}
    /\ receiver_pc' = "poll"
    /\ receiver_index' = 0
    /\ UNCHANGED <<receiver_seqnum, window, receiver_buffer, written>>

(* Nothing comes for three seconds. *)
Timeout ==
    /\ receiver_pc = "poll"
    /\ receiver_pc' = "done"
    /\ UNCHANGED <<receiver_index, receiver_seqnum, window, receiver_buffer, written>>
============================================================================
