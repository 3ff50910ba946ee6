-------------------------- MODULE PacketInterface --------------------------
(***************************************************************************)
(* The data of the selective-repeat file transfer: packets as the two      *)
(* programs keep them in their buffers, and datagrams as the network       *)
(* carries them (packet_interface.h, packet_interface.c).                  *)
(*                                                                         *)
(* The payload is abstracted to the rank of the read() that produced it:   *)
(* chunk k is what the k-th successful read of the sender's input          *)
(* returned (1 to 512 bytes).  Chunk 0 is the empty payload, of which the  *)
(* sender makes its end-of-file packet.  The fields that no peer ever      *)
(* reads (the window field, TR, and the timestamp outside the sender) are  *)
(* left out of the datagram.                                               *)
(*                                                                         *)
(* Here and in the other modules, Mutant_X is a mistake that the code could *)
(* contain in place of the definition that follows it.  No other           *)
(* definition uses it: the properties are tried against it.                *)
(***************************************************************************)
EXTENDS Integers, Sequences, FiniteSets

CONSTANTS
    Seqnums,      \* values of a uint8_t: sequence numbers, buffer counters (256)
    WindowSize,  \* slots of sender_buffer and of receiver_buffer (31)
    Chunks,      \* chunks in the input of the sender
    Minute,      \* values of tm_sec, the clock the retransmission reads (60)
    IoFaults,    \* read(), write() and recvfrom() may fail
    NULL         \* an empty slot

ASSUME SeqnumsAssumption == Seqnums \in Nat \ {0}
ASSUME WindowAssumption == WindowSize \in Nat /\ 2 <= WindowSize /\ WindowSize < Seqnums
ASSUME ChunksAssumption == Chunks \in Nat
ASSUME MinuteAssumption == Minute \in Nat \ {0}
ASSUME FaultsAssumption == IoFaults \in BOOLEAN

Seqnum == 0 .. Seqnums - 1
Slot   == 0 .. WindowSize - 1
Second == 0 .. Minute - 1
Chunk  == 0 .. Chunks

(* A DATA packet in a slot of sender_buffer. *)
Packet == [seqnum : Seqnum, chunk : Chunk, stamp : Second]

(* What travels in one UDP datagram.  GARBLED stands for every datagram     *)
(* with a byte changed on the way that the CRC fields cover: whatever the   *)
(* byte, the receiving side does the same thing.                            *)
Datagram == [type : {"DATA", "ACK", "GARBLED"}, seqnum : Seqnum, chunk : Chunk]

ASSUME NullAssumption == NULL \notin Packet \cup Datagram

Garbled == [type |-> "GARBLED", seqnum |-> 0, chunk |-> 0]

----------------------------------------------------------------------------
(* pkt_encode of a slot of sender_buffer: a slot is only copied. *)
pkt_encode(p) == [type |-> "DATA", seqnum |-> p.seqnum, chunk |-> p.chunk]

(* pkt_encode of a fresh ACK: no payload. *)
Acknowledgment(s) == [type |-> "ACK", seqnum |-> s, chunk |-> 0]

(* pkt_decode: a changed byte fails a CRC (or, earlier, the type or length  *)
(* check: each caller only tells PKT_OK from the rest), and a DATA packet   *)
(* of length 0 is refused with E_LENGTH.                                    *)
Mutant_AcceptsEmpty(d) == IF d.type = "GARBLED" THEN "E_CRC" ELSE "PKT_OK"

pkt_decode(d) ==
    IF d.type = "GARBLED" THEN "E_CRC"
    ELSE IF d.type = "DATA" /\ d.chunk = 0 THEN "E_LENGTH"
    ELSE "PKT_OK"

(* uint8_t arithmetic: seqnum, window and sender_buffer_size wrap. *)
Uint8(n) == n % Seqnums

Mutant_IncPostfix(s) == s

inc_seqnum(s) == Uint8(s + 1)

----------------------------------------------------------------------------
(* The scans of both programs over their WINDOW_SIZE slots. *)
Occupied(buffer)   == {i \in Slot : buffer[i] # NULL}
EmptySlots(buffer) == {i \in Slot : buffer[i] = NULL}

(* i is where a scan in increasing order that looks for a slot of S stops. *)
FirstOf(i, S) == i \in S /\ \A j \in S : i <= j

EmptyBuffer == [i \in Slot |-> NULL]
============================================================================
