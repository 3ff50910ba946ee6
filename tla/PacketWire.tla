----------------------------- MODULE PacketWire -----------------------------
(***************************************************************************)
(* Packets on the wire: pkt_encode and pkt_decode on the fields, and the    *)
(* buffers that the two programs and the link simulator give them.  One     *)
(* packet travels at a time.                                               *)
(*                                                                         *)
(* A cell is four bytes of a buffer.  Cell 0 holds window, tr, type, seqnum *)
(* and length; cell 1 the timestamp; cell 2 crc1; then come the payload     *)
(* and crc2.  crc32 is taken to be injective, and 0 on nothing only.        *)
(***************************************************************************)
EXTENDS Integers, Sequences

CONSTANTS
    MaxPayload,   \* cells of MAX_PAYLOAD_SIZE (512 bytes: 128)
    Seqnums,      \* values of a sequence number
    Window,       \* values the two counters of empty slots take here
    Contents,     \* contents of a cell of payload
    Nothing       \* nothing received yet

(* An ACK fits in MAX_PAYLOAD_SIZE bytes, with a cell of padding.           *)
ASSUME SizesAssumption == MaxPayload \in Nat /\ MaxPayload >= 4
(* An inverted byte differs from the byte: its values are even in number.    *)
ASSUME NumbersAssumption == Seqnums \in Nat \ {0} /\ Seqnums % 2 = 0 /\ Window \subseteq Nat

(* A cell of payload is not read as a header, and an inversion changes it.  *)
ASSUME ContentsAssumption == \A c \in Contents : c[1] # "head" /\ c # <<"inverted", c>>

HeaderCells     == 3
MAX_PACKET_SIZE == HeaderCells + MaxPayload + 1
MAX_PKT_LEN     == MAX_PACKET_SIZE - 1   \* link_sim.c: 524 bytes of 528

PTYPE_DATA == 1
PTYPE_ACK  == 2
PTYPE_NACK == 3

(* Window has 5 bits in the packet. *)
MAX_WINDOW_SIZE == 31

Zero == <<"0">>

VARIABLES
    simulator,   \* the link simulator is between the programs
    pc,          \* "idle", "forward" (DATA under way), "answer", "back" (ACK under way)
    packet,      \* the packet sent last
    wire,        \* its cells on the wire
    inverted,    \* the cell in which the simulator inverted a byte, 0: none
    buffer,      \* buffer of receiver_loop
    len,         \* len of receiver_loop
    heard        \* what pkt_decode returned last

vars == <<simulator, pc, packet, wire, inverted, buffer, len, heard>>

Payload == UNION {[1 .. n -> Contents] : n \in 0 .. MaxPayload}

Packet == [type : {PTYPE_DATA, PTYPE_ACK}, window : Window, seqnum : 0 .. Seqnums - 1,
           payload : Payload]

ASSUME NothingAssumption == Nothing \notin Packet

Status == {"PKT_OK", "E_TR", "E_TYPE", "E_LENGTH", "E_CRC"}

----------------------------------------------------------------------------
(* The first cell, and the fields that are read in it. *)
Head0(tr, type, window, seqnum, length) ==
    <<"head", [tr |-> tr, type |-> type, window |-> window, seqnum |-> seqnum, length |-> length]>>

Fields(cell) ==
    IF cell = Zero THEN [tr |-> 0, type |-> 0, window |-> 0, seqnum |-> 0, length |-> 0]
    ELSE cell[2]

Stamp == <<"stamp">>

crc32(cells) == IF cells = <<>> THEN Zero ELSE <<"crc", cells>>

(* An ACK and the packet of the end of a FIFO have no payload.              *)
pkt_encode(p) ==
    LET head == Head0(0, p.type, p.window % (MAX_WINDOW_SIZE + 1), p.seqnum, Len(p.payload))
        header == <<head, Stamp, crc32(<<head, Stamp>>)>>
    IN  IF p.payload = <<>> THEN header
        ELSE header \o p.payload \o <<crc32(p.payload)>>

Outcome(status, data) ==
    LET f == Fields(data[1])
    IN  [status |-> status, type |-> f.type, seqnum |-> f.seqnum,
         payload |-> IF status = "PKT_OK" THEN SubSeq(data, 4, 3 + f.length) ELSE <<>>]

Mutant_HeaderUnchecked(data) == TRUE

(* crc1 covers the first two cells as they came, tr included.               *)
HeaderIntact(data) == crc32(SubSeq(data, 1, 2)) = data[3]

Mutant_Crc2AtTheEnd(data, length) == data[MAX_PACKET_SIZE]

(* crc2 follows the payload that the header announces, in the buffer:       *)
(* whatever the number of bytes received.                                   *)
Crc2(data, length) == data[4 + length]

PayloadIntact(data, length) == crc32(SubSeq(data, 4, 3 + length)) = Crc2(data, length)

pkt_decode(data, size) ==
    LET f == Fields(data[1])
    IN  Outcome(
          IF f.tr > 0 /\ f.type # PTYPE_DATA THEN "E_TR"
          ELSE IF f.type \notin {PTYPE_DATA, PTYPE_ACK, PTYPE_NACK} THEN "E_TYPE"
          ELSE IF f.type = PTYPE_DATA /\ f.length \notin 1 .. MaxPayload THEN "E_LENGTH"
          ELSE IF ~HeaderIntact(data) THEN "E_CRC"
          ELSE IF size > HeaderCells /\ ~PayloadIntact(data, f.length) THEN "E_CRC"
          ELSE "PKT_OK", data)

----------------------------------------------------------------------------
(* Buffers. *)
ZeroBuffer == [k \in 1 .. MAX_PACKET_SIZE |-> Zero]

(* recvfrom: what was there stays behind what is received.                  *)
Received(old, cells) ==
    [k \in 1 .. MAX_PACKET_SIZE |-> IF k <= Len(cells) THEN cells[k] ELSE old[k]]

Mutant_NotCleared(old, n) == old

(* memset(old, 0, n) *)
Cleared(old, n) == Received(old, SubSeq(ZeroBuffer, 1, n))

Mutant_Relayed(cells) == cells

(* The link simulator receives MAX_PKT_LEN bytes of a datagram at most.     *)
Carried(cells) ==
    IF simulator /\ Len(cells) > MAX_PKT_LEN THEN SubSeq(cells, 1, MAX_PKT_LEN) ELSE cells

(* The inversion of one byte of a cell. *)
Inversions(cell) ==
    IF cell[1] # "head" THEN {<<"inverted", cell>>}
    ELSE LET f == cell[2]
         IN  { Head0(1 - f.tr, 3 - f.type, MAX_WINDOW_SIZE - f.window, f.seqnum, f.length),
               Head0(f.tr, f.type, f.window, Seqnums - 1 - f.seqnum, f.length) }
             \cup {Head0(f.tr, f.type, f.window, f.seqnum, l) :
                       l \in (0 .. MaxPayload + 1) \ {f.length}}

----------------------------------------------------------------------------
Init ==
    /\ simulator \in BOOLEAN
    /\ pc = "idle"
    /\ packet = Nothing
    /\ wire = <<>>
    /\ inverted = 0
    /\ buffer = ZeroBuffer
    /\ len = MAX_PACKET_SIZE
    /\ heard = Nothing

(* The sender: its buffer1 holds only zeros before it encodes in it.        *)
SendData(p) ==
    /\ pc = "idle" /\ p.type = PTYPE_DATA
    /\ pc' = "forward"
    /\ packet' = p
    /\ wire' = Carried(pkt_encode(p))
    /\ inverted' = 0
    /\ heard' = Nothing
    /\ UNCHANGED <<simulator, buffer, len>>

(* simulate_link on a byte of cell k. *)
Invert(k) ==
    /\ simulator /\ inverted = 0 /\ pc \in {"forward", "back"}
    /\ \E cell \in Inversions(wire[k]) : wire' = [wire EXCEPT ![k] = cell]
    /\ inverted' = k
    /\ UNCHANGED <<simulator, pc, packet, buffer, len, heard>>

Lose ==
    /\ pc \in {"forward", "back"}
    /\ pc' = "idle"
    /\ packet' = Nothing
    /\ wire' = <<>> /\ inverted' = 0
    /\ UNCHANGED <<simulator, buffer, len, heard>>

(* The receiver, l. 195-200 of transport_interface.c.                       *)
Receive ==
    /\ pc = "forward"
    /\ pc' = "answer"
    /\ heard' = pkt_decode(Received(buffer, wire), Len(wire))
    /\ buffer' = Cleared(Received(buffer, wire), len)
    /\ UNCHANGED <<simulator, packet, wire, inverted, len>>

(* recvfrom() fails: size is -1, a huge number for pkt_decode.              *)
ReceiveFails ==
    /\ pc = "idle"
    /\ pc' = "answer"
    /\ packet' = Nothing
    /\ heard' = pkt_decode(buffer, MAX_PACKET_SIZE)
    /\ buffer' = Cleared(buffer, len)
    /\ UNCHANGED <<simulator, wire, inverted, len>>

(* The ACK, padded to MAX_PAYLOAD_SIZE bytes. *)
SendAck(p) ==
    /\ pc = "answer" /\ p.type = PTYPE_ACK /\ p.payload = <<>>
    /\ pc' = "back"
    /\ packet' = p
    /\ LET data == Received(buffer, pkt_encode(p))
       IN  /\ wire' = Carried(SubSeq(data, 1, MaxPayload))
           /\ buffer' = Cleared(data, MaxPayload)
    /\ len' = MaxPayload
    /\ inverted' = 0
    /\ heard' = Nothing
    /\ UNCHANGED simulator

(* The sender, l. 186-191 of sender.c. *)
ReceiveAck ==
    /\ pc = "back"
    /\ pc' = "idle"
    /\ heard' = pkt_decode(Received(ZeroBuffer, wire), Len(wire))
    /\ UNCHANGED <<simulator, packet, wire, inverted, buffer, len>>

Next ==
    \/ \E p \in Packet : SendData(p)
    \/ \E k \in DOMAIN wire : Invert(k)
    \/ Lose
    \/ Receive
    \/ ReceiveFails
    \/ \E p \in Packet : SendAck(p)
    \/ ReceiveAck

Spec == Init /\ [][Next]_vars

----------------------------------------------------------------------------
(* The datagram as module PacketInterface has it. *)
Interface == INSTANCE PacketInterface WITH
    WindowSize <- 2, Chunks <- 1, Minute <- 1, IoFaults <- FALSE, NULL <- Nothing

(* The padding of an ACK that no CRC covers: the cells after the one that   *)
(* is taken for crc2.                                                       *)
Padding(k) == packet.type = PTYPE_ACK /\ k > 4

IsFull(p) == Len(p.payload) = MaxPayload

Untouched == inverted = 0 \/ Padding(inverted)

AsDatagram ==
    IF ~Untouched \/ (simulator /\ IsFull(packet)) THEN Interface!Garbled
    ELSE [type |-> IF packet.type = PTYPE_DATA THEN "DATA" ELSE "ACK",
          seqnum |-> packet.seqnum,
          chunk |-> IF packet.payload = <<>> THEN 0 ELSE 1]

(* heard is about packet. *)
Heard == heard # Nothing /\ packet # Nothing

TypeOK ==
    /\ simulator \in BOOLEAN
    /\ pc \in {"idle", "forward", "answer", "back"}
    /\ packet \in Packet \cup {Nothing}
    /\ Len(wire) <= IF simulator THEN MAX_PKT_LEN ELSE MAX_PACKET_SIZE
    /\ inverted \in 0 .. Len(wire)
    /\ Len(buffer) = MAX_PACKET_SIZE
    /\ len \in {MAX_PACKET_SIZE, MaxPayload}
    /\ heard = Nothing \/ heard.status \in Status

(* pkt_decode tells the two programs what PacketInterface says of it: it    *)
(* accepts the same datagrams, with the fields that were encoded, and       *)
(* refuses the same ones.  A full chunk that went through the simulator     *)
(* counts as garbled: the end of its crc2 is cut.                           *)
CodecAgrees ==
    Heard => /\ heard.status = "PKT_OK" <=> Interface!pkt_decode(AsDatagram) = "PKT_OK"
             /\ heard.status = "PKT_OK" =>
                   /\ heard.type = packet.type
                   /\ heard.seqnum = packet.seqnum
                   /\ heard.payload = packet.payload

(* An inverted byte is noticed, wherever it is but in the padding of an     *)
(* ACK, of which it changes no field.                                       *)
InversionNoticed ==
    Heard /\ inverted # 0 /\ ~Padding(inverted) => heard.status # "PKT_OK"

(* The tests of the link simulator (simlink_*_test.sh) send ten full chunks *)
(* through it, or one, and expect the same file: a full chunk of which no   *)
(* byte was inverted is accepted.                                           *)
FullChunksPass ==
    Heard /\ packet.type = PTYPE_DATA /\ IsFull(packet) /\ inverted = 0 => heard.status = "PKT_OK"

(* A recvfrom() that fails is answered like a bad packet: what is in the    *)
(* buffer is not taken for the packet received before.                      *)
FailedReceiveRefused ==
    heard # Nothing /\ packet = Nothing => heard.status = "E_TYPE"
=============================================================================
