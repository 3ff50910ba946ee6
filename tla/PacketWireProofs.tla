--------------------------- MODULE PacketWireProofs ---------------------------
(***************************************************************************)
(* What pkt_decode says of a datagram, for chunks of any size, any content, *)
(* any counters, whatever the buffers held before, and wherever the link    *)
(* simulator inverts a byte.                                               *)
(***************************************************************************)
EXTENDS PacketWire, SequenceTheorems, TLAPS

----------------------------------------------------------------------------
(* The invariant behind the properties. *)

(* The k-th cell that the receiving side finds for p: the buffers hold      *)
(* zeros where the packet ends.                                            *)
CellOf(p, k) == IF k <= Len(pkt_encode(p)) THEN pkt_encode(p)[k] ELSE Zero

LengthOf(p) ==
    IF p.type = PTYPE_ACK THEN MaxPayload
    ELSE IF simulator /\ IsFull(p) THEN MAX_PKT_LEN
    ELSE Len(pkt_encode(p))

(* A datagram under way has the cells of its packet, but for one of which a *)
(* byte may be inverted and the padding, and nobody has read it.            *)
OnTheWire ==
    /\ packet \in Packet
    /\ IF pc = "forward" THEN packet.type = PTYPE_DATA
       ELSE packet.type = PTYPE_ACK /\ packet.payload = <<>>
    /\ Len(wire) = LengthOf(packet)
    /\ \A k \in DOMAIN wire : ~Padding(k) =>
          IF k = inverted THEN wire[k] \in Inversions(CellOf(packet, k))
          ELSE wire[k] = CellOf(packet, k)
    /\ heard = Nothing

(* What a longer datagram left in the receiver's buffer lies beyond its     *)
(* first MAX_PAYLOAD_SIZE bytes, and never in the last cell when the        *)
(* simulator cuts every datagram before it.                                *)
BufferClean ==
    /\ DOMAIN buffer = 1 .. MAX_PACKET_SIZE /\ Len(buffer) = MAX_PACKET_SIZE
    /\ \A k \in 1 .. MaxPayload : buffer[k] = Zero
    /\ simulator => buffer[MAX_PACKET_SIZE] = Zero
    /\ len \in {MAX_PACKET_SIZE, MaxPayload}

WireInv ==
    /\ simulator \in BOOLEAN
    /\ pc \in {"idle", "forward", "answer", "back"}
    /\ packet \in Packet \cup {Nothing}
    /\ Len(wire) \in 0 .. (IF simulator THEN MAX_PKT_LEN ELSE MAX_PACKET_SIZE)
    /\ DOMAIN wire = 1 .. Len(wire)
    /\ inverted \in 0 .. Len(wire)
    /\ BufferClean
    /\ pc \in {"forward", "back"} => OnTheWire
    /\ heard = Nothing \/ heard.status \in Status
    /\ CodecAgrees /\ InversionNoticed /\ FailedReceiveRefused

----------------------------------------------------------------------------
(* Packets and their cells. *)
LEMMA SizeOf ==
    ASSUME NEW p \in Packet
    PROVE  /\ p.payload \in Seq(Contents)
           /\ Len(p.payload) \in 0 .. MaxPayload
           /\ p.payload = <<>> <=> Len(p.payload) = 0
           /\ DOMAIN p.payload = 1 .. Len(p.payload)
<1>1. PICK n \in 0 .. MaxPayload : p.payload \in [1 .. n -> Contents]
  BY DEF Packet, Payload
<1>2. n \in Nat
  BY SizesAssumption
<1>3. p.payload \in Seq(Contents) /\ Len(p.payload) = n
  BY <1>1, <1>2
<1> QED
  BY <1>1, <1>2, <1>3, EmptySeq

LEMMA EncodedCells ==
    ASSUME NEW p \in Packet
    PROVE  LET e == pkt_encode(p)
               n == Len(p.payload)
               h == Head0(0, p.type, p.window % (MAX_WINDOW_SIZE + 1), p.seqnum, n)
           IN  /\ Len(e) = IF n = 0 THEN 3 ELSE n + 4
               /\ DOMAIN e = 1 .. Len(e)
               /\ e[1] = h /\ e[2] = Stamp /\ e[3] = crc32(<<h, Stamp>>)
               /\ \A k \in 1 .. n : e[3 + k] = p.payload[k]
               /\ n > 0 => e[4 + n] = crc32(p.payload)
<1> DEFINE e == pkt_encode(p)
           n == Len(p.payload)
           h == Head0(0, p.type, p.window % (MAX_WINDOW_SIZE + 1), p.seqnum, n)
           c == <<h, Stamp, crc32(<<h, Stamp>>)>>
<1>1. /\ p.payload \in Seq(Contents) /\ n \in Nat /\ (p.payload = <<>> <=> n = 0)
      /\ DOMAIN p.payload = 1 .. n
  BY SizeOf
<1>2. CASE n = 0
  <2>1. e = c
    BY <1>1, <1>2 DEF pkt_encode
  <2> QED
    BY <1>2, <2>1
<1>3. CASE n > 0
  <2>1. e = (c \o p.payload) \o <<crc32(p.payload)>>
    BY <1>1, <1>3 DEF pkt_encode
  <2> DEFINE S == Contents \cup {h, Stamp, crc32(<<h, Stamp>>), crc32(p.payload)}
  <2>2. c \in Seq(S) /\ p.payload \in Seq(S) /\ <<crc32(p.payload)>> \in Seq(S)
        /\ Len(c) = 3 /\ Len(<<crc32(p.payload)>>) = 1
    BY <1>1
  <2> HIDE DEF S
  <2>3. /\ c \o p.payload \in Seq(S) /\ Len(c \o p.payload) = 3 + n
        /\ \A i \in 1 .. 3 + n : (c \o p.payload)[i] = IF i <= 3 THEN c[i] ELSE p.payload[i - 3]
    BY <2>2, ConcatProperties
  <2> DEFINE t == c \o p.payload
             u == <<crc32(p.payload)>>
  <2>4. t \in Seq(S) /\ u \in Seq(S) /\ Len(t) = n + 3 /\ Len(u) = 1 /\ u[1] = crc32(p.payload)
        /\ e = t \o u
    BY <1>1, <2>1, <2>2, <2>3
  <2>5. /\ \A k \in 1 .. n : t[3 + k] = p.payload[k]
        /\ t[1] = h /\ t[2] = Stamp /\ t[3] = crc32(<<h, Stamp>>)
    <3>1. c[1] = h /\ c[2] = Stamp /\ c[3] = crc32(<<h, Stamp>>)
      OBVIOUS
    <3> HIDE DEF c, h
    <3>2. \A k \in 1 .. n : t[3 + k] = p.payload[k]
      <4> SUFFICES ASSUME NEW k \in 1 .. n PROVE t[3 + k] = p.payload[k]
        OBVIOUS
      <4>1. 3 + k \in 1 .. 3 + n /\ ~(3 + k <= 3) /\ (3 + k) - 3 = k
        BY <1>1
      <4> QED
        BY <2>3, <4>1
    <3> QED
      BY <1>1, <2>3, <3>1, <3>2
  <2> HIDE DEF t, u, e, h, c, S
  <2>6. /\ e \in Seq(S) /\ Len(e) = Len(t) + Len(u)
        /\ \A i \in 1 .. Len(t) + Len(u) : e[i] = IF i <= Len(t) THEN t[i] ELSE u[i - Len(t)]
    BY <2>4, ConcatProperties
  <2>7. Len(e) = n + 4 /\ \A i \in 1 .. n + 3 : e[i] = t[i]
    BY <1>1, <2>4, <2>6
  <2>8. e[4 + n] = crc32(p.payload)
    <3>1. 4 + n \in 1 .. Len(t) + Len(u) /\ ~(4 + n <= Len(t)) /\ (4 + n) - Len(t) = 1
      BY <1>1, <2>4
    <3> QED
      BY <2>4, <2>6, <3>1
  <2>9. \A k \in 1 .. n : 3 + k \in 1 .. n + 3
    BY <1>1
  <2>10. 1 \in 1 .. n + 3 /\ 2 \in 1 .. n + 3 /\ 3 \in 1 .. n + 3
    BY <1>1
  <2>11. DOMAIN e = 1 .. Len(e)
    BY <2>6
  <2>12. e[1] = h /\ e[2] = Stamp /\ e[3] = crc32(<<h, Stamp>>)
    BY <2>5, <2>7, <2>10
  <2>13. \A k \in 1 .. n : e[3 + k] = p.payload[k]
    BY <2>5, <2>7, <2>9
  <2>14. /\ Len(e) = IF n = 0 THEN 3 ELSE n + 4
         /\ n > 0 => e[4 + n] = crc32(p.payload)
    BY <1>1, <1>3, <2>7, <2>8
  <2> QED
    BY <2>11, <2>12, <2>13, <2>14 DEF e, h
<1> QED
  BY <1>1, <1>2, <1>3

LEMMA Tags ==
    /\ \A a, b : crc32(a) = crc32(b) => a = b
    /\ \A a : crc32(a) = Zero <=> a = <<>>
    /\ \A a, c : crc32(a) # <<"inverted", c>> /\ crc32(a)[1] # "head"
    /\ \A c : Zero # <<"inverted", c>> /\ Stamp # <<"inverted", c>>
    /\ Zero[1] # "head" /\ Stamp[1] # "head"
    /\ \A h : <<"head", h>>[1] = "head" /\ <<"head", h>>[2] = h /\ <<"head", h>> # Zero
<1>1. /\ \A a : a # <<>> => crc32(a)[1] = "crc" /\ crc32(a)[2] = a
      /\ crc32(<<>>) = Zero /\ Zero[1] = "0" /\ Stamp[1] = "stamp"
  BY DEF crc32, Zero, Stamp
<1>2. \A c : <<"inverted", c>>[1] = "inverted"
  OBVIOUS
<1>3. \A h : <<"head", h>>[1] = "head" /\ <<"head", h>>[2] = h
  OBVIOUS
<1>4. \A a, b : crc32(a) = crc32(b) => a = b
  BY <1>1
<1>5. \A a : crc32(a) = Zero <=> a = <<>>
  BY <1>1
<1>6. \A a, c : crc32(a) # <<"inverted", c>> /\ crc32(a)[1] # "head"
  BY <1>1, <1>2
<1> QED
  BY <1>1, <1>2, <1>3, <1>4, <1>5, <1>6

LEMMA CrcInjective == \A a, b : crc32(a) = crc32(b) => a = b
  BY Tags, Zenon

LEMMA Pairs == \A a, b, c, d : <<a, b>> = <<c, d>> => a = c /\ b = d
  OBVIOUS

LEMMA FirstTwo ==
    ASSUME NEW s
    PROVE  SubSeq(s, 1, 2) = <<s[1], s[2]>>
<1> DEFINE t == SubSeq(s, 1, 2)
           u == <<s[1], s[2]>>
<1>1. /\ t \in Seq({s[1], s[2]}) /\ Len(t) = 2 /\ \A i \in 1 .. 2 : t[i] = s[i]
  <2>1. \A i \in 1 .. 2 : s[i] \in {s[1], s[2]}
    OBVIOUS
  <2>2. /\ SubSeq(s, 1, 2) \in Seq({s[1], s[2]})
        /\ Len(SubSeq(s, 1, 2)) = IF 1 <= 2 THEN 2 - 1 + 1 ELSE 0
        /\ \A i \in 1 .. 2 - 1 + 1 : SubSeq(s, 1, 2)[i] = s[1 + i - 1]
    BY <2>1, SubSeqProperties
  <2> QED
    BY <2>2
<1>2. u \in Seq({s[1], s[2]}) /\ Len(u) = 2 /\ u[1] = s[1] /\ u[2] = s[2]
  OBVIOUS
<1> HIDE DEF t, u
<1>3. \A i \in 1 .. 2 : t[i] = u[i]
  BY <1>1, <1>2
<1>4. t = u
  BY <1>1, <1>2, <1>3, SeqEqual
<1> QED
  BY <1>4 DEF t, u

LEMMA PayloadIn ==
    ASSUME NEW data, NEW p \in Packet
    PROVE  LET n == Len(p.payload)
               s == SubSeq(data, 4, 3 + n)
           IN  /\ (\A k \in 1 .. n : data[3 + k] = p.payload[k]) => s = p.payload
               /\ s = p.payload => \A k \in 1 .. n : data[3 + k] = p.payload[k]
               /\ n > 0 => s # <<>>
<1> DEFINE n == Len(p.payload)
           s == SubSeq(data, 4, 3 + n)
<1>1. p.payload \in Seq(Contents) /\ n \in Nat
  BY SizeOf, SizesAssumption
<1> DEFINE S == Contents \cup {data[i] : i \in 4 .. 3 + n}
<1>2. /\ s \in Seq(S) /\ Len(s) = n /\ \A i \in 1 .. n : s[i] = data[3 + i]
  <2>1. \A i \in 4 .. 3 + n : data[i] \in S
    OBVIOUS
  <2> HIDE DEF S
  <2>2. 4 \in Int /\ 3 + n \in Int
    BY <1>1
  <2>3. /\ SubSeq(data, 4, 3 + n) \in Seq(S)
        /\ Len(SubSeq(data, 4, 3 + n)) = IF 4 <= 3 + n THEN (3 + n) - 4 + 1 ELSE 0
        /\ \A i \in 1 .. (3 + n) - 4 + 1 : SubSeq(data, 4, 3 + n)[i] = data[4 + i - 1]
    BY <2>1, <2>2, SubSeqProperties
  <2>4. \A i \in 1 .. n : 4 + i - 1 = 3 + i
    BY <1>1
  <2> QED
    BY <1>1, <2>3, <2>4
<1>3. p.payload \in Seq(S)
  BY <1>1, SeqMonotonic
<1> HIDE DEF s, S
<1>4. ASSUME \A k \in 1 .. n : data[3 + k] = p.payload[k] PROVE s = p.payload
  BY <1>2, <1>3, <1>4, SeqEqual
<1>5. ASSUME s = p.payload PROVE \A k \in 1 .. n : data[3 + k] = p.payload[k]
  BY <1>2, <1>5
<1>6. n > 0 => s # <<>>
  BY <1>2, EmptySeq
<1> QED
  BY <1>4, <1>5, <1>6 DEF s

(* The cells of p, those of zeros after its end included. *)
LEMMA Cells ==
    ASSUME NEW p \in Packet
    PROVE  LET n == Len(p.payload)
               h == Head0(0, p.type, p.window % (MAX_WINDOW_SIZE + 1), p.seqnum, n)
           IN  /\ n \in Nat /\ n <= MaxPayload
               /\ CellOf(p, 1) = h /\ CellOf(p, 2) = Stamp /\ CellOf(p, 3) = crc32(<<h, Stamp>>)
               /\ \A k \in 1 .. n : CellOf(p, 3 + k) = p.payload[k]
               /\ CellOf(p, 4 + n) = crc32(p.payload)
               /\ p.payload \in Seq(Contents) /\ (p.payload = <<>> <=> n = 0)
               /\ Len(pkt_encode(p)) = IF n = 0 THEN 3 ELSE n + 4
<1> DEFINE n == Len(p.payload)
           e == pkt_encode(p)
           h == Head0(0, p.type, p.window % (MAX_WINDOW_SIZE + 1), p.seqnum, n)
<1>1. /\ n \in Nat /\ n <= MaxPayload /\ p.payload \in Seq(Contents)
      /\ (p.payload = <<>> <=> n = 0)
  BY SizeOf, SizesAssumption
<1>2. /\ Len(e) = IF n = 0 THEN 3 ELSE n + 4
      /\ e[1] = h /\ e[2] = Stamp /\ e[3] = crc32(<<h, Stamp>>)
      /\ \A k \in 1 .. n : e[3 + k] = p.payload[k]
      /\ n > 0 => e[4 + n] = crc32(p.payload)
  BY EncodedCells
<1> HIDE DEF n, e, h
<1>3. /\ 1 <= Len(e) /\ 2 <= Len(e) /\ 3 <= Len(e)
      /\ \A k \in 1 .. n : 3 + k <= Len(e)
      /\ n > 0 => 4 + n <= Len(e)
      /\ n = 0 => ~(4 + n <= Len(e))
  BY <1>1, <1>2
<1>4. CellOf(p, 4 + n) = crc32(p.payload)
  BY <1>1, <1>2, <1>3, Tags DEF CellOf, e
<1> QED
  BY <1>1, <1>2, <1>3, <1>4 DEF CellOf, e, h, n

(* An inversion is a change. *)
LEMMA Inverted ==
    ASSUME NEW p \in Packet, NEW k \in 1 .. 4 + Len(p.payload),
           NEW c \in Inversions(CellOf(p, k))
    PROVE  c # CellOf(p, k)
<1> DEFINE n == Len(p.payload)
           h == Head0(0, p.type, p.window % (MAX_WINDOW_SIZE + 1), p.seqnum, n)
<1>1. /\ n \in Nat /\ p.payload \in Seq(Contents)
      /\ CellOf(p, 1) = h /\ CellOf(p, 2) = Stamp /\ CellOf(p, 3) = crc32(<<h, Stamp>>)
      /\ \A i \in 1 .. n : CellOf(p, 3 + i) = p.payload[i]
      /\ CellOf(p, 4 + n) = crc32(p.payload)
  BY Cells
<1>2. CASE k = 1
  <2>1. /\ h[1] = "head"
        /\ h[2] = [tr |-> 0, type |-> p.type, window |-> p.window % (MAX_WINDOW_SIZE + 1),
                   seqnum |-> p.seqnum, length |-> n]
    BY Tags DEF Head0
  <2>2. c \in { Head0(1 - h[2].tr, 3 - h[2].type, MAX_WINDOW_SIZE - h[2].window, h[2].seqnum, h[2].length),
                Head0(h[2].tr, h[2].type, h[2].window, Seqnums - 1 - h[2].seqnum, h[2].length) }
              \cup {Head0(h[2].tr, h[2].type, h[2].window, h[2].seqnum, l) :
                        l \in (0 .. MaxPayload + 1) \ {h[2].length}}
    <3>1. c \in Inversions(h)
      BY <1>1, <1>2
    <3> HIDE DEF h, n
    <3> QED
      BY <2>1, <3>1 DEF Inversions
  <2>3. c[2].tr # h[2].tr \/ c[2].seqnum = Seqnums - 1 - h[2].seqnum \/ c[2].length # h[2].length
    BY <2>1, <2>2, Tags DEF Head0
  <2>4. Seqnums - 1 - p.seqnum # p.seqnum
    <3>1. p.seqnum \in Int /\ Seqnums \in Int /\ Seqnums % 2 = 0
      BY NumbersAssumption DEF Packet
    <3> QED
      BY <3>1
  <2> QED
    BY <1>1, <1>2, <2>1, <2>2, <2>3, <2>4 DEF Head0
<1>3. CASE k = 2 \/ k = 3
  BY <1>1, <1>3, Tags DEF Inversions
<1>4. CASE k \in 4 .. 3 + n
  <2>1. k - 3 \in 1 .. n /\ k = 3 + (k - 3)
    BY <1>1, <1>4
  <2>2. CellOf(p, k) \in Contents
    BY <1>1, <2>1, ElementOfSeq
  <2> QED
    BY <2>2, ContentsAssumption DEF Inversions
<1>5. CASE k = 4 + n
  BY <1>1, <1>5, Tags DEF Inversions
<1> QED
  BY <1>1, <1>2, <1>3, <1>4, <1>5

(* pkt_decode on the cells of a packet, and on what is not. *)
LEMMA Accepted ==
    ASSUME NEW p \in Packet, NEW data, NEW size,
           \A k \in 1 .. 4 + Len(p.payload) : data[k] = CellOf(p, k)
    PROVE  /\ pkt_decode(data, size).status
                = IF p.type = PTYPE_DATA /\ p.payload = <<>> THEN "E_LENGTH" ELSE "PKT_OK"
           /\ pkt_decode(data, size).type = p.type
           /\ pkt_decode(data, size).seqnum = p.seqnum
           /\ pkt_decode(data, size).status = "PKT_OK" => pkt_decode(data, size).payload = p.payload
<1> DEFINE n == Len(p.payload)
           h == Head0(0, p.type, p.window % (MAX_WINDOW_SIZE + 1), p.seqnum, n)
<1>1. /\ n \in Nat /\ n <= MaxPayload /\ (p.payload = <<>> <=> n = 0)
      /\ data[1] = h /\ data[2] = Stamp /\ data[3] = crc32(<<h, Stamp>>)
      /\ \A i \in 1 .. n : data[3 + i] = p.payload[i]
      /\ data[4 + n] = crc32(p.payload)
  <2>1. /\ n \in Nat /\ 1 \in 1 .. 4 + n /\ 2 \in 1 .. 4 + n /\ 3 \in 1 .. 4 + n
        /\ 4 + n \in 1 .. 4 + n /\ \A i \in 1 .. n : 3 + i \in 1 .. 4 + n
    BY Cells
  <2> QED
    BY <2>1, Cells
<1>2. /\ Fields(data[1]).tr = 0 /\ Fields(data[1]).type = p.type
      /\ Fields(data[1]).seqnum = p.seqnum /\ Fields(data[1]).length = n
  BY <1>1, Tags DEF Fields, Head0
<1>3. HeaderIntact(data) /\ PayloadIntact(data, n) /\ SubSeq(data, 4, 3 + n) = p.payload
  BY <1>1, FirstTwo, PayloadIn DEF HeaderIntact, PayloadIntact, Crc2
<1>4. p.type \in {PTYPE_DATA, PTYPE_ACK}
  BY DEF Packet
<1>5. n \in 1 .. MaxPayload <=> n # 0
  BY <1>1, SizesAssumption
<1> HIDE DEF h, n
<1>6. pkt_decode(data, size) =
         Outcome(IF p.type = PTYPE_DATA /\ p.payload = <<>> THEN "E_LENGTH" ELSE "PKT_OK", data)
  BY <1>1, <1>2, <1>3, <1>4, <1>5 DEF pkt_decode, PTYPE_DATA, PTYPE_ACK
<1> DEFINE status == IF p.type = PTYPE_DATA /\ p.payload = <<>> THEN "E_LENGTH" ELSE "PKT_OK"
<1>7. /\ Outcome(status, data).status = status
      /\ Outcome(status, data).type = Fields(data[1]).type
      /\ Outcome(status, data).seqnum = Fields(data[1]).seqnum
      /\ status = "PKT_OK" =>
            Outcome(status, data).payload = SubSeq(data, 4, 3 + Fields(data[1]).length)
  BY DEF Outcome
<1> HIDE DEF status
<1>8. pkt_decode(data, size) = Outcome(status, data)
  BY <1>6 DEF status
<1>9. /\ pkt_decode(data, size).status = status
      /\ pkt_decode(data, size).type = p.type
      /\ pkt_decode(data, size).seqnum = p.seqnum
      /\ status = "PKT_OK" => pkt_decode(data, size).payload = p.payload
  BY <1>2, <1>3, <1>7, <1>8
<1> QED
  BY <1>9 DEF status

LEMMA Refused ==
    ASSUME NEW data, NEW size,
           \/ ~HeaderIntact(data)
           \/ size > HeaderCells /\ ~PayloadIntact(data, Fields(data[1]).length)
    PROVE  pkt_decode(data, size).status # "PKT_OK"
  BY DEF pkt_decode, Outcome

LEMMA Judged ==
    ASSUME NEW data, NEW size
    PROVE  pkt_decode(data, size).status \in Status
  BY DEF pkt_decode, Outcome, Status

LEMMA ReceivedCells ==
    ASSUME NEW old, NEW cells, Len(cells) \in 0 .. MAX_PACKET_SIZE
    PROVE  /\ DOMAIN Received(old, cells) = 1 .. MAX_PACKET_SIZE
           /\ Len(Received(old, cells)) = MAX_PACKET_SIZE
           /\ \A k \in 1 .. Len(cells) : Received(old, cells)[k] = cells[k]
           /\ \A k \in 1 .. MAX_PACKET_SIZE :
                 k > Len(cells) => Received(old, cells)[k] = old[k]
<1>1. MAX_PACKET_SIZE \in Nat
  BY SizesAssumption DEF MAX_PACKET_SIZE, HeaderCells
<1>2. PICK l \in 0 .. MAX_PACKET_SIZE : l = Len(cells)
  OBVIOUS
<1>3. \A k \in 1 .. l : k \in 1 .. MAX_PACKET_SIZE /\ k <= l
  BY <1>1
<1>4. \A k \in 1 .. MAX_PACKET_SIZE : k > l => ~(k <= l)
  BY <1>1
<1>5. Len(Received(old, cells)) = MAX_PACKET_SIZE
  <2> DEFINE r == Received(old, cells)
             S == {r[k] : k \in 1 .. MAX_PACKET_SIZE}
  <2>1. r \in [1 .. MAX_PACKET_SIZE -> S]
    BY DEF Received
  <2> HIDE DEF r, S
  <2>2. r \in Seq(S) /\ Len(r) = MAX_PACKET_SIZE
    BY <1>1, <2>1
  <2> QED
    BY <2>2 DEF r
<1> QED
  BY <1>2, <1>3, <1>4, <1>5 DEF Received

(* What the receiving side hears: its buffer held zeros in the first        *)
(* MAX_PAYLOAD_SIZE bytes, and in the last cell behind the simulator.       *)
LEMMA HeardRight ==
    ASSUME WireInv, pc \in {"forward", "back"}, NEW old,
           DOMAIN old = 1 .. MAX_PACKET_SIZE, \A k \in 1 .. MaxPayload : old[k] = Zero,
           simulator => old[MAX_PACKET_SIZE] = Zero,
           NEW r, r = pkt_decode(Received(old, wire), Len(wire))
    PROVE  /\ r.status = "PKT_OK" <=> /\ Untouched
                                      /\ ~(simulator /\ IsFull(packet))
                                      /\ ~(packet.type = PTYPE_DATA /\ packet.payload = <<>>)
           /\ r.status = "PKT_OK" => /\ r.type = packet.type
                                     /\ r.seqnum = packet.seqnum
                                     /\ r.payload = packet.payload
<1> DEFINE p == packet
           n == Len(p.payload)
           h == Head0(0, p.type, p.window % (MAX_WINDOW_SIZE + 1), p.seqnum, n)
           cut == simulator /\ IsFull(p)
<1>1. /\ p \in Packet /\ Len(wire) = LengthOf(p) /\ DOMAIN wire = 1 .. Len(wire)
      /\ p.type = PTYPE_ACK => p.payload = <<>>
      /\ p.type \in {PTYPE_DATA, PTYPE_ACK}
      /\ inverted \in 0 .. Len(wire)
      /\ \A k \in DOMAIN wire : ~Padding(k) =>
            IF k = inverted THEN wire[k] \in Inversions(CellOf(p, k)) ELSE wire[k] = CellOf(p, k)
  BY DEF WireInv, OnTheWire, Packet, PTYPE_DATA, PTYPE_ACK
<1>2. PICK data : data = Received(old, wire)
  OBVIOUS
<1>3. /\ n \in Nat /\ n <= MaxPayload /\ (p.payload = <<>> <=> n = 0)
      /\ CellOf(p, 1) = h /\ CellOf(p, 2) = Stamp /\ CellOf(p, 3) = crc32(<<h, Stamp>>)
      /\ \A k \in 1 .. n : CellOf(p, 3 + k) = p.payload[k]
      /\ CellOf(p, 4 + n) = crc32(p.payload)
      /\ Len(pkt_encode(p)) = IF n = 0 THEN 3 ELSE n + 4
  BY <1>1, Cells
<1>4. /\ MaxPayload \in Nat /\ MaxPayload >= 4 /\ MAX_PACKET_SIZE = 4 + MaxPayload
      /\ MAX_PKT_LEN = 3 + MaxPayload /\ HeaderCells = 3
  BY SizesAssumption DEF MAX_PACKET_SIZE, MAX_PKT_LEN, HeaderCells
<1>5. Len(wire) = IF p.type = PTYPE_ACK THEN MaxPayload ELSE IF cut THEN 3 + n
                  ELSE IF n = 0 THEN 3 ELSE n + 4
  BY <1>1, <1>3, <1>4 DEF LengthOf, IsFull
<1>6. /\ \A k \in 1 .. Len(wire) : data[k] = wire[k]
      /\ \A k \in 1 .. MAX_PACKET_SIZE : k > Len(wire) => data[k] = old[k]
  <2>1. Len(wire) \in 0 .. MAX_PACKET_SIZE
    BY <1>1, <1>3, <1>4, <1>5
  <2>2. /\ \A k \in 1 .. Len(wire) : Received(old, wire)[k] = wire[k]
        /\ \A k \in 1 .. MAX_PACKET_SIZE : k > Len(wire) => Received(old, wire)[k] = old[k]
    <3>1. PICK w : w = wire
      OBVIOUS
    <3>2. Len(w) \in 0 .. MAX_PACKET_SIZE
      BY <2>1, <3>1
    <3>3. \A k \in 1 .. Len(w) : Received(old, w)[k] = w[k]
      BY <3>2, ReceivedCells
    <3>4. \A k \in 1 .. MAX_PACKET_SIZE : k > Len(w) => Received(old, w)[k] = old[k]
      BY <3>2, ReceivedCells
    <3> QED
      BY <3>1, <3>3, <3>4, Zenon
  <2> QED
    BY <1>2, <2>2, Zenon
<1>7. cut => n = MaxPayload /\ p.type = PTYPE_DATA
  BY <1>1, <1>3, <1>4 DEF IsFull
<1>8. \A k \in 1 .. 3 + n :
         IF k = inverted THEN data[k] \in Inversions(CellOf(p, k)) ELSE data[k] = CellOf(p, k)
  <2> SUFFICES ASSUME NEW k \in 1 .. 3 + n
               PROVE  IF k = inverted THEN data[k] \in Inversions(CellOf(p, k))
                      ELSE data[k] = CellOf(p, k)
    OBVIOUS
  <2>1. k \in 1 .. Len(wire) /\ ~Padding(k)
    BY <1>1, <1>3, <1>4, <1>5 DEF Padding
  <2> QED
    BY <1>1, <1>6, <2>1
<1>9. ~cut => IF 4 + n = inverted THEN data[4 + n] \in Inversions(CellOf(p, 4 + n))
              ELSE data[4 + n] = CellOf(p, 4 + n)
  <2>1. CASE 4 + n \in 1 .. Len(wire)
    <3>1. ~Padding(4 + n)
      BY <1>1, <1>3 DEF Padding
    <3> QED
      BY <1>1, <1>6, <2>1, <3>1
  <2>2. CASE 4 + n \notin 1 .. Len(wire) /\ ~cut
    <3>1. n = 0 /\ 4 > Len(wire) /\ inverted # 4 /\ 4 \in 1 .. MAX_PACKET_SIZE /\ 4 \in 1 .. MaxPayload
      BY <1>1, <1>3, <1>4, <1>5, <2>2
    <3>2. data[4] = Zero
      BY <1>6, <3>1
    <3> QED
      BY <1>3, <3>1, <3>2, Tags
  <2> QED
    BY <2>1, <2>2
<1>10. cut => data[4 + n] = Zero
  BY <1>3, <1>4, <1>5, <1>6, <1>7
<1>11. r = pkt_decode(data, Len(wire))
  BY <1>2
<1>12. \A k \in 1 .. 4 + n : \A c \in Inversions(CellOf(p, k)) : c # CellOf(p, k)
  BY <1>1, Inverted
<1> HIDE DEF p, n, h, cut
<1>13. CASE Untouched /\ ~cut
  <2>1. \A k \in 1 .. 4 + n : k # inverted
    BY <1>1, <1>3, <1>13 DEF Untouched, Padding, p
  <2>2. \A k \in 1 .. 4 + n : data[k] = CellOf(p, k)
    BY <1>3, <1>8, <1>9, <1>13, <2>1
  <2> QED
    BY <1>1, <1>11, <1>13, <2>2, Accepted DEF p, n, cut
<1>14. CASE inverted \in {1, 2, 3}
  <2>1. 1 \in 1 .. 3 + n /\ 2 \in 1 .. 3 + n /\ 3 \in 1 .. 3 + n
        /\ 1 \in 1 .. 4 + n /\ 2 \in 1 .. 4 + n /\ 3 \in 1 .. 4 + n
    BY <1>3
  <2>2. crc32(<<data[1], data[2]>>) = crc32(<<h, Stamp>>) => data[1] = h /\ data[2] = Stamp
    <3>1. crc32(<<data[1], data[2]>>) = crc32(<<h, Stamp>>)
             => <<data[1], data[2]>> = <<h, Stamp>>
      BY CrcInjective, Zenon
    <3>2. <<data[1], data[2]>> = <<h, Stamp>> => data[1] = h /\ data[2] = Stamp
      BY Pairs, Zenon
    <3> QED
      BY <3>1, <3>2
  <2>3. ~HeaderIntact(data)
    <3>1. HeaderIntact(data) <=> crc32(<<data[1], data[2]>>) = data[3]
      BY FirstTwo, Zenon DEF HeaderIntact
    <3>2. CASE inverted = 1
      <4>1. data[1] # h /\ data[3] = crc32(<<h, Stamp>>)
        BY <1>3, <1>8, <1>12, <2>1, <3>2
      <4> QED
        BY <2>2, <3>1, <4>1, Zenon
    <3>3. CASE inverted = 2
      <4>1. data[2] # Stamp /\ data[3] = crc32(<<h, Stamp>>)
        BY <1>3, <1>8, <1>12, <2>1, <3>3
      <4> QED
        BY <2>2, <3>1, <4>1, Zenon
    <3>4. CASE inverted = 3
      <4>1. data[1] = h /\ data[2] = Stamp /\ data[3] # crc32(<<h, Stamp>>)
        BY <1>3, <1>8, <1>12, <2>1, <3>4
      <4> QED
        BY <3>1, <4>1, Zenon
    <3> QED
      BY <1>14, <3>2, <3>3, <3>4
  <2>4. r.status # "PKT_OK"
    BY <1>11, <2>3, Refused
  <2>5. ~Untouched
    BY <1>14 DEF Untouched, Padding
  <2> QED
    BY <2>4, <2>5 DEF p, cut
<1>15. CASE inverted \notin {1, 2, 3} /\ ~(Untouched /\ ~cut)
  <2>1. 1 \in 1 .. 3 + n /\ data[1] = h /\ Fields(data[1]).length = n
    BY <1>3, <1>8, <1>15, Tags DEF Fields, Head0, h
  <2>2. Len(wire) > HeaderCells
    BY <1>1, <1>3, <1>4, <1>5, <1>7, <1>15 DEF Untouched
  <2>3. ~PayloadIntact(data, n)
    <3>1. CASE cut
      <4>1. n > 0
        BY <1>4, <1>7, <3>1
      <4>2. SubSeq(data, 4, 3 + n) # <<>>
        BY <1>1, <4>1, PayloadIn DEF n
      <4>3. crc32(SubSeq(data, 4, 3 + n)) # Zero
        BY <4>2, Tags, Zenon
      <4> QED
        BY <1>10, <3>1, <4>3 DEF PayloadIntact, Crc2
    <3>2. CASE ~cut /\ inverted = 4 + n
      <4>1. \A k \in 1 .. n : 3 + k \in 1 .. 3 + n /\ 3 + k # inverted
        BY <1>3, <3>2
      <4>2. \A k \in 1 .. n : data[3 + k] = p.payload[k]
        BY <1>3, <1>8, <4>1
      <4>3. SubSeq(data, 4, 3 + n) = p.payload
        BY <1>1, <4>2, PayloadIn DEF n
      <4>4. 4 + n \in 1 .. 4 + n
        BY <1>3
      <4>5. data[4 + n] # crc32(p.payload)
        BY <1>3, <1>9, <1>12, <3>2, <4>4
      <4> QED
        BY <4>3, <4>5 DEF PayloadIntact, Crc2
    <3>3. CASE ~cut /\ inverted \in 4 .. 3 + n
      <4>1. PICK k \in 1 .. n : inverted = 3 + k
        <5>1. inverted - 3 \in 1 .. n /\ inverted = 3 + (inverted - 3)
          BY <1>3, <3>3
        <5> QED
          BY <5>1
      <4>2. 3 + k \in 1 .. 3 + n /\ 3 + k \in 1 .. 4 + n /\ inverted # 4 + n
        BY <1>3, <3>3
      <4>3. data[3 + k] # p.payload[k] /\ data[4 + n] = crc32(p.payload)
        BY <1>3, <1>8, <1>9, <1>12, <3>3, <4>1, <4>2
      <4>4. SubSeq(data, 4, 3 + n) # p.payload
        BY <1>1, <4>3, PayloadIn DEF n
      <4>5. crc32(SubSeq(data, 4, 3 + n)) # crc32(p.payload)
        BY <4>4, CrcInjective, Zenon
      <4> QED
        BY <4>3, <4>5 DEF PayloadIntact, Crc2
    <3>4. cut \/ inverted \in 4 .. 4 + n
      <4>1. CASE p.type = PTYPE_ACK
        BY <1>1, <1>3, <1>4, <1>5, <1>15, <4>1 DEF Untouched, Padding, p
      <4>2. CASE p.type = PTYPE_DATA
        BY <1>1, <1>3, <1>4, <1>5, <1>15, <4>2 DEF Untouched, Padding, p, PTYPE_DATA, PTYPE_ACK
      <4> QED
        BY <1>1, <4>1, <4>2
    <3> QED
      BY <1>3, <3>1, <3>2, <3>3, <3>4
  <2>4. r.status # "PKT_OK"
    BY <1>11, <2>1, <2>2, <2>3, Refused
  <2> QED
    BY <1>15, <2>4 DEF p, cut
<1> QED
  BY <1>13, <1>14, <1>15 DEF Untouched

----------------------------------------------------------------------------
(* Buffers. *)
LEMMA Sizes ==
    /\ MaxPayload \in Nat /\ MaxPayload >= 4 /\ HeaderCells = 3
    /\ MAX_PACKET_SIZE = 4 + MaxPayload /\ MAX_PKT_LEN = 3 + MaxPayload
  BY SizesAssumption DEF MAX_PACKET_SIZE, MAX_PKT_LEN, HeaderCells

LEMMA FirstCells ==
    ASSUME NEW s, NEW m \in Nat
    PROVE  /\ Len(SubSeq(s, 1, m)) = m
           /\ DOMAIN SubSeq(s, 1, m) = 1 .. m
           /\ \A k \in 1 .. m : SubSeq(s, 1, m)[k] = s[k]
<1> DEFINE S == {s[i] : i \in 1 .. m}
<1>1. \A i \in 1 .. m : s[i] \in S
  OBVIOUS
<1> HIDE DEF S
<1>2. /\ SubSeq(s, 1, m) \in Seq(S)
      /\ Len(SubSeq(s, 1, m)) = IF 1 <= m THEN m - 1 + 1 ELSE 0
      /\ \A i \in 1 .. m - 1 + 1 : SubSeq(s, 1, m)[i] = s[1 + i - 1]
  BY <1>1, SubSeqProperties
<1>3. Len(SubSeq(s, 1, m)) = m
  BY <1>2
<1>4. DOMAIN SubSeq(s, 1, m) = 1 .. m
  BY <1>2, <1>3, LenProperties
<1>5. \A k \in 1 .. m : SubSeq(s, 1, m)[k] = s[k]
  BY <1>2
<1> QED
  BY <1>3, <1>4, <1>5

LEMMA ClearedCells ==
    ASSUME NEW old, NEW n \in 0 .. MAX_PACKET_SIZE
    PROVE  /\ DOMAIN Cleared(old, n) = 1 .. MAX_PACKET_SIZE
           /\ Len(Cleared(old, n)) = MAX_PACKET_SIZE
           /\ \A k \in 1 .. n : Cleared(old, n)[k] = Zero
           /\ \A k \in 1 .. MAX_PACKET_SIZE : k > n => Cleared(old, n)[k] = old[k]
<1>1. PICK z : z = SubSeq(ZeroBuffer, 1, n)
  OBVIOUS
<1>2. n \in Nat
  BY Sizes
<1>3. Len(z) = n /\ \A k \in 1 .. n : z[k] = ZeroBuffer[k]
  BY <1>1, <1>2, FirstCells
<1>4. \A k \in 1 .. n : ZeroBuffer[k] = Zero
  BY Sizes DEF ZeroBuffer
<1>5. PICK c : c = Received(old, z)
  OBVIOUS
<1>6. /\ DOMAIN c = 1 .. MAX_PACKET_SIZE /\ Len(c) = MAX_PACKET_SIZE
      /\ \A k \in 1 .. Len(z) : c[k] = z[k]
      /\ \A k \in 1 .. MAX_PACKET_SIZE : k > Len(z) => c[k] = old[k]
  <2>1. Len(z) \in 0 .. MAX_PACKET_SIZE
    BY <1>3
  <2> QED
    BY <1>5, <2>1, ReceivedCells
<1>7. c = Cleared(old, n)
  BY <1>1, <1>5 DEF Cleared
<1>8. \A k \in 1 .. n : c[k] = Zero
  BY <1>3, <1>4, <1>6
<1>9. \A k \in 1 .. MAX_PACKET_SIZE : k > n => c[k] = old[k]
  BY <1>3, <1>6
<1> QED
  BY <1>6, <1>7, <1>8, <1>9

LEMMA CarriedCells ==
    ASSUME NEW cells, Len(cells) \in Nat, DOMAIN cells = 1 .. Len(cells)
    PROVE  /\ Len(Carried(cells)) = IF simulator /\ Len(cells) > MAX_PKT_LEN THEN MAX_PKT_LEN
                                    ELSE Len(cells)
           /\ DOMAIN Carried(cells) = 1 .. Len(Carried(cells))
           /\ \A k \in 1 .. Len(Carried(cells)) : Carried(cells)[k] = cells[k]
<1>1. CASE simulator /\ Len(cells) > MAX_PKT_LEN
  <2>1. Carried(cells) = SubSeq(cells, 1, MAX_PKT_LEN) /\ MAX_PKT_LEN \in Nat
    BY <1>1, Sizes DEF Carried
  <2> QED
    BY <1>1, <2>1, FirstCells
<1>2. CASE ~(simulator /\ Len(cells) > MAX_PKT_LEN)
  <2>1. Carried(cells) = cells
    BY <1>2 DEF Carried
  <2> QED
    BY <1>2, <2>1
<1> QED
  BY <1>1, <1>2

----------------------------------------------------------------------------
(* The steps. *)
LEMMA InitWire == Init => WireInv
<1> SUFFICES ASSUME Init PROVE WireInv
  OBVIOUS
<1>1. BufferClean
  <2>1. /\ DOMAIN ZeroBuffer = 1 .. MAX_PACKET_SIZE
        /\ \A k \in 1 .. MAX_PACKET_SIZE : ZeroBuffer[k] = Zero
    BY DEF ZeroBuffer
  <2>2. ZeroBuffer \in [1 .. MAX_PACKET_SIZE -> {Zero}] /\ MAX_PACKET_SIZE \in Nat
    BY Sizes DEF ZeroBuffer
  <2>3. Len(ZeroBuffer) = MAX_PACKET_SIZE
    BY <2>2
  <2> QED
    BY <2>1, <2>3, Sizes DEF BufferClean, Init
<1>2. Len(wire) = 0 /\ DOMAIN wire = 1 .. 0
  BY DEF Init
<1> QED
  BY <1>1, <1>2, Sizes
  DEF WireInv, Init, CodecAgrees, InversionNoticed, FailedReceiveRefused, Heard

(* The memset() that ends a step of the receiver. *)
LEMMA ClearedClean ==
    ASSUME NEW d, len \in {MAX_PACKET_SIZE, MaxPayload}, buffer' = Cleared(d, len),
           simulator => d[MAX_PACKET_SIZE] = Zero, UNCHANGED <<simulator, len>>
    PROVE  BufferClean'
<1>1. PICK n : n = len
  OBVIOUS
<1>2. n \in 0 .. MAX_PACKET_SIZE /\ n \in {MAX_PACKET_SIZE, MaxPayload}
  BY <1>1, Sizes
<1>3. PICK c : c = Cleared(d, n)
  OBVIOUS
<1>4. /\ DOMAIN c = 1 .. MAX_PACKET_SIZE /\ Len(c) = MAX_PACKET_SIZE
      /\ \A k \in 1 .. n : c[k] = Zero
      /\ \A k \in 1 .. MAX_PACKET_SIZE : k > n => c[k] = d[k]
  BY <1>2, <1>3, ClearedCells
<1>5. \A k \in 1 .. MaxPayload : c[k] = Zero
  BY <1>2, <1>4, Sizes
<1>6. simulator => c[MAX_PACKET_SIZE] = Zero
  BY <1>2, <1>4, Sizes
<1> QED
  BY <1>1, <1>2, <1>3, <1>4, <1>5, <1>6 DEF BufferClean

(* What is heard of a datagram that was read right.                         *)
LEMMA HeardKeeps ==
    ASSUME packet \in Packet, UNCHANGED <<simulator, packet, inverted>>,
           heard'.status = "PKT_OK" <=> /\ Untouched
                                        /\ ~(simulator /\ IsFull(packet))
                                        /\ ~(packet.type = PTYPE_DATA /\ packet.payload = <<>>),
           heard'.status = "PKT_OK" => /\ heard'.type = packet.type
                                       /\ heard'.seqnum = packet.seqnum
                                       /\ heard'.payload = packet.payload
    PROVE  CodecAgrees' /\ InversionNoticed' /\ FailedReceiveRefused'
<1>1. Interface!pkt_decode(AsDatagram) = "PKT_OK"
         <=> /\ Untouched
             /\ ~(simulator /\ IsFull(packet))
             /\ ~(packet.type = PTYPE_DATA /\ packet.payload = <<>>)
  BY DEF Interface!pkt_decode, Interface!Garbled, AsDatagram
<1>2. /\ Untouched' = Untouched /\ IsFull(packet)' = IsFull(packet) /\ AsDatagram' = AsDatagram
      /\ Interface!pkt_decode(AsDatagram)' = Interface!pkt_decode(AsDatagram)
      /\ \A k : Padding(k)' = Padding(k)
  BY DEF Untouched, Padding, IsFull, AsDatagram, Interface!pkt_decode, Interface!Garbled
<1>3. CodecAgrees'
  BY <1>1, <1>2 DEF CodecAgrees, Heard
<1>4. InversionNoticed'
  BY <1>2 DEF InversionNoticed, Heard, Untouched, Padding
<1>5. FailedReceiveRefused'
  BY NothingAssumption DEF FailedReceiveRefused
<1> QED
  BY <1>3, <1>4, <1>5

LEMMA SilentKeeps ==
    ASSUME heard' = Nothing
    PROVE  CodecAgrees' /\ InversionNoticed' /\ FailedReceiveRefused'
  BY DEF CodecAgrees, InversionNoticed, FailedReceiveRefused, Heard

(* The packet is put on the wire, with more cells or fewer. *)
LEMMA EncodedLength ==
    ASSUME NEW p \in Packet
    PROVE  /\ Len(pkt_encode(p)) \in HeaderCells .. MAX_PACKET_SIZE
           /\ DOMAIN pkt_encode(p) = 1 .. Len(pkt_encode(p))
           /\ IsFull(p) <=> Len(pkt_encode(p)) > MAX_PKT_LEN
           /\ p.payload = <<>> => Len(pkt_encode(p)) = HeaderCells
<1>1. /\ Len(p.payload) \in Nat /\ Len(p.payload) <= MaxPayload
      /\ (p.payload = <<>> <=> Len(p.payload) = 0)
      /\ Len(pkt_encode(p)) = IF Len(p.payload) = 0 THEN 3 ELSE Len(p.payload) + 4
  BY Cells
<1>2. DOMAIN pkt_encode(p) = 1 .. Len(pkt_encode(p))
  BY EncodedCells
<1> QED
  BY <1>1, <1>2, Sizes DEF IsFull

LEMMA SendDataKeeps ==
    ASSUME WireInv, NEW p \in Packet, SendData(p)
    PROVE  WireInv'
<1> DEFINE e == pkt_encode(p)
<1>1. /\ Len(e) \in HeaderCells .. MAX_PACKET_SIZE /\ DOMAIN e = 1 .. Len(e)
      /\ IsFull(p) <=> Len(e) > MAX_PKT_LEN
  BY EncodedLength
<1>2. /\ wire' = Carried(e) /\ pc' = "forward" /\ packet' = p /\ p.type = PTYPE_DATA
      /\ inverted' = 0 /\ heard' = Nothing /\ UNCHANGED <<simulator, buffer, len>>
  BY DEF SendData
<1> HIDE DEF e
<1>3. /\ Len(wire') = IF simulator /\ Len(e) > MAX_PKT_LEN THEN MAX_PKT_LEN ELSE Len(e)
      /\ DOMAIN wire' = 1 .. Len(wire')
      /\ \A k \in 1 .. Len(wire') : wire'[k] = e[k]
  <2>1. Len(e) \in Nat
    BY <1>1, Sizes
  <2>2. /\ Len(Carried(e)) = IF simulator /\ Len(e) > MAX_PKT_LEN THEN MAX_PKT_LEN ELSE Len(e)
        /\ DOMAIN Carried(e) = 1 .. Len(Carried(e))
        /\ \A k \in 1 .. Len(Carried(e)) : Carried(e)[k] = e[k]
    BY <1>1, <2>1, CarriedCells
  <2> QED
    BY <1>2, <2>2
<1>4. Len(wire') \in 3 .. (IF simulator THEN MAX_PKT_LEN ELSE MAX_PACKET_SIZE) /\ Len(wire') <= Len(e)
  <2>1. PICK l : l = Len(e)
    OBVIOUS
  <2>2. PICK m : m = Len(wire')
    OBVIOUS
  <2>3. l \in 3 .. 4 + MaxPayload /\ m = IF simulator /\ l > 3 + MaxPayload THEN 3 + MaxPayload ELSE l
    BY <1>1, <1>3, <2>1, <2>2, Sizes
  <2>4. m \in 3 .. (IF simulator THEN 3 + MaxPayload ELSE 4 + MaxPayload) /\ m <= l
    BY <2>3, Sizes
  <2> QED
    BY <2>1, <2>2, <2>4, Sizes
<1>5. OnTheWire'
  <2>1. Len(wire') = LengthOf(p)'
    BY <1>1, <1>2, <1>3 DEF LengthOf, PTYPE_DATA, PTYPE_ACK, e
  <2>2. \A k \in DOMAIN wire' : k # 0 /\ wire'[k] = CellOf(p, k)
    <3> TAKE k \in DOMAIN wire'
    <3>1. PICK l : l = Len(e)
      OBVIOUS
    <3>2. PICK m : m = Len(wire')
      OBVIOUS
    <3>6. k \in 1 .. m
      BY <1>3, <3>2, Zenon
    <3>7. m \in 3 .. (IF simulator THEN 3 + MaxPayload ELSE 4 + MaxPayload) /\ m <= l
      BY <1>4, <3>1, <3>2, Sizes
    <3>8. l \in 3 .. 4 + MaxPayload
      BY <1>1, <3>1, Sizes
    <3>3. k \in 1 .. m /\ m \in Nat /\ m <= l /\ l \in Nat
      BY <3>6, <3>7, <3>8, Sizes
    <3>4. k # 0 /\ k <= l
      BY <3>3
    <3>5. wire'[k] = e[k]
      BY <1>3, <3>2, <3>3
    <3> QED
      BY <3>1, <3>4, <3>5 DEF CellOf, e
  <2> QED
    BY <1>2, <2>1, <2>2 DEF OnTheWire, LengthOf
<1>6. BufferClean'
  BY <1>2 DEF WireInv, BufferClean
<1>7. CodecAgrees' /\ InversionNoticed' /\ FailedReceiveRefused'
  BY <1>2, SilentKeeps
<1>8. Len(wire') \in 0 .. (IF simulator THEN MAX_PKT_LEN ELSE MAX_PACKET_SIZE)
      /\ 0 \in 0 .. Len(wire')
  BY <1>4, Sizes
<1> QED
  BY <1>2, <1>3, <1>5, <1>6, <1>7, <1>8 DEF WireInv

LEMMA InvertKeeps ==
    ASSUME WireInv, NEW k \in DOMAIN wire, Invert(k)
    PROVE  WireInv'
<1>1. /\ inverted = 0 /\ inverted' = k /\ pc \in {"forward", "back"}
      /\ UNCHANGED <<simulator, pc, packet, buffer, len, heard>>
  BY DEF Invert
<1>2. PICK cell \in Inversions(wire[k]) : wire' = [wire EXCEPT ![k] = cell]
  BY DEF Invert
<1>3. /\ DOMAIN wire = 1 .. Len(wire) /\ OnTheWire
      /\ Len(wire) \in 0 .. (IF simulator THEN MAX_PKT_LEN ELSE MAX_PACKET_SIZE)
  BY <1>1 DEF WireInv
<1>4. DOMAIN wire' = DOMAIN wire /\ wire'[k] = cell /\ \A j \in DOMAIN wire \ {k} : wire'[j] = wire[j]
  BY <1>2
<1>5. Len(wire') = Len(wire)
  <2> DEFINE S == {wire'[j] : j \in DOMAIN wire}
             l == Len(wire)
  <2>1. l \in Nat /\ DOMAIN wire = 1 .. l
    BY <1>3, Sizes
  <2>2. wire' \in [1 .. l -> S]
    BY <1>2, <2>1
  <2> HIDE DEF l, S
  <2>3. wire' \in Seq(S) /\ Len(wire') = l
    BY <2>1, <2>2
  <2> QED
    BY <2>3 DEF l
<1>6. k \in 0 .. Len(wire)
  BY <1>3, Sizes
<1>7. OnTheWire'
  <2>1. /\ packet \in Packet /\ heard = Nothing
        /\ IF pc = "forward" THEN packet.type = PTYPE_DATA
           ELSE packet.type = PTYPE_ACK /\ packet.payload = <<>>
        /\ Len(wire) = LengthOf(packet)
        /\ \A j \in DOMAIN wire : ~Padding(j) =>
              IF j = inverted THEN wire[j] \in Inversions(CellOf(packet, j))
              ELSE wire[j] = CellOf(packet, j)
    BY <1>3 DEF OnTheWire
  <2>2. \A j \in DOMAIN wire : j # inverted
    BY <1>1, <1>3, Sizes
  <2>3. \A j \in DOMAIN wire : ~Padding(j) =>
           IF j = k THEN wire'[j] \in Inversions(CellOf(packet, j))
           ELSE wire'[j] = CellOf(packet, j)
    BY <1>4, <2>1, <2>2
  <2>4. LengthOf(packet)' = LengthOf(packet) /\ \A j : Padding(j)' = Padding(j)
    BY <1>1 DEF LengthOf, Padding
  <2> QED
    BY <1>1, <1>4, <1>5, <2>1, <2>3, <2>4 DEF OnTheWire
<1>8. BufferClean'
  BY <1>1 DEF WireInv, BufferClean
<1>9. heard' = Nothing
  BY <1>1, <1>3 DEF OnTheWire
<1> QED
  BY <1>1, <1>3, <1>4, <1>5, <1>6, <1>7, <1>8, <1>9, SilentKeeps DEF WireInv

LEMMA LoseKeeps ==
    ASSUME WireInv, Lose
    PROVE  WireInv'
<1>1. /\ pc' = "idle" /\ packet' = Nothing /\ wire' = <<>> /\ inverted' = 0
      /\ UNCHANGED <<simulator, buffer, len, heard>> /\ heard = Nothing
  BY DEF Lose, WireInv, OnTheWire
<1>2. Len(wire') = 0 /\ DOMAIN wire' = 1 .. 0
  BY <1>1
<1>3. BufferClean'
  BY <1>1 DEF WireInv, BufferClean
<1> QED
  BY <1>1, <1>2, <1>3, SilentKeeps, Sizes DEF WireInv

LEMMA ReceiveKeeps ==
    ASSUME WireInv, Receive
    PROVE  WireInv'
<1>1. /\ pc = "forward" /\ pc' = "answer" /\ UNCHANGED <<simulator, packet, wire, inverted, len>>
      /\ heard' = pkt_decode(Received(buffer, wire), Len(wire))
      /\ buffer' = Cleared(Received(buffer, wire), len)
  BY DEF Receive
<1>2. /\ OnTheWire /\ BufferClean /\ packet \in Packet
      /\ Len(wire) \in 0 .. (IF simulator THEN MAX_PKT_LEN ELSE MAX_PACKET_SIZE)
      /\ simulator \in BOOLEAN
  BY <1>1 DEF WireInv, OnTheWire
<1>3. PICK b : b = buffer
  OBVIOUS
<1>4. /\ DOMAIN b = 1 .. MAX_PACKET_SIZE /\ \A k \in 1 .. MaxPayload : b[k] = Zero
      /\ simulator => b[MAX_PACKET_SIZE] = Zero
  BY <1>2, <1>3 DEF BufferClean
<1>5. PICK r : r = pkt_decode(Received(b, wire), Len(wire))
  OBVIOUS
<1>6. /\ r.status = "PKT_OK" <=> /\ Untouched
                                 /\ ~(simulator /\ IsFull(packet))
                                 /\ ~(packet.type = PTYPE_DATA /\ packet.payload = <<>>)
      /\ r.status = "PKT_OK" => /\ r.type = packet.type
                                /\ r.seqnum = packet.seqnum
                                /\ r.payload = packet.payload
  BY <1>1, <1>4, <1>5, HeardRight
<1>7. heard' = r
  BY <1>1, <1>3, <1>5
<1>8. CodecAgrees' /\ InversionNoticed' /\ FailedReceiveRefused'
  BY <1>1, <1>2, <1>6, <1>7, HeardKeeps
<1>9. heard'.status \in Status
  BY <1>1, Judged
<1>10. BufferClean'
  <2>1. PICK d : d = Received(b, wire)
    OBVIOUS
  <2>2. PICK w : w = wire
    OBVIOUS
  <2>3. Len(w) \in 0 .. MAX_PACKET_SIZE /\ (simulator => Len(w) < MAX_PACKET_SIZE)
    BY <1>2, <2>2, Sizes
  <2>4. \A k \in 1 .. MAX_PACKET_SIZE : k > Len(w) => Received(b, w)[k] = b[k]
    BY <2>3, ReceivedCells
  <2>5. simulator => d[MAX_PACKET_SIZE] = Zero
    BY <1>4, <2>1, <2>2, <2>3, <2>4, Sizes
  <2>6. buffer' = Cleared(d, len)
    BY <1>1, <1>3, <2>1
  <2> QED
    BY <1>1, <1>2, <2>5, <2>6, ClearedClean DEF BufferClean
<1> QED
  BY <1>1, <1>8, <1>9, <1>10 DEF WireInv

LEMMA ReceiveFailsKeeps ==
    ASSUME WireInv, ReceiveFails
    PROVE  WireInv'
<1>1. /\ pc = "idle" /\ pc' = "answer" /\ packet' = Nothing
      /\ heard' = pkt_decode(buffer, MAX_PACKET_SIZE) /\ buffer' = Cleared(buffer, len)
      /\ UNCHANGED <<simulator, wire, inverted, len>>
  BY DEF ReceiveFails
<1>2. BufferClean
  BY DEF WireInv
<1>3. heard'.status = "E_TYPE"
  <2>1. PICK b : b = buffer
    OBVIOUS
  <2>2. b[1] = Zero
    <3>1. \A k \in 1 .. MaxPayload : b[k] = Zero
      BY <1>2, <2>1 DEF BufferClean
    <3> QED
      BY <3>1, Sizes
  <2>3. Fields(b[1]).tr = 0 /\ Fields(b[1]).type = 0
    BY <2>2 DEF Fields
  <2>4. pkt_decode(b, MAX_PACKET_SIZE).status = "E_TYPE"
    BY <2>3 DEF pkt_decode, Outcome, PTYPE_DATA, PTYPE_ACK, PTYPE_NACK
  <2> QED
    BY <1>1, <2>1, <2>4
<1>4. BufferClean'
  BY <1>1, <1>2, ClearedClean DEF BufferClean
<1>5. CodecAgrees' /\ InversionNoticed' /\ FailedReceiveRefused'
  BY <1>1, <1>3 DEF CodecAgrees, InversionNoticed, FailedReceiveRefused, Heard
<1> QED
  BY <1>1, <1>3, <1>4, <1>5 DEF WireInv, Status

LEMMA SendAckKeeps ==
    ASSUME WireInv, NEW p \in Packet, SendAck(p)
    PROVE  WireInv'
<1> DEFINE e == pkt_encode(p)
<1>1. PICK b : b = buffer
  OBVIOUS
<1>2. PICK data : data = Received(b, e)
  OBVIOUS
<1>3. PICK a : a = SubSeq(data, 1, MaxPayload)
  OBVIOUS
<1>4. /\ pc' = "back" /\ packet' = p /\ p.type = PTYPE_ACK /\ p.payload = <<>>
      /\ wire' = Carried(a) /\ buffer' = Cleared(data, MaxPayload)
      /\ len' = MaxPayload /\ inverted' = 0 /\ heard' = Nothing /\ simulator' = simulator
  BY <1>1, <1>2, <1>3 DEF SendAck
<1>5. Len(e) = 3 /\ DOMAIN e = 1 .. 3
  BY <1>4, EncodedLength, Sizes
<1>6. /\ DOMAIN b = 1 .. MAX_PACKET_SIZE /\ \A k \in 1 .. MaxPayload : b[k] = Zero
      /\ simulator => b[MAX_PACKET_SIZE] = Zero
  BY <1>1 DEF WireInv, BufferClean
<1> HIDE DEF e
<1>7. /\ \A k \in 1 .. 3 : data[k] = e[k]
      /\ \A k \in 1 .. MAX_PACKET_SIZE : k > 3 => data[k] = b[k]
  <2>1. Len(e) \in 0 .. MAX_PACKET_SIZE
    BY <1>5, Sizes
  <2>2. \A k \in 1 .. Len(e) : data[k] = e[k]
    BY <1>2, <2>1, ReceivedCells
  <2>3. \A k \in 1 .. MAX_PACKET_SIZE : k > Len(e) => data[k] = b[k]
    BY <1>2, <2>1, ReceivedCells
  <2> QED
    BY <1>5, <2>2, <2>3
<1>8. /\ Len(a) = MaxPayload /\ DOMAIN a = 1 .. MaxPayload
      /\ \A k \in 1 .. MaxPayload : a[k] = data[k]
  BY <1>3, Sizes, FirstCells
<1>9. wire' = a
  BY <1>4, <1>8, Sizes DEF Carried
<1>10. \A k \in 1 .. MaxPayload : k <= 4 => a[k] = CellOf(p, k)
  <2> SUFFICES ASSUME NEW k \in 1 .. MaxPayload, k <= 4
               PROVE  a[k] = CellOf(p, k)
    OBVIOUS
  <2>1. CASE k <= 3
    <3>1. k \in 1 .. 3
      BY <2>1
    <3> QED
      BY <1>5, <1>7, <1>8, <2>1, <3>1 DEF CellOf, e
  <2>2. CASE k = 4
    <3>1. k \in 1 .. MAX_PACKET_SIZE /\ k > 3 /\ ~(k <= 3)
      BY <2>2, Sizes
    <3> QED
      BY <1>5, <1>6, <1>7, <1>8, <3>1 DEF CellOf, e
  <2> QED
    BY <2>1, <2>2, Sizes
<1>11. OnTheWire'
  <2>1. LengthOf(p)' = MaxPayload
    BY <1>4 DEF LengthOf
  <2>2. \A k \in DOMAIN wire' : ~Padding(k)' => k # 0 /\ wire'[k] = CellOf(p, k)
    <3> SUFFICES ASSUME NEW k \in 1 .. MaxPayload, ~Padding(k)'
                 PROVE  k # 0 /\ a[k] = CellOf(p, k)
      BY <1>8, <1>9
    <3>1. k <= 4
      BY <1>4, Sizes DEF Padding
    <3> QED
      BY <1>10, <3>1
  <2>3. Len(wire') = LengthOf(packet)'
    BY <1>4, <1>8, <1>9, <2>1 DEF LengthOf
  <2> QED
    BY <1>4, <2>2, <2>3 DEF OnTheWire
<1>12. BufferClean'
  <2>1. PICK c : c = Cleared(data, MaxPayload)
    OBVIOUS
  <2>2. MaxPayload \in 0 .. MAX_PACKET_SIZE
    BY Sizes
  <2>3. /\ DOMAIN c = 1 .. MAX_PACKET_SIZE /\ Len(c) = MAX_PACKET_SIZE
        /\ \A k \in 1 .. MaxPayload : c[k] = Zero
        /\ \A k \in 1 .. MAX_PACKET_SIZE : k > MaxPayload => c[k] = data[k]
    BY <2>1, <2>2, ClearedCells
  <2>4. simulator => c[MAX_PACKET_SIZE] = Zero
    BY <1>6, <1>7, <2>3, Sizes
  <2>5. buffer' = c
    BY <1>4, <2>1
  <2> QED
    BY <1>4, <2>3, <2>4, <2>5 DEF BufferClean
<1>13. Len(wire') \in 0 .. (IF simulator THEN MAX_PKT_LEN ELSE MAX_PACKET_SIZE)
       /\ 0 \in 0 .. Len(wire') /\ DOMAIN wire' = 1 .. Len(wire')
  BY <1>8, <1>9, Sizes
<1>14. CodecAgrees' /\ InversionNoticed' /\ FailedReceiveRefused'
  BY <1>4, SilentKeeps
<1> QED
  BY <1>4, <1>11, <1>12, <1>13, <1>14 DEF WireInv

LEMMA ReceiveAckKeeps ==
    ASSUME WireInv, ReceiveAck
    PROVE  WireInv'
<1>1. /\ pc = "back" /\ pc' = "idle"
      /\ heard' = pkt_decode(Received(ZeroBuffer, wire), Len(wire))
      /\ UNCHANGED <<simulator, packet, wire, inverted, buffer, len>>
  BY DEF ReceiveAck
<1>2. packet \in Packet
  BY <1>1 DEF WireInv, OnTheWire
<1>3. PICK z : z = ZeroBuffer
  OBVIOUS
<1>4. /\ DOMAIN z = 1 .. MAX_PACKET_SIZE /\ \A k \in 1 .. MaxPayload : z[k] = Zero
      /\ simulator => z[MAX_PACKET_SIZE] = Zero
  BY <1>3, Sizes DEF ZeroBuffer
<1>5. PICK r : r = pkt_decode(Received(z, wire), Len(wire))
  OBVIOUS
<1>6. /\ r.status = "PKT_OK" <=> /\ Untouched
                                 /\ ~(simulator /\ IsFull(packet))
                                 /\ ~(packet.type = PTYPE_DATA /\ packet.payload = <<>>)
      /\ r.status = "PKT_OK" => /\ r.type = packet.type
                                /\ r.seqnum = packet.seqnum
                                /\ r.payload = packet.payload
  BY <1>1, <1>4, <1>5, HeardRight
<1>7. heard' = r
  BY <1>1, <1>3, <1>5
<1>8. CodecAgrees' /\ InversionNoticed' /\ FailedReceiveRefused'
  BY <1>1, <1>2, <1>6, <1>7, HeardKeeps
<1>9. heard'.status \in Status
  BY <1>1, Judged
<1>10. BufferClean'
  BY <1>1 DEF WireInv, BufferClean
<1> QED
  BY <1>1, <1>8, <1>9, <1>10 DEF WireInv

LEMMA StillKeeps ==
    ASSUME WireInv, UNCHANGED vars
    PROVE  WireInv'
<1>1. UNCHANGED <<simulator, pc, packet, wire, inverted, buffer, len, heard>>
  BY DEF vars
<1>2. /\ BufferClean' = BufferClean /\ OnTheWire' = OnTheWire
      /\ CodecAgrees' = CodecAgrees /\ InversionNoticed' = InversionNoticed
      /\ FailedReceiveRefused' = FailedReceiveRefused
  BY <1>1 DEF BufferClean, OnTheWire, LengthOf, Padding, CodecAgrees, InversionNoticed,
     FailedReceiveRefused, Heard, AsDatagram, Untouched,
     Interface!pkt_decode, Interface!Garbled
<1> QED
  BY <1>1, <1>2 DEF WireInv

----------------------------------------------------------------------------
(* Whatever the packets, their losses and the inversions, the cells of a    *)
(* datagram under way are those of its packet but for one, the buffers hold *)
(* zeros where it ends, and what pkt_decode said last is right.             *)
THEOREM WireInvariant == Spec => []WireInv
<1>1. ASSUME WireInv, [Next]_vars PROVE WireInv'
  BY <1>1, SendDataKeeps, InvertKeeps, LoseKeeps, ReceiveKeeps, ReceiveFailsKeeps, SendAckKeeps,
     ReceiveAckKeeps, StillKeeps DEF Next
<1> QED
  BY <1>1, InitWire, PTL DEF Spec

(* Every variable of the model of the codec keeps its type, and no datagram *)
(* behind the simulator is longer than MAX_PKT_LEN.                         *)
THEOREM CodecTyped == Spec => []TypeOK
<1>1. WireInv => TypeOK
  BY DEF WireInv, BufferClean, TypeOK
<1> QED
  BY <1>1, WireInvariant, PTL

(* pkt_decode accepts what PacketInterface says it accepts, with the fields *)
(* that pkt_encode was given: the other modules may rely on it.             *)
THEOREM CodecRight == Spec => []CodecAgrees
<1>1. WireInv => CodecAgrees
  BY DEF WireInv
<1> QED
  BY <1>1, WireInvariant, PTL

(* A byte that simulate_link inverts, in whatever cell the CRCs cover, makes *)
(* pkt_decode refuse the datagram.                                          *)
THEOREM InversionsNoticed == Spec => []InversionNoticed
<1>1. WireInv => InversionNoticed
  BY DEF WireInv
<1> QED
  BY <1>1, WireInvariant, PTL

(* After a recvfrom() that fails, the receiver finds no packet in its       *)
(* buffer: what it received before was cleared.                             *)
THEOREM FailedReceivesRefused == Spec => []FailedReceiveRefused
<1>1. WireInv => FailedReceiveRefused
  BY DEF WireInv
<1> QED
  BY <1>1, WireInvariant, PTL
=============================================================================
