----------------------------- MODULE Endpoints -----------------------------
(***************************************************************************)
(* The two programs side by side, and what the transfer promises of them   *)
(* whatever network joins them.  Transfer and Loopback each add a network. *)
(***************************************************************************)
EXTENDS Sender, Receiver

(* The programs are in their loop. *)
SenderRuns   == sender_pc \in {"poll", "input", "quiet"}
ReceiverRuns == receiver_pc \in {"poll", "drain"}

----------------------------------------------------------------------------
(* The output file is at every moment a prefix of what was read from the    *)
(* input: no chunk lost, repeated, or out of order (receiver_loop's writes, *)
(* l. 233 and 245 of transport_interface.c).                                *)
PrefixDelivery ==
    /\ Len(written) <= nread
    /\ \A k \in 1 .. Len(written) : written[k] = k

(* With writes that may fail, chunks may be missing from the output file,   *)
(* but what is there is in the order of the input, without repetition.      *)
WrittenInOrder ==
    \A j, k \in 1 .. Len(written) : j < k => written[j] < written[k]

IsWritten(c)  == \E k \in 1 .. Len(written) : written[k] = c
IsBuffered(c) == \E i \in Occupied(sender_buffer) : sender_buffer[i].chunk = c

(* An ACK never releases a chunk that is not in the output file yet: the    *)
(* sender could not send it again (release loop, l. 197-205 of sender.c).   *)
NoPrematureRelease == \A c \in 1 .. nread : IsWritten(c) \/ IsBuffered(c)

(* The sender's successful exit (l. 214 of sender.c) means that the whole   *)
(* input is in the output file.                                             *)
FinishedMeansDelivered ==
    sender_pc = "finished" => \A c \in 1 .. fed : IsWritten(c)

(* The window that the receiver checks early packets against, a uint8_t      *)
(* adjusted at two places (l. 212 and 250 of transport_interface.c), counts  *)
(* its empty slots.                                                          *)
WindowMatchesSlots == window = Cardinality(EmptySlots(receiver_buffer))

(* Both uint8_t counters, adjusted one by one at five places of the code,   *)
(* agree with the slots: sender_buffer_size and window.                     *)
CountersMatchSlots ==
    /\ sender_buffer_size = Cardinality(EmptySlots(sender_buffer))
    /\ WindowMatchesSlots

(* seqnum < lastack + sender_buffer_size counts what is outstanding twice,  *)
(* once in lastack and once in sender_buffer_size: the sender never has     *)
(* more than half the window outstanding, however ACKs are reordered.       *)
AtMostHalfOutstanding ==
    2 * Cardinality(Occupied(sender_buffer)) <= WindowSize + 1

(* "on regarde s'il y a d'autres pkt valide" (l. 242 of                     *)
(* transport_interface.c): when the scan is over, the packet expected next  *)
(* is in no slot behind slot 0, in whatever order the packets came and were *)
(* stored.  Slot 0 is the exception: the scan does not go back to it.       *)
ScanReachesBack ==
    receiver_pc = "poll" =>
        \A i \in Occupied(receiver_buffer) :
            i # 0 => receiver_buffer[i].seqnum # receiver_seqnum

(* The transfer implements the reliable stream. *)
Stream == INSTANCE ReliableStream
            WITH taken     <- nread,
                 delivered <- written,
                 complete  <- (sender_pc = "finished")

ImplementsStream == Stream!StreamSpec

(* A packet stamped in the last second of a minute never expires. *)
StuckAtMinuteEnd ==
    \E i \in Occupied(sender_buffer) : sender_buffer[i].stamp = Minute - 1

(* The transfer ends: both programs leave their loop, unless a packet first *)
(* sent in the last second of a minute is lost (l. 174 of sender.c).        *)
TransferEnds ==
    <>[](\/ sender_pc = "finished" /\ receiver_pc = "done"
         \/ StuckAtMinuteEnd)

(* The tests expect the transfer to end on a network that loses or delays   *)
(* (simlink_L50D50_test.sh), whatever the second it starts at.              *)
BothEnd == <>[](sender_pc = "finished" /\ receiver_pc = "done")
============================================================================
