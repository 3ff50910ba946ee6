# LINGI1341 file transfer: specification, model checking and proofs

This directory holds the TLA+ development of the file transfer of
`src/projet1_Calmant_Outters`: a `sender` and a `receiver` that move a file over
UDP with a *selective repeat* protocol. Paths below are relative to the
repository. `sender.c`, `transport_interface.c`, `packet_interface.c` and
`receiver.c` without a directory are those of `src/projet1_Calmant_Outters/src/`;
`link_sim.c` and `min_queue.c` are the link simulator of `src/LINGI1341-linksim/`, which the tests
put between the two programs.

1. [The system](#1-the-system)
2. [Modules](#2-modules)
3. [How the model stands for the code](#3-how-the-model-stands-for-the-code)
4. [Properties](#4-properties)
5. [Runs, bounds and fairness](#5-runs-bounds-and-fairness)
6. [Proofs](#6-proofs)
7. [What the code does that its comments and tests do not say](#7-what-the-code-does-that-its-comments-and-tests-do-not-say)
8. [Not modelled](#8-not-modelled)
9. [Plan](#9-plan)

## 1. The system

| Component | State | Operations | Interacts with |
|---|---|---|---|
| **Sender loop** `read_write_loop`, `sender.c:109-275` | `seqnum` (uint8_t), `sender_buffer[31]`, `sender_buffer_size` (uint8_t, *empty* slots), `lastack`, `count` | one turn: poll; fast retransmission; retransmission on time; take an ACK; read a chunk and send it; at the end of a FIFO send a packet of length 0 | the input file or pipe, the socket, the wall clock |
| **Receiver loop** `receiver_loop`, `transport_interface.c:137-293` | `seqnum` (expected), `receiver_buffer[31]`, `window` (uint8_t, empty slots), the output file | one datagram: refuse, keep (early), write (expected) and scan the buffer; answer with an ACK; leave after 3 s of silence | the socket, the output file |
| **Packet codec** `packet_interface.c` | none | `pkt_encode`, `pkt_decode`, setters and getters | both loops |
| **`inc_seqnum`** `transport_interface.c:295-297` | none | `(seqnum + 1) % 256` | both loops |
| **Network** | datagrams in flight | reorder, lose, duplicate, garble | both loops. It is UDP, or UDP through the link simulator, or the loopback interface |
| **Link simulator** `link_sim.c` | the address of the proxied host and of the first sender, the last reading of the clock, a queue of delayed datagrams | one turn of `proxy_loop`: sleep in `select()` until a datagram or the end of a delay; deliver what is due; receive one datagram, then drop, garble, delay or forward it | between the two programs in the `simlink_*` tests; the queue |
| **Priority queue** `min_queue.c`, `min_queue.h` | a binary heap in an array that grows | new, delete, push, pop, peek, empty, size | the link simulator |
| **Sockets and addresses** `real_address`, `create_socket`, `transport_interface.c:3-135` | the socket | resolve a name; open a socket, then bind or connect it | both `main`s |
| **`main` of both programs** `sender.c:3-100`, `receiver.c` | options, arguments, descriptors | read the options, open the files, start the loop, close | the loops, the kernel's table of descriptors |
| **First draft** `src/src/` | | an earlier state of the same program, window of one, no retransmission and no ACK | nothing |
| **Exercises** `src/prerequis/` | | a record format, a calculator, a chat | nothing |

How the two loops meet: the sender numbers each chunk of at most 512 bytes with an
8-bit sequence number and keeps it in a slot until an ACK *above* that number comes
back. The receiver writes the packet it expects, keeps early ones, and answers every
datagram but the expected one at once with the number it expects next; the expected
one it answers once the scan of its buffer is over. Nothing else is exchanged: no
peer reads the window or the timestamp of a packet, there is no connection set-up, and the
end of the transfer is three seconds of silence.

What is hard to test here, and what must hold all the same:

* **Ordering and loss.** DATA and ACK datagrams are lost, duplicated, reordered and
  garbled. The output must stay a prefix of the input.
* **Stale knowledge.** `lastack` takes the number of *any* ACK; a release made on one
  must never drop a chunk the receiver does not have.
* **Two views of one thing.** `sender_buffer_size` and `window` are adjusted apart from the
  slots they count. The send window is computed from both `lastack` and `sender_buffer_size`.
* **Numeric edges.** Sequence numbers wrap at 256, but every comparison is on plain `int`s.
  The timer compares seconds of the minute, 0 to 59.
* **Scans of buffers.** The scan for a slot stops at the first empty one; the scan that
  delivers restarts at slot 1.
* **Callers with other inputs.** A regular file, a pipe on stdin and a FIFO given with `-f`
  take three different paths through the end-of-file logic.
* **Partial failure.** `read`, `write`, `recvfrom` and `poll` fail; the two `write`s are
  treated differently.
* **Liveness.** Every lost packet is sent again and both programs end; every datagram leaves the link simulator.
* **Times that are not normalised.** A departure time may have more than 1,000,000 in `tv_usec`, and is
  compared and subtracted as it is; a delay smaller than its jitter wraps.
* **Buffers that are used again.** A short datagram leaves the end of an earlier one in the buffer, which is
  where `pkt_decode` looks for the payload.
* **Algorithms.** The heap has its root at 0 and the children of *k* at 2*k* and 2*k*+1: the root is its own child.

`PROJECT.json` lists each of these hazards at its line, with the properties aimed at it.

## 2. Modules

```
PacketInterface      packets, datagrams, pkt_encode, pkt_decode, inc_seqnum, slots
  |-- Sender         read_write_loop
  |-- Receiver       receiver_loop
        |
     Endpoints       both loops, network-independent properties
      |     |          \-- Stream == INSTANCE ReliableStream   (abstract specification)
      |  Loopback    ordered, bounded socket queues + fairness
      |
   Transfer          unordered, lossy, duplicating, garbling network + fairness
      |
   TransferInvariants   the inductive invariants, and what they ask of a network
      |
   TransferProofs       type correctness
      |
   DeliveryProofs       the inductive invariant is inductive
      |
   TransferTheorems     the safety properties and the refinement

Loopback
  \-- LoopbackProofs    T == INSTANCE TransferTheorems WITH toReceiver <- the datagrams in a socket, ...

PacketWire           the codec and its buffers; Interface == INSTANCE PacketInterface
  \-- PacketWireProofs

Launch               both programs up to their loops, and after them
  \-- LaunchProofs

LinkSim              the link simulator
  |-- PktQueue == INSTANCE PriorityQueue       its queue, as min_queue.h has it
  \-- Channel == INSTANCE LossyChannel         (abstract specification)
      |
   LinkSimProofs        the simulator is a lossy channel, and its times

MinQueue             min_queue.c
  \-- Queue == INSTANCE PriorityQueue          (abstract specification)
      |
   MinQueueProofs       the heap is a priority queue
```

`LinkSimMC`, `MinQueueMC`, `PacketWireMC` and `LaunchMC` give TLC the constants that a `.cfg` cannot write.
`PriorityQueue` stands at two places: `LinkSim` is built on it, and `MinQueue` implements it.

| Module | Models | State |
|---|---|---|
| `PacketInterface` | what the callers of the codec tell apart | none |
| `Sender` | every branch of `read_write_loop`, with the writer of a pipe and the clock | `sender_pc`, `sender_seqnum`, `sender_buffer`, `sender_buffer_size`, `lastack`, `count`, `nread`, `fed`, `closed`, `clock` |
| `Receiver` | every reachable branch of `receiver_loop` | `receiver_pc`, `receiver_index`, `receiver_seqnum`, `window`, `receiver_buffer`, `written` |
| `ReliableStream` | what the transfer promises: take, deliver, complete | `taken`, `delivered`, `complete` |
| `Endpoints` | nothing of its own: the two loops side by side, and properties that name no network | |
| `Transfer` | the network as two sets of datagrams | `toReceiver`, `toSender` |
| `Loopback` | the kernel's two socket queues, in order, bounded | `receiverSocket`, `senderSocket` |
| `TransferInvariants` | nothing: the inductive invariants, in named parts, and the steps of both programs on any network that makes up no datagram (`Moves`) | |
| `TransferProofs`, `DeliveryProofs`, `TransferTheorems`, `LoopbackProofs` | nothing: theorems and proofs | |
| `PacketWire` | `pkt_encode`, `pkt_decode` and the buffers that both programs and the simulator give them | `simulator`, `pc`, `packet`, `wire`, `inverted`, `buffer`, `len`, `heard` |
| `LinkSim` | `main`, `get_socket`, `proxy_traffic` and `proxy_loop` of `link_sim.c`, with the hosts and the clock | `argv`, `pc`, `sfd`, `now`, `last_clock`, `wake`, `readable`, `queue`, `head`, `src_addr`, `arrived`, `inbox`, `sent` |
| `LossyChannel` | what `usage()` of the simulator promises: enter, lose, leave, delay, break | `losing`, `garbling`, `peer`, `transit`, `delivered` |
| `PriorityQueue` | the comments of `min_queue.h`: insert, remove, forget | `content`, `head` |
| `MinQueue` | `min_queue.c`, one turn of its loops at a time | `e`, `size`, `alloc`, `call`, `i`, `v` |
| `MinQueueProofs`, `LinkSimProofs`, `PacketWireProofs`, `LaunchProofs` | nothing: theorems and proofs | |
| `Launch` | both `main`s, `real_address`, `create_socket`, the opening of the output, the closing of the descriptors | `program`, `line`, `optind`, `argv`, `others`, `file_d`, `bytes`, `file_name`, `receiver_fd`, `fds`, `host`, `port`, `socket_fd`, `endpoint`, `pc` |

Operators named `Mutant_...` are mistaken versions of the definition that follows
them (a missing guard, an off-by-one, a forgotten update). No specification uses them: they
are put in the place of the definition to see that the properties notice.

## 3. How the model stands for the code

**Data.** A chunk is its rank in the input: `1 .. Chunks`, with 0 for a payload of length 0.
A packet in the sender's memory is a record `seqnum, chunk, stamp`; a datagram is
`seqnum, chunk, type`, for the timestamp and the window of a datagram are never read by
the peer, or the record `Garbled`, which stands for anything `pkt_decode` refuses because of its
CRCs. `pkt_decode` keeps the outcomes the callers distinguish: `E_CRC` for a garbled
datagram, `E_LENGTH` for a DATA packet of length 0 (`packet_interface.c:154-158`), `PKT_OK` otherwise.
CRC-32 is taken to detect the corruption: a collision is not modelled.

**Numbers.** `Seqnums` stands for 256, `WindowSize` for `WINDOW_SIZE` = 31, `Minute` for the 60
values of `tm_sec`. `Uint8(n)` is the wrap of the two `uint8_t` counters, `inc_seqnum` the
function of that name. Comparisons do *not* wrap, as in the code, where integer promotion
makes them comparisons of `int`s.

**The sender's turn** is two steps. `PollWithDatagram` / `PollWithoutDatagram` is
`sender.c:147-207`: poll, both retransmissions, the ACK; it stores `revents` of the input in
`sender_pc` (`"input"` or `"quiet"`). Then one of `ReadChunk`, `ReadEof`, `WindowShut`
(`:210-245`) or `SendEof`, `NothingToRead` (`:246-268`). The two are separate because the
writer of a pipe runs between poll() and read(): a FIFO found quiet may have data by the time its end is
announced. `PollError`, `PollSocketError` and `ReadError` are the three exits on a failing
call. A retransmission is not a step of its own: `Retransmitted` is what the poll step adds to the
network. `count` stops at 3 because only `count >= 3` is read.

* `StorePacket` has the code's two outcomes: with no empty slot the packet is sent but neither
  stored nor numbered (`:231-237`).
* `SendEof` writes slot `seqnum % (WindowSize - 1)` whatever is in it (`:261`).
* `Expired` compares the stamp of the *first* transmission with now: a retransmission leaves the
  stamp as it was (`:174-180`).
* a regular file is always readable, at its end too; an empty pipe is not, and when its writers are
  gone poll() wakes with POLLHUP, without POLLIN. `read` on a pipe with data returns one
  chunk; the sizes of chunks do not matter to the protocol.

**The receiver** handles a datagram in one step, except the expected one: `ReceiveExpected`
(or `WriteError`), then one `WriteBuffered` (or `LoseBuffered`) for each packet the scan finds,
then `EndDrain`, which sends the ACK. `Deliverable` with `receiver_index` in {0, 1} is the
`for` whose body sets `i=0` before the `i++` (`transport_interface.c:242-254`). `Kept` is the scan for a slot
that stops at the first slot that is empty or holds the same number (`:208-217`). The
branch of `:268-272` has no action: its condition implies the one of `:230`, tested before.

**Input.** `InputIsPipe` and `InputIsStdin` choose the file: a regular file (`sender < file`
or `sender -f file`), a pipe on stdin, or a FIFO given with `-f`. The writer of a pipe
(`WriterFeeds`, `WriterCloses`) writes at most `Chunks` chunks and may close early.

**Network.** `Transfer` has two sets of datagrams, so the order of delivery is free. With `Duplicates` a
delivered datagram stays in the set: everything ever sent may come again, at any later time,
or never, which covers loss too. `Losses` adds explicit drops for the runs on
liveness, where delivered datagrams leave the set, `Corruption` adds garbling, `EarlyTimeout` lets the
receiver's 3 s pass while the sender is still in its loop. `Loopback` has two FIFO queues of `SocketCapacity`
datagrams; what comes when one is full is dropped. There the order of the retransmissions matters: those of the fast
retransmission, then those on time, each in the order of the slots (`Increasing`). `IoFaults` allows the failing calls.

**The wire** (`PacketWire`). A cell is four bytes of a buffer: the first holds the five small fields, the second the
timestamp, the third crc1; the payload and crc2 follow. `pkt_decode` reads the buffer it is given *and* the size that
was received, in the order of the code: tr, type, length, crc1, and only for more than 12 bytes the payload and
crc2, at the place the length of the header says. `Received(old, cells)` is `recvfrom()` into a buffer that
held something else, `Cleared` the `memset` over `len` bytes. `len` is 528 at first and 512 once an ACK was sent.
`Carried` is what `recvfrom(..., MAX_PKT_LEN, ...)` of the simulator leaves of a datagram. `AsDatagram` maps
what is on the wire to the datagram that `PacketInterface` has in its place, and `CodecAgrees` says that both codecs
accept the same ones.

**The link simulator** (`LinkSim`). A step is what the program does between two points where something else may happen:
`SelectReturns` (and `update_time`), one `DeliverDelayed` per datagram whose time has come, `NoneExpired` or
`DeliverBlocked`, then one of `Drop`, `Forward`, `Enqueue` if the socket was readable. Each of them ends with the
call of `select()` where the code comes back to it (`Select`, with the timeout of `get_queue_timeout`). The failing
calls are actions of their own (`SelectFails`, `DeliverFails`, `ReceiveFails`, `ProcessFails`, `GetSocketFails`, `NoQueue`), so are the
signals (`SelectInterrupted`, `ReceiveInterrupted`). `RAND_PERCENT` is a free choice; a rate of 0 never
applies, and a rate of 100 does not always, since `RAND_PERCENT` may be 100 too. The clock moves by ticks: one tick stands for
the microsecond of the clock and for the millisecond of the delays, and `Second` ticks make a second in both; what matters is
that a delay is cut into seconds and a rest, and the rest is added to `tv_usec` without a carry.
`AppliedDelays` wraps at `UIntRange` (2^32), then takes the remainder by `DelayCap` (10000).

**The heap** (`MinQueue`). Each turn of the `while` loops of `minq_push` and `minq_pop` is a step, `SiftUp` and `SiftDown`. The array is a function
on `0 .. alloc - 1`. `Greater` is any relation that a comparison of dates can be: strict, with equal items.

**Start-up** (`Launch`). One action per turn of the `getopt` loop and per system call. `getopt` is the GNU one, that moves what is no
option to the end. Descriptors are numbers, and the lowest free one is taken, because `sender.c` gives a meaning
to the descriptor 0. `bytes` is what the 64 bytes of `malloc` hold, which `receiver.c` tests without having
written them; `file_name` is a pointer, to `argv` or to `bytes`. A program is `"crashed"` when `atoi` gets a null pointer.

## 4. Properties

State and type: `TypeOK`.

| Property | Says | What could break it |
|---|---|---|
| `PrefixDelivery` | the output file is a prefix of what was read | delivery of the wrong buffered packet, a reused sequence number, a premature release |
| `WrittenInOrder` | even when writes fail, chunks come out in order and once | the same, with chunks missing |
| `NoPrematureRelease` | every chunk read is in the output file or in the sender's buffer | an ACK that releases one too many, the end-of-file packet overwriting a slot |
| `FinishedMeansDelivered` | a sender that exits on end of file has its whole input in the output file | leaving on read() = 0 alone |
| `AcksAreCumulative` | no ACK, in flight or remembered, is for a chunk that is not written | acknowledging what is buffered, an off-by-one |
| `ScanReachesBack` | when the receiver's scan is over, the packet it expects next is in no slot but slot 0 | a scan that goes on after a delivery instead of starting again |
| `CountersMatchSlots` | `sender_buffer_size` and `window` count the empty slots | a missed adjustment at one of five places |
| `AtMostHalfOutstanding` | the sender has at most (WindowSize+1)/2 packets outstanding, however ACKs are reordered | a window computed from `lastack` alone |
| `NothingWrittenAfterEof` | what follows the packet of length 0 is never written | a codec that accepts the packet |
| `EofNeverReleased` | no step releases or overwrites the packet of length 0 | an ACK that releases one too many |
| `ImplementsStream` | the transfer implements `ReliableStream` | any of the above |
| `TransferEnds` | both programs end, unless a packet stamped in the last second of a minute stays outstanding | a timer that misses a packet |
| `IdleSenderReads` | with nothing outstanding nor in flight, the sender is willing to read | a stale `lastack` |
| `DeliveryInv` | the inductive invariant of section 6 | |
| `CodecAgrees` (`PacketWire`) | `pkt_decode` accepts and refuses what the transfer models say, with the fields that were encoded | stale bytes in a buffer, crc2 read at the wrong place |
| `InversionNoticed` | an inverted byte is refused, except in the padding of an ACK | a check that is left out or comes too late |
| `FullChunksPass` | a full chunk of which no byte was inverted is accepted; violated, by the run `full_chunk` | a simulator that cuts what it relays |
| `FailedReceiveRefused` | a failed `recvfrom()` is not taken for the packet before | a buffer that is not cleared |
| `HeapOrder`, `RootIsMinimal` (`MinQueue`) | no node is behind its child; `minq_peek` returns a minimal item | a wrong child, a push that stops too early |
| `IsPriorityQueue` | `min_queue.c` implements `PriorityQueue`: no item lost, doubled or made up | an array that loses its content when it grows |
| `CallsReturn` | each push and pop comes to its end | the root that is its own child |
| `IsLossyChannel` (`LinkSim`) | the simulator implements `LossyChannel`: a datagram comes out at most once, at the other end, altered or lost only where the options say | a full send buffer that loses a delayed datagram, an alien taken for a partner |
| `EarlyByLessThanASecond` | a date that is not normalised lets a datagram leave early by less than a second | a comparison of the seconds only |
| `SelectWakesInTime` | when the simulator goes to sleep the end of the sleep is ahead; it is a tick away only if a slot is due within a second; otherwise it is past no date by a second and what the clock moved since it was read | a timeout that is a date, a borrow that makes a short sleep of a long one |
| `FixedDelayKeepsOrder` | without jitter delayed datagrams keep their order, those of both ways together, but for those taken at the same reading of the clock | a queue in another order |
| `EveryDatagramHandled` | each datagram is handled, and each delayed one leaves, unless a call fails | a `select()` that waits for traffic |
| `UsageUnderstood` (`Launch`) | a line that follows the usage text is not refused and leads to a socket for that host and port, with the standard input or output or the named file. Exceptions: a receiver without `-f` that finds a name in its uninitialised bytes stops before it has a socket; with `-f` standard input has to be open; a file that does not open is -1, and no error | positions in `argv` that disagree with what `getopt` moved |
| `SenderStaysInArgv` | the sender reads no argument that is not there | a count that forgets the two words of `-f` |
| `SocketsClosed` | a program started with an open standard input has in its loop a socket apart from its file; started in any way, it leaves no socket open at an end | a failing `connect` that leaves it open |

`AtMostHalfOutstanding` states something the code does not announce: the condition
`seqnum < lastack + sender_buffer_size` counts what is outstanding twice, once in `lastack` and
once in `sender_buffer_size`. The window of 31 is in effect one of 16, and that is why a new packet
always finds an empty slot as long as the sequence numbers have not wrapped.

## 5. Runs, bounds and fairness

Each run is a `.cfg` whose comment says what it is about.

| Run | Module | Bounds | Shows |
|---|---|---|---|
| `reordering` | `Transfer` | 8 seqnums, window 7, 6 chunks | a regular file arrives intact on a network that reorders, duplicates, loses and garbles; the receiver may time out at any moment |
| `fifo_input` | `TransferInvariants` | 7, 5, 5, failing calls | `-f` on a FIFO whose writer pauses: the empty packet stops the transfer and corrupts nothing; with failing calls chunks may be missing, never repeated or out of order; the inductive invariant holds |
| `termination` | `Transfer` | 4, 3, 3, minute of 2 | both programs end on a lossy network |
| `loopback` | `Loopback` | 8, 4, 6, minute of 2, sockets of 2 | both programs end, the file is intact and a reported success is one, when sockets overflow |
| `min_queue` | `MinQueueMC` | 6 items of 4 dates, an array that grows by 3 slots | the heap is the priority queue of `min_queue.h`, and its calls return |
| `link_sim` | `LinkSimMC` | 3 hosts, 3 datagrams, 4 settings of the options, seconds of 3 ticks, delays modulo 6 | the simulator is a lossy channel, handles every datagram, lets none leave a second early, and sleeps no longer than its borrow and the clock explain |
| `packets` | `PacketWireMC` | payloads of 0 to 4 cells with 2 contents, 2 seqnums | the codec and its buffers do what `PacketInterface` says, with and without the simulator |
| `launch` | `LaunchMC` | all command lines of up to 3 words, many of 4 and 5 | what the two programs make of a command line, and what they leave open |
| `wraparound` | `Loopback` | 16, 4, 26, sockets of 16 | *violation*: the output is corrupted once the numbers wrap |
| `full_chunk` | `PacketWireMC` | as `packets` | *violation*: a full chunk that the simulator did not alter is refused |
| `stale_ack` | `Transfer` | 6, 3, 4 | *violation*: an overtaken ACK shuts the window of a pipe's sender for good |
| `minute_end` | `Transfer` | 4, 3, 2, minute of 2 | *violation*: a packet lost in the last second of a minute is never sent again |

**Why the bounds are enough.** A window of 7 allows 4 packets outstanding at once, so that the receiver can hold
three early packets in every order of arrival, hold two copies of one, deliver several in a scan
and leave one in slot 0. Six chunks make the sender go through its window with old copies of every
packet and every ACK still in flight. Three equal ACKs (fast retransmission) happen from two
packets on. Except in `wraparound` the chunks (and the packet of length 0) are fewer than the sequence numbers, as in
the tests of the repository (10 chunks of the 256 numbers): past that the code is
wrong, which `wraparound` shows; two theorems (section 6) say what remains true there. In `loopback` a socket
holds as many datagrams as the sender may have outstanding, 2, so that a first transmission is dropped only behind
retransmissions; a real socket holds more than the 16 of the real window. With less room than that
the sender may starve: it retransmits in the order of the slots, and only the head of a burst gets in. A minute of two
seconds has a last second and one that is not. The network's sets are not bounded by a number: they
are finite because the datagrams are. No state constraint is used.

* `link_sim`: three datagrams are enough for one to be delayed, one to overtake it and one to find the loop in between, and for
  two hosts and an alien. A tick range of 4 with seconds of 3 lets a departure time pass a second, wait beyond
  it and be compared with one that did not. The settings are: errors and losses without delay; a delay of 5 of the 6 ticks of the cap with a
  loss rate above 101; a jitter as large as the delay; a jitter above the delay, which wraps, on the reverse way only.
  `Horizon` ends the signals and the full send buffers, and lets the clock run on only while the loop waits for a delay:
  `ClockTicks` is otherwise unbounded.
* `min_queue`: six items are more than the first allocation holds, so that the array grows in the middle of a push. The tree has four
  levels, nodes with one child and with two, and two pairs of items with the same date.
* `packets`: a payload of 0 cells is an ACK or the packet of the end of a FIFO, 4 is a full chunk, and the ACK of 512 bytes leaves one
  cell of padding. One packet travels at a time: what earlier ones left is in `buffer`.
* `launch`: five words are one more than `main` allows with `-f`.

`CHECK_DEADLOCK FALSE` is in the configurations of programs that stop: the transfer, the link simulator after a failed call, and both programs in
`launch`. `min_queue` and `packets` go on for ever, and are checked for deadlocks.

**Symmetry** is not used: chunks and sequence numbers are ordered.

**Fairness** (only in `FairSpec` of `Transfer` and `Loopback`, for a regular file):

* `[]<>(SenderRuns /\ clock = t) => []<><<SenderTurns /\ clock = t>>`: on a regular file poll()
  never sleeps, so the sender turns very many times in each second of the clock. A plain weak fairness would allow it to turn
  in the last second of each minute only.
* weak fairness of the second half of the turn, of the receiver's scan, of the clock and of the receiver's timeout.
* `FairLoss`: the network loses any datagram, but not every copy of one that is sent again and
  again to a program in its loop. The ACKs are taken one by one (each sequence number), DATA by
  chunk. Without it nothing can be delivered.
* in `termination` `EarlyTimeout` is false: the receiver's three seconds pass only after the sender has left.
  With a longer silence the receiver leaves, and a sender that retransmits to a program that is
  gone goes on until an ICMP error makes recvfrom() fail; that case is in the safety runs.
* `Loopback`: weak fairness of both programs and of the clock, and `CaughtUpTurn`: in each second, at some of the sender's turns
  the receiver has emptied its socket. It handles a datagram in far less than a second.

* `LinkSim`: weak fairness of `SelectReturns`, of the clock, of `Delivery` (a due datagram leaves) and of `Processing`. The loop is a
  process that runs. `DeliverBlocked` needs a full send buffer, which is for a time only (`Horizon`).
* `MinQueue`: weak fairness of the loop of each call: a function that is called runs.

No fairness is assumed of the writer of a pipe, of the hosts that send to the simulator, nor of any failing call.

## 6. Proofs

`tlapm` checks every proof. The theorems hold for every number of sequence numbers, every window
size and input length allowed by the named assumptions of `PacketInterface`, `Sender` and `Transfer`
(which TLC evaluates on each run), and for every combination of the network's switches. Those about the other
modules hold in the same way for every value of their constants.

| Theorem | Statement | Under |
|---|---|---|
| `TypeCorrect` | `Spec => []TypeOK` | nothing more: wrapped numbers and failing calls included |
| `WindowCorrect` | `Spec => []WindowMatchesSlots`, the part of `CountersMatchSlots` about the receiver | nothing more: wrapped numbers and failing calls included |
| `ScanComplete` | `Spec => []ScanReachesBack` | nothing more: wrapped numbers and failing calls included |
| `DeliveryInvariant` | `Spec => []DeliveryInv` | `NoWrap` |
| `CountersCorrect` | `Spec => []CountersMatchSlots` | `NoWrap` |
| `OutputInOrder` | `Spec => []WrittenInOrder` | `NoWrap` |
| `PrefixDelivered` | `Spec => []PrefixDelivery` | `NoWrap`, no failing call |
| `CumulativeAcks` | `Spec => []AcksAreCumulative` | `NoWrap`, no failing call |
| `ReleasedWhenWritten` | `Spec => []NoPrematureRelease` | `NoWrap`, no failing call |
| `FinishedDelivered` | `Spec => []FinishedMeansDelivered` | `NoWrap`, no failing call |
| `StuckAfterEof` | `Spec => []NothingWrittenAfterEof` | `NoWrap`, no failing call |
| `EofStays` | `Spec => EofNeverReleased` | `NoWrap` |
| `HalfWindow` | `Spec => []AtMostHalfOutstanding` | `NoWrap` |
| `IdleReads` | `Spec => []IdleSenderReads` | `NoWrap`, a regular file |
| `Refinement` | `Spec => ImplementsStream` | `NoWrap`, no failing call |
| `LoopbackInvariant` (`Loopback`) | `Spec => []LoopbackInv` | `NoWrap` |
| `LoopbackPrefix` | `Spec => []PrefixDelivery` | `NoWrap` |
| `LoopbackRefinement` | `Spec => ImplementsStream` | `NoWrap` |
| `HeapInvariant` (`MinQueue`) | `Spec => []IndInv` | nothing more |
| `HeapTyped`, `HeapOrdered`, `PeekIsMinimal` | `Spec => []TypeOK`, `[]HeapOrder`, `[]RootIsMinimal` | nothing more |
| `HeapIsPriorityQueue` | `Spec => IsPriorityQueue` | nothing more |
| `LinkInvariant` (`LinkSim`) | `Spec => []LinkInv` | nothing more |
| `SimulatorIsLossyChannel` | `Spec => IsLossyChannel` | nothing more |
| `TimeInvariant` | `Spec => []TimeInv` | nothing more |
| `SimulatorTyped` | `Spec => []TypeOK` | nothing more |
| `WakesInTime` | `Spec => SelectWakesInTime` | nothing more |
| `NeverASecondEarly` | `Spec => EarlyByLessThanASecond` | nothing more |
| `FixedDelayInOrder` | `Spec => FixedDelayKeepsOrder` | nothing more |
| `WireInvariant` (`PacketWire`) | `Spec => []WireInv` | nothing more |
| `CodecTyped` | `Spec => []TypeOK` | nothing more |
| `CodecRight` | `Spec => []CodecAgrees` | nothing more |
| `InversionsNoticed` | `Spec => []InversionNoticed` | nothing more |
| `FailedReceivesRefused` | `Spec => []FailedReceiveRefused` | nothing more |
| `LaunchInvariant` (`Launch`) | `Spec => []LaunchInv` | nothing more |
| `LaunchTyped` | `Spec => []TypeOK` | nothing more |
| `UsageHolds` | `Spec => []UsageUnderstood` | nothing more |
| `SenderArguments` | `Spec => []SenderStaysInArgv` | nothing more |
| `NoSocketLeft` | `Spec => []SocketsClosed` | nothing more |

`NoWrap == Chunks + 1 < Seqnums` says that the chunks and one packet of length 0 have distinct
sequence numbers, with one number to spare for the ACK of the last. It is needed: `wraparound` violates `PrefixDelivery` without it.
"No failing call" is `~IoFaults`, and it is needed too: after a failed write
in the scan the chunk is acknowledged and missing.

**The argument.** None of the properties is inductive. `DeliveryInv` (`TransferInvariants.tla`) is the
conjunction of named parts:

* let *e* be the number of the packet of length 0 if there is one, the next number otherwise
  (`EofAt`). Below *e*, chunk *k* has number *k* - 1, everywhere: in the sender's buffer, in flight, in the
  receiver's buffer (`Numbered`, `DataNumbered`, `SeqnumInv`);
* the receiver never expects more than *e* (`SeqnumInv`), because it refuses the packet of length 0;
* every ACK, in flight or in `lastack`, is at most the number the receiver expects (`AcksBelowExpected`): ACKs
  are cumulative;
* all that is written is below the expected number and in increasing order (`WrittenBelowExpected`);
* the sender keeps every packet from the expected number on (`UnexpectedKept`): the release
  removes what is *below* an ACK, and no ACK is above what is expected;
* the sender's packets have distinct numbers between `lastack` and the next one (`Outstanding`): the
  send window then bounds them by half of the slots, and a packet that is sent always finds an empty one;
* both counters count the empty slots (`CountersMatchSlots`), so the send window means what it says;
* what poll() saw of the input still holds when it is read, and a successful exit means that the
  whole input was acknowledged (`InputInv`).

`DeliveryProofs` shows that each kind of step preserves the invariant: quiet steps, a release on an ACK, a chunk read, the packet of length 0, an early packet kept, the
expected one written, a buffered one written. It needs facts about the number of slots of a
buffer (a slot filled or emptied changes the count by one; distinct numbers in a range of *n* occupy at
most *n* slots), stated once as lemmas and proved from the library's theorems on finite sets.

**One proof for both networks.** Of the network, the proofs ask that it makes up no datagram: what is under way after a
step was under way before, was sent in it, or is garbled (`Carries`). `Moves` is a step of the two programs, or of the
surroundings, on any such network; the step lemmas are about `Moves`, and `StepMoves` shows that a step of
`Transfer` is one. `LoopbackProofs` takes `TransferTheorems` with the datagrams in each socket for the two sets, and with no
failing call. Its `LoopbackMoves` shows that a step of `Loopback` is such a step too: a queue that
drops what does not fit holds nothing that did not come. The invariant, `PrefixDelivery` and the refinement follow for sockets
of every capacity: safety does not depend on the order in which the kernel delivers.

**The sender of a file does not stop.** `IdleSenderReads` is violated on a pipe (`stale_ack`). `IdleReads` proves it for a regular
file, from `ReadyInv`: the sender comes back to poll() with its *latest* packet in a slot, unless it sent nothing yet
(`LatestHeld`). That packet is only released by an ACK equal to `seqnum`, after which the window is open and the file,
always readable, is read in the same turn: the sender never gets to poll() with an empty buffer and a `lastack` that was set back.

**The heap.** The theorems about `MinQueue` hold for every set of items, every order of dates (`GreaterAssumption`) and every
growth step. `HeapOrder` is not inductive: in the middle of a push or a pop one node is out of place. `IndInv` says that it is the only one
(`OrderedElsewhere`), and that its children are in order with its parent (`OrderedAcross`), which is what makes the next exchange right. The pairs (*k*, `PARENT(k)`)
begin at *k* = 1, whose parent is 0, so that the root which is its own left child does no harm. `PeekIsMinimal` goes from each node up to the root: the library's induction
theorems take an operator as a parameter, which the provers cannot instantiate, so the proof takes the smallest node that is
ahead of the root, which exists because the indices are natural numbers, and compares it with its parent. For the refinement, the content is what the array holds with the moving item at its insertion point, and the head is what the call under way
will leave at the root (`FutureRoot`): all but the first step of a call are stuttering steps of the queue.

**The link simulator.** `SimulatorIsLossyChannel` holds for every set of hosts, lengths and options, every unit of time and any number of datagrams; of the clock it
needs nothing. A step of the channel is only right when the simulator is in a state that `LinkInv` describes: a datagram is in the receive queue of the
socket or in one slot of the queue, and nowhere else (`InOnePlace`), so that it leaves once; a slot holds a well-formed datagram of one of the two ends, with its direction, and was altered only
where the options asked for it (`Fit`). The direction was computed when the datagram came, from the `src_addr` of that time: `Fit` still holds when it leaves, since
`src_addr` is set once, before the first slot. Then each step is matched: `Enqueue` is `Delay`, `Forward` and `DeliverDelayed` are `Leave`, `Drop` is `Lose`,
and the failing calls are `Break`.

Its times need another invariant, `TimeInv`: the head of the queue is one of the slots that depart first (`HeadFirst`), the datagrams in the queue came
before those in the socket (`Fifo`), and without jitter the dates in the queue are in the order of arrival and none is after
the date that a datagram taken now would get (`InOrder`). A date that is not normalised has a `tv_usec` below two seconds, whatever `-d` and `-j`: that
is why the missing carry makes a datagram leave less than a second early, and moves the timeout of `select()` by less than a second. The timeout counts from
`last_clock`, and the sleep from the moment it starts: `WakesInTime` has the difference in its bound, which grows with every signal and which nothing limits. `FixedDelayKeepsOrder` was
stated for each way by itself; the proof showed that it holds for both ways together, and so it is stated now.

**The codec.** The theorems about `PacketWire` hold for every payload size, every set of contents and windows, and every even
number of sequence numbers: an odd one would leave an inverted sequence number as it was. `crc32` is injective in the model,
and an inverted content is another content (`ContentsAssumption`). `WireInv` says that a datagram under way has the cells of its packet, but for the one that was inverted and
the padding of an ACK (`OnTheWire`), and that what a longer datagram left in the receiver's buffer lies beyond its first 512 bytes (`BufferClean`): never where `pkt_decode` looks.
The verdict of `pkt_decode` then follows from the cells, check by check, in the order of the code.

**Start-up.** `LaunchInv` says what each descriptor is open on at each point of both `main`s: one at most is a socket, it is not the one of the file, and what the socket
is named after is the port modulo 65536. `UsageUnderstood` needs in addition where `getopt` stands in each of the three orders of a line with `-f`,
and what it has moved (`UsageInv`). It holds of lines with any words. `HOST PORT` needs nothing of the standard input, but a receiver that finds
a name in the 64 bytes it did not initialise is an exception: it takes its host and port from beyond its arguments, and fails or crashes
before it has a socket. `-f NAME` needs an open standard input: `sender.c` takes the descriptor 0 for "no option", and a file that gets this
number is not recognised.

**Model-checked only.** Liveness (`TransferEnds`, `EveryDatagramHandled`, `CallsReturn`) rests on fairness and ENABLED, which the prover does not
handle. What becomes of wrapped sequence numbers is covered by TLC alone, but for `TypeOK`, `WindowMatchesSlots`
and `ScanReachesBack`. `IdleSenderReads` and `FullChunksPass` do not hold in general and are violated by runs; the first is proved where it holds. Every other invariant, action property and
refinement that a run checks is a theorem.

## 7. What the code does that its comments and tests do not say

The first four are runs that expect a violation, and findings in `PROJECT.json` with the lines.

1. **Sequence numbers wrap, comparisons do not** (`sender.c:199,211`; run `wraparound`). After the number
   255 the condition `seqnum < lastack + sender_buffer_size` stays true. The sender reads chunks with
   every slot taken, sends them without keeping or numbering them, and the next chunk gets the
   same number: the file is corrupted on an ordered, lossless network. `inc_seqnum`'s comment speaks
   of "making sure no overflow occurs"; the tests stop at 10 chunks.
2. **A full chunk never passes the link simulator** (`link_sim.c:47,232`; run `full_chunk`). "Max packet length in the protocol" is
   524 there, and a chunk of 512 bytes makes a datagram of 528 (`transport_interface.h:21`). The last four bytes, crc2, are cut, and
   `pkt_decode` refuses the rest each time it is sent again. `simlink_L10D50_test.sh` and `simlink_L50D50_test.sh` send ten full chunks,
   `simlink_L70D100_test.sh` one.
3. **An overtaken ACK sets `lastack` back** (`sender.c:195`; run `stale_ack`). With a pipe on stdin the window
   may then stay shut with nothing outstanding. A regular file is immune: the ACK that
   releases the last packet equals `seqnum`, and the read happens in the same turn.
4. **Second 59** (`sender.c:174`; run `minute_end`). A packet first sent in the last second of a minute never expires.
   Lost, it is sent again only after three equal ACKs, which the last packets of a file never cause.

The others are what the passing properties say of the code, where a reader of the comments would expect something else:

5. **The delivering scan restarts at slot 1** (`transport_interface.c:252`; `ScanReachesBack`). Slot 0 is the property's only exception: a packet in
   slot 0 that becomes expected is left there and has to be sent again, and the slot stays taken.
6. **A delayed datagram may leave up to a second early, and `select()` may sleep up to a second too long** (`link_sim.c:209`; `EarlyByLessThanASecond`,
   `SelectWakesInTime`). `tv_usec` is not carried into `tv_sec`; a datagram due at 0.9 s + 0.2 s has the date 0 s, 1100000 us, which is
   before 1 s, 0 us for `timeval_cmp`.
7. **"Random delay to add is capped to 10s"** (`link_sim.c:187`): `%= 10000` wraps. A delay of 10 s is none, and a jitter above the delay gives
   `unsigned` differences that the remainder spreads over the 10 s.
8. **The packet of length 0 does not end anything** (`packet_interface.c:154`; `NothingWrittenAfterEof`, `EofNeverReleased`). `pkt_decode` refuses
   it, and the branch of `transport_interface.c:268-272` cannot be reached. The sender of a FIFO sends it for ever.
9. **A direct forward on a full send buffer ends the simulator** (`link_sim.c:217`), where a delayed one waits (`link_sim.c:149`).
10. **After a signal the simulator sleeps its whole timeout again** (`link_sim.c:341`), from a reading of the clock that is not renewed. Signals
    may so put off a delayed datagram for ever: the term `now - last_clock` of `SelectWakesInTime`.
11. **The receiver does not count its arguments with `-f`** (`receiver.c:51-54`), and without `-f` tests 64 bytes that it has not initialised
    (`receiver.c:9,51`): when they hold a name, a line that follows the usage text ends in a failure or in `"crashed"` (the exception of
    `UsageUnderstood`). A port that is no number is 0, and the loop then starts with a socket neither bound nor connected. A program started with a
    closed standard input may open its file as descriptor 0, which the sender takes for no file, and a file that does not open is -1 in the loop.

## 8. Not modelled

* the bits of a packet: byte order, bit fields, and the arithmetic of CRC-32. `PacketWire` takes crc32 to be injective, so a collision is not modelled.
* `pkt_set_payload` and `malloc` in the two programs: memory does not run out there. Packets that are dropped without `pkt_del` are leaks.
* the window field of a packet is sent and never read.
* a `write()` that writes less than it was given (`transport_interface.c:233,245`): a write succeeds or fails.
* a `poll()` that returns for an error on the socket, without POLLIN (`sender.c:147,185`): such a turn takes no ACK and may send again.
  The sender of a file has such turns at all times, that of a pipe does not in the model.
* the output file is empty when the transfer starts, as in the tests, which remove it first. It is opened without `O_TRUNC`.
* an option glued to its name (`-fFILE`), and a C library whose `getopt` does not move the arguments.
* the text of the simulator's options: `LinkSim` starts from the values that `parse_number` gives, with `-e` and `-l` that are natural numbers. Its log is left out.
* the composition of `LinkSim` with the two loops in one state space: `Transfer`'s network does to a datagram all that the simulator may do
  (drop, delay and so reorder, garble), and `LossyChannel` does not duplicate.
* `src/projet1_Calmant_Outters/tests/` is read for what it expects. `src/src/` is a superseded draft of the same program, `src/prerequis/` are independent exercises.

## 9. Plan

Done: `PacketInterface`, `Sender`, `Receiver`, `Transfer` with its safety runs, `ReliableStream` and the refinement,
liveness, `Loopback`, the inductive invariant and its theorems; `MinQueue` and its theorems, `LinkSim` as an implementation of `LossyChannel`, with its
proof and the bounds of its times, `PacketWire` and `Launch` with theorems for all their properties, `Loopback` on the proofs of `Transfer`.

Next, to prove:

1. What remains true when numbers wrap: how far apart the two programs' sequence numbers can be, and that the output file
   has nothing that was not read.
2. That the sender of a pipe keeps reading (`IdleSenderReads`) on a network where no ACK overtakes another.
3. A step of `LossyChannel` is a step of the network of `Transfer`: the simulator, between the two programs, is one of the networks that `Moves` allows.
