------------------------------- MODULE LinkSim -------------------------------
(***************************************************************************)
(* The link simulator (link_sim.c), which the tests put between the two    *)
(* programs: one socket, one loop around select(), a queue of delayed      *)
(* datagrams.  The queue is the one min_queue.h promises (PriorityQueue),   *)
(* of which module MinQueue shows that min_queue.c is an implementation.   *)
(*                                                                         *)
(* Time is counted in ticks: a tick is the unit of the clock (1 us) and of  *)
(* the delays (1 ms), and Second of them make a second.  A datagram is its  *)
(* rank of arrival, where it comes from and its length.                    *)
(***************************************************************************)
EXTENDS Integers, Sequences, FiniteSets

CONSTANTS
    Hosts,           \* the hosts that send to the simulator, dest_addr included
    Dest,            \* dest_addr: port forward_port of this machine
    Nobody,          \* src_addr when has_source_addr is 0
    Lengths,         \* of the datagrams they send
    Arguments,       \* the values given to the options -d -j -e -l and -r, -R
    Second,          \* 1000000 (clock), 1000 (delays)
    DelayCap,        \* the modulo of the applied delay (10000)
    UIntRange,       \* the values of an unsigned int (2^32)
    NULL             \* no pointer

CONSTANTS
    \* Bounds.
    MaxDatagrams,    \* datagrams sent to the simulator
    InboxCapacity,   \* datagrams in the receive queue of its socket
    Horizon          \* when the last signal comes and the send buffer is full for the last time

MIN_PKT_LEN == 12
MAX_PKT_LEN == 524

(* SAME_DIRECTION is membership of one in the other. *)
LINK_FORWARD   == {"forward"}
LINK_REVERSE   == {"reverse"}
LINK_BOTH_WAYS == LINK_FORWARD \cup LINK_REVERSE

ASSUME HostsAssumption == Dest \in Hosts /\ Nobody \notin Hosts
ASSUME LengthsAssumption == Lengths \subseteq Nat
ASSUME TimeAssumption == /\ Second \in Nat \ {0} /\ DelayCap \in Nat \ {0}
                         /\ UIntRange \in Nat \ {0}
ASSUME BoundsAssumption == MaxDatagrams \in Nat /\ InboxCapacity \in Nat /\ Horizon \in Nat
ASSUME ArgumentsAssumption ==
    Arguments \subseteq [d : Int, j : Int, e : Nat, l : Nat,
                         r : {LINK_FORWARD, LINK_REVERSE, LINK_BOTH_WAYS}]

VARIABLES
    argv,         \* the arguments of this run
    pc,           \* "main", then the phases of the loop; "crashed", "exit"
    sfd,          \* the socket: "none", "open", "closed"
    now,          \* the clock
    last_clock,   \* what the loop last read of it
    wake,         \* when select() will time out; NULL: never, or not in select()
    readable,     \* FD_ISSET(sfd, &rfds)
    queue,        \* the slots in pkt_queue
    head,         \* minq_peek(pkt_queue)
    src_addr,     \* the first host seen
    arrived,      \* the datagrams that came so far, in order
    inbox,        \* those in the receive queue of the socket, by their ranks
    sent          \* what the simulator sent

loopVars == <<last_clock, wake, readable>>
pktQueue == <<queue, head>>
network  == <<arrived, inbox, sent>>
vars     == <<argv, pc, sfd, now, loopVars, pktQueue, src_addr, network>>

Rank == 1 .. MaxDatagrams

(* A departure time is not normalised: tv_usec may pass a second. *)
Timeval == [tv_sec : 0 .. (Horizon + DelayCap) \div Second, tv_usec : 0 .. 2 * Second - 2]

(* struct pkt_slot: which datagram is in buf, and whether a byte of it was  *)
(* inverted; its size follows.                                              *)
PktSlot == [pkt : Rank, ts : Timeval, direction : LINK_BOTH_WAYS, inverted : BOOLEAN]

Due(ts) == ts.tv_sec * Second + ts.tv_usec

(* What leaves: len bytes to a host. *)
Sent == [id : Rank, to : Hosts, length : 0 .. MAX_PKT_LEN, inverted : BOOLEAN]

TypeOK ==
    /\ argv \in Arguments
    /\ pc \in {"main", "socket", "queue", "select", "deliver", "receive", "crashed", "exit"}
    /\ sfd \in {"none", "open", "closed"}
    /\ now \in Nat /\ last_clock \in 0 .. now
    /\ wake \in Nat \cup {NULL}
    /\ readable \in BOOLEAN
    /\ queue \subseteq PktSlot
    /\ IF queue = {} THEN head = NULL ELSE head \in queue
    /\ src_addr \in Hosts \cup {Nobody}
    /\ arrived \in Seq([from : Hosts, length : Lengths]) /\ Len(arrived) <= MaxDatagrams
    /\ inbox \in Seq(Rank) /\ Len(inbox) <= InboxCapacity
    /\ sent \subseteq Sent

Init ==
    /\ argv \in Arguments
    /\ pc = "main"
    /\ sfd = "none"
    /\ now = 0 /\ last_clock = 0
    /\ wake = NULL
    /\ readable = FALSE
    /\ queue = {} /\ head = NULL
    /\ src_addr = Nobody
    /\ arrived = <<>> /\ inbox = <<>> /\ sent = {}

----------------------------------------------------------------------------
(* Times. *)

OfClock(t) == [tv_sec |-> t \div Second, tv_usec |-> t % Second]

Mutant_ComparesSeconds(left, right) == left.tv_sec >= right.tv_sec

timeval_cmp(left, right) ==
    \/ left.tv_sec > right.tv_sec
    \/ left.tv_sec = right.tv_sec /\ left.tv_usec > right.tv_usec

(* The borrow is not completed when no whole second is left. *)
timeval_diff(a, b) ==
    LET sec == a.tv_sec - b.tv_sec
        usec == a.tv_usec - b.tv_usec
    IN  IF usec >= 0 THEN [tv_sec |-> sec, tv_usec |-> usec]
        ELSE [tv_sec |-> sec - 1, tv_usec |-> IF sec # 1 THEN usec + Second ELSE usec]

Mutant_LatestFirst == {p \in PktSlot \X PktSlot : timeval_cmp(p[2].ts, p[1].ts)}

pkt_slot_cmp == {p \in PktSlot \X PktSlot : timeval_cmp(p[1].ts, p[2].ts)}

PktQueue == INSTANCE PriorityQueue WITH
                Items <- PktSlot, Greater <- pkt_slot_cmp, content <- queue

Mutant_DateAsTimeout(h) == Due(h.ts)

(* 1 ms at least: a slot whose time has come may wait for the send buffer.  *)
get_queue_timeout(h) ==
    LET timeout == timeval_diff(h.ts, OfClock(last_clock))
    IN  IF timeout.tv_sec < 0 \/ (timeout.tv_sec = 0 /\ timeout.tv_usec <= 0) THEN 1
        ELSE timeout.tv_sec * Second + timeout.tv_usec

Mutant_WaitsForTraffic ==
    /\ pc' = "select"
    /\ readable' = FALSE
    /\ wake' = NULL

(* The call of select() that ends a step. *)
Select ==
    /\ pc' = "select"
    /\ readable' = FALSE
    /\ wake' = IF head' = NULL THEN NULL ELSE now + get_queue_timeout(head')

----------------------------------------------------------------------------
(* main, get_socket and proxy_traffic. *)

err_rate       == argv.e % 101
loss_rate      == argv.l % 101
delay          == argv.d % UIntRange
jitter         == argv.j % UIntRange
link_direction == argv.r

(* RAND_PERCENT, 0 to 100, is below a rate for some draws if the rate is    *)
(* not 0, and is never below it for the draw 100.                           *)
MayHappen(rate) == rate # 0

NoTraffic == UNCHANGED <<last_clock, readable, pktQueue, src_addr, network>>

(* Options that are not known, and -h. *)
ShowUsage ==
    /\ pc = "main"
    /\ pc' = "exit"
    /\ UNCHANGED <<argv, sfd, now, wake>> /\ NoTraffic

ParseOptions ==
    /\ pc = "main"
    /\ pc' = "socket"
    /\ UNCHANGED <<argv, sfd, now, wake>> /\ NoTraffic

get_socket ==
    /\ pc = "socket"
    /\ pc' = "queue"
    /\ sfd' = "open"
    /\ UNCHANGED <<argv, now, wake>> /\ NoTraffic

(* socket() fails, or a later call, which closes it. *)
GetSocketFails ==
    /\ pc = "socket"
    /\ pc' = "exit"
    /\ sfd' \in {"none", "closed"}
    /\ UNCHANGED <<argv, now, wake>> /\ NoTraffic

(* minq_new, and the start of proxy_loop. *)
BeginLoop ==
    /\ pc = "queue"
    /\ last_clock' = now
    /\ UNCHANGED <<argv, sfd, now, pktQueue, src_addr, network>>
    /\ Select

NoQueue ==
    /\ pc = "queue"
    /\ pc' = "exit"
    /\ sfd' = "closed"
    /\ UNCHANGED <<argv, now, wake>> /\ NoTraffic

(* The loop is left on an error only: minq_del, close. *)
ProxyTrafficEnds ==
    /\ pc = "crashed"
    /\ pc' = "exit"
    /\ PktQueue!Forget
    /\ sfd' = "closed"
    /\ UNCHANGED <<argv, now, loopVars, src_addr, network>>

----------------------------------------------------------------------------
(* proxy_loop and deliver_delayed_pkt. *)

InTurn == UNCHANGED <<argv, sfd, now>>

(* select() returns, and update_time. *)
SelectReturns ==
    /\ pc = "select"
    /\ inbox # <<>> \/ (wake # NULL /\ now >= wake)
    /\ pc' = "deliver"
    /\ readable' = (inbox # <<>>)
    /\ last_clock' = now
    /\ wake' = NULL
    /\ UNCHANGED <<pktQueue, src_addr, network>> /\ InTurn

(* The time is not updated: the whole timeout starts again. *)
SelectInterrupted ==
    /\ pc = "select" /\ now < Horizon
    /\ UNCHANGED <<last_clock, pktQueue, src_addr, network>> /\ InTurn
    /\ Select

SelectFails ==
    /\ pc = "select"
    /\ pc' = "crashed"
    /\ UNCHANGED <<loopVars, pktQueue, src_addr, network>> /\ InTurn

Expired == head # NULL /\ timeval_cmp(OfClock(last_clock), head.ts)

(* write_out: to one end of the link. *)
Size(p) == IF arrived[p].length > MAX_PKT_LEN THEN MAX_PKT_LEN ELSE arrived[p].length

write_out(p, direction, inverted) ==
    sent' = sent \cup {[id |-> p, length |-> Size(p), inverted |-> inverted,
                        to |-> IF direction = "forward" THEN Dest ELSE src_addr']}

DeliverDelayed ==
    /\ pc = "deliver" /\ Expired
    /\ PktQueue!Remove
    /\ UNCHANGED src_addr
    /\ write_out(head.pkt, head.direction, head.inverted)
    /\ UNCHANGED <<pc, loopVars, arrived, inbox>> /\ InTurn

(* After deliver_delayed_pkt. *)
EndDelivery ==
    /\ UNCHANGED <<src_addr, network, last_clock>> /\ InTurn
    /\ IF readable THEN pc' = "receive" /\ UNCHANGED <<wake, readable>> ELSE Select

Mutant_BlockedIsGone ==
    /\ pc = "deliver" /\ Expired /\ now < Horizon
    /\ PktQueue!Remove
    /\ EndDelivery

(* The send buffer is full: the slot stays. *)
DeliverBlocked ==
    /\ pc = "deliver" /\ Expired /\ now < Horizon
    /\ UNCHANGED pktQueue
    /\ EndDelivery

DeliverFails ==
    /\ pc = "deliver" /\ Expired
    /\ pc' = "crashed"
    /\ UNCHANGED <<loopVars, pktQueue, src_addr, network>> /\ InTurn

NoneExpired ==
    /\ pc = "deliver" /\ ~Expired
    /\ UNCHANGED pktQueue
    /\ EndDelivery

----------------------------------------------------------------------------
(* process_incoming_pkt and simulate_link. *)

ReceiveInterrupted ==
    /\ pc = "receive" /\ now < Horizon
    /\ UNCHANGED <<src_addr, network, last_clock, pktQueue>> /\ InTurn
    /\ Select

ReceiveFails ==
    /\ pc = "receive"
    /\ pc' = "crashed"
    /\ UNCHANGED <<loopVars, pktQueue, src_addr, network>> /\ InTurn

Malformed == arrived[Head(inbox)].length < MIN_PKT_LEN

From == arrived[Head(inbox)].from

(* recvfrom, and the first sender becomes the other end.  *)
Receive ==
    /\ pc = "receive"
    /\ inbox' = Tail(inbox)
    /\ src_addr' = IF src_addr = Nobody /\ ~Malformed THEN From ELSE src_addr
    /\ UNCHANGED <<arrived, last_clock>> /\ InTurn

Mutant_AliensGoForward == IF From = Dest THEN "reverse" ELSE "forward"

(* The second test overrides the first when the first sender is dest_addr.  *)
Direction ==
    IF From = src_addr' THEN "forward" ELSE IF From = Dest THEN "reverse" ELSE "alien"

Simulated == Direction \in link_direction

Drop ==
    /\ Receive
    /\ \/ Malformed
       \/ Direction = "alien"
       \/ Simulated /\ MayHappen(loss_rate)
    /\ UNCHANGED <<sent, pktQueue>>
    /\ Select

Inversions == IF Simulated /\ MayHappen(err_rate) THEN BOOLEAN ELSE {FALSE}

(* A way that is not simulated, or a link without delay.  *)
Forward ==
    /\ Receive
    /\ ~Malformed /\ Direction # "alien"
    /\ ~Simulated \/ delay = 0
    /\ \E inverted \in Inversions : write_out(Head(inbox), Direction, inverted)
    /\ UNCHANGED pktQueue
    /\ Select

Mutant_SignedAndNotCapped ==
    IF jitter = 0 THEN {delay} ELSE {delay + r : r \in (1 - jitter) .. (jitter - 1)}

(* delay - r is computed with unsigned integers: it wraps below 0. *)
AppliedDelays ==
    LET spread == IF jitter = 0 THEN {0} ELSE (1 - jitter) .. (jitter - 1)
    IN  {((delay + r) % UIntRange) % DelayCap : r \in spread}

Departure(applied_delay) ==
    [tv_sec  |-> OfClock(last_clock).tv_sec + applied_delay \div Second,
     tv_usec |-> OfClock(last_clock).tv_usec + (applied_delay % Second)]

Enqueue ==
    /\ Receive
    /\ ~Malformed /\ Simulated /\ delay # 0
    /\ \E applied_delay \in AppliedDelays, inverted \in Inversions :
          PktQueue!Insert([pkt |-> Head(inbox), ts |-> Departure(applied_delay),
                           direction |-> Direction, inverted |-> inverted])
    /\ UNCHANGED sent
    /\ Select

(* malloc, minq_push or sendto fails, the latter also because the send      *)
(* buffer is full.                                                          *)
ProcessFails ==
    /\ Receive
    /\ ~Malformed /\ Direction # "alien"
    /\ pc' = "crashed"
    /\ UNCHANGED <<wake, readable, sent, pktQueue>>

----------------------------------------------------------------------------
(* The hosts and the clock.  After Horizon, time goes on only while the     *)
(* loop waits for the end of a delay.                                       *)
HostSends(h, length) ==
    /\ now < Horizon
    /\ pc \in {"select", "deliver", "receive"}
    /\ Len(arrived) < MaxDatagrams /\ Len(inbox) < InboxCapacity
    /\ arrived' = Append(arrived, [from |-> h, length |-> length])
    /\ inbox' = Append(inbox, Len(arrived'))
    /\ UNCHANGED <<argv, pc, sfd, now, loopVars, pktQueue, src_addr, sent>>

ClockTicks ==
    /\ pc \in {"select", "deliver", "receive"}
    /\ now < Horizon \/ (pc = "select" /\ inbox = <<>> /\ wake # NULL /\ now < wake)
    /\ now' = now + 1
    /\ UNCHANGED <<argv, pc, sfd, loopVars, pktQueue, src_addr, network>>

Startup ==
    \/ ShowUsage \/ ParseOptions
    \/ get_socket \/ GetSocketFails
    \/ BeginLoop \/ NoQueue
    \/ ProxyTrafficEnds

Delivery == DeliverDelayed \/ NoneExpired

Processing == Drop \/ Forward \/ Enqueue

Next ==
    \/ Startup
    \/ SelectReturns \/ SelectInterrupted \/ SelectFails
    \/ Delivery \/ DeliverBlocked \/ DeliverFails
    \/ Processing \/ ReceiveInterrupted \/ ReceiveFails \/ ProcessFails
    \/ \E h \in Hosts, length \in Lengths : HostSends(h, length)
    \/ ClockTicks

Spec == Init /\ [][Next]_vars

(* The loop runs, and the send buffer does not stay full. *)
FairSpec ==
    /\ Spec
    /\ WF_vars(SelectReturns) /\ WF_vars(ClockTicks)
    /\ WF_vars(Delivery) /\ WF_vars(Processing)

----------------------------------------------------------------------------
(* What holds. *)

OnTheWay == IF pc \in {"crashed", "exit"} THEN {}
            ELSE {inbox[k] : k \in DOMAIN inbox} \cup {x.pkt : x \in queue}

Channel == INSTANCE LossyChannel WITH
    Proxied <- Dest,
    MinLength <- MIN_PKT_LEN, MaxLength <- MAX_PKT_LEN,
    losing <- IF MayHappen(loss_rate) THEN link_direction ELSE {},
    garbling <- IF MayHappen(err_rate) THEN link_direction ELSE {},
    peer <- src_addr,
    transit <- {[id |-> k, from |-> arrived[k].from, length |-> arrived[k].length] : k \in OnTheWay},
    delivered <- sent

(* "This program will relay all incoming UDP traffic ... simulating random  *)
(* losses, transmission errors" (l. 463-465): a datagram leaves at most     *)
(* once, for the other end of the link, and is lost or altered only on a    *)
(* way where the options asked for it.  A full send buffer loses no         *)
(* delayed datagram (l. 148-152).                                           *)
IsLossyChannel == Channel!Spec

(* A delayed datagram may leave before its departure time, because          *)
(* timeval_cmp compares a tv_usec that may pass a second (l. 209), but by   *)
(* less than a second.                                                      *)
EarlyByLessThanASecond ==
    [][\A x \in queue \ queue' : pc = "deliver" => last_clock > Due(x.ts) - Second]_vars

(* For the same reason the head of the queue may not be the next to leave,  *)
(* and its borrow gives timeval_diff a timeout that is none.  When the loop *)
(* goes to sleep, the end of the sleep is ahead.  It is one tick away only  *)
(* if a slot is due within a second of the loop's clock.  Otherwise it is   *)
(* past the date of no slot by a second and what the clock moved since the  *)
(* loop read it: nothing bounds the latter, for a signal that interrupts a  *)
(* sleep makes it start again.                                             *)
SelectWakesInTime ==
    [][wake' # NULL /\ wake' # wake =>
          /\ now < wake'
          /\ wake' = now + 1 => \E x \in queue' : Due(x.ts) <= last_clock' + Second
          /\ \/ wake' = now + 1
             \/ \A x \in queue' : wake' < Due(x.ts) + Second + (now - last_clock')]_vars

(* Without jitter the delayed datagrams keep their order, those of the two  *)
(* ways together, except those that the loop took at the same time of its   *)
(* clock.                                                                   *)
FixedDelayKeepsOrder ==
    [][jitter = 0 => \A x \in queue \ queue', y \in queue \cap queue' :
          y.pkt < x.pkt => x.ts = y.ts]_vars

(* Every datagram that reaches the simulator is handled, and every delayed  *)
(* one leaves, unless a call fails.                                         *)
EveryDatagramHandled ==
    \A k \in Rank : k \in OnTheWay ~> k \notin OnTheWay
=============================================================================
