---------------------------- MODULE LinkSimProofs ----------------------------
(***************************************************************************)
(* The link simulator is a lossy channel, and delays datagrams by what its *)
(* options say to less than a second, for any options, any hosts and any   *)
(* number of datagrams.                                                    *)
(***************************************************************************)
EXTENDS LinkSim, TLAPS

----------------------------------------------------------------------------
(* The invariant behind the refinement. *)

Network ==
    /\ argv \in Arguments
    /\ arrived \in Seq([from : Hosts, length : Lengths])
    /\ inbox \in Seq(DOMAIN arrived)
    /\ src_addr \in Hosts \cup {Nobody}

(* A datagram is at one place: it is not received twice. *)
InOnePlace ==
    /\ \A i, j \in DOMAIN inbox : inbox[i] = inbox[j] => i = j
    /\ \A x \in queue, i \in DOMAIN inbox : x.pkt # inbox[i]
    /\ \A x, y \in queue : x.pkt = y.pkt => x = y

(* A delayed datagram is well formed, and on its way to the other end.      *)
Fit(x) ==
    /\ x.pkt \in DOMAIN arrived
    /\ src_addr # Nobody
    /\ arrived[x.pkt].length >= MIN_PKT_LEN
    /\ x.direction = IF arrived[x.pkt].from = src_addr THEN "forward" ELSE "reverse"
    /\ arrived[x.pkt].from \in {src_addr, Dest}
    /\ x.inverted \in BOOLEAN
    /\ x.inverted => x.direction \in link_direction /\ MayHappen(err_rate)

AtTheHead == head # NULL => head \in queue

(* Nothing comes before the loop runs, and the loop only reads when there   *)
(* is something.                                                            *)
InPhase ==
    /\ pc \in {"main", "socket", "queue", "exit"} => queue = {}
    /\ pc \in {"main", "socket", "queue"} => inbox = <<>>
    /\ (pc = "deliver" /\ readable) \/ pc = "receive" => inbox # <<>>

LinkInv ==
    /\ Network
    /\ InOnePlace
    /\ \A x \in queue : Fit(x)
    /\ AtTheHead
    /\ InPhase

----------------------------------------------------------------------------
(* The receive queue of the socket. *)

LEMMA ElementOf ==
    ASSUME NEW S, NEW s \in Seq(S), NEW i \in DOMAIN s
    PROVE  s[i] \in S
  OBVIOUS

LEMMA FirstOut ==
    ASSUME NEW S, NEW s \in Seq(S), s # <<>>,
           \A i, j \in DOMAIN s : s[i] = s[j] => i = j
    PROVE  /\ Tail(s) \in Seq(S) /\ Head(s) \in S
           /\ Head(s) \in {s[i] : i \in DOMAIN s}
           /\ \A i \in DOMAIN Tail(s) :
                 i + 1 \in DOMAIN s /\ Tail(s)[i] = s[i + 1] /\ Tail(s)[i] # Head(s)
           /\ {Tail(s)[i] : i \in DOMAIN Tail(s)} = {s[i] : i \in DOMAIN s} \ {Head(s)}
<1>1. /\ Len(s) \in Nat \ {0} /\ DOMAIN s = 1 .. Len(s) /\ Head(s) = s[1] /\ Head(s) \in S
      /\ Tail(s) \in Seq(S) /\ DOMAIN Tail(s) = 1 .. Len(s) - 1
      /\ \A i \in 1 .. Len(s) - 1 : Tail(s)[i] = s[i + 1]
  OBVIOUS
<1>2. \A i \in DOMAIN Tail(s) :
         i + 1 \in DOMAIN s /\ Tail(s)[i] = s[i + 1] /\ Tail(s)[i] # Head(s)
  <2> SUFFICES ASSUME NEW i \in DOMAIN Tail(s)
               PROVE  i + 1 \in DOMAIN s /\ Tail(s)[i] = s[i + 1] /\ Tail(s)[i] # Head(s)
    OBVIOUS
  <2>1. i \in Nat /\ i + 1 \in DOMAIN s /\ 1 \in DOMAIN s /\ i + 1 # 1 /\ Tail(s)[i] = s[i + 1]
    BY <1>1
  <2> QED
    BY <1>1, <2>1
<1>3. ASSUME NEW i \in DOMAIN s, s[i] # Head(s)
      PROVE  \E j \in DOMAIN Tail(s) : Tail(s)[j] = s[i]
  <2>1. i # 1
    BY <1>1, <1>3
  <2>2. i - 1 \in DOMAIN Tail(s) /\ Tail(s)[i - 1] = s[i]
    BY <1>1, <2>1
  <2> QED
    BY <2>2
<1>4. Head(s) \in {s[i] : i \in DOMAIN s}
  BY <1>1
<1>5. {Tail(s)[i] : i \in DOMAIN Tail(s)} = {s[i] : i \in DOMAIN s} \ {Head(s)}
  BY <1>2, <1>3
<1> QED
  BY <1>1, <1>2, <1>4, <1>5

LEMMA LastIn ==
    ASSUME NEW S, NEW s \in Seq(S), NEW x
    PROVE  LET t == Append(s, x)
           IN  /\ t \in Seq(S \cup {x}) /\ t # <<>>
               /\ \A i \in DOMAIN t : t[i] = x \/ (i \in DOMAIN s /\ t[i] = s[i])
               /\ \A i \in DOMAIN s : i \in DOMAIN t /\ t[i] = s[i]
               /\ {t[i] : i \in DOMAIN t} = {s[i] : i \in DOMAIN s} \cup {x}
               /\ x \notin {s[i] : i \in DOMAIN s}
                  /\ (\A i, j \in DOMAIN s : s[i] = s[j] => i = j)
                  => \A i, j \in DOMAIN t : t[i] = t[j] => i = j
<1> DEFINE t == Append(s, x)
<1>1. /\ Len(s) \in Nat /\ DOMAIN s = 1 .. Len(s) /\ DOMAIN t = 1 .. Len(s) + 1
      /\ t[Len(s) + 1] = x /\ \A i \in 1 .. Len(s) : t[i] = s[i] /\ s[i] \in S
      /\ Len(t) = Len(s) + 1
  OBVIOUS
<1>2. t \in Seq(S \cup {x}) /\ t # <<>>
  <2>1. s \in Seq(S \cup {x})
    OBVIOUS
  <2> QED
    BY <2>1, <1>1
<1>3. \A i \in DOMAIN t : (i = Len(s) + 1 /\ t[i] = x) \/ (i \in DOMAIN s /\ t[i] = s[i])
  BY <1>1
<1>4. \A i \in DOMAIN s : i \in DOMAIN t /\ t[i] = s[i]
  BY <1>1
<1>5. Len(s) + 1 \in DOMAIN t /\ t[Len(s) + 1] = x
  BY <1>1
<1>6. {t[i] : i \in DOMAIN t} = {s[i] : i \in DOMAIN s} \cup {x}
  BY <1>3, <1>4, <1>5
<1>7. ASSUME x \notin {s[i] : i \in DOMAIN s}, \A i, j \in DOMAIN s : s[i] = s[j] => i = j
      PROVE  \A i, j \in DOMAIN t : t[i] = t[j] => i = j
  BY <1>3, <1>7
<1> QED
  BY <1>2, <1>3, <1>4, <1>6, <1>7

----------------------------------------------------------------------------
(* Steps that move no datagram. *)
Still == UNCHANGED <<argv, arrived, inbox, src_addr, queue, head, sent>>

LEMMA StillKeeps ==
    ASSUME LinkInv, Still, InPhase'
    PROVE  LinkInv'
  BY DEF LinkInv, Still, Network, InOnePlace, Fit, AtTheHead, link_direction, MayHappen, err_rate

LEMMA StartupStill ==
    ASSUME LinkInv, ShowUsage \/ ParseOptions \/ get_socket \/ GetSocketFails
                    \/ BeginLoop \/ NoQueue
    PROVE  Still /\ InPhase'
<1>1. CASE ShowUsage \/ ParseOptions \/ get_socket \/ GetSocketFails \/ NoQueue
  BY <1>1 DEF LinkInv, InPhase, Still, ShowUsage, ParseOptions, get_socket, GetSocketFails,
              NoQueue, NoTraffic, pktQueue, network
<1>2. CASE BeginLoop
  BY <1>2 DEF LinkInv, InPhase, Still, BeginLoop, Select, pktQueue, network
<1> QED
  BY <1>1, <1>2

LEMMA SelectStill ==
    ASSUME LinkInv, SelectReturns \/ SelectInterrupted \/ SelectFails
    PROVE  Still /\ InPhase'
  BY DEF LinkInv, InPhase, Still, SelectReturns, SelectInterrupted, SelectFails, Select, InTurn,
         pktQueue, network, loopVars

LEMMA DeliverStill ==
    ASSUME LinkInv, NoneExpired \/ DeliverBlocked \/ DeliverFails
    PROVE  Still /\ InPhase'
  BY DEF LinkInv, InPhase, Still, NoneExpired, DeliverBlocked, DeliverFails, EndDelivery, Select,
         InTurn, pktQueue, network, loopVars

LEMMA ReceiveStill ==
    ASSUME LinkInv, ReceiveInterrupted \/ ReceiveFails
    PROVE  Still /\ InPhase'
  BY DEF LinkInv, InPhase, Still, ReceiveInterrupted, ReceiveFails, Select, InTurn,
         pktQueue, network, loopVars

LEMMA ClockStill ==
    ASSUME LinkInv, ClockTicks \/ UNCHANGED vars
    PROVE  Still /\ InPhase'
  BY DEF LinkInv, InPhase, Still, ClockTicks, vars, pktQueue, network, loopVars

----------------------------------------------------------------------------
(* A datagram is received. *)
LEMMA Received ==
    ASSUME LinkInv, Receive
    PROVE  /\ Network' /\ arrived' = arrived /\ argv' = argv
           /\ inbox # <<>> /\ Head(inbox) \in DOMAIN arrived
           /\ {inbox'[i] : i \in DOMAIN inbox'} = {inbox[i] : i \in DOMAIN inbox} \ {Head(inbox)}
           /\ Head(inbox) \in {inbox[i] : i \in DOMAIN inbox}
           /\ \A i, j \in DOMAIN inbox' : inbox'[i] = inbox'[j] => i = j
           /\ \A i \in DOMAIN inbox' : inbox'[i] # Head(inbox)
           /\ \A x \in queue : x.pkt # Head(inbox)
           /\ \A x \in queue, i \in DOMAIN inbox' : x.pkt # inbox'[i]
           /\ src_addr' = src_addr \/ (src_addr = Nobody /\ ~Malformed /\ src_addr' = From)
           /\ ~Malformed => src_addr' # Nobody
           /\ \A x \in queue : Fit(x)' /\ src_addr' = src_addr
<1>1. /\ inbox # <<>> /\ inbox \in Seq(DOMAIN arrived) /\ inbox' = Tail(inbox)
      /\ arrived' = arrived /\ argv' = argv
  BY DEF LinkInv, InPhase, Network, Receive, InTurn
<1>2. \A i, j \in DOMAIN inbox : inbox[i] = inbox[j] => i = j
  BY DEF LinkInv, InOnePlace
<1>3. /\ inbox' \in Seq(DOMAIN arrived) /\ Head(inbox) \in DOMAIN arrived
      /\ Head(inbox) \in {inbox[i] : i \in DOMAIN inbox}
      /\ \A i \in DOMAIN inbox' :
            i + 1 \in DOMAIN inbox /\ inbox'[i] = inbox[i + 1] /\ inbox'[i] # Head(inbox)
      /\ {inbox'[i] : i \in DOMAIN inbox'} = {inbox[i] : i \in DOMAIN inbox} \ {Head(inbox)}
  <2>1. /\ Tail(inbox) \in Seq(DOMAIN arrived) /\ Head(inbox) \in DOMAIN arrived
        /\ Head(inbox) \in {inbox[i] : i \in DOMAIN inbox}
        /\ \A i \in DOMAIN Tail(inbox) :
              i + 1 \in DOMAIN inbox /\ Tail(inbox)[i] = inbox[i + 1] /\ Tail(inbox)[i] # Head(inbox)
        /\ {Tail(inbox)[i] : i \in DOMAIN Tail(inbox)} = {inbox[i] : i \in DOMAIN inbox} \ {Head(inbox)}
    BY <1>1, <1>2, FirstOut
  <2> QED
    BY <1>1, <2>1
<1>4. \A i, j \in DOMAIN inbox' : inbox'[i] = inbox'[j] => i = j
  <2> SUFFICES ASSUME NEW i \in DOMAIN inbox', NEW j \in DOMAIN inbox', inbox'[i] = inbox'[j]
               PROVE  i = j
    OBVIOUS
  <2>1. i \in Nat /\ j \in Nat
    BY <1>3
  <2>2. i + 1 = j + 1
    BY <1>2, <1>3
  <2> QED
    BY <2>1, <2>2
<1>5. From \in Hosts /\ From # Nobody
  <2>1. arrived[Head(inbox)] \in [from : Hosts, length : Lengths]
    BY <1>3, ElementOf, Zenon DEF LinkInv, Network
  <2> QED
    BY <2>1, HostsAssumption DEF From
<1>6. src_addr' = src_addr \/ (src_addr = Nobody /\ ~Malformed /\ src_addr' = From)
  BY DEF Receive
<1>7. ~Malformed => src_addr' # Nobody
  BY <1>5 DEF Receive
<1>8. Network'
  BY <1>1, <1>3, <1>5, <1>6 DEF LinkInv, Network
<1>9. ASSUME NEW x \in queue PROVE Fit(x)' /\ src_addr' = src_addr
  <2>1. Fit(x) /\ src_addr' = src_addr
    BY <1>6 DEF LinkInv, Fit
  <2> QED
    BY <2>1, <1>1 DEF Fit, link_direction, MayHappen, err_rate
<1>10. \A x \in queue, i \in DOMAIN inbox : x.pkt # inbox[i]
  BY DEF LinkInv, InOnePlace
<1>11. \A x \in queue : x.pkt # Head(inbox)
  BY <1>3, <1>10
<1>12. \A x \in queue, i \in DOMAIN inbox' : x.pkt # inbox'[i]
  BY <1>3, <1>10
<1> QED
  BY <1>1, <1>3, <1>4, <1>6, <1>7, <1>8, <1>9, <1>11, <1>12

LEMMA ReceivedKeeps ==
    ASSUME LinkInv, Drop \/ Forward \/ ProcessFails
    PROVE  LinkInv'
<1>1. Receive /\ queue' = queue /\ head' = head /\ pc' \in {"select", "crashed"}
  BY DEF Drop, Forward, ProcessFails, Select, pktQueue
<1>2. InOnePlace'
  <2>1. \A x, y \in queue : x.pkt = y.pkt => x = y
    BY DEF LinkInv, InOnePlace
  <2> QED
    BY <1>1, <2>1, Received DEF InOnePlace
<1>3. Network' /\ \A x \in queue : Fit(x)'
  BY <1>1, Received
<1>4. AtTheHead' /\ InPhase'
  BY <1>1 DEF LinkInv, AtTheHead, InPhase
<1> QED
  BY <1>1, <1>2, <1>3, <1>4 DEF LinkInv

(* The new slot, on a way that is simulated. *)
LEMMA NewSlotFits ==
    ASSUME LinkInv, Receive, ~Malformed, Simulated, NEW ts, NEW inverted \in Inversions,
           NEW x, x = [pkt |-> Head(inbox), ts |-> ts, direction |-> Direction, inverted |-> inverted]
    PROVE  Fit(x)'
<1>1. /\ arrived' = arrived /\ argv' = argv /\ Head(inbox) \in DOMAIN arrived
      /\ src_addr' # Nobody
  BY Received
<1>2. arrived[Head(inbox)].length \in Nat
  <2>1. arrived[Head(inbox)] \in [from : Hosts, length : Lengths]
    BY <1>1, ElementOf, Zenon DEF LinkInv, Network
  <2> QED
    BY <2>1, LengthsAssumption
<1>3. arrived[Head(inbox)].length >= MIN_PKT_LEN
  BY <1>2 DEF Malformed, MIN_PKT_LEN
<1>4. Direction \in link_direction /\ link_direction' = link_direction
  BY <1>1 DEF Simulated, link_direction
<1>5. Direction \in {"forward", "reverse"}
  BY <1>4, ArgumentsAssumption
  DEF LinkInv, Network, link_direction, LINK_FORWARD, LINK_REVERSE, LINK_BOTH_WAYS
<1>6. /\ Direction = IF From = src_addr' THEN "forward" ELSE "reverse"
      /\ From \in {src_addr', Dest}
  BY <1>5 DEF Direction
<1>7. inverted \in BOOLEAN /\ (inverted => MayHappen(err_rate)')
  BY <1>1 DEF Inversions, MayHappen, err_rate
<1> QED
  BY <1>1, <1>3, <1>4, <1>6, <1>7 DEF Fit, From

LEMMA EnqueueKeeps ==
    ASSUME LinkInv, Enqueue
    PROVE  LinkInv'
<1>1. PICK applied_delay \in AppliedDelays, inverted \in Inversions :
         PktQueue!Insert([pkt |-> Head(inbox), ts |-> Departure(applied_delay),
                          direction |-> Direction, inverted |-> inverted])
  BY DEF Enqueue
<1>2. PICK x : x = [pkt |-> Head(inbox), ts |-> Departure(applied_delay),
                    direction |-> Direction, inverted |-> inverted]
  OBVIOUS
<1>3. queue' = queue \cup {x} /\ head' \in {head, x} /\ x.pkt = Head(inbox)
  BY <1>1, <1>2 DEF PktQueue!Insert
<1>4. Receive /\ ~Malformed /\ Simulated /\ pc' = "select"
  BY DEF Enqueue, Select
<1>5. Fit(x)'
  BY <1>2, <1>4, NewSlotFits
<1>6. InOnePlace'
  <2>1. \A y, z \in queue : y.pkt = z.pkt => y = z
    BY DEF LinkInv, InOnePlace
  <2> QED
    BY <1>3, <1>4, <2>1, Received DEF InOnePlace
<1>7. Network' /\ \A y \in queue : Fit(y)'
  BY <1>4, Received
<1>8. \A y \in queue' : Fit(y)'
  BY <1>3, <1>5, <1>7
<1>9. AtTheHead' /\ InPhase'
  BY <1>3, <1>4 DEF LinkInv, AtTheHead, InPhase
<1> QED
  BY <1>6, <1>7, <1>8, <1>9 DEF LinkInv

----------------------------------------------------------------------------
(* A delayed datagram leaves, and the rest. *)
LEMMA DeliverKeeps ==
    ASSUME LinkInv, DeliverDelayed
    PROVE  LinkInv'
<1>1. /\ queue' \subseteq queue
      /\ queue' = {} => head' = NULL
      /\ queue' # {} => head' \in queue'
  BY DEF DeliverDelayed, PktQueue!Remove, PktQueue!IsMinimal
<1>2. UNCHANGED <<argv, arrived, inbox, src_addr, pc, readable>>
  BY DEF DeliverDelayed, InTurn, loopVars
<1>3. InOnePlace'
  BY <1>1, <1>2 DEF LinkInv, InOnePlace
<1>4. \A x \in queue' : Fit(x)'
  BY <1>1, <1>2 DEF LinkInv, Fit, link_direction, MayHappen, err_rate
<1>5. AtTheHead' /\ InPhase' /\ Network'
  BY <1>1, <1>2 DEF LinkInv, AtTheHead, InPhase, Network, DeliverDelayed
<1> QED
  BY <1>3, <1>4, <1>5 DEF LinkInv

LEMMA SendKeeps ==
    ASSUME LinkInv, NEW h \in Hosts, NEW length \in Lengths, HostSends(h, length)
    PROVE  /\ LinkInv'
           /\ Len(arrived') \notin DOMAIN arrived
           /\ DOMAIN arrived' = DOMAIN arrived \cup {Len(arrived')}
           /\ \A k \in DOMAIN arrived : arrived'[k] = arrived[k]
           /\ {inbox'[i] : i \in DOMAIN inbox'} = {inbox[i] : i \in DOMAIN inbox} \cup {Len(arrived')}
<1> DEFINE d == [from |-> h, length |-> length]
           n == Len(arrived')
<1>1. /\ arrived' = Append(arrived, d) /\ inbox' = Append(inbox, n)
      /\ UNCHANGED <<argv, pc, readable, queue, head, src_addr>>
      /\ pc \in {"select", "deliver", "receive"}
  BY DEF HostSends, loopVars, pktQueue
<1>2. /\ arrived' \in Seq([from : Hosts, length : Lengths])
      /\ n \notin DOMAIN arrived /\ DOMAIN arrived' = DOMAIN arrived \cup {n}
      /\ \A k \in DOMAIN arrived : arrived'[k] = arrived[k]
  BY <1>1 DEF LinkInv, Network
<1> HIDE DEF n
<1>3. /\ inbox \in Seq(DOMAIN arrived) /\ (\A i, j \in DOMAIN inbox : inbox[i] = inbox[j] => i = j)
      /\ \A i \in DOMAIN inbox : inbox[i] \in DOMAIN arrived
  BY ElementOf DEF LinkInv, Network, InOnePlace
<1>4. n \notin {inbox[i] : i \in DOMAIN inbox}
  BY <1>2, <1>3
<1>5. /\ inbox' \in Seq(DOMAIN arrived') /\ inbox' # <<>>
      /\ \A i \in DOMAIN inbox' : inbox'[i] = n \/ (i \in DOMAIN inbox /\ inbox'[i] = inbox[i])
      /\ {inbox'[i] : i \in DOMAIN inbox'} = {inbox[i] : i \in DOMAIN inbox} \cup {n}
      /\ \A i, j \in DOMAIN inbox' : inbox'[i] = inbox'[j] => i = j
  <2> DEFINE t == Append(inbox, n)
  <2>1. /\ t \in Seq(DOMAIN arrived \cup {n}) /\ t # <<>>
        /\ \A i \in DOMAIN t : t[i] = n \/ (i \in DOMAIN inbox /\ t[i] = inbox[i])
        /\ {t[i] : i \in DOMAIN t} = {inbox[i] : i \in DOMAIN inbox} \cup {n}
        /\ \A i, j \in DOMAIN t : t[i] = t[j] => i = j
    BY <1>3, <1>4, LastIn
  <2> QED
    BY <1>1, <1>2, <2>1
<1>6. \A x \in queue : x.pkt \in DOMAIN arrived
  BY DEF LinkInv, Fit
<1>7. InOnePlace'
  BY <1>1, <1>2, <1>5, <1>6 DEF LinkInv, InOnePlace
<1>8. \A x \in queue' : Fit(x)'
  BY <1>1, <1>2 DEF LinkInv, Fit, link_direction, MayHappen, err_rate
<1>9. Network' /\ AtTheHead' /\ InPhase'
  BY <1>1, <1>2, <1>5 DEF LinkInv, Network, AtTheHead, InPhase
<1> QED
  BY <1>2, <1>5, <1>7, <1>8, <1>9 DEF LinkInv, n

LEMMA EndKeeps ==
    ASSUME LinkInv, ProxyTrafficEnds
    PROVE  LinkInv'
  BY DEF LinkInv, ProxyTrafficEnds, PktQueue!Forget, Network, InOnePlace, Fit, AtTheHead, InPhase,
         network, loopVars

LEMMA StepKeeps ==
    ASSUME LinkInv, [Next]_vars
    PROVE  LinkInv'
<1>1. CASE Startup
  BY <1>1, StartupStill, StillKeeps, EndKeeps DEF Startup
<1>2. CASE SelectReturns \/ SelectInterrupted \/ SelectFails
  BY <1>2, SelectStill, StillKeeps
<1>3. CASE Delivery \/ DeliverBlocked \/ DeliverFails
  BY <1>3, DeliverStill, StillKeeps, DeliverKeeps DEF Delivery
<1>4. CASE Processing \/ ProcessFails
  BY <1>4, ReceivedKeeps, EnqueueKeeps DEF Processing
<1>5. CASE ReceiveInterrupted \/ ReceiveFails
  BY <1>5, ReceiveStill, StillKeeps
<1>6. CASE \E h \in Hosts, length \in Lengths : HostSends(h, length)
  BY <1>6, SendKeeps
<1>7. CASE ClockTicks \/ UNCHANGED vars
  BY <1>7, ClockStill, StillKeeps
<1> QED
  BY <1>1, <1>2, <1>3, <1>4, <1>5, <1>6, <1>7 DEF Next

LEMMA InitKeeps == Init => LinkInv
  BY DEF Init, LinkInv, Network, InOnePlace, AtTheHead, InPhase

(* Every datagram that came is at one place at most, and the delayed ones   *)
(* are well formed and on their way to the other end of the link.           *)
THEOREM LinkInvariant == Spec => []LinkInv
<1>1. LinkInv /\ [Next]_vars => LinkInv'
  BY StepKeeps
<1> QED
  BY InitKeeps, <1>1, PTL DEF Spec

----------------------------------------------------------------------------
(* The channel. *)
Record(k) == [id |-> k, from |-> arrived[k].from, length |-> arrived[k].length]

Transit == {Record(k) : k \in OnTheWay}

Ended == pc \in {"crashed", "exit"}

ChannelStep == [Channel!Next]_<<src_addr, Transit, sent>>

LEMMA StillRefines ==
    ASSUME Still, Ended => Ended'
    PROVE  ChannelStep
<1>1. CASE Ended'
  <2>1. OnTheWay' = {}
    BY <1>1 DEF Ended, OnTheWay
  <2>2. Transit' = {}
    BY <2>1 DEF Transit
  <2>3. Channel!Break
    BY <2>2 DEF Channel!Break, Transit, Record, Still
  <2> QED
    BY <2>3 DEF ChannelStep, Channel!Next
<1>2. CASE ~Ended' /\ ~Ended
  <2>1. OnTheWay' = OnTheWay
    BY <1>2 DEF Ended, OnTheWay, Still
  <2>2. Transit' = Transit
    BY <2>1 DEF Transit, Record, Still
  <2> QED
    BY <2>2 DEF ChannelStep, Still
<1> QED
  BY <1>1, <1>2

LEMMA OneLess ==
    ASSUME arrived' = arrived, NEW p \in OnTheWay, OnTheWay' = OnTheWay \ {p}
    PROVE  Transit' = Transit \ {Record(p)} /\ Record(p) \in Transit
<1>1. \A k, l : Record(k) = Record(l) => k = l
  <2>1. \A k : Record(k).id = k
    BY DEF Record
  <2> QED
    BY <2>1
<1>2. Transit' = {Record(k) : k \in OnTheWay \ {p}}
  BY DEF Transit, Record
<1>3. ASSUME NEW d \in Transit, d # Record(p)
      PROVE  d \in Transit'
  BY <1>2, <1>3 DEF Transit
<1>4. ASSUME NEW d \in Transit'
      PROVE  d \in Transit /\ d # Record(p)
  BY <1>1, <1>2, <1>4 DEF Transit
<1>5. Record(p) \in Transit
  BY DEF Transit
<1> QED
  BY <1>3, <1>4, <1>5

(* What Receive is for the channel, and what the loop tests of a datagram. *)
LEMMA HeadMet ==
    ASSUME LinkInv, Receive, NEW d, d = Record(Head(inbox))
    PROVE  /\ Channel!Meet(d)
           /\ d \in Transit
           /\ d.id = Head(inbox) /\ d.from = From
           /\ (d.length >= MIN_PKT_LEN) <=> ~Malformed
           /\ (d.length < MIN_PKT_LEN) <=> Malformed
           /\ Channel!Cut(d.length) = Size(Head(inbox))
           /\ d.from # Nobody
<1>1. /\ Head(inbox) \in DOMAIN arrived
      /\ Head(inbox) \in {inbox[i] : i \in DOMAIN inbox}
  BY Received
<1>2. arrived[Head(inbox)] \in [from : Hosts, length : Lengths]
  BY <1>1, ElementOf, Zenon DEF LinkInv, Network
<1>3. d.id = Head(inbox) /\ d.from = From /\ d.length = arrived[Head(inbox)].length
  BY DEF Record, From
<1>4. d.from # Nobody /\ d.length \in Nat
  BY <1>2, <1>3, HostsAssumption, LengthsAssumption DEF From
<1>5. /\ (d.length >= MIN_PKT_LEN) <=> ~Malformed
      /\ (d.length < MIN_PKT_LEN) <=> Malformed
  BY <1>3, <1>4 DEF Malformed, MIN_PKT_LEN
<1>6. Channel!Meet(d)
  BY <1>3, <1>5 DEF Receive, Channel!Meet
<1>7. Channel!Cut(d.length) = Size(Head(inbox))
  BY <1>3 DEF Channel!Cut, Size
<1>8. pc = "receive"
  BY DEF Receive
<1>9. Head(inbox) \in OnTheWay
  BY <1>1, <1>8 DEF OnTheWay
<1>10. d \in Transit
  BY <1>9 DEF Transit
<1> QED
  BY <1>3, <1>4, <1>5, <1>6, <1>7, <1>10

(* The datagram that was received is on its way no more. *)
LEMMA HeadGone ==
    ASSUME LinkInv, Receive, queue' = queue, pc' = "select"
    PROVE  Transit' = Transit \ {Record(Head(inbox))}
<1>1. /\ arrived' = arrived
      /\ {inbox'[i] : i \in DOMAIN inbox'} = {inbox[i] : i \in DOMAIN inbox} \ {Head(inbox)}
      /\ Head(inbox) \in {inbox[i] : i \in DOMAIN inbox}
      /\ \A x \in queue : x.pkt # Head(inbox)
  BY Received
<1>2. pc = "receive"
  BY DEF Receive
<1>3. Head(inbox) \in OnTheWay /\ OnTheWay' = OnTheWay \ {Head(inbox)}
  BY <1>1, <1>2 DEF OnTheWay
<1> QED
  BY <1>1, <1>3, OneLess

LEMMA DropRefines ==
    ASSUME LinkInv, Drop
    PROVE  ChannelStep
<1>1. Receive /\ queue' = queue /\ pc' = "select" /\ sent' = sent
  BY DEF Drop, Select, pktQueue
<1>2. PICK d : d = Record(Head(inbox))
  OBVIOUS
<1>3. /\ Channel!Meet(d) /\ d \in Transit /\ d.from = From /\ d.from # Nobody
      /\ (d.length < MIN_PKT_LEN) <=> Malformed
  BY <1>1, <1>2, HeadMet
<1>4. Transit' = Transit \ {d}
  BY <1>1, <1>2, HeadGone
<1>5. \/ d.length < MIN_PKT_LEN
      \/ d.from \notin {src_addr', Dest}
      \/ Channel!Way(d) \in IF MayHappen(loss_rate) THEN link_direction ELSE {}
  <2>1. CASE Malformed
    BY <1>3, <2>1
  <2>2. CASE Direction = "alien"
    BY <1>3, <2>2 DEF Direction
  <2>3. CASE Simulated /\ MayHappen(loss_rate) /\ Direction # "alien"
    BY <1>3, <2>3 DEF Simulated, Direction, Channel!Way
  <2> QED
    BY <2>1, <2>2, <2>3 DEF Drop
<1>6. Channel!Lose(d)
  BY <1>1, <1>3, <1>4, <1>5 DEF Channel!Lose, Transit, Record
<1> QED
  BY <1>3, <1>6 DEF ChannelStep, Channel!Next, Transit, Record

LEMMA ForwardRefines ==
    ASSUME LinkInv, Forward
    PROVE  ChannelStep
<1>1. /\ Receive /\ queue' = queue /\ pc' = "select"
      /\ ~Malformed /\ Direction # "alien"
  BY DEF Forward, Select, pktQueue
<1>2. PICK inverted \in Inversions : write_out(Head(inbox), Direction, inverted)
  BY DEF Forward
<1>3. PICK d : d = Record(Head(inbox))
  OBVIOUS
<1>4. /\ Channel!Meet(d) /\ d \in Transit /\ d.from = From /\ d.id = Head(inbox)
      /\ d.length >= MIN_PKT_LEN
      /\ Channel!Cut(d.length) = Size(Head(inbox))
  BY <1>1, <1>3, HeadMet
<1>5. Transit' = Transit \ {d}
  BY <1>1, <1>3, HeadGone
<1>6. /\ d.from \in {src_addr', Dest}
      /\ Direction = Channel!Way(d)
      /\ (IF Direction = "forward" THEN Dest ELSE src_addr') = Channel!OtherEnd(d)
  BY <1>1, <1>4 DEF Direction, Channel!Way, Channel!OtherEnd
<1>7. /\ inverted \in BOOLEAN
      /\ inverted => Channel!Way(d) \in IF MayHappen(err_rate) THEN link_direction ELSE {}
  BY <1>6 DEF Inversions, Simulated
<1>8. sent' = sent \cup {[id |-> d.id, to |-> Channel!OtherEnd(d), length |-> Channel!Cut(d.length),
                          inverted |-> inverted]}
  BY <1>2, <1>4, <1>6 DEF write_out
<1>9. Channel!Leave(d, inverted)
  BY <1>4, <1>5, <1>6, <1>7, <1>8 DEF Channel!Leave, Transit, Record
<1> QED
  BY <1>4, <1>7, <1>9 DEF ChannelStep, Channel!Next, Transit, Record

LEMMA EnqueueRefines ==
    ASSUME LinkInv, Enqueue
    PROVE  ChannelStep
<1>1. Receive /\ pc' = "select" /\ sent' = sent
  BY DEF Enqueue, Select
<1>2. PICK applied_delay \in AppliedDelays, inverted \in Inversions :
         PktQueue!Insert([pkt |-> Head(inbox), ts |-> Departure(applied_delay),
                          direction |-> Direction, inverted |-> inverted])
  BY DEF Enqueue
<1>3. PICK x : x = [pkt |-> Head(inbox), ts |-> Departure(applied_delay),
                    direction |-> Direction, inverted |-> inverted]
  OBVIOUS
<1>4. queue' = queue \cup {x} /\ x.pkt = Head(inbox)
  BY <1>2, <1>3 DEF PktQueue!Insert
<1>5. /\ arrived' = arrived
      /\ {inbox'[i] : i \in DOMAIN inbox'} = {inbox[i] : i \in DOMAIN inbox} \ {Head(inbox)}
      /\ Head(inbox) \in {inbox[i] : i \in DOMAIN inbox}
  BY <1>1, Received
<1>6. pc = "receive"
  BY <1>1 DEF Receive
<1>7. {y.pkt : y \in queue'} = {y.pkt : y \in queue} \cup {Head(inbox)}
  BY <1>4
<1>8. OnTheWay' = OnTheWay
  BY <1>1, <1>5, <1>6, <1>7 DEF OnTheWay
<1>9. Transit' = Transit
  BY <1>5, <1>8 DEF Transit, Record
<1>10. PICK d : d = Record(Head(inbox))
  OBVIOUS
<1>11. Channel!Meet(d) /\ d \in Transit
  BY <1>1, <1>10, HeadMet
<1>12. Channel!Delay(d)
  BY <1>1, <1>9, <1>11 DEF Channel!Delay, Transit, Record
<1> QED
  BY <1>11, <1>12 DEF ChannelStep, Channel!Next, Transit, Record

LEMMA ProcessFailsRefines ==
    ASSUME LinkInv, ProcessFails
    PROVE  ChannelStep
<1>1. Receive /\ pc' = "crashed" /\ sent' = sent
  BY DEF ProcessFails
<1>2. PICK d : d = Record(Head(inbox))
  OBVIOUS
<1>3. Channel!Meet(d) /\ d \in Transit
  BY <1>1, <1>2, HeadMet
<1>4. Transit' = {}
  BY <1>1 DEF Transit, OnTheWay
<1>5. Channel!Break
  BY <1>1, <1>3, <1>4 DEF Channel!Break, Transit, Record
<1> QED
  BY <1>5 DEF ChannelStep, Channel!Next

LEMMA DeliverRefines ==
    ASSUME LinkInv, DeliverDelayed
    PROVE  ChannelStep
<1>1. /\ UNCHANGED <<argv, pc, arrived, inbox, src_addr>>
      /\ pc = "deliver" /\ head # NULL
      /\ queue' = queue \ {head}
  BY DEF DeliverDelayed, Expired, PktQueue!Remove, InTurn
<1>2. PICK x : x = head
  OBVIOUS
<1>3. x \in queue /\ Fit(x) /\ queue' = queue \ {x}
  BY <1>1, <1>2 DEF LinkInv, AtTheHead
<1>4. /\ \A y \in queue : y.pkt = x.pkt => y = x
      /\ \A i \in DOMAIN inbox : x.pkt # inbox[i]
  BY <1>3 DEF LinkInv, InOnePlace
<1>5. {y.pkt : y \in queue'} = {y.pkt : y \in queue} \ {x.pkt}
  BY <1>3, <1>4
<1>6. x.pkt \in OnTheWay /\ OnTheWay' = OnTheWay \ {x.pkt}
  BY <1>1, <1>3, <1>4, <1>5 DEF OnTheWay
<1>7. PICK p : p = x.pkt
  OBVIOUS
<1>8. PICK d : d = Record(p)
  OBVIOUS
<1>9. Transit' = Transit \ {d} /\ d \in Transit
  BY <1>1, <1>6, <1>7, <1>8, OneLess
<1>10. /\ d.id = x.pkt /\ d.from = arrived[x.pkt].from /\ d.length = arrived[x.pkt].length
       /\ src_addr # Nobody
  BY <1>3, <1>7, <1>8 DEF Record, Fit
<1>11. Channel!Meet(d)
  BY <1>1, <1>10 DEF Channel!Meet
<1>12. /\ d.length >= MIN_PKT_LEN
       /\ d.from \in {src_addr', Dest}
       /\ Channel!Cut(d.length) = Size(x.pkt)
       /\ x.direction = Channel!Way(d)
       /\ (IF x.direction = "forward" THEN Dest ELSE src_addr') = Channel!OtherEnd(d)
  BY <1>1, <1>3, <1>10 DEF Fit, Channel!Cut, Size, Channel!Way, Channel!OtherEnd
<1>13. /\ x.inverted \in BOOLEAN
       /\ x.inverted => Channel!Way(d) \in IF MayHappen(err_rate) THEN link_direction ELSE {}
  BY <1>3, <1>12 DEF Fit
<1>14. sent' = sent \cup {[id |-> d.id, to |-> Channel!OtherEnd(d), length |-> Channel!Cut(d.length),
                           inverted |-> x.inverted]}
  BY <1>2, <1>10, <1>12 DEF DeliverDelayed, write_out
<1>15. Channel!Leave(d, x.inverted)
  BY <1>9, <1>11, <1>12, <1>13, <1>14 DEF Channel!Leave, Transit, Record
<1> QED
  BY <1>9, <1>13, <1>15 DEF ChannelStep, Channel!Next, Transit, Record

LEMMA SendRefines ==
    ASSUME LinkInv, NEW h \in Hosts, NEW length \in Lengths, HostSends(h, length)
    PROVE  ChannelStep
<1>1. PICK n : n = Len(arrived')
  OBVIOUS
<1>2. /\ n \notin DOMAIN arrived
      /\ \A k \in DOMAIN arrived : arrived'[k] = arrived[k]
      /\ {inbox'[i] : i \in DOMAIN inbox'} = {inbox[i] : i \in DOMAIN inbox} \cup {n}
  BY <1>1, SendKeeps
<1>3. /\ UNCHANGED <<pc, queue, src_addr, sent>>
      /\ pc \in {"select", "deliver", "receive"}
  BY DEF HostSends, pktQueue
<1>4. OnTheWay' = OnTheWay \cup {n}
  BY <1>2, <1>3 DEF OnTheWay
<1>5. \A k \in OnTheWay : k \in DOMAIN arrived
  <2>1. inbox \in Seq(DOMAIN arrived)
    BY DEF LinkInv, Network
  <2>2. \A i \in DOMAIN inbox : inbox[i] \in DOMAIN arrived
    BY <2>1, ElementOf
  <2>3. \A x \in queue : x.pkt \in DOMAIN arrived
    BY DEF LinkInv, Fit
  <2> QED
    BY <2>2, <2>3 DEF OnTheWay
<1>6. PICK d : d = [id |-> n, from |-> arrived'[n].from, length |-> arrived'[n].length]
  OBVIOUS
<1>7. \A k \in OnTheWay :
         Record(k) = [id |-> k, from |-> arrived'[k].from, length |-> arrived'[k].length]
  BY <1>2, <1>5 DEF Record
<1>8. Transit' = {[id |-> k, from |-> arrived'[k].from, length |-> arrived'[k].length] :
                     k \in OnTheWay \cup {n}}
  BY <1>4 DEF Transit, Record
<1>9. Transit' = Transit \cup {d}
  BY <1>6, <1>7, <1>8 DEF Transit
<1>10. d \notin Transit
  <2>1. \A k : Record(k).id = k
    BY DEF Record
  <2>2. d.id = n /\ n \notin OnTheWay
    BY <1>2, <1>5, <1>6
  <2> QED
    BY <2>1, <2>2 DEF Transit
<1>11. Channel!Enter(d)
  BY <1>3, <1>9, <1>10 DEF Channel!Enter, Transit, Record
<1>12. d \in Transit' \ Transit
  BY <1>9, <1>10
<1> QED
  BY <1>11, <1>12 DEF ChannelStep, Channel!Next, Transit, Record

LEMMA EndRefines ==
    ASSUME ProxyTrafficEnds
    PROVE  ChannelStep
<1>1. Transit' = {} /\ UNCHANGED <<src_addr, sent>>
  BY DEF Transit, OnTheWay, ProxyTrafficEnds, network
<1>2. Channel!Break
  BY <1>1 DEF Channel!Break, Transit, Record
<1> QED
  BY <1>2 DEF ChannelStep, Channel!Next

LEMMA StepRefines ==
    ASSUME LinkInv, [Next]_vars
    PROVE  ChannelStep
<1>1. CASE Startup
  <2>1. CASE ProxyTrafficEnds
    BY <2>1, EndRefines
  <2>2. CASE ShowUsage \/ ParseOptions \/ get_socket \/ GetSocketFails \/ BeginLoop \/ NoQueue
    <3>1. Still
      BY <2>2, StartupStill
    <3>2. ~Ended
      BY <2>2 DEF Ended, ShowUsage, ParseOptions, get_socket, GetSocketFails, BeginLoop, NoQueue
    <3> QED
      BY <3>1, <3>2, StillRefines
  <2> QED
    BY <1>1, <2>1, <2>2 DEF Startup
<1>2. CASE SelectReturns \/ SelectInterrupted \/ SelectFails
  <2>1. ~Ended
    BY <1>2 DEF Ended, SelectReturns, SelectInterrupted, SelectFails
  <2> QED
    BY <1>2, <2>1, SelectStill, StillRefines
<1>3. CASE NoneExpired \/ DeliverBlocked \/ DeliverFails
  <2>1. ~Ended
    BY <1>3 DEF Ended, NoneExpired, DeliverBlocked, DeliverFails
  <2> QED
    BY <1>3, <2>1, DeliverStill, StillRefines
<1>4. CASE DeliverDelayed
  BY <1>4, DeliverRefines
<1>5. CASE Processing
  BY <1>5, DropRefines, ForwardRefines, EnqueueRefines DEF Processing
<1>6. CASE ProcessFails
  BY <1>6, ProcessFailsRefines
<1>7. CASE ReceiveInterrupted \/ ReceiveFails
  <2>1. ~Ended
    BY <1>7 DEF Ended, ReceiveInterrupted, ReceiveFails
  <2> QED
    BY <1>7, <2>1, ReceiveStill, StillRefines
<1>8. CASE \E h \in Hosts, length \in Lengths : HostSends(h, length)
  BY <1>8, SendRefines
<1>9. CASE ClockTicks \/ UNCHANGED vars
  <2>1. pc' = pc
    BY <1>9 DEF ClockTicks, vars
  <2> QED
    BY <1>9, <2>1, ClockStill, StillRefines DEF Ended
<1> QED
  BY <1>1, <1>2, <1>3, <1>4, <1>5, <1>6, <1>7, <1>8, <1>9 DEF Next, Delivery

(* The arguments stay, and with them the ways that lose and alter. *)
LEMMA ArgumentsStay ==
    ASSUME [Next]_vars
    PROVE  UNCHANGED <<IF MayHappen(loss_rate) THEN link_direction ELSE {},
                       IF MayHappen(err_rate) THEN link_direction ELSE {}>>
<1> SUFFICES argv' = argv
  BY DEF MayHappen, loss_rate, err_rate, link_direction
<1>1. CASE Startup
  BY <1>1 DEF Startup, ShowUsage, ParseOptions, get_socket, GetSocketFails, BeginLoop, NoQueue,
              ProxyTrafficEnds
<1>2. CASE SelectReturns \/ SelectInterrupted \/ SelectFails
  BY <1>2 DEF SelectReturns, SelectInterrupted, SelectFails, InTurn
<1>3. CASE Delivery \/ DeliverBlocked \/ DeliverFails
  BY <1>3 DEF Delivery, DeliverDelayed, NoneExpired, DeliverBlocked, DeliverFails, EndDelivery, InTurn
<1>4. CASE Processing \/ ProcessFails \/ ReceiveInterrupted \/ ReceiveFails
  BY <1>4 DEF Processing, Drop, Forward, Enqueue, ProcessFails, Receive, ReceiveInterrupted,
              ReceiveFails, InTurn
<1>5. CASE ClockTicks \/ UNCHANGED vars \/ \E h \in Hosts, length \in Lengths : HostSends(h, length)
  BY <1>5 DEF ClockTicks, vars, HostSends
<1> QED
  BY <1>1, <1>2, <1>3, <1>4, <1>5 DEF Next

(* The simulator keeps what it announces, for any options, hosts, lengths   *)
(* and number of datagrams: no datagram leaves twice or to a third host,    *)
(* and none is lost or altered on a way where no option asked for it.       *)
THEOREM SimulatorIsLossyChannel == Spec => IsLossyChannel
<1>1. Init => Channel!Init
  BY DEF Init, Channel!Init, OnTheWay
<1>2. LinkInv /\ [Next]_vars => ChannelStep
  BY StepRefines
<1>3. [Next]_vars => UNCHANGED <<IF MayHappen(loss_rate) THEN link_direction ELSE {},
                                 IF MayHappen(err_rate) THEN link_direction ELSE {}>>
  BY ArgumentsStay
<1>4. Spec => Init /\ [][Next]_vars /\ []LinkInv
  BY LinkInvariant DEF Spec
<1> QED
  BY <1>1, <1>2, <1>3, <1>4, PTL DEF IsLossyChannel, Channel!Spec, ChannelStep, Transit, Record

----------------------------------------------------------------------------
(* Times. *)
LEMMA Division ==
    ASSUME NEW t \in Nat, NEW s \in Nat \ {0}
    PROVE  /\ t \div s \in Nat
           /\ t % s \in 0 .. s - 1
           /\ t = ((t \div s) * s) + (t % s)
<1>1. t % s \in 0 .. s - 1
  OBVIOUS
<1>2. t \div s \in Int
  OBVIOUS
<1>3. t = ((t \div s) * s) + (t % s)
  OBVIOUS
<1>4. t \div s >= 0
  BY <1>1, <1>2, <1>3
<1> QED
  BY <1>1, <1>2, <1>3, <1>4

LEMMA Rows ==
    ASSUME NEW a \in Int, NEW b \in Int, NEW s \in Nat, a < b
    PROVE  a * s \in Int /\ b * s \in Int /\ (a * s) + s <= b * s
  OBVIOUS

LEMMA Sums ==
    ASSUME NEW a \in Int, NEW b \in Int, NEW s \in Int
    PROVE  /\ a * s \in Int /\ b * s \in Int
           /\ (a + b) * s = (a * s) + (b * s)
           /\ (a - b) * s = (a * s) - (b * s)
  OBVIOUS

(* A second at least between two dates whose seconds differ, up to what     *)
(* tv_usec adds.                                                            *)
LEMMA ClockTime ==
    ASSUME NEW t \in Nat
    PROVE  /\ OfClock(t).tv_sec \in Nat /\ OfClock(t).tv_usec \in 0 .. Second - 1
           /\ OfClock(t) = [tv_sec |-> OfClock(t).tv_sec, tv_usec |-> OfClock(t).tv_usec]
           /\ t = Due(OfClock(t))
  BY Division, TimeAssumption DEF OfClock, Due

LEMMA ClockOrder ==
    ASSUME NEW t \in Nat, NEW u \in Nat, t <= u
    PROVE  ~timeval_cmp(OfClock(t), OfClock(u))
<1> DEFINE a == OfClock(t).tv_sec
           b == OfClock(u).tv_sec
           c == OfClock(t).tv_usec
           d == OfClock(u).tv_usec
<1>1. /\ a \in Nat /\ b \in Nat /\ c \in 0 .. Second - 1 /\ d \in 0 .. Second - 1
      /\ t = (a * Second) + c /\ u = (b * Second) + d
  BY ClockTime DEF Due
<1>2. timeval_cmp(OfClock(t), OfClock(u)) <=> a > b \/ (a = b /\ c > d)
  BY DEF timeval_cmp
<1> HIDE DEF a, b, c, d
<1>3. ~(a > b)
  <2> SUFFICES ASSUME b < a PROVE FALSE
    BY <1>1
  <2>1. (b * Second) + Second <= a * Second /\ b * Second \in Int /\ a * Second \in Int
    BY <1>1, Rows, TimeAssumption
  <2> QED
    BY <1>1, <2>1, TimeAssumption
<1>4. ~(a = b /\ c > d)
  <2>1. a * Second \in Int
    BY <1>1, Sums, TimeAssumption
  <2> QED
    BY <1>1, <2>1
<1> QED
  BY <1>2, <1>3, <1>4

Dates == [tv_sec : Int, tv_usec : Int]

(* timeval_cmp orders the dates, normalised or not. *)
LEMMA CompareOrders ==
    ASSUME NEW a \in Dates, NEW b \in Dates, NEW c \in Dates,
           ~timeval_cmp(a, b), ~timeval_cmp(b, c)
    PROVE  ~timeval_cmp(a, c)
  BY DEF timeval_cmp, Dates

LEMMA CompareTotal ==
    ASSUME NEW a \in Dates, NEW b \in Dates
    PROVE  /\ timeval_cmp(a, b) => ~timeval_cmp(b, a)
           /\ ~timeval_cmp(a, b) /\ ~timeval_cmp(b, a) => a = b
  BY DEF timeval_cmp, Dates

LEMMA SlotDates ==
    ASSUME NEW x \in PktSlot
    PROVE  /\ x.ts \in Timeval /\ x.ts \in Dates
           /\ x.ts.tv_sec \in Nat /\ x.ts.tv_usec \in 0 .. 2 * Second - 2
           /\ x.ts = [tv_sec |-> x.ts.tv_sec, tv_usec |-> x.ts.tv_usec]
           /\ Due(x.ts) = (x.ts.tv_sec * Second) + x.ts.tv_usec
<1>1. x.ts \in Timeval
  BY DEF PktSlot
<1>2. (Horizon + DelayCap) \div Second \in Nat
  BY Division, TimeAssumption, BoundsAssumption
<1>3. x.ts.tv_sec \in Nat /\ x.ts.tv_usec \in 0 .. 2 * Second - 2
  BY <1>1, <1>2 DEF Timeval
<1> QED
  BY <1>1, <1>3, TimeAssumption DEF Timeval, Dates, Due

(* Every timeout is at least 1, and the others end at the date of the head. *)
LEMMA Timeouts ==
    ASSUME NEW h \in PktSlot, NEW t \in Nat, last_clock = t
    PROVE  /\ get_queue_timeout(h) \in Nat \ {0}
           /\ get_queue_timeout(h) = 1 \/ t + get_queue_timeout(h) = Due(h.ts)
           /\ get_queue_timeout(h) = 1 => Due(h.ts) <= t + Second
<1> DEFINE a == h.ts.tv_sec
           b == h.ts.tv_usec
           c == OfClock(t).tv_sec
           d == OfClock(t).tv_usec
           sec == a - c
           usec == b - d
           s == Second
<1>1. /\ a \in Nat /\ b \in 0 .. 2 * s - 2 /\ c \in Nat /\ d \in 0 .. s - 1
      /\ Due(h.ts) = (a * s) + b /\ t = (c * s) + d /\ s \in Nat \ {0}
  BY SlotDates, ClockTime, TimeAssumption DEF Due
<1>2. timeval_diff(h.ts, OfClock(t)) =
         IF usec >= 0 THEN [tv_sec |-> sec, tv_usec |-> usec]
         ELSE [tv_sec |-> sec - 1, tv_usec |-> IF sec # 1 THEN usec + s ELSE usec]
  BY DEF timeval_diff
<1>3. PICK f : f = timeval_diff(h.ts, OfClock(t))
  OBVIOUS
<1>4. get_queue_timeout(h) = IF f.tv_sec < 0 \/ (f.tv_sec = 0 /\ f.tv_usec <= 0) THEN 1
                             ELSE (f.tv_sec * s) + f.tv_usec
  BY <1>3 DEF get_queue_timeout
<1> HIDE DEF a, b, c, d, s
<1>5. a * s \in Int /\ c * s \in Int /\ sec * s = (a * s) - (c * s) /\ sec \in Int /\ usec \in Int
  BY <1>1, Sums
<1>6. (sec - 1) * s = (sec * s) - s
  <2>1. 1 * s = s
    BY <1>1
  <2> QED
    BY <1>1, <1>5, <2>1, Sums
<1>7. CASE usec >= 0
  <2>1. f.tv_sec = sec /\ f.tv_usec = usec
    BY <1>2, <1>3, <1>7
  <2>2. CASE sec < 0 \/ (sec = 0 /\ usec <= 0)
    <3>1. get_queue_timeout(h) = 1
      BY <1>4, <2>1, <2>2
    <3>2. Due(h.ts) <= t + s
      <4>1. CASE sec = 0 /\ usec <= 0
        BY <1>1, <1>5, <4>1
      <4>2. CASE sec < 0
        <5>1. (sec * s) + s <= 0 * s /\ 0 * s = 0
          BY <1>1, <1>5, <4>2, Rows
        <5> QED
          BY <1>1, <1>5, <5>1
      <4> QED
        BY <2>2, <4>1, <4>2
    <3> QED
      BY <3>1, <3>2 DEF s
  <2>3. CASE ~(sec < 0 \/ (sec = 0 /\ usec <= 0))
    <3>1. get_queue_timeout(h) = (sec * s) + usec
      BY <1>4, <2>1, <2>3
    <3>2. t + ((sec * s) + usec) = Due(h.ts)
      BY <1>1, <1>5
    <3>3. (sec * s) + usec >= 1
      <4>1. CASE sec = 0
        BY <1>1, <1>5, <1>7, <2>3, <4>1
      <4>2. CASE sec > 0
        <5>1. (0 * s) + s <= sec * s /\ 0 * s = 0
          BY <1>1, <1>5, <4>2, Rows
        <5> QED
          BY <1>1, <1>5, <1>7, <5>1
      <4> QED
        BY <1>5, <2>3, <4>1, <4>2
    <3> QED
      BY <1>1, <1>5, <3>1, <3>2, <3>3 DEF s
  <2> QED
    BY <2>2, <2>3
<1>8. CASE usec < 0 /\ sec # 1
  <2>1. f.tv_sec = sec - 1 /\ f.tv_usec = usec + s
    BY <1>2, <1>3, <1>5, <1>8
  <2>2. CASE sec - 1 < 0 \/ (sec - 1 = 0 /\ usec + s <= 0)
    <3>1. get_queue_timeout(h) = 1
      BY <1>4, <2>1, <2>2
    <3>2. sec <= 0
      <4>1. sec - 1 <= 0 /\ sec # 1
        BY <1>5, <1>8, <2>2
      <4> QED
        BY <1>5, <4>1
    <3>3. sec * s <= 0
      <4>1. CASE sec = 0
        <5>1. 0 * s = 0
          BY <1>1
        <5> QED
          BY <4>1, <5>1
      <4>2. CASE sec < 0
        <5>1. (sec * s) + s <= 0 * s /\ 0 * s = 0
          BY <1>1, <1>5, <4>2, Rows
        <5> QED
          BY <1>1, <1>5, <5>1
      <4> QED
        BY <1>5, <3>2, <4>1, <4>2
    <3>4. Due(h.ts) <= t + s
      BY <1>1, <1>5, <1>8, <3>3
    <3> QED
      BY <3>1, <3>4 DEF s
  <2>3. CASE ~(sec - 1 < 0 \/ (sec - 1 = 0 /\ usec + s <= 0))
    <3>1. get_queue_timeout(h) = ((sec - 1) * s) + (usec + s)
      BY <1>4, <2>1, <2>3
    <3>2. t + (((sec - 1) * s) + (usec + s)) = Due(h.ts)
      BY <1>1, <1>5, <1>6
    <3>3. usec + s >= 1
      BY <1>1
    <3>4. (sec - 1) * s >= 0
      <4>1. sec > 1
        BY <1>5, <1>8, <2>3
      <4>2. (1 * s) + s <= sec * s /\ 1 * s = s
        BY <1>1, <1>5, <4>1, Rows
      <4> QED
        BY <1>1, <1>5, <1>6, <4>2
    <3> QED
      BY <1>1, <1>5, <1>6, <3>1, <3>2, <3>3, <3>4 DEF s
  <2> QED
    BY <2>2, <2>3
<1>9. CASE usec < 0 /\ sec = 1
  <2>1. f.tv_sec = 0 /\ f.tv_usec = usec
    BY <1>2, <1>3, <1>5, <1>9
  <2>2. get_queue_timeout(h) = 1
    BY <1>4, <1>5, <1>9, <2>1
  <2>3. 1 * s = s
    BY <1>1
  <2>4. Due(h.ts) <= t + s
    BY <1>1, <1>5, <1>9, <2>3
  <2> QED
    BY <2>2, <2>4 DEF s
<1> QED
  BY <1>5, <1>7, <1>8, <1>9

LEMMA Delays ==
    ASSUME argv \in Arguments
    PROVE  /\ AppliedDelays \subseteq 0 .. DelayCap - 1
           /\ jitter = 0 => \A a, b \in AppliedDelays : a = b
<1>1. delay \in Nat /\ jitter \in Nat
  <2>1. argv.d \in Int /\ argv.j \in Int /\ UIntRange \in Nat \ {0}
    BY ArgumentsAssumption, TimeAssumption
  <2>2. argv.d % UIntRange \in 0 .. UIntRange - 1 /\ argv.j % UIntRange \in 0 .. UIntRange - 1
    BY <2>1
  <2> QED
    BY <2>1, <2>2 DEF delay, jitter
<1>2. ASSUME NEW r \in Int
      PROVE  ((delay + r) % UIntRange) % DelayCap \in 0 .. DelayCap - 1
  <2>1. delay + r \in Int /\ UIntRange \in Nat \ {0} /\ DelayCap \in Nat \ {0}
    BY <1>1, TimeAssumption
  <2>2. (delay + r) % UIntRange \in 0 .. UIntRange - 1
    BY <2>1
  <2>3. (delay + r) % UIntRange \in Nat
    BY <2>1, <2>2
  <2> QED
    BY <2>1, <2>3, Division
<1>3. \A a \in AppliedDelays : \E r \in Int : a = ((delay + r) % UIntRange) % DelayCap
  BY <1>1 DEF AppliedDelays
<1>4. AppliedDelays \subseteq 0 .. DelayCap - 1
  BY <1>2, <1>3
<1>5. jitter = 0 => \A a, b \in AppliedDelays : a = b
  BY DEF AppliedDelays
<1> QED
  BY <1>4, <1>5

LEMMA Departures ==
    ASSUME NEW t \in 0 .. Horizon, last_clock = t, NEW a \in 0 .. DelayCap - 1
    PROVE  Departure(a) \in Timeval
<1> DEFINE s == Second
           m == Horizon + DelayCap
           q == OfClock(t).tv_sec + (a \div s)
<1>1. /\ t \in Nat /\ a \in Nat /\ m \in Nat /\ t + a <= m /\ s \in Nat \ {0}
  BY TimeAssumption, BoundsAssumption
<1>2. /\ OfClock(t).tv_sec \in Nat /\ OfClock(t).tv_usec \in 0 .. s - 1
      /\ t = (OfClock(t).tv_sec * s) + OfClock(t).tv_usec
  BY <1>1, ClockTime DEF Due
<1>3. a \div s \in Nat /\ a % s \in 0 .. s - 1 /\ a = ((a \div s) * s) + (a % s)
  BY <1>1, Division
<1>4. m \div s \in Nat /\ m % s \in 0 .. s - 1 /\ m = ((m \div s) * s) + (m % s)
  BY <1>1, Division
<1>5. Departure(a) = [tv_sec |-> q, tv_usec |-> OfClock(t).tv_usec + (a % s)]
  BY DEF Departure
<1>6. OfClock(t).tv_usec + (a % s) \in 0 .. 2 * s - 2
  BY <1>1, <1>2, <1>3
<1> DEFINE sec == OfClock(t).tv_sec
           usec == OfClock(t).tv_usec
           d == a \div s
           r == a % s
           k == m \div s
           l == m % s
<1>7. q \in Nat /\ ~(q > k)
  <2> HIDE DEF sec, usec, d, r, k, l, m, s
  <2>1. q \in Nat
    BY <1>2, <1>3 DEF sec, d
  <2>2. q * s = (sec * s) + (d * s) /\ sec * s \in Int /\ d * s \in Int
    BY <1>1, <1>2, <1>3, Sums DEF q, sec, d
  <2>3. q * s <= m
    BY <1>1, <1>2, <1>3, <2>2 DEF sec, usec, d, r
  <2>4. ASSUME k < q PROVE FALSE
    <3>1. (k * s) + s <= q * s /\ k * s \in Int
      BY <1>1, <1>4, <2>1, <2>4, Rows DEF k
    <3> QED
      BY <1>1, <1>4, <2>2, <2>3, <3>1 DEF k, l
  <2> QED
    BY <1>4, <2>1, <2>4 DEF k
<1>8. q \in 0 .. k
  BY <1>4, <1>7
<1> QED
  BY <1>5, <1>6, <1>8 DEF Timeval

(* With the same delay, what comes later departs later. *)
LEMMA DepartureOrder ==
    ASSUME NEW t \in Nat, NEW u \in Nat, t <= u, last_clock = t, last_clock' = u,
           NEW a \in Nat, argv' = argv
    PROVE  /\ Departure(a) \in Dates /\ Departure(a)' \in Dates
           /\ ~timeval_cmp(Departure(a), Departure(a)')
<1>1. a \div Second \in Nat /\ a % Second \in Nat
  BY Division, TimeAssumption
<1>2. /\ OfClock(t).tv_sec \in Nat /\ OfClock(t).tv_usec \in Nat
      /\ OfClock(u).tv_sec \in Nat /\ OfClock(u).tv_usec \in Nat
  BY ClockTime
<1>3. ~timeval_cmp(OfClock(t), OfClock(u))
  BY ClockOrder
<1>4. /\ Departure(a).tv_sec = OfClock(t).tv_sec + (a \div Second)
      /\ Departure(a).tv_usec = OfClock(t).tv_usec + (a % Second)
      /\ Departure(a)'.tv_sec = OfClock(u).tv_sec + (a \div Second)
      /\ Departure(a)'.tv_usec = OfClock(u).tv_usec + (a % Second)
  BY DEF Departure
<1>5. Departure(a) \in Dates /\ Departure(a)' \in Dates
  BY <1>1, <1>2, <1>4 DEF Departure, Dates
<1>6. ~timeval_cmp(Departure(a), Departure(a)')
  BY <1>1, <1>2, <1>3, <1>4 DEF timeval_cmp
<1> QED
  BY <1>5, <1>6

----------------------------------------------------------------------------
(* The invariant behind the properties of time. *)

HeadFirst == queue # {} => PktQueue!IsMinimal(head, queue)

(* The queue holds what came before the inbox. *)
Fifo ==
    /\ \A i, j \in DOMAIN inbox : i < j => inbox[i] < inbox[j]
    /\ \A x \in queue, i \in DOMAIN inbox : x.pkt < inbox[i]

(* Without jitter, what came first departs first, and what comes now would  *)
(* depart last.                                                            *)
InOrder ==
    jitter = 0 =>
        /\ \A x, y \in queue : y.pkt < x.pkt => ~timeval_cmp(y.ts, x.ts)
        /\ \A x \in queue, a \in AppliedDelays : ~timeval_cmp(x.ts, Departure(a))

(* After Horizon, the clock waits for the socket to be read. *)
Quiet == now > Horizon => inbox = <<>>

TimeInv == TypeOK /\ HeadFirst /\ Fifo /\ InOrder /\ Quiet

LEMMA InitTimes == Init => TimeInv
<1> SUFFICES ASSUME Init PROVE TimeInv
  OBVIOUS
<1>1. TypeOK
  <2>1. arrived \in Seq([from : Hosts, length : Lengths]) /\ Len(arrived) = 0
    BY DEF Init
  <2>2. inbox \in Seq(Rank) /\ Len(inbox) = 0
    BY DEF Init
  <2>3. now \in Nat /\ last_clock \in 0 .. now
    BY DEF Init
  <2>4. Len(arrived) <= MaxDatagrams /\ Len(inbox) <= InboxCapacity
    BY <2>1, <2>2, BoundsAssumption
  <2>5. /\ readable \in BOOLEAN /\ queue \subseteq PktSlot /\ sent \subseteq Sent
        /\ wake \in Nat \cup {NULL} /\ src_addr \in Hosts \cup {Nobody}
    BY DEF Init
  <2> QED
    BY <2>1, <2>2, <2>3, <2>4, <2>5 DEF Init, TypeOK
<1> QED
  BY <1>1 DEF Init, TimeInv, HeadFirst, Fifo, InOrder, Quiet

LEMMA Selected ==
    ASSUME TypeOK, UNCHANGED <<now, last_clock>>, Select,
           queue' \subseteq PktSlot, IF queue' = {} THEN head' = NULL ELSE head' \in queue'
    PROVE  pc' = "select" /\ readable' = FALSE /\ wake' \in Nat \cup {NULL}
<1>1. PICK h : h = head'
  OBVIOUS
<1>2. /\ pc' = "select" /\ readable' = FALSE
      /\ wake' = IF h = NULL THEN NULL ELSE now + get_queue_timeout(h)
  BY <1>1 DEF Select, get_queue_timeout, timeval_diff, OfClock
<1>3. CASE h = NULL
  BY <1>2, <1>3
<1>4. CASE h # NULL
  <2>1. h \in PktSlot /\ last_clock \in Nat /\ now \in Nat
    BY <1>1, <1>4 DEF TypeOK
  <2>2. PICK t : t = last_clock
    OBVIOUS
  <2>3. get_queue_timeout(h) \in Nat
    BY <2>1, <2>2, Timeouts
  <2> QED
    BY <1>2, <1>4, <2>1, <2>3
<1> QED
  BY <1>3, <1>4

(* Time goes on, and the phase changes. *)
LEMMA StillTimes ==
    ASSUME LinkInv, TimeInv, Still,
           pc' \in {"main", "socket", "queue", "select", "deliver", "receive", "crashed", "exit"},
           sfd' \in {"none", "open", "closed"}, readable' \in BOOLEAN, wake' \in Nat \cup {NULL},
           now' \in Nat, last_clock' \in 0 .. now', last_clock <= last_clock',
           now' = now \/ now' <= Horizon \/ inbox = <<>>
    PROVE  TimeInv'
<1>1. TypeOK'
  BY DEF TimeInv, TypeOK, Still
<1>2. HeadFirst' /\ Fifo'
  BY DEF TimeInv, HeadFirst, Fifo, Still, PktQueue!IsMinimal
<1>3. Quiet'
  BY BoundsAssumption DEF TimeInv, TypeOK, Quiet, Still
<1>4. InOrder'
  <2> SUFFICES ASSUME jitter' = 0
               PROVE  /\ \A x, y \in queue : y.pkt < x.pkt => ~timeval_cmp(y.ts, x.ts)
                      /\ \A x \in queue, a \in AppliedDelays' : ~timeval_cmp(x.ts, Departure(a)')
    BY DEF InOrder, Still
  <2>1. jitter = 0 /\ AppliedDelays' = AppliedDelays
    BY DEF Still, jitter, delay, AppliedDelays
  <2>2. ASSUME NEW x \in queue, NEW a \in AppliedDelays
        PROVE  ~timeval_cmp(x.ts, Departure(a)')
    <3>1. ~timeval_cmp(x.ts, Departure(a))
      BY <2>1, <2>2 DEF TimeInv, InOrder
    <3>2. PICK t : t = last_clock
      OBVIOUS
    <3>3. PICK u : u = last_clock'
      OBVIOUS
    <3>4. a \in Nat /\ t \in Nat /\ u \in Nat /\ t <= u
      BY <2>2, <3>2, <3>3, Delays, TimeAssumption DEF TimeInv, TypeOK
    <3>5. /\ Departure(a) \in Dates /\ Departure(a)' \in Dates
          /\ ~timeval_cmp(Departure(a), Departure(a)')
      BY <3>2, <3>3, <3>4, DepartureOrder DEF Still
    <3>6. x.ts \in Dates
      BY SlotDates DEF TimeInv, TypeOK
    <3> QED
      BY <3>1, <3>5, <3>6, CompareOrders
  <2> QED
    BY <2>1, <2>2 DEF TimeInv, InOrder
<1> QED
  BY <1>1, <1>2, <1>3, <1>4 DEF TimeInv

LEMMA StartupTimes ==
    ASSUME LinkInv, TimeInv,
           ShowUsage \/ ParseOptions \/ get_socket \/ GetSocketFails \/ BeginLoop \/ NoQueue
    PROVE  TimeInv'
<1>1. Still
  BY StartupStill
<1>2. CASE ShowUsage \/ ParseOptions \/ get_socket \/ GetSocketFails \/ NoQueue
  <2>1. /\ pc' \in {"socket", "queue", "exit"} /\ sfd' \in {"none", "open", "closed"}
        /\ UNCHANGED <<now, last_clock, wake, readable>>
    BY <1>2 DEF TimeInv, TypeOK, ShowUsage, ParseOptions, get_socket, GetSocketFails, NoQueue, NoTraffic
  <2> QED
    BY <1>1, <2>1, StillTimes DEF TimeInv, TypeOK
<1>3. CASE BeginLoop
  <2>1. head = NULL
    BY <1>3 DEF BeginLoop, LinkInv, InPhase, TimeInv, TypeOK
  <2>2. /\ pc' = "select" /\ readable' = FALSE /\ wake' = NULL
        /\ now' = now /\ last_clock' = now /\ sfd' = sfd
    BY <1>3, <2>1 DEF BeginLoop, Select, pktQueue
  <2>3. /\ sfd' \in {"none", "open", "closed"} /\ now' \in Nat
        /\ last_clock' \in 0 .. now' /\ last_clock <= last_clock'
    BY <2>2 DEF TimeInv, TypeOK
  <2> QED
    BY <1>1, <2>2, <2>3, StillTimes
<1> QED
  BY <1>2, <1>3

LEMMA SelectTimes ==
    ASSUME LinkInv, TimeInv,
           SelectReturns \/ SelectInterrupted \/ SelectFails \/ NoneExpired \/ DeliverBlocked
           \/ DeliverFails \/ ReceiveInterrupted \/ ReceiveFails
    PROVE  TimeInv'
<1>1. Still
  BY SelectStill, DeliverStill, ReceiveStill
<1>2. sfd' = sfd /\ now' = now
  BY DEF SelectReturns, SelectInterrupted, SelectFails, NoneExpired, DeliverBlocked, DeliverFails,
         ReceiveInterrupted, ReceiveFails, EndDelivery, InTurn
<1>3. CASE SelectReturns
  <2>1. pc' = "deliver" /\ readable' \in BOOLEAN /\ last_clock' = now /\ wake' = NULL
    BY <1>3 DEF SelectReturns
  <2> QED
    BY <1>1, <1>2, <2>1, StillTimes DEF TimeInv, TypeOK
<1>4. CASE SelectFails \/ DeliverFails \/ ReceiveFails
  <2>1. pc' = "crashed" /\ UNCHANGED <<last_clock, wake, readable>>
    BY <1>4 DEF SelectFails, DeliverFails, ReceiveFails, loopVars
  <2> QED
    BY <1>1, <1>2, <2>1, StillTimes DEF TimeInv, TypeOK
<1>5. CASE Select /\ last_clock' = last_clock
  <2>1. TypeOK /\ queue' = queue /\ head' = head /\ UNCHANGED <<now, last_clock>>
    BY <1>1, <1>2, <1>5 DEF TimeInv, Still
  <2>2. queue' \subseteq PktSlot /\ IF queue' = {} THEN head' = NULL ELSE head' \in queue'
    BY <2>1 DEF TypeOK
  <2>3. pc' = "select" /\ readable' = FALSE /\ wake' \in Nat \cup {NULL}
    BY <1>5, <2>1, <2>2, Selected
  <2>4. /\ sfd' \in {"none", "open", "closed"} /\ now' \in Nat
        /\ last_clock' \in 0 .. now' /\ last_clock <= last_clock'
    BY <1>2, <2>1 DEF TypeOK
  <2> QED
    BY <1>1, <1>2, <2>3, <2>4, StillTimes
<1>6. CASE (NoneExpired \/ DeliverBlocked) /\ readable
  <2>1. pc' = "receive" /\ UNCHANGED <<last_clock, wake, readable>>
    BY <1>6 DEF NoneExpired, DeliverBlocked, EndDelivery
  <2> QED
    BY <1>1, <1>2, <2>1, StillTimes DEF TimeInv, TypeOK
<1>7. \/ SelectReturns \/ SelectFails \/ DeliverFails \/ ReceiveFails
      \/ Select /\ last_clock' = last_clock
      \/ (NoneExpired \/ DeliverBlocked) /\ readable
  BY DEF SelectInterrupted, NoneExpired, DeliverBlocked, ReceiveInterrupted, EndDelivery
<1> QED
  BY <1>3, <1>4, <1>5, <1>6, <1>7

LEMMA ClockTimes ==
    ASSUME LinkInv, TimeInv, ClockTicks \/ UNCHANGED vars
    PROVE  TimeInv'
<1>1. Still
  BY ClockStill
<1>2. CASE ClockTicks
  <2>1. /\ now' = now + 1 /\ UNCHANGED <<pc, sfd, last_clock, wake, readable>>
        /\ now < Horizon \/ inbox = <<>>
    BY <1>2 DEF ClockTicks, loopVars
  <2>2. /\ now' \in Nat /\ last_clock' \in 0 .. now' /\ last_clock <= last_clock'
        /\ now' <= Horizon \/ inbox = <<>>
    BY <2>1, BoundsAssumption DEF TimeInv, TypeOK
  <2> QED
    BY <1>1, <2>1, <2>2, StillTimes DEF TimeInv, TypeOK
<1>3. CASE UNCHANGED vars
  <2>1. UNCHANGED <<now, pc, sfd, last_clock, wake, readable>>
    BY <1>3 DEF vars, loopVars
  <2> QED
    BY <1>1, <2>1, StillTimes DEF TimeInv, TypeOK
<1> QED
  BY <1>2, <1>3

LEMMA ReceivedTimes ==
    ASSUME LinkInv, TimeInv, Receive
    PROVE  /\ now <= Horizon /\ Head(inbox) \in Rank
           /\ inbox' \in Seq(Rank) /\ Len(inbox') <= InboxCapacity
           /\ \A i, j \in DOMAIN inbox' : i < j => inbox'[i] < inbox'[j]
           /\ \A i \in DOMAIN inbox' : Head(inbox) < inbox'[i]
           /\ \A x \in queue : x.pkt < Head(inbox)
           /\ \A x \in queue, i \in DOMAIN inbox' : x.pkt < inbox'[i]
           /\ UNCHANGED <<argv, sfd, now, last_clock, arrived>>
<1>1. /\ inbox # <<>> /\ inbox' = Tail(inbox) /\ UNCHANGED <<argv, sfd, now, last_clock, arrived>>
  BY DEF Receive, InTurn, LinkInv, InPhase
<1>2. now <= Horizon
  BY <1>1, BoundsAssumption DEF TimeInv, TypeOK, Quiet
<1>3. PICK s \in Seq(Rank) : s = inbox
  BY DEF TimeInv, TypeOK
<1>4. /\ Len(s) \in Nat \ {0} /\ DOMAIN s = 1 .. Len(s) /\ Head(s) = s[1]
      /\ Tail(s) \in Seq(Rank) /\ Len(Tail(s)) = Len(s) - 1 /\ DOMAIN Tail(s) = 1 .. Len(s) - 1
      /\ \A i \in 1 .. Len(s) - 1 : Tail(s)[i] = s[i + 1]
      /\ s[1] \in Rank
  BY <1>1, <1>3
<1>5. \A i \in 1 .. Len(s) - 1 : i \in Nat /\ i + 1 \in DOMAIN s /\ 1 < i + 1 /\ 1 \in DOMAIN s
  BY <1>4
<1>6. \A i, j \in DOMAIN s : i < j => s[i] < s[j]
  BY <1>3 DEF TimeInv, Fifo
<1>7. \A x \in queue, i \in DOMAIN s : x.pkt < s[i]
  BY <1>3 DEF TimeInv, Fifo
<1>8. \A i, j \in DOMAIN Tail(s) : i < j => Tail(s)[i] < Tail(s)[j]
  <2> SUFFICES ASSUME NEW i \in 1 .. Len(s) - 1, NEW j \in 1 .. Len(s) - 1, i < j
               PROVE  Tail(s)[i] < Tail(s)[j]
    BY <1>4
  <2>1. i + 1 \in DOMAIN s /\ j + 1 \in DOMAIN s /\ i + 1 < j + 1
    BY <1>5
  <2> QED
    BY <1>4, <1>6, <2>1
<1>9. \A i \in DOMAIN Tail(s) : Head(s) < Tail(s)[i]
  BY <1>4, <1>5, <1>6
<1>10. \A x \in queue : x.pkt < Head(s)
  <2>1. 1 \in DOMAIN s
    BY <1>4
  <2> QED
    BY <1>4, <1>7, <2>1
<1>11. \A x \in queue, i \in DOMAIN Tail(s) : x.pkt < Tail(s)[i]
  BY <1>4, <1>5, <1>7
<1>12. Len(Tail(s)) <= InboxCapacity
  BY <1>3, <1>4, BoundsAssumption DEF TimeInv, TypeOK
<1> QED
  BY <1>1, <1>2, <1>3, <1>4, <1>8, <1>9, <1>10, <1>11, <1>12

(* What leaves. *)
LEMMA SentTyped ==
    ASSUME TypeOK, NEW p \in Rank, p \in DOMAIN arrived, NEW direction, NEW inverted \in BOOLEAN,
           src_addr' \in Hosts, write_out(p, direction, inverted)
    PROVE  sent' \subseteq Sent
<1>1. arrived[p].length \in Nat
  <2>1. arrived[p] \in [from : Hosts, length : Lengths]
    BY ElementOf, Zenon DEF TypeOK
  <2> QED
    BY <2>1, LengthsAssumption
<1>2. Size(p) \in 0 .. MAX_PKT_LEN
  BY <1>1 DEF Size, MAX_PKT_LEN
<1>3. (IF direction = "forward" THEN Dest ELSE src_addr') \in Hosts
  BY HostsAssumption
<1>4. sent \subseteq Sent
  BY DEF TypeOK
<1> QED
  BY <1>2, <1>3, <1>4 DEF write_out, Sent

LEMMA ForwardTimes ==
    ASSUME LinkInv, TimeInv, Drop \/ Forward \/ ProcessFails
    PROVE  TimeInv'
<1>1. /\ Receive /\ UNCHANGED <<queue, head>>
      /\ \/ Select
         \/ pc' = "crashed" /\ UNCHANGED <<wake, readable>>
  BY DEF Drop, Forward, ProcessFails, pktQueue
<1>2. /\ now <= Horizon /\ Head(inbox) \in Rank
      /\ inbox' \in Seq(Rank) /\ Len(inbox') <= InboxCapacity
      /\ UNCHANGED <<argv, sfd, now, last_clock, arrived>>
  BY <1>1, ReceivedTimes
<1>3. Network' /\ Head(inbox) \in DOMAIN arrived
  BY <1>1, Received
<1>4. sent' \subseteq Sent
  <2>1. CASE Drop \/ ProcessFails
    BY <2>1 DEF Drop, ProcessFails, TimeInv, TypeOK
  <2>2. CASE Forward
    <3>1. PICK inverted \in Inversions : write_out(Head(inbox), Direction, inverted)
      BY <2>2 DEF Forward
    <3>2. ~Malformed
      BY <2>2 DEF Forward
    <3>3. src_addr' \in Hosts
      BY <1>1, <1>3, <3>2, Received DEF Network
    <3>4. inverted \in BOOLEAN
      BY DEF Inversions
    <3> QED
      BY <1>2, <1>3, <3>1, <3>3, <3>4, SentTyped DEF TimeInv
  <2> QED
    BY <2>1, <2>2
<1>5. pc' \in {"select", "crashed"} /\ readable' \in BOOLEAN /\ wake' \in Nat \cup {NULL}
  <2>1. CASE Select
    <3>1. queue' \subseteq PktSlot /\ IF queue' = {} THEN head' = NULL ELSE head' \in queue'
      BY <1>1 DEF TimeInv, TypeOK
    <3> QED
      BY <1>2, <2>1, <3>1, Selected DEF TimeInv
  <2>2. CASE pc' = "crashed" /\ UNCHANGED <<wake, readable>>
    BY <2>2 DEF TimeInv, TypeOK
  <2> QED
    BY <1>1, <2>1, <2>2
<1>6. TypeOK'
  BY <1>1, <1>2, <1>3, <1>4, <1>5 DEF TimeInv, TypeOK, Network
<1>7. HeadFirst'
  BY <1>1 DEF TimeInv, HeadFirst, PktQueue!IsMinimal
<1>8. Fifo'
  BY <1>1, ReceivedTimes DEF Fifo
<1>9. InOrder'
  BY <1>1, <1>2 DEF TimeInv, InOrder, jitter, AppliedDelays, delay, Departure
<1>10. Quiet'
  BY <1>2, BoundsAssumption DEF Quiet, TimeInv, TypeOK
<1> QED
  BY <1>6, <1>7, <1>8, <1>9, <1>10 DEF TimeInv

LEMMA Compared ==
    ASSUME NEW x \in PktSlot, NEW y \in PktSlot
    PROVE  <<x, y>> \in pkt_slot_cmp <=> timeval_cmp(x.ts, y.ts)
  BY DEF pkt_slot_cmp

LEMMA EnqueueTimes ==
    ASSUME LinkInv, TimeInv, Enqueue
    PROVE  TimeInv'
<1>1. PICK d \in AppliedDelays, inverted \in Inversions :
         PktQueue!Insert([pkt |-> Head(inbox), ts |-> Departure(d),
                          direction |-> Direction, inverted |-> inverted])
  BY DEF Enqueue
<1>2. PICK x : x = [pkt |-> Head(inbox), ts |-> Departure(d),
                    direction |-> Direction, inverted |-> inverted]
  OBVIOUS
<1>3. /\ Receive /\ ~Malformed /\ Simulated /\ sent' = sent /\ Select
  BY DEF Enqueue
<1>4. /\ now <= Horizon /\ Head(inbox) \in Rank
      /\ inbox' \in Seq(Rank) /\ Len(inbox') <= InboxCapacity
      /\ UNCHANGED <<argv, sfd, now, last_clock, arrived>>
      /\ \A y \in queue : y.pkt < x.pkt
      /\ Network'
  BY <1>2, <1>3, ReceivedTimes, Received
<1>5. x \in PktSlot
  <2>1. Direction \in LINK_BOTH_WAYS
    BY <1>3, <1>4, ArgumentsAssumption
    DEF TimeInv, TypeOK, Simulated, link_direction, LINK_BOTH_WAYS, LINK_FORWARD, LINK_REVERSE
  <2>2. Departure(d) \in Timeval
    <3>1. PICK t : t = last_clock
      OBVIOUS
    <3>2. t \in 0 .. Horizon
      BY <1>4, <3>1, BoundsAssumption DEF TimeInv, TypeOK
    <3>3. d \in 0 .. DelayCap - 1
      BY <1>1, Delays DEF TimeInv, TypeOK
    <3> QED
      BY <3>1, <3>2, <3>3, Departures
  <2>3. inverted \in BOOLEAN
    BY DEF Inversions
  <2> QED
    BY <1>2, <1>4, <2>1, <2>2, <2>3 DEF PktSlot
<1>6. /\ queue' = queue \cup {x} /\ x.ts = Departure(d) /\ x.pkt = Head(inbox) /\ x.pkt \in Nat
      /\ head' = IF queue = {} \/ <<head, x>> \in pkt_slot_cmp THEN x ELSE head
  BY <1>1, <1>2, <1>4 DEF PktQueue!Insert, Rank
<1>7. queue \subseteq PktSlot /\ IF queue = {} THEN head = NULL ELSE head \in queue
  BY DEF TimeInv, TypeOK
<1>8. x.ts \in Dates /\ \A y \in queue : y.ts \in Dates
  BY <1>5, <1>7, SlotDates
<1>9. ~timeval_cmp(x.ts, x.ts)
  BY <1>8, CompareTotal
<1>10. queue' \subseteq PktSlot /\ head' \in queue'
  BY <1>5, <1>6, <1>7
<1>11. HeadFirst'
  <2>1. ASSUME queue # {} PROVE \A y \in queue : ~timeval_cmp(head.ts, y.ts)
    BY <1>7, <2>1, Compared DEF TimeInv, HeadFirst, PktQueue!IsMinimal
  <2>2. PICK h : h = head'
    OBVIOUS
  <2>3. ASSUME NEW y \in queue' PROVE ~timeval_cmp(h.ts, y.ts)
    <3>1. CASE queue = {}
      BY <1>6, <1>9, <2>2, <3>1
    <3>2. CASE queue # {} /\ <<head, x>> \in pkt_slot_cmp
      <4>1. h = x /\ timeval_cmp(head.ts, x.ts) /\ head \in queue
        BY <1>5, <1>6, <1>7, <2>2, <3>2, Compared
      <4>2. ~timeval_cmp(x.ts, head.ts)
        BY <1>8, <4>1, CompareTotal
      <4>3. CASE y \in queue
        BY <1>8, <2>1, <3>2, <4>1, <4>2, <4>3, CompareOrders
      <4> QED
        BY <1>6, <1>9, <4>1, <4>3
    <3>3. CASE queue # {} /\ <<head, x>> \notin pkt_slot_cmp
      <4>1. h = head /\ ~timeval_cmp(head.ts, x.ts)
        BY <1>5, <1>6, <1>7, <2>2, <3>3, Compared
      <4> QED
        BY <1>6, <2>1, <3>3, <4>1
    <3> QED
      BY <3>1, <3>2, <3>3
  <2>4. \A y \in queue' : <<h, y>> \notin pkt_slot_cmp
    BY <1>10, <2>2, <2>3, Compared
  <2>5. pkt_slot_cmp' = pkt_slot_cmp
    BY DEF pkt_slot_cmp, timeval_cmp
  <2> QED
    BY <1>10, <2>2, <2>4, <2>5 DEF HeadFirst, PktQueue!IsMinimal
<1>12. InOrder'
  <2> SUFFICES ASSUME jitter' = 0
               PROVE  /\ \A y, z \in queue' : z.pkt < y.pkt => ~timeval_cmp(z.ts, y.ts)
                      /\ \A y \in queue', a \in AppliedDelays' : ~timeval_cmp(y.ts, Departure(a)')
    BY DEF InOrder
  <2>1. jitter = 0 /\ AppliedDelays' = AppliedDelays /\ \A a : Departure(a)' = Departure(a)
    BY <1>4 DEF jitter, delay, AppliedDelays, Departure
  <2>2. /\ \A y, z \in queue : z.pkt < y.pkt => ~timeval_cmp(z.ts, y.ts)
        /\ \A y \in queue, a \in AppliedDelays : ~timeval_cmp(y.ts, Departure(a))
    BY <2>1 DEF TimeInv, InOrder
  <2>3. \A a \in AppliedDelays : Departure(a) = x.ts
    BY <1>1, <1>6, <2>1, Delays DEF TimeInv, TypeOK
  <2>4. \A y \in queue : y.pkt \in Nat
    BY <1>7 DEF PktSlot, Rank
  <2>5. ASSUME NEW y \in queue', NEW z \in queue', z.pkt < y.pkt
        PROVE  ~timeval_cmp(z.ts, y.ts)
    <3>1. z \in queue
      BY <1>4, <1>6, <2>4, <2>5
    <3>2. CASE y \in queue
      BY <2>2, <2>5, <3>1, <3>2
    <3>3. CASE y = x
      BY <1>1, <2>2, <2>3, <3>1, <3>3
    <3> QED
      BY <1>6, <3>2, <3>3
  <2>6. \A y \in queue', a \in AppliedDelays : ~timeval_cmp(y.ts, Departure(a))
    BY <1>6, <1>9, <2>2, <2>3
  <2> QED
    BY <2>1, <2>5, <2>6
<1>13. Fifo'
  BY <1>3, <1>6, ReceivedTimes DEF Fifo
<1>14. TypeOK'
  <2>1. pc' = "select" /\ readable' = FALSE /\ wake' \in Nat \cup {NULL}
    <3>1. IF queue' = {} THEN head' = NULL ELSE head' \in queue'
      BY <1>10
    <3> QED
      BY <1>3, <1>4, <1>10, <3>1, Selected DEF TimeInv
  <2> QED
    BY <1>3, <1>4, <1>10, <2>1 DEF TimeInv, TypeOK, Network
<1>15. Quiet'
  BY <1>4, BoundsAssumption DEF Quiet, TimeInv, TypeOK
<1> QED
  BY <1>11, <1>12, <1>13, <1>14, <1>15 DEF TimeInv

LEMMA DeliverTimes ==
    ASSUME LinkInv, TimeInv, DeliverDelayed
    PROVE  TimeInv'
<1>1. /\ queue' = queue \ {head} /\ queue # {}
      /\ IF queue' = {} THEN head' = NULL
         ELSE \E x \in queue' : PktQueue!IsMinimal(x, queue') /\ head' = x
      /\ UNCHANGED <<argv, sfd, now, pc, last_clock, wake, readable, arrived, inbox, src_addr>>
      /\ write_out(head.pkt, head.direction, head.inverted)
  BY DEF DeliverDelayed, PktQueue!Remove, InTurn, loopVars
<1>2. sent' \subseteq Sent
  <2>1. PICK x : x = head
    OBVIOUS
  <2>2. x \in queue /\ x \in PktSlot
    BY <1>1, <2>1 DEF TimeInv, TypeOK
  <2>3. x.pkt \in Rank /\ x.inverted \in BOOLEAN /\ x.pkt \in DOMAIN arrived /\ src_addr # Nobody
    BY <2>2 DEF LinkInv, Fit, PktSlot
  <2>4. src_addr' \in Hosts
    BY <1>1, <2>3 DEF TimeInv, TypeOK
  <2>5. write_out(x.pkt, x.direction, x.inverted)
    BY <1>1, <2>1
  <2> QED
    BY <2>3, <2>4, <2>5, SentTyped DEF TimeInv
<1>3. TypeOK'
  <2>1. queue' \subseteq PktSlot /\ IF queue' = {} THEN head' = NULL ELSE head' \in queue'
    BY <1>1 DEF TimeInv, TypeOK
  <2> QED
    BY <1>1, <1>2, <2>1 DEF TimeInv, TypeOK
<1>4. HeadFirst'
  <2>1. pkt_slot_cmp' = pkt_slot_cmp
    BY DEF pkt_slot_cmp, timeval_cmp
  <2> QED
    BY <1>1, <2>1 DEF HeadFirst, PktQueue!IsMinimal
<1>5. Fifo' /\ Quiet'
  BY <1>1 DEF TimeInv, Fifo, Quiet
<1>6. InOrder'
  BY <1>1 DEF TimeInv, InOrder, jitter, delay, AppliedDelays, Departure
<1> QED
  BY <1>3, <1>4, <1>5, <1>6 DEF TimeInv

LEMMA SendTimes ==
    ASSUME LinkInv, TimeInv, NEW h \in Hosts, NEW length \in Lengths, HostSends(h, length)
    PROVE  TimeInv'
<1>1. /\ now < Horizon /\ Len(arrived) < MaxDatagrams /\ Len(inbox) < InboxCapacity
      /\ arrived' = Append(arrived, [from |-> h, length |-> length])
      /\ inbox' = Append(inbox, Len(arrived'))
      /\ UNCHANGED <<argv, pc, sfd, now, last_clock, wake, readable, queue, head, src_addr, sent>>
  BY DEF HostSends, loopVars, pktQueue
<1>2. PICK n : n = Len(arrived')
  OBVIOUS
<1>3. PICK s : s = inbox
  OBVIOUS
<1>4. /\ Len(arrived) \in Nat /\ n = Len(arrived) + 1 /\ n \in Rank
      /\ arrived' \in Seq([from : Hosts, length : Lengths])
      /\ DOMAIN arrived = 1 .. Len(arrived)
  BY <1>1, <1>2, BoundsAssumption DEF TimeInv, TypeOK, Rank
<1>5. s \in Seq(Rank) /\ s \in Seq(DOMAIN arrived) /\ Len(s) < InboxCapacity
  BY <1>1, <1>3 DEF LinkInv, Network, TimeInv, TypeOK
<1>6. /\ Append(s, n) \in Seq(Rank) /\ Len(Append(s, n)) = Len(s) + 1 /\ Len(s) \in Nat
      /\ DOMAIN s = 1 .. Len(s)
      /\ DOMAIN Append(s, n) = 1 .. Len(s) + 1
      /\ \A i \in 1 .. Len(s) : Append(s, n)[i] = s[i]
      /\ Append(s, n)[Len(s) + 1] = n
  BY <1>4, <1>5
<1>7. inbox' = Append(s, n)
  BY <1>1, <1>2, <1>3
<1>8. n \in Nat /\ \A k \in DOMAIN arrived : k < n
  BY <1>4
<1>9. \A i \in 1 .. Len(s) : s[i] < n
  <2>1. \A i \in DOMAIN s : s[i] \in DOMAIN arrived
    BY <1>5, ElementOf
  <2> QED
    BY <1>6, <1>8, <2>1
<1>10. \A i, j \in 1 .. Len(s) + 1 : i < j => Append(s, n)[i] < Append(s, n)[j]
  <2> SUFFICES ASSUME NEW i \in 1 .. Len(s) + 1, NEW j \in 1 .. Len(s) + 1, i < j
               PROVE  Append(s, n)[i] < Append(s, n)[j]
    OBVIOUS
  <2>1. i \in 1 .. Len(s)
    BY <1>6
  <2>2. CASE j = Len(s) + 1
    BY <1>6, <1>9, <2>1, <2>2
  <2>3. CASE j \in 1 .. Len(s)
    <3>1. s[i] < s[j]
      BY <1>3, <1>6, <2>1, <2>3 DEF TimeInv, Fifo
    <3> QED
      BY <1>6, <2>1, <2>3, <3>1
  <2> QED
    BY <1>6, <2>2, <2>3
<1>11. \A x \in queue, i \in 1 .. Len(s) + 1 : x.pkt < Append(s, n)[i]
  <2> SUFFICES ASSUME NEW x \in queue, NEW i \in 1 .. Len(s) + 1
               PROVE  x.pkt < Append(s, n)[i]
    OBVIOUS
  <2>1. CASE i = Len(s) + 1
    <3>1. x.pkt \in DOMAIN arrived
      BY DEF LinkInv, Fit
    <3> QED
      BY <1>6, <1>8, <2>1, <3>1
  <2>2. CASE i \in 1 .. Len(s)
    <3>1. x.pkt < s[i]
      BY <1>3, <1>6, <2>2 DEF TimeInv, Fifo
    <3> QED
      BY <1>6, <2>2, <3>1
  <2> QED
    BY <1>6, <2>1, <2>2
<1>12. Fifo'
  BY <1>1, <1>6, <1>7, <1>10, <1>11 DEF Fifo
<1>13. TypeOK'
  <2>1. Len(arrived') <= MaxDatagrams /\ Len(inbox') <= InboxCapacity /\ inbox' \in Seq(Rank)
    <3>1. n <= MaxDatagrams
      BY <1>4, BoundsAssumption DEF Rank
    <3>2. Len(s) + 1 <= InboxCapacity
      BY <1>5, <1>6, BoundsAssumption
    <3> QED
      BY <1>2, <1>6, <1>7, <3>1, <3>2
  <2> QED
    BY <1>1, <1>4, <2>1 DEF TimeInv, TypeOK
<1>14. HeadFirst' /\ InOrder'
  BY <1>1 DEF TimeInv, HeadFirst, PktQueue!IsMinimal, InOrder, jitter, delay, AppliedDelays, Departure
<1>15. Quiet'
  BY <1>1, BoundsAssumption DEF Quiet, TimeInv, TypeOK
<1> QED
  BY <1>12, <1>13, <1>14, <1>15 DEF TimeInv

LEMMA EndTimes ==
    ASSUME LinkInv, TimeInv, ProxyTrafficEnds
    PROVE  TimeInv'
<1>1. /\ queue' = {} /\ head' = NULL /\ pc' = "exit" /\ sfd' = "closed"
      /\ UNCHANGED <<argv, now, last_clock, wake, readable, src_addr, arrived, inbox, sent>>
  BY DEF ProxyTrafficEnds, PktQueue!Forget, loopVars, network
<1> QED
  BY <1>1 DEF TimeInv, TypeOK, HeadFirst, Fifo, InOrder, Quiet

LEMMA StepTimes ==
    ASSUME LinkInv, TimeInv, [Next]_vars
    PROVE  TimeInv'
  BY StartupTimes, EndTimes, SelectTimes, DeliverTimes, ForwardTimes, EnqueueTimes, SendTimes,
     ClockTimes
  DEF Next, Startup, Delivery, Processing

(* The head of the queue is the slot that departs first, the datagrams are  *)
(* taken in the order of their arrival, and without jitter so they depart.  *)
THEOREM TimeInvariant == Spec => []TimeInv
<1>1. LinkInv /\ TimeInv /\ [Next]_vars => TimeInv'
  BY StepTimes
<1>2. Spec => Init /\ [][Next]_vars /\ []LinkInv
  BY LinkInvariant DEF Spec
<1> QED
  BY InitTimes, <1>1, <1>2, PTL

(* Every variable of the simulator keeps its type: the applied delay stays  *)
(* below 10 s whatever -d and -j, and no datagram leaves with more than     *)
(* MAX_PKT_LEN bytes.                                                       *)
THEOREM SimulatorTyped == Spec => []TypeOK
<1>1. TimeInv => TypeOK
  BY DEF TimeInv
<1> QED
  BY <1>1, TimeInvariant, PTL

----------------------------------------------------------------------------
(* A slot that timeval_cmp does not put after another is due less than a    *)
(* second after it: tv_usec is below two seconds.                           *)
LEMMA HeadDue ==
    ASSUME NEW h \in PktSlot, NEW x \in PktSlot, ~timeval_cmp(h.ts, x.ts)
    PROVE  Due(h.ts) \in Int /\ Due(x.ts) \in Int /\ Due(h.ts) < Due(x.ts) + Second
<1> DEFINE a == h.ts.tv_sec
           b == h.ts.tv_usec
           c == x.ts.tv_sec
           d == x.ts.tv_usec
           s == Second
<1>1. /\ a \in Nat /\ b \in 0 .. 2 * s - 2 /\ c \in Nat /\ d \in 0 .. 2 * s - 2
      /\ Due(h.ts) = (a * s) + b /\ Due(x.ts) = (c * s) + d /\ s \in Nat \ {0}
  BY SlotDates, TimeAssumption
<1>2. ~(a > c \/ (a = c /\ b > d))
  BY DEF timeval_cmp
<1> HIDE DEF a, b, c, d, s
<1>3. a * s \in Int /\ c * s \in Int
  BY <1>1, Sums
<1>4. CASE a < c
  <2>1. (a * s) + s <= c * s
    BY <1>1, <1>4, Rows
  <2> QED
    BY <1>1, <1>3, <2>1 DEF s
<1>5. CASE a = c
  BY <1>1, <1>2, <1>3, <1>5 DEF s
<1> QED
  BY <1>1, <1>2, <1>4, <1>5

(* What the loop does before it sleeps. *)
LEMMA Sleeps ==
    ASSUME LinkInv, TimeInv, [Next]_vars, wake' # NULL, wake' # wake
    PROVE  Select /\ UNCHANGED <<now, last_clock>>
<1>1. /\ ~ShowUsage /\ ~ParseOptions /\ ~get_socket /\ ~GetSocketFails /\ ~NoQueue
      /\ ~ProxyTrafficEnds
  BY DEF ShowUsage, ParseOptions, get_socket, GetSocketFails, NoQueue, ProxyTrafficEnds, loopVars
<1>2. ~BeginLoop
  <2>1. SUFFICES ASSUME BeginLoop PROVE FALSE
    OBVIOUS
  <2>2. queue = {} /\ head' = head /\ Select
    BY <2>1 DEF BeginLoop, LinkInv, InPhase, pktQueue
  <2>3. head' = NULL
    BY <2>2 DEF TimeInv, TypeOK
  <2> QED
    BY <2>2, <2>3 DEF Select
<1>3. ~SelectReturns /\ ~SelectFails /\ ~DeliverFails /\ ~ReceiveFails
  BY DEF SelectReturns, SelectFails, DeliverFails, ReceiveFails, loopVars
<1>4. CASE SelectInterrupted \/ ReceiveInterrupted
  BY <1>4 DEF SelectInterrupted, ReceiveInterrupted, InTurn
<1>5. CASE NoneExpired \/ DeliverBlocked
  BY <1>5 DEF NoneExpired, DeliverBlocked, EndDelivery, InTurn
<1>6. ~DeliverDelayed
  BY DEF DeliverDelayed, loopVars
<1>7. CASE Drop \/ Forward \/ Enqueue
  BY <1>7 DEF Drop, Forward, Enqueue, Receive, InTurn
<1>8. ~ProcessFails
  BY DEF ProcessFails
<1>9. /\ ~ClockTicks /\ ~UNCHANGED vars
      /\ ~\E h \in Hosts, length \in Lengths : HostSends(h, length)
  BY DEF ClockTicks, HostSends, loopVars, vars
<1> QED
  BY <1>1, <1>2, <1>3, <1>4, <1>5, <1>6, <1>7, <1>8, <1>9 DEF Next, Startup, Delivery, Processing

(* The end of a sleep of select() is ahead; it is past the date of no slot  *)
(* by a second and what the clock moved since the loop read it, if it is    *)
(* more than a tick away; and if it is a tick away a slot is due within a   *)
(* second.  This for any delay and jitter, any number of slots, and however *)
(* the clock moves and signals come.                                       *)
THEOREM WakesInTime == Spec => SelectWakesInTime
<1>1. ASSUME LinkInv, TimeInv, TimeInv', [Next]_vars, wake' # NULL, wake' # wake
      PROVE  /\ now < wake'
             /\ wake' = now + 1 => \E x \in queue' : Due(x.ts) <= last_clock' + Second
             /\ \/ wake' = now + 1
                \/ \A x \in queue' : wake' < Due(x.ts) + Second + (now - last_clock')
  <2>1. Select /\ now' = now /\ last_clock' = last_clock
    BY <1>1, Sleeps
  <2>2. PICK h, n, t : h = head' /\ n = now /\ t = last_clock
    OBVIOUS
  <2>3. h # NULL /\ wake' = n + get_queue_timeout(h)
    BY <1>1, <2>1, <2>2 DEF Select
  <2>4. t \in Nat /\ n \in Nat /\ t <= n /\ queue' \subseteq PktSlot /\ h \in queue' /\ h \in PktSlot
    <3>1. /\ now' \in Nat /\ last_clock' \in 0 .. now' /\ queue' \subseteq PktSlot
          /\ IF queue' = {} THEN head' = NULL ELSE head' \in queue'
      BY <1>1 DEF TimeInv, TypeOK
    <3> QED
      BY <2>1, <2>2, <2>3, <3>1
  <2>5. /\ get_queue_timeout(h) \in Nat \ {0}
        /\ get_queue_timeout(h) = 1 \/ t + get_queue_timeout(h) = Due(h.ts)
        /\ get_queue_timeout(h) = 1 => Due(h.ts) <= t + Second
    BY <2>2, <2>4, Timeouts
  <2>6. ASSUME NEW x \in queue'
        PROVE  Due(h.ts) \in Int /\ Due(x.ts) \in Int /\ Due(h.ts) < Due(x.ts) + Second
    <3>1. x \in PktSlot
      BY <2>4
    <3>2. <<h, x>> \notin pkt_slot_cmp
      <4>1. HeadFirst'
        BY <1>1 DEF TimeInv
      <4>2. queue' # {} => PktQueue!IsMinimal(head', queue')
        BY <4>1 DEF HeadFirst, PktQueue!IsMinimal, pkt_slot_cmp, timeval_cmp
      <4> QED
        BY <2>2, <4>2 DEF PktQueue!IsMinimal
    <3> QED
      BY <2>4, <3>1, <3>2, Compared, HeadDue
  <2>7. Second \in Nat
    BY TimeAssumption
  <2> HIDE DEF Due
  <2>8. now < wake'
    BY <2>2, <2>3, <2>4, <2>5
  <2>9. wake' = now + 1 => \E x \in queue' : Due(x.ts) <= last_clock' + Second
    <3>1. wake' = now + 1 => get_queue_timeout(h) = 1
      BY <2>2, <2>3, <2>4, <2>5
    <3> QED
      BY <2>1, <2>2, <2>4, <2>5, <3>1
  <2>10. ASSUME wake' # now + 1, NEW x \in queue'
         PROVE  wake' < Due(x.ts) + Second + (now - last_clock')
    <3>1. get_queue_timeout(h) # 1
      BY <2>2, <2>3, <2>10
    <3>2. wake' = n + (Due(h.ts) - t)
      <4>1. Due(h.ts) \in Int
        BY <2>6
      <4> QED
        BY <2>3, <2>4, <2>5, <3>1, <4>1
    <3>3. Due(h.ts) \in Int /\ Due(x.ts) \in Int /\ Due(h.ts) < Due(x.ts) + Second
      BY <2>6
    <3> QED
      BY <2>1, <2>2, <2>4, <2>7, <3>2, <3>3
  <2> QED
    BY <2>8, <2>9, <2>10
<1>2. LinkInv /\ TimeInv /\ TimeInv' /\ [Next]_vars =>
         [wake' # NULL /\ wake' # wake =>
             /\ now < wake'
             /\ wake' = now + 1 => \E x \in queue' : Due(x.ts) <= last_clock' + Second
             /\ \/ wake' = now + 1
                \/ \A x \in queue' : wake' < Due(x.ts) + Second + (now - last_clock')]_vars
  BY <1>1
<1>3. Spec => [][Next]_vars /\ []LinkInv /\ []TimeInv
  BY LinkInvariant, TimeInvariant DEF Spec
<1> QED
  BY <1>2, <1>3, PTL DEF SelectWakesInTime

(* A slot that has expired for the loop was due in less than a second.      *)
LEMMA ExpiredDue ==
    ASSUME NEW t \in Nat, NEW h \in PktSlot, timeval_cmp(OfClock(t), h.ts)
    PROVE  t > Due(h.ts) - Second
<1> DEFINE a == OfClock(t).tv_sec
           b == OfClock(t).tv_usec
           c == h.ts.tv_sec
           d == h.ts.tv_usec
           s == Second
<1>1. /\ a \in Nat /\ b \in 0 .. s - 1 /\ c \in Nat /\ d \in 0 .. 2 * s - 2
      /\ t = (a * s) + b /\ Due(h.ts) = (c * s) + d /\ s \in Nat \ {0}
  BY SlotDates, ClockTime, TimeAssumption DEF Due
<1>2. a > c \/ (a = c /\ b > d)
  BY DEF timeval_cmp
<1> HIDE DEF a, b, c, d, s
<1>3. a * s \in Int /\ c * s \in Int
  BY <1>1, Sums
<1>4. CASE a > c
  <2>1. (c * s) + s <= a * s
    BY <1>1, <1>4, Rows
  <2> QED
    BY <1>1, <1>3, <2>1 DEF s
<1>5. CASE a = c /\ b > d
  BY <1>1, <1>3, <1>5 DEF s
<1> QED
  BY <1>2, <1>4, <1>5

(* The queue only shrinks when its head has expired, or for good. *)
LEMMA Shrinks ==
    ASSUME [Next]_vars, NEW x \in queue, x \notin queue'
    PROVE  (DeliverDelayed /\ x = head) \/ ProxyTrafficEnds
<1>1. CASE Startup /\ ~ProxyTrafficEnds
  BY <1>1 DEF Startup, ShowUsage, ParseOptions, get_socket, GetSocketFails, BeginLoop, NoQueue,
              NoTraffic, pktQueue
<1>2. CASE SelectReturns \/ SelectInterrupted \/ SelectFails
  BY <1>2 DEF SelectReturns, SelectInterrupted, SelectFails, pktQueue
<1>3. CASE DeliverDelayed
  BY <1>3 DEF DeliverDelayed, PktQueue!Remove
<1>4. CASE NoneExpired \/ DeliverBlocked \/ DeliverFails \/ ReceiveInterrupted \/ ReceiveFails
  BY <1>4 DEF NoneExpired, DeliverBlocked, DeliverFails, ReceiveInterrupted, ReceiveFails, pktQueue
<1>5. CASE Drop \/ Forward \/ ProcessFails
  BY <1>5 DEF Drop, Forward, ProcessFails, pktQueue
<1>6. CASE Enqueue
  BY <1>6 DEF Enqueue, PktQueue!Insert
<1>7. CASE \E h \in Hosts, length \in Lengths : HostSends(h, length)
  BY <1>7 DEF HostSends, pktQueue
<1>8. CASE ClockTicks \/ UNCHANGED vars
  BY <1>8 DEF ClockTicks, vars, pktQueue
<1> QED
  BY <1>1, <1>2, <1>3, <1>4, <1>5, <1>6, <1>7, <1>8 DEF Next, Delivery, Processing

(* A delayed datagram leaves early by less than a second, whatever the      *)
(* delay and however the clock moves between two rounds of the loop.        *)
THEOREM NeverASecondEarly == Spec => EarlyByLessThanASecond
<1>1. ASSUME TimeInv, [Next]_vars, NEW x \in queue \ queue', pc = "deliver"
      PROVE  last_clock > Due(x.ts) - Second
  <2>1. DeliverDelayed /\ x = head
    BY <1>1, Shrinks DEF ProxyTrafficEnds
  <2>2. PICK t : t = last_clock
    OBVIOUS
  <2>3. t \in Nat /\ x \in PktSlot
    BY <1>1, <2>2 DEF TimeInv, TypeOK
  <2>4. timeval_cmp(OfClock(t), x.ts)
    BY <2>1, <2>2 DEF DeliverDelayed, Expired
  <2> QED
    BY <2>2, <2>3, <2>4, ExpiredDue
<1>2. TimeInv /\ [Next]_vars
         => [\A x \in queue \ queue' : pc = "deliver" => last_clock > Due(x.ts) - Second]_vars
  BY <1>1
<1>3. Spec => [][Next]_vars /\ []TimeInv
  BY TimeInvariant DEF Spec
<1> QED
  BY <1>2, <1>3, PTL DEF EarlyByLessThanASecond

(* With a fixed delay the simulator reorders nothing, whatever the delay:   *)
(* the tv_usec that passes a second does so for all.                        *)
THEOREM FixedDelayInOrder == Spec => FixedDelayKeepsOrder
<1>1. ASSUME TimeInv, [Next]_vars, jitter = 0,
             NEW x \in queue \ queue', NEW y \in queue \cap queue', y.pkt < x.pkt
      PROVE  x.ts = y.ts
  <2>1. x = head
    BY <1>1, Shrinks DEF ProxyTrafficEnds, PktQueue!Forget
  <2>2. x \in PktSlot /\ y \in PktSlot
    BY <1>1 DEF TimeInv, TypeOK
  <2>3. ~timeval_cmp(x.ts, y.ts)
    BY <1>1, <2>1, <2>2, Compared DEF TimeInv, HeadFirst, PktQueue!IsMinimal
  <2>4. ~timeval_cmp(y.ts, x.ts)
    BY <1>1 DEF TimeInv, InOrder
  <2> QED
    BY <2>2, <2>3, <2>4, SlotDates, CompareTotal
<1>2. TimeInv /\ [Next]_vars
         => [jitter = 0 => \A x \in queue \ queue', y \in queue \cap queue' :
                              y.pkt < x.pkt => x.ts = y.ts]_vars
  BY <1>1
<1>3. Spec => [][Next]_vars /\ []TimeInv
  BY TimeInvariant DEF Spec
<1> QED
  BY <1>2, <1>3, PTL DEF FixedDelayKeepsOrder
=============================================================================
