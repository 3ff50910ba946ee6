---------------------------- MODULE LossyChannel ----------------------------
(***************************************************************************)
(* What the link simulator announces: a channel between the host it        *)
(* proxies and the first host that speaks.  A datagram comes out at most    *)
(* once, at the other end.  It is lost or altered only on the ways where    *)
(* that was asked for; it is lost too when it is malformed or from an       *)
(* alien, and when the simulator breaks.                                    *)
(***************************************************************************)
EXTENDS Integers

CONSTANTS
    Proxied,      \* the host that is proxied
    Nobody,       \* no host
    MinLength,    \* a shorter datagram is malformed
    MaxLength     \* a longer one is cut

VARIABLES
    losing,     \* the ways on which datagrams may be lost: "forward", "reverse"
    garbling,   \* the ways on which they may be altered
    peer,       \* the other end, once known
    transit,    \* the datagrams inside: [id, from, length]
    delivered   \* the datagrams that came out: [id, to, length, inverted]

Init ==
    /\ peer = Nobody
    /\ transit = {}
    /\ delivered = {}

Way(d) == IF d.from = peer' THEN "forward" ELSE "reverse"

OtherEnd(d) == IF d.from = peer' THEN Proxied ELSE peer'

(* The first datagram that is not malformed makes its sender the peer. *)
Meet(d) == peer' = IF peer = Nobody /\ d.length >= MinLength THEN d.from ELSE peer

Cut(length) == IF length > MaxLength THEN MaxLength ELSE length

Enter(d) ==
    /\ d \notin transit
    /\ transit' = transit \cup {d}
    /\ UNCHANGED <<peer, delivered>>

Lose(d) ==
    /\ Meet(d)
    /\ \/ d.length < MinLength
       \/ d.from \notin {peer', Proxied}
       \/ Way(d) \in losing
    /\ transit' = transit \ {d}
    /\ UNCHANGED delivered

Leave(d, inverted) ==
    /\ Meet(d)
    /\ d.length >= MinLength
    /\ d.from \in {peer', Proxied}
    /\ inverted => Way(d) \in garbling
    /\ transit' = transit \ {d}
    /\ delivered' = delivered \cup
          {[id |-> d.id, to |-> OtherEnd(d), length |-> Cut(d.length), inverted |-> inverted]}

(* A datagram that is delayed is known to be one of a partner. *)
Delay(d) ==
    /\ Meet(d)
    /\ UNCHANGED <<transit, delivered>>

(* A call fails. *)
Break ==
    /\ peer' = peer \/ \E d \in transit : Meet(d)
    /\ transit' = {}
    /\ UNCHANGED delivered

Next ==
    \/ Break
    \/ \E d \in transit' \ transit : Enter(d)
    \/ \E d \in transit : Lose(d) \/ Delay(d)
    \/ \E d \in transit, inverted \in BOOLEAN : Leave(d, inverted)

Spec ==
    /\ Init
    /\ [][Next]_<<peer, transit, delivered>>
    /\ [][UNCHANGED <<losing, garbling>>]_<<losing, garbling>>
=============================================================================
