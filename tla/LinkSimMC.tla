------------------------------ MODULE LinkSimMC ------------------------------
(***************************************************************************)
(* Three datagrams, and the options that matter: losses and errors without *)
(* delay, a fixed delay with losses, a delay and a jitter that is as long  *)
(* as the delay or longer.                                                 *)
(***************************************************************************)
EXTENDS LinkSim

With(d, j, e, l, r) == [d |-> d, j |-> j, e |-> e, l |-> l, r |-> r]

MCArguments ==
    { With(0, 0, 10, 10, LINK_BOTH_WAYS),
      With(5, 0, 0, 111, LINK_BOTH_WAYS),
      With(2, 2, 0, 0, LINK_BOTH_WAYS),
      With(1, 3, 0, 0, LINK_REVERSE) }

MCLengths == {8, 528}
=============================================================================
