----------------------------- MODULE MinQueueMC -----------------------------
(***************************************************************************)
(* Six items make a heap of four levels; two pairs of them expire at the   *)
(* same time.                                                              *)
(***************************************************************************)
EXTENDS MinQueue

Expiration == <<1, 2, 2, 3, 3, 4>>

MCItems   == DOMAIN Expiration
MCGreater == {p \in MCItems \X MCItems : Expiration[p[1]] > Expiration[p[2]]}
============================================================================
