---------------------------- MODULE PacketWireMC ----------------------------
(***************************************************************************)
(* One cell of payload may hold two values, one of which is 0.             *)
(***************************************************************************)
EXTENDS PacketWire

MCContents == {Zero, <<"x">>}
=============================================================================
