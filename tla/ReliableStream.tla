--------------------------- MODULE ReliableStream ---------------------------
(***************************************************************************)
(* What the transfer promises: the receiving end gets the chunks the       *)
(* sending end takes from its input, each once and in order, and the       *)
(* sending end reports the transfer complete only when the whole input is  *)
(* delivered.  Either end may give up before.                              *)
(***************************************************************************)
EXTENDS Integers, Sequences

CONSTANT Chunks

VARIABLES
    taken,      \* chunks taken from the input
    delivered,  \* the chunks delivered, in order
    complete    \* the sending end has reported completion

streamVars == <<taken, delivered, complete>>

StreamInit ==
    /\ taken = 0
    /\ delivered = <<>>
    /\ complete = FALSE

Take ==
    /\ ~complete
    /\ taken < Chunks
    /\ taken' = taken + 1
    /\ UNCHANGED <<delivered, complete>>

Deliver ==
    /\ Len(delivered) < taken
    /\ delivered' = Append(delivered, Len(delivered) + 1)
    /\ UNCHANGED <<taken, complete>>

Complete ==
    /\ ~complete
    /\ taken = Chunks
    /\ Len(delivered) = Chunks
    /\ complete' = TRUE
    /\ UNCHANGED <<taken, delivered>>

StreamNext == Take \/ Deliver \/ Complete

StreamSpec == StreamInit /\ [][StreamNext]_streamVars
============================================================================
