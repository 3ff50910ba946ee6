------------------------------ MODULE LaunchMC ------------------------------
(***************************************************************************)
(* Every command line of at most three words, of four and five where an    *)
(* option comes once or twice.                                             *)
(***************************************************************************)
EXTENDS Launch

Names == {"::1", "7777", "73313", "data", ""}
Dashes == {"-f", "-x"}

MCStrings == Names \cup Dashes \cup {"?"}

MCLines ==
    UNION {[1 .. n -> Names \cup Dashes] : n \in 0 .. 3}
    \cup [1 .. 4 -> {"::1", "7777", "data", "", "-f", "-x"}]
    \cup [1 .. 5 -> {"::1", "7777", "-f"}]
=============================================================================
