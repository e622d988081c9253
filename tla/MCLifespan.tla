------------------------------ MODULE MCLifespan ------------------------------
(***************************************************************************)
(* Two entries, at once or one after the other, and two reads.             *)
(***************************************************************************)
EXTENDS Lifespan

CONSTANTS first, second, read1, read2

TwoEntries == {first, second}
TwoReads == {read1, read2}
=============================================================================
