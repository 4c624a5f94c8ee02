------------------------------- MODULE MCPio -------------------------------
(* A small machine: two byte values, short slices and intervals.           *)
EXTENDS Pio

MCNormalMode == [A |-> "READ", B |-> "WRITE", CH |-> "WRITE", CL |-> "READ"]
MCModeBytes == {MCNormalMode}
=============================================================================
