------------------------------- MODULE MCDraw -------------------------------
(***************************************************************************)
(* The instance of Draw that TLC checks: Draw has no constants.            *)
(***************************************************************************)
EXTENDS Draw

=============================================================================
