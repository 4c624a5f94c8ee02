---------------------------- MODULE MCMainLoop ----------------------------
(***************************************************************************)
(* The instances of MainLoop that TLC checks; the cfg files name every     *)
(* bound.                                                                  *)
(***************************************************************************)
EXTENDS MainLoop

=============================================================================
