------------------------------- MODULE MCFdc -------------------------------
(***************************************************************************)
(* The instances of Fdc that TLC checks: their values are in the .cfg      *)
(* files.                                                                  *)
(***************************************************************************)
EXTENDS Fdc

=============================================================================
