---------------------------- MODULE MCDiskFiles ----------------------------
(***************************************************************************)
(* The instance of DiskFiles that TLC checks: disk files with one and two  *)
(* images, one with three (more than the table holds) that cannot be       *)
(* written, one that holds none, a missing file, and a tape and a key      *)
(* input file opened at the start.                                         *)
(***************************************************************************)
EXTENDS DiskFiles

CONSTANTS one, two, three, none, gone, tape, keys

MCImages == [p \in Paths |-> CASE p = one -> 1 [] p = two -> 2 [] p = three -> 3 [] OTHER -> 0]
MCImageArgs == {-1, 1, 2}
MCTabs == {<<three, 1>>}
MCOtherFiles == << [type |-> "tape_load", path |-> tape, mode |-> "rb"],
                   [type |-> "key_pb", path |-> keys, mode |-> "rb"] >>
=============================================================================
