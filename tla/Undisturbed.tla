---------------------------- MODULE Undisturbed ----------------------------
(***************************************************************************)
(* A program that is interrupted (z80_interrupt) and the same program      *)
(* alone: what it sees at its end is the same.                             *)
(***************************************************************************)
EXTENDS Cpu

CONSTANT Stack      \* where the stack may be: from here up

\* The registers and the memory above the stack a program can tell apart.
Seen(s) == [A |-> s.A, F |-> s.F, BC |-> Pair(s, "BC"), DE |-> Pair(s, "DE"),
            HL |-> Pair(s, "HL"), IX |-> Pair(s, "IX"), IY |-> Pair(s, "IY"),
            SP |-> s.SP, out |-> s.out,
            mem |-> [a \in {x \in DOMAIN s.mem : x < Stack} |-> s.mem[a]]]

\* What the program does when nothing comes in between.
RECURSIVE Alone(_, _)
Alone(s, end) ==
  IF s.PC = end THEN s
  ELSE LET n == Step(s)
       IN Alone([n EXCEPT !.PC = IF s.PC = @ /\ n.HALT THEN W16(@ + 1) ELSE @], end)

\* Interrupts leave no trace in the program they interrupt, in the middle of a
\* repeated instruction, behind a prefix, or at HALT; and a handler that ends
\* with EI and RET is over before the next one starts, so that the stack never
\* holds two of them.
NoTrace ==
  /\ Ended /\ at = "run" /\ prog.end # NoEnd => Seen(z80) = Seen(Alone(prog.cpu, prog.end))
  /\ prog.end # NoEnd => z80.SP >= prog.cpu.SP - 4
=============================================================================
