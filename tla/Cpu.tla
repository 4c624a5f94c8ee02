-------------------------------- MODULE Cpu --------------------------------
(***************************************************************************)
(* The loop of the Z80 interpreter (z80_emu): instructions are run until   *)
(* the next interrupt may come (icount) or the states asked for are used   *)
(* up, then the interrupt controller is asked (intr_update) and, unless    *)
(* the check is put off, an interrupt is taken.                            *)
(*                                                                         *)
(* What runs is one program of a set: a record with the CPU it starts with *)
(* and the address `end' it comes to.  The interrupt controller is outside *)
(* of this module: it requests when it likes, MaxIntr times.               *)
(***************************************************************************)
EXTENDS Z80

CONSTANTS Programs,   \* records [cpu, end, ...]
          Goals,      \* the states z80_emu may be asked for, 0 for no limit
          Icounts,    \* what intr_update may put into icount
          Levels,     \* the levels an interrupt may have
          NoEnd,      \* the end of a program of one instruction
          MaxIntr     \* interrupts requested in a behaviour

ASSUME CpuAssumption ==
  /\ \A p \in Programs : IsCpu(p.cpu)
  /\ Levels \subseteq 0..7

VARIABLES z80,              \* the CPU
          prog,             \* the program that runs
          at,               \* where z80_emu is: "top", "run", "update", "check", "out"
          icount,           \* states until the next request is possible
          total_state,      \* of this call
          z80_state_goal,   \* asked for by this call
          intrs             \* interrupts requested so far

vars == <<z80, prog, at, icount, total_state, z80_state_goal, intrs>>
loopVars == <<prog, z80_state_goal>>

Least(x, y) == IF x < y THEN x ELSE y

Init ==
  /\ prog \in Programs
  /\ z80 = prog.cpu
  /\ at = "out" /\ icount = 0 /\ total_state = 0 /\ z80_state_goal = 0
  /\ intrs = 0

\* At its end address; or, without one, behind its first instruction.
Ended == IF prog.end = NoEnd THEN z80.PC # prog.cpu.PC ELSE z80.PC = prog.end

\* A call of z80_emu.
Emu ==
  /\ at = "out" /\ ~Ended
  /\ z80_state_goal' \in Goals
  /\ at' = "top" /\ total_state' = 0
  /\ UNCHANGED <<z80, prog, icount, intrs>>

\* How far the inner loop goes.
Top ==
  /\ at = "top"
  /\ z80' = [z80 EXCEPT !.intchk =
               IF z80_state_goal = 0 THEN icount
               ELSE Least(icount, z80_state_goal - total_state)]
  /\ at' = "run"
  /\ UNCHANGED <<loopVars, icount, total_state, intrs>>

\* An OUT to the other CPU, the sound chip or the interrupt controller makes the
\* loop (CPU_REFRESH_INTERRUPT) or the whole call (CPU_BREAKOFF) end behind it.
BreaksOff == z80.out # Step(z80).out

Instruction ==
  /\ at = "run" /\ ~Ended
  /\ \/ /\ z80' = Step(z80)
        /\ UNCHANGED z80_state_goal
     \/ /\ BreaksOff
        /\ z80' = [Step(z80) EXCEPT !.intchk = 0]
        /\ z80_state_goal' \in {z80_state_goal, 1}
  /\ at' = IF z80'.t < z80'.intchk THEN "run" ELSE "update"
  /\ UNCHANGED <<prog, icount, total_state, intrs>>

\* intr_update: it may find a request, or take one back that was masked.  The
\* states are counted when there is a goal.
Update ==
  /\ at = "update"
  /\ icount' \in Icounts
  /\ \E active \in BOOLEAN :
       /\ active => z80.INT_active \/ intrs < MaxIntr
       /\ intrs' = IF active /\ ~z80.INT_active THEN intrs + 1 ELSE intrs
       /\ z80' = [z80 EXCEPT !.INT_active = active, !.t = 0]
  /\ total_state' = IF z80_state_goal = 0 THEN 0 ELSE total_state + z80.t
  /\ at' = "check"
  /\ UNCHANGED loopVars

Accepts == z80.IFF /\ z80.INT_active

\* The check put off, an interrupt (the controller may have none after all, and
\* may have another one behind it), or none; and the end of the call.
Check ==
  /\ at = "check"
  /\ \/ /\ z80.again
        /\ z80' = [z80 EXCEPT !.again = FALSE]
        /\ icount' = IF Accepts THEN 0 ELSE icount
        /\ UNCHANGED intrs
     \/ /\ ~z80.again /\ Accepts
        /\ \E level \in Levels, more \in BOOLEAN :
             /\ more => intrs < MaxIntr
             /\ z80' = [z80_interrupt(z80, level) EXCEPT !.INT_active = more]
             /\ intrs' = IF more THEN intrs + 1 ELSE intrs
        /\ UNCHANGED icount
     \/ /\ ~z80.again /\ Accepts
        /\ z80' = [z80 EXCEPT !.INT_active = FALSE]
        /\ UNCHANGED <<icount, intrs>>
     \/ /\ ~z80.again /\ ~Accepts
        /\ UNCHANGED <<z80, icount, intrs>>
  /\ at' = IF z80_state_goal # 0 /\ total_state >= z80_state_goal THEN "out" ELSE "top"
  /\ UNCHANGED <<loopVars, total_state>>

\* The end of the program.
Finished == /\ Ended /\ at \in {"run", "out"} /\ UNCHANGED vars

Next == Emu \/ Top \/ Instruction \/ Update \/ Check \/ Finished
Spec == Init /\ [][Next]_vars

-----------------------------------------------------------------------------
(* The results a program is for, by plain arithmetic.                       *)

Signed8(b) == IF b < 128 THEN b ELSE b - 256
Signed16(w) == IF w < 32768 THEN w ELSE w - 65536
Bcd(b) == 10 * (b \div 16) + (b % 16)

\* `sum' by numbers of n values, signed range half of it: what the flags say.
Says(F, v, sum, signed, n) ==
  /\ v = sum % n
  /\ "C" \in F <=> sum \notin 0..(n - 1)
  /\ "Z" \in F <=> sum % n = 0
  /\ "P" \in F <=> signed \notin -(n \div 2)..(n \div 2 - 1)
  /\ "S" \in F <=> ("P" \in F <=> signed >= 0)

Result(p, s) ==
  LET c == IF "C" \in p.cpu.F THEN 1 ELSE 0
      a == p.cpu.A  b == p.cpu.B
      hl == Pair(p.cpu, "HL")  bc == Pair(p.cpu, "BC")
  IN CASE p.kind = "ADD" -> Says(s.F, s.A, a + b, Signed8(a) + Signed8(b), 256)
       [] p.kind = "ADC" -> Says(s.F, s.A, a + b + c, Signed8(a) + Signed8(b) + c, 256)
       [] p.kind = "SUB" -> Says(s.F, s.A, a - b, Signed8(a) - Signed8(b), 256)
       [] p.kind = "SBC" -> Says(s.F, s.A, a - b - c, Signed8(a) - Signed8(b) - c, 256)
       [] p.kind = "CP"  -> s.A = a /\ Says(s.F, Lo(a - b), a - b, Signed8(a) - Signed8(b), 256)
       [] p.kind = "NEG" -> Says(s.F, s.A, 0 - a, 0 - Signed8(a), 256)
       [] p.kind = "ADCW" -> Says(s.F, Pair(s, "HL"), hl + bc + c, Signed16(hl) + Signed16(bc) + c, 65536)
       [] p.kind = "SBCW" -> Says(s.F, Pair(s, "HL"), hl - bc - c, Signed16(hl) - Signed16(bc) - c, 65536)
       [] p.kind = "ADDB" -> /\ Bcd(s.A) = (Bcd(a) + Bcd(b) + c) % 100
                             /\ "C" \in s.F <=> Bcd(a) + Bcd(b) + c >= 100
       [] p.kind = "SUBB" -> /\ Bcd(s.A) = (Bcd(a) - Bcd(b) - c) % 100
                             /\ "C" \in s.F <=> Bcd(a) - Bcd(b) - c < 0
       [] p.kind = "SHL"  -> /\ Pair(s, "BC") = W16(2 * bc)
                             /\ "C" \in s.F <=> bc >= 32768
       [] p.kind = "SAR"  -> /\ Signed16(Pair(s, "BC")) = Signed16(bc) \div 2
                             /\ "C" \in s.F <=> bc % 2 = 1
       [] p.kind = "COPY" -> /\ \A i \in 0..(bc - 1) :
                                  M_RDMEM(s, Pair(p.cpu, "DE") + i) = M_RDMEM(p.cpu, hl + i)
                             /\ Pair(s, "BC") = 0
       [] p.kind = "FIND" -> IF "Z" \in s.F
                             THEN M_RDMEM(s, Pair(s, "HL") - 1) = a
                             ELSE \A i \in 0..(bc - 1) : M_RDMEM(s, hl + i) # a
       [] p.kind = "SEND" -> s.out = [i \in 1..b |-> <<p.cpu.C, M_RDMEM(s, hl + i - 1)>>]
       [] p.kind = "HALT" -> intrs > 0
       [] OTHER -> TRUE

\* A program computes what arithmetic says: sums and differences with the flags
\* that mean carry, overflow, zero and order, binary and decimal (DAA), shifts of
\* a pair, blocks copied, searched and sent; HALT waits for an interrupt.
ResultRight == Ended /\ at = "run" => Result(prog, z80)

\* The instructions that may go elsewhere than to the next one.
Jumps(s) ==
  LET op == Operand8(s)
      op2 == M_RDMEM(s, s.PC + 1)
      jump(o) == \/ X(o) = 0 /\ Zz(o) = 0 /\ Y(o) >= 2
                 \/ X(o) = 3 /\ Zz(o) \in {0, 2, 4, 7}
                 \/ o \in {118, 195, 201, 205, 233}
  IN \/ jump(op)
     \/ op = 237 /\ X(op2) = 1 /\ Zz(op2) = 5
     \/ op = 237 /\ X(op2) = 2 /\ Y(op2) >= 6
     \/ op \in {221, 253} /\ op2 = 233

\* Every instruction but a jump goes on behind the bytes the disassembler shows
\* for it, and every one uses up states, so that the loop cannot stand still.
StepsAccount ==
  [][at = "run" => /\ z80'.t >= z80.t + 4
                   /\ Jumps(z80) \/ z80'.PC = W16(z80.PC + z80_line_disasm(z80))]_vars
=============================================================================
