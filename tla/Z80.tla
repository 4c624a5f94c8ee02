-------------------------------- MODULE Z80 --------------------------------
(***************************************************************************)
(* The instructions of the Z80 interpreter (z80.c, the z80-code headers    *)
(* and the tables of z80-table.h) and the lengths its disassembler         *)
(* (z80-debug.c) takes them to have.  Operators only: Step is one pass of  *)
(* the inner loop of z80_emu, z80_interrupt the taking of an interrupt.    *)
(*                                                                         *)
(* A CPU is a record: a byte for each 8-bit register, `F' the set of flags *)
(* that are up (bits 3 and 5 of F are left out), `mem' the memory, 0 where *)
(* nothing was written, `inp' what any input port reads, `out' what was    *)
(* written to the ports, `t' the states of the loop so far (state0),     *)
(* `intchk' how many it may take before interrupts are looked at, and      *)
(* `again' that this look is put off (skip_intr_chk).                      *)
(***************************************************************************)
EXTENDS Integers, Sequences, FiniteSets, TLC

Byte == 0..255
FLAGS == {"S", "Z", "H", "P", "N", "C"}

Lo(w) == w % 256
Hi(w) == (w \div 256) % 256
W16(w) == w % 65536
Offset(b) == IF b < 128 THEN b ELSE b - 256
Weights == <<1, 2, 4, 8, 16, 32, 64, 128, 256, 512, 1024, 2048, 4096, 8192, 16384, 32768>>
Weight(i) == Weights[i + 1]
Bit(b, i) == (b \div Weight(i)) % 2
SetBit(b, i, v) == b + (v - Bit(b, i)) * Weight(i)
Xor3(x, y, z, i) == (Bit(x, i) + Bit(y, i) + Bit(z, i)) % 2 = 1
When(cond, flag) == IF cond THEN {flag} ELSE {}

\* Bitwise AND, OR and XOR of two bytes, by the truth table of one bit.
Bitwise8(x, y, f) ==
  LET b(i) == f[Bit(x, i)][Bit(y, i)] * Weight(i)
  IN b(0) + b(1) + b(2) + b(3) + b(4) + b(5) + b(6) + b(7)
AndBit == [a \in 0..1 |-> [b \in 0..1 |-> a * b]]
OrBit  == [a \in 0..1 |-> [b \in 0..1 |-> a + b - a * b]]
XorBit == [a \in 0..1 |-> [b \in 0..1 |-> (a + b) % 2]]

\* SZ_table and SZP_table.
SZ(b) == When(b >= 128, "S") \cup When(b = 0, "Z")
Ones(b) == Bit(b, 0) + Bit(b, 1) + Bit(b, 2) + Bit(b, 3) +
           Bit(b, 4) + Bit(b, 5) + Bit(b, 6) + Bit(b, 7)
SZP(b) == SZ(b) \cup When(Ones(b) % 2 = 0, "P")

\* F as PUSH AF writes it, and back.
FlagBit == [S |-> 7, Z |-> 6, H |-> 4, P |-> 2, N |-> 1, C |-> 0]
FByte(F) == LET v(x) == IF x \in F THEN Weight(FlagBit[x]) ELSE 0
            IN v("S") + v("Z") + v("H") + v("P") + v("N") + v("C")
FSet(b) == {x \in FLAGS : Bit(b, FlagBit[x]) = 1}

(* Registers and memory. *)

\* The pair that stands for HL: itself, or IX or IY after a prefix.
HighOf == [BC |-> "B", DE |-> "D", HL |-> "H", IX |-> "IXh", IY |-> "IYh"]
LowOf  == [BC |-> "C", DE |-> "E", HL |-> "L", IX |-> "IXl", IY |-> "IYl"]
Pair(s, rr) == IF rr \in {"SP", "PC"} THEN s[rr] ELSE 256 * s[HighOf[rr]] + s[LowOf[rr]]
SetPair(s, rr, w) ==
  IF rr \in {"SP", "PC"} THEN [s EXCEPT ![rr] = W16(w)]
  ELSE [s EXCEPT ![HighOf[rr]] = Hi(w), ![LowOf[rr]] = Lo(w)]

M_RDMEM(s, a) == IF W16(a) \in DOMAIN s.mem THEN s.mem[W16(a)] ELSE 0
M_WRMEM(s, a, b) ==
  [s EXCEPT !.mem = [x \in {W16(a)} \cup DOMAIN @ |-> IF x = W16(a) THEN b ELSE @[x]]]
Word(s, a) == M_RDMEM(s, a) + 256 * M_RDMEM(s, a + 1)
WrWord(s, a, w) == M_WRMEM(M_WRMEM(s, a, Lo(w)), a + 1, Hi(w))

Operand8(s) == M_RDMEM(s, s.PC)
Operand16(s) == Word(s, s.PC)
Skip(s, n) == [s EXCEPT !.PC = W16(@ + n)]
Wait(s, n) == [s EXCEPT !.t = @ + n]
Flagged(s, F) == [s EXCEPT !.F = F]

M_PUSH(s, w) == [WrWord(s, s.SP - 2, w) EXCEPT !.SP = W16(@ - 2)]
Popped(s) == Word(s, s.SP)
Unstack(s) == [s EXCEPT !.SP = W16(@ + 2)]
AF(s) == 256 * s.A + FByte(s.F)
SetAF(s, w) == [s EXCEPT !.A = Hi(w), !.F = FSet(Lo(w))]

(* Arithmetic: a result and the flags. *)

M_ADC(a, n, carry) ==
  LET J == a + n + carry
      l == Lo(J)
  IN [v |-> l,
      F |-> SZ(l) \cup When(Xor3(a, n, l, 4), "H")
            \cup When(Bit(a, 7) = Bit(n, 7) /\ Bit(n, 7) # Bit(l, 7), "P")
            \cup When(Hi(J) # 0, "C")]
M_SBC(a, n, carry) ==
  LET J == W16(a - n - carry)
      l == Lo(J)
  IN [v |-> l,
      F |-> SZ(l) \cup When(Xor3(a, n, l, 4), "H")
            \cup When(Bit(a, 7) # Bit(n, 7) /\ Bit(a, 7) # Bit(l, 7), "P")
            \cup {"N"} \cup When(Hi(J) # 0, "C")]
M_INC(n, F) ==
  LET l == Lo(n + 1)
  IN [v |-> l, F |-> SZ(l) \cup When(l % 16 = 0, "H")
                     \cup When(l = 128, "P") \cup (F \cap {"C"})]
M_DEC(n, F) ==
  LET l == Lo(n - 1)
  IN [v |-> l, F |-> SZ(l) \cup When(l % 16 = 15, "H")
                     \cup When(l = 127, "P") \cup {"N"} \cup (F \cap {"C"})]
Logic(v, F) == [v |-> v, F |-> SZP(v) \cup F]

Carry(s) == IF "C" \in s.F THEN 1 ELSE 0

\* ADD, ADC, SUB, SBC, AND, XOR, OR, CP of A and n, in the order of the codes.
Alu(s, y, n) ==
  LET r == CASE y = 0 -> M_ADC(s.A, n, 0)
             [] y = 1 -> M_ADC(s.A, n, Carry(s))
             [] y = 3 -> M_SBC(s.A, n, Carry(s))
             [] y = 4 -> Logic(Bitwise8(s.A, n, AndBit), {"H"})
             [] y = 5 -> Logic(Bitwise8(s.A, n, XorBit), {})
             [] y = 6 -> Logic(Bitwise8(s.A, n, OrBit), {})
             [] OTHER -> M_SBC(s.A, n, 0)
  IN [s EXCEPT !.A = IF y = 7 THEN @ ELSE r.v, !.F = r.F]

\* RLC, RRC, RL, RR, SLA, SRA, SLL, SRL.
Rot(y, n, F) ==
  LET c == IF "C" \in F THEN 1 ELSE 0
      out == IF y \in {0, 2, 4, 6} THEN Bit(n, 7) ELSE Bit(n, 0)
      v == CASE y = 0 -> Lo(2 * n) + Bit(n, 7) [] y = 1 -> n \div 2 + 128 * Bit(n, 0)
             [] y = 2 -> Lo(2 * n) + c         [] y = 3 -> n \div 2 + 128 * c
             [] y = 4 -> Lo(2 * n)             [] y = 5 -> n \div 2 + 128 * Bit(n, 7)
             [] y = 6 -> Lo(2 * n) + 1         [] OTHER -> n \div 2
  IN [v |-> v, F |-> SZP(v) \cup When(out = 1, "C")]

M_ADDW(x, y, F) ==
  LET J == W16(x + y)
  IN [v |-> J, F |-> (F \ {"H", "N", "C"}) \cup When(Xor3(x, y, J, 12), "H")
                     \cup When(x + y >= 65536, "C")]
M_ADCW(x, y, c) ==
  LET J == W16(x + y + c)
  IN [v |-> J,
      F |-> When(J >= 32768, "S") \cup When(J = 0, "Z")
            \cup When(Xor3(x, y, J, 12), "H")
            \cup When(Bit(x, 15) = Bit(y, 15) /\ Bit(y, 15) # Bit(J, 15), "P")
            \cup When(x + y + c >= 65536, "C")]
M_SBCW(x, y, c) ==
  LET J == W16(x - y - c)
  IN [v |-> J,
      F |-> When(J >= 32768, "S") \cup When(J = 0, "Z")
            \cup When(Xor3(x, y, J, 12), "H")
            \cup When(Bit(x, 15) # Bit(y, 15) /\ Bit(x, 15) # Bit(J, 15), "P")
            \cup {"N"} \cup When(x - y - c < 0, "C")]

\* Mutant: the tens digit is corrected only behind 9FH.
DAA_stepHex(a, F) ==
  (IF "H" \in F \/ a % 16 > 9 THEN 6 ELSE 0) +
  (IF "C" \in F \/ a > 159 THEN 96 ELSE 0)
\* DAA_table: what it adds or takes off, and the flags it leaves.
DAA_step(a, F) ==
  (IF "H" \in F \/ a % 16 > 9 THEN 6 ELSE 0) +
  (IF "C" \in F \/ a > 153 THEN 96 ELSE 0)
DAA(s) ==
  LET v == Lo(IF "N" \in s.F THEN s.A - DAA_step(s.A, s.F) ELSE s.A + DAA_step(s.A, s.F))
      H == IF "N" \in s.F THEN "H" \in s.F /\ s.A % 16 < 6 ELSE s.A % 16 > 9
  IN [s EXCEPT !.A = v,
               !.F = SZP(v) \cup When(H, "H") \cup (s.F \cap {"N"})
                     \cup When("C" \in s.F \/ s.A > 153, "C")]

(* Operands.  A code is cut into x, y and z (2, 3 and 3 bits), y into p, q. *)

X(op) == op \div 64
Y(op) == (op \div 8) % 8
Zz(op) == op % 8
P(op) == Y(op) \div 2
Q(op) == Y(op) % 2

Reg(i, hl) == <<"B", "C", "D", "E", HighOf[hl], LowOf[hl], "(HL)", "A">>[i + 1]
RegPair(i, hl) == <<"BC", "DE", hl, "SP">>[i + 1]
Condition(s, i) ==
  <<"Z" \notin s.F, "Z" \in s.F, "C" \notin s.F, "C" \in s.F,
    "P" \notin s.F, "P" \in s.F, "S" \notin s.F, "S" \in s.F>>[i + 1]

\* The address of (HL), or of (IX+d) with d the next byte.
Address(s, hl) ==
  IF hl = "HL" THEN Pair(s, hl) ELSE W16(Pair(s, hl) + Offset(Operand8(s)))
PastD(s, hl) == IF hl = "HL" THEN s ELSE Skip(s, 1)

Get(s, i, hl) == IF i = 6 THEN M_RDMEM(s, Address(s, hl)) ELSE s[Reg(i, hl)]
\* Mutant: the displacement of a written byte is read once more as a code.
PutBefore(s, i, hl, b) ==
  IF i = 6 THEN M_WRMEM(s, Address(s, hl), b)
  ELSE [s EXCEPT ![Reg(i, hl)] = b]
Put(s, i, hl, b) ==
  IF i = 6 THEN PastD(M_WRMEM(s, Address(s, hl), b), hl)
  ELSE [s EXCEPT ![Reg(i, hl)] = b]

M_JR(s) == Wait([s EXCEPT !.PC = W16(@ + Offset(Operand8(s)) + 1)], 5)
M_CALL(s) == Wait([M_PUSH(s, W16(s.PC + 2)) EXCEPT !.PC = Operand16(s)], 7)
M_RET(s) == Wait([Unstack(s) EXCEPT !.PC = Popped(s)], 6)
M_RST(s, a) == [M_PUSH(s, s.PC) EXCEPT !.PC = a]

(* Instructions without a prefix, and with DD or FD where hl is not "HL";   *)
(* PC is behind the code.                                                    *)

Exchange(s) ==
  [s EXCEPT !.A = s.A1, !.F = s.F1, !.A1 = s.A, !.F1 = s.F]
EXX(s) ==
  [s EXCEPT !.B = s.B1, !.C = s.C1, !.D = s.D1, !.E = s.E1, !.H = s.H1, !.L = s.L1,
            !.B1 = s.B, !.C1 = s.C, !.D1 = s.D, !.E1 = s.E, !.H1 = s.H, !.L1 = s.L]

\* RLCA, RRCA, RLA, RRA, DAA, CPL, SCF, CCF.
Accumulator(s, y) ==
  LET r == Rot(y, s.A, s.F)
  IN CASE y < 4 -> [s EXCEPT !.A = r.v, !.F = (@ \ {"H", "N", "C"}) \cup (r.F \cap {"C"})]
       [] y = 4 -> DAA(s)
       [] y = 5 -> [s EXCEPT !.A = 255 - @, !.F = @ \cup {"H", "N"}]
       [] y = 6 -> [s EXCEPT !.F = (@ \ {"H", "N"}) \cup {"C"}]
       [] OTHER -> [s EXCEPT !.F = (@ \ {"H", "N", "C"}) \cup
                                   (IF "C" \in @ THEN {"H"} ELSE {"C"})]

Jumps0(s, y) ==      \* NOP, EX AF, DJNZ, JR, JR cc
  LET djnz == [s EXCEPT !.B = Lo(@ - 1)]
  IN CASE y = 0 -> s
       [] y = 1 -> Exchange(s)
       [] y = 2 -> IF djnz.B # 0 THEN M_JR(djnz) ELSE Skip(djnz, 1)
       [] y = 3 -> M_JR(s)
       [] OTHER -> IF Condition(s, y - 4) THEN M_JR(s) ELSE Skip(s, 1)

LoadsA(s, y, hl) ==  \* (BC), (DE), (nn) with A, (nn) with HL
  CASE y \in {0, 2} -> M_WRMEM(s, Pair(s, RegPair(y \div 2, hl)), s.A)
    [] y \in {1, 3} -> [s EXCEPT !.A = M_RDMEM(s, Pair(s, RegPair(y \div 2, hl)))]
    [] y = 4 -> Skip(WrWord(s, Operand16(s), Pair(s, hl)), 2)
    [] y = 5 -> Skip(SetPair(s, hl, Word(s, Operand16(s))), 2)
    [] y = 6 -> Skip(M_WRMEM(s, Operand16(s), s.A), 2)
    [] OTHER -> Skip([s EXCEPT !.A = M_RDMEM(s, Operand16(s))], 2)

Quarter0(s, op, hl) ==
  LET y == Y(op)
      rr == RegPair(P(op), hl)
      sum == M_ADDW(Pair(s, hl), Pair(s, rr), s.F)
      inc == IF Zz(op) = 4 THEN M_INC(Get(s, y, hl), s.F) ELSE M_DEC(Get(s, y, hl), s.F)
      past == PastD(s, hl)
  IN CASE Zz(op) = 0 -> Jumps0(s, y)
       [] Zz(op) = 1 -> IF Q(op) = 0 THEN Skip(SetPair(s, rr, Operand16(s)), 2)
                        ELSE Flagged(SetPair(s, hl, sum.v), sum.F)
       [] Zz(op) = 2 -> LoadsA(s, y, hl)
       [] Zz(op) = 3 -> SetPair(s, rr, Pair(s, rr) + (IF Q(op) = 0 THEN 1 ELSE -1))
       [] Zz(op) \in {4, 5} -> Flagged(Put(s, y, hl, inc.v), inc.F)
       [] Zz(op) = 6 -> IF y = 6
                        THEN Skip(M_WRMEM(past, Address(s, hl), Operand8(past)), 1)
                        ELSE Skip([s EXCEPT ![Reg(y, hl)] = Operand8(s)], 1)
       [] OTHER -> Accumulator(s, y)

HALT(s) ==
  [s EXCEPT !.HALT = TRUE, !.PC = W16(@ - 1),
            !.intchk = IF s.INT_active \/ s.break_if_halt THEN 0 ELSE @]
\* Mutant: an interrupt may come right behind EI.
EIAtOnce(s) == [s EXCEPT !.IFF = TRUE]
\* The loop ends behind EI when interrupts are due or requested, and the next
\* instruction comes before any of them.
EI(s) ==
  LET ends == s.t >= s.intchk \/ s.INT_active
  IN [s EXCEPT !.IFF = TRUE, !.again = @ \/ ends, !.intchk = IF ends THEN 0 ELSE @]

\* LD r,r'.  With (IX+d) on one side the other side is H or L itself.
Loads(s, op, hl) ==
  LET y == Y(op)  z == Zz(op)
  IN IF op = 118 THEN HALT(s)
     ELSE IF z = 6 THEN PastD([s EXCEPT ![Reg(y, "HL")] = Get(s, 6, hl)], hl)
     ELSE IF y = 6 THEN Put(s, 6, hl, s[Reg(z, "HL")])
     ELSE Put(s, y, hl, Get(s, z, hl))

AluMem(s, op, hl) ==
  LET n == Get(s, Zz(op), hl)
  IN Alu(IF Zz(op) = 6 THEN PastD(s, hl) ELSE s, Y(op), n)

Pushed(op, hl) == <<"BC", "DE", hl, "AF">>[P(op) + 1]
Pops(s, op, hl) ==   \* POP, RET, EXX, JP (HL), LD SP,HL
  LET top == Popped(s)
      rr == Pushed(op, hl)
  IN CASE Q(op) = 0 -> IF rr = "AF" THEN SetAF(Unstack(s), top) ELSE SetPair(Unstack(s), rr, top)
       [] op = 201 -> M_RET(s)
       [] op = 217 -> EXX(s)
       [] op = 233 -> [s EXCEPT !.PC = Pair(s, hl)]
       [] OTHER -> [s EXCEPT !.SP = Pair(s, hl)]
Pushes(s, op, hl) == \* PUSH, CALL
  LET rr == Pushed(op, hl)
  IN IF Q(op) = 0 THEN M_PUSH(s, IF rr = "AF" THEN AF(s) ELSE Pair(s, rr)) ELSE M_CALL(s)
Singles(s, op, hl) ==
  CASE op = 195 -> [s EXCEPT !.PC = Operand16(s)]
    [] op = 211 -> Skip([s EXCEPT !.out = Append(@, <<Operand8(s), s.A>>)], 1)
    [] op = 219 -> Skip([s EXCEPT !.A = s.inp], 1)
    [] op = 227 -> SetPair(WrWord(s, s.SP, Pair(s, hl)), hl, Popped(s))
    [] op = 235 -> SetPair(SetPair(s, "DE", Pair(s, "HL")), "HL", Pair(s, "DE"))
    [] op = 243 -> [s EXCEPT !.IFF = FALSE]
    [] OTHER -> EI(s)

Quarter3(s, op, hl) ==
  LET y == Y(op)
  IN CASE Zz(op) = 0 -> IF Condition(s, y) THEN M_RET(s) ELSE s
       [] Zz(op) = 1 -> Pops(s, op, hl)
       [] Zz(op) = 2 -> IF Condition(s, y) THEN [s EXCEPT !.PC = Operand16(s)] ELSE Skip(s, 2)
       [] Zz(op) = 3 -> Singles(s, op, hl)
       [] Zz(op) = 4 -> IF Condition(s, y) THEN M_CALL(s) ELSE Skip(s, 2)
       [] Zz(op) = 5 -> Pushes(s, op, hl)
       [] Zz(op) = 6 -> Skip(Alu(s, y, Operand8(s)), 1)
       [] OTHER -> M_RST(s, 8 * y)

Execute(s, op, hl) ==
  CASE X(op) = 0 -> Quarter0(s, op, hl) [] X(op) = 1 -> Loads(s, op, hl)
    [] X(op) = 2 -> AluMem(s, op, hl)   [] OTHER -> Quarter3(s, op, hl)

(* CB: rotates, BIT, RES, SET.  After DD or FD of the byte at (IX+d), and    *)
(* then into a register as well.                                             *)

M_BIT(i, n, F) ==
  (F \ {"Z", "N", "S"}) \cup {"H"} \cup
  (IF Bit(n, i) = 1 THEN When(i = 7, "S") ELSE {"Z"})
M_RES(i, n, F) == [v |-> SetBit(n, i, 0), F |-> F]
M_SET(i, n, F) == [v |-> SetBit(n, i, 1), F |-> F]
Modified(op, n, F) ==
  CASE X(op) = 0 -> Rot(Y(op), n, F)
    [] X(op) = 2 -> M_RES(Y(op), n, F)
    [] OTHER -> M_SET(Y(op), n, F)
ExecuteCB(s, op) ==
  LET n == Get(s, Zz(op), "HL")
      m == Modified(op, n, s.F)
  IN IF X(op) = 1 THEN Flagged(s, M_BIT(Y(op), n, s.F))
     ELSE Flagged(Put(s, Zz(op), "HL", m.v), m.F)
AlsoInto(s, i, v) == IF i = 6 THEN s ELSE [s EXCEPT ![Reg(i, "HL")] = v]
ExecuteXXCB(s, op, a) ==
  LET n == M_RDMEM(s, a)
      m == Modified(op, n, s.F)
      w == Flagged(M_WRMEM(s, a, m.v), m.F)
  IN IF X(op) = 1 THEN Flagged(s, M_BIT(Y(op), n, s.F)) ELSE AlsoInto(w, Zz(op), m.v)

(* ED. *)

Repeat(s, goes) == IF goes THEN Wait(Skip(s, -2), 5) ELSE s
LDx(s, d) ==
  LET bc == W16(Pair(s, "BC") - 1)
      m == M_WRMEM(s, Pair(s, "DE"), M_RDMEM(s, Pair(s, "HL")))
      n == SetPair(SetPair(SetPair(m, "DE", Pair(s, "DE") + d), "HL", Pair(s, "HL") + d),
                   "BC", bc)
  IN Flagged(n, (s.F \ {"N", "H", "P"}) \cup When(bc # 0, "P"))
CPx(s, d) ==
  LET n == M_RDMEM(s, Pair(s, "HL"))
      v == Lo(s.A - n)
      bc == W16(Pair(s, "BC") - 1)
  IN Flagged(SetPair(SetPair(s, "HL", Pair(s, "HL") + d), "BC", bc),
             SZ(v) \cup When(Xor3(s.A, n, v, 4), "H") \cup When(bc # 0, "P")
             \cup {"N"} \cup (s.F \cap {"C"}))
Counted(s, d) ==     \* the rest of INI and OUTI
  LET b == Lo(s.B - 1)
  IN Flagged([SetPair(s, "HL", Pair(s, "HL") + d) EXCEPT !.B = b],
             When(b = 0, "Z") \cup {"N"} \cup (s.F \cap {"C"}))
INx(s, d) == Counted(M_WRMEM(s, Pair(s, "HL"), s.inp), d)
OUTx(s, d) == Counted([s EXCEPT !.out = Append(@, <<s.C, M_RDMEM(s, Pair(s, "HL"))>>)], d)

Block(s, op) ==
  LET d == IF Q(op) = 0 THEN 1 ELSE -1
      n == CASE Zz(op) = 0 -> LDx(s, d) [] Zz(op) = 1 -> CPx(s, d)
             [] Zz(op) = 2 -> INx(s, d) [] OTHER -> OUTx(s, d)
      more == CASE Zz(op) = 0 -> Pair(n, "BC") # 0
                [] Zz(op) = 1 -> Pair(n, "BC") # 0 /\ "Z" \notin n.F
                [] OTHER -> n.B # 0
  IN Repeat(n, Y(op) >= 6 /\ more)

\* LD A,I and LD A,R, whose bit 7 is that of R_saved: 0 since the reset.
LoadIR(s, v) ==
  [s EXCEPT !.A = v, !.F = SZ(v) \cup When(s.IFF, "P") \cup (@ \cap {"C"})]
NibbleRotate(s, left) ==
  LET n == M_RDMEM(s, Pair(s, "HL"))
      lo == s.A % 16
      a == s.A - lo + (IF left THEN n \div 16 ELSE n % 16)
  IN Flagged([M_WRMEM(s, Pair(s, "HL"),
                      IF left THEN Lo(16 * n) + lo ELSE n \div 16 + 16 * lo)
                EXCEPT !.A = a],
             SZP(a) \cup (s.F \cap {"C"}))
Specials(s, y) ==
  CASE y = 0 -> [s EXCEPT !.I = s.A]   [] y = 1 -> [s EXCEPT !.R = s.A]
    [] y = 2 -> LoadIR(s, s.I)         [] y = 3 -> LoadIR(s, s.R % 128)
    [] y = 4 -> NibbleRotate(s, FALSE) [] OTHER -> NibbleRotate(s, TRUE)

ExecuteED(s, op) ==
  LET y == Y(op)
      rr == RegPair(P(op), "HL")
      sum == IF Q(op) = 1 THEN M_ADCW(Pair(s, "HL"), Pair(s, rr), Carry(s))
             ELSE M_SBCW(Pair(s, "HL"), Pair(s, rr), Carry(s))
      in == Flagged(s, SZP(s.inp) \cup (s.F \cap {"C"}))
  IN IF X(op) = 2 /\ y >= 4 /\ Zz(op) < 4 THEN Block(s, op)
     ELSE IF X(op) # 1 \/ op \in {119, 127} THEN Wait(s, 8)
     ELSE CASE Zz(op) = 0 -> IF y = 6 THEN in ELSE Put(in, y, "HL", s.inp)
            [] Zz(op) = 1 -> [s EXCEPT !.out = Append(@, <<s.C, IF y = 6 THEN 0 ELSE Get(s, y, "HL")>>)]
            [] Zz(op) = 2 -> Flagged(SetPair(s, "HL", sum.v), sum.F)
            [] Zz(op) = 3 -> Skip(IF Q(op) = 0 THEN WrWord(s, Operand16(s), Pair(s, rr))
                                  ELSE SetPair(s, rr, Word(s, Operand16(s))), 2)
            [] Zz(op) = 4 -> Alu([s EXCEPT !.A = 0], 2, s.A)
            [] Zz(op) = 5 -> M_RET(s)
            [] Zz(op) = 6 -> [s EXCEPT !.IM = IF y % 4 < 2 THEN 0 ELSE (y % 4) - 1]
            [] OTHER -> Specials(s, y)

(* One instruction.  The states of a code, in the order of state_table. *)

state_table(op) ==
  LET y == Y(op)
      mem == y = 6 \/ Zz(op) = 6
  IN CASE X(op) = 1 -> IF mem /\ op # 118 THEN 7 ELSE 4
       [] X(op) = 2 -> IF Zz(op) = 6 THEN 7 ELSE 4
       [] X(op) = 0 -> CASE Zz(op) = 0 -> <<4, 4, 8, 7, 7, 7, 7, 7>>[y + 1]
                         [] Zz(op) = 1 -> 10 + Q(op)
                         [] Zz(op) = 2 -> <<7, 7, 7, 7, 16, 16, 13, 13>>[y + 1]
                         [] Zz(op) = 3 -> 6
                         [] Zz(op) \in {4, 5} -> IF y = 6 THEN 11 ELSE 4
                         [] Zz(op) = 6 -> IF y = 6 THEN 10 ELSE 7
                         [] OTHER -> 4
       [] OTHER -> CASE Zz(op) = 0 -> 5
                     [] Zz(op) = 1 -> <<10, 4, 10, 4, 10, 4, 10, 6>>[y + 1]
                     [] Zz(op) \in {2, 4} -> 10
                     [] Zz(op) = 3 -> <<10, 0, 11, 11, 19, 4, 4, 4>>[y + 1]
                     [] Zz(op) = 5 -> IF Q(op) = 0 THEN 11 ELSE IF y = 1 THEN 10 ELSE 0
                     [] Zz(op) = 6 -> 7
                     [] OTHER -> 11
state_CB_table(op) == IF Zz(op) # 6 THEN 8 ELSE IF X(op) = 1 THEN 12 ELSE 15
state_ED_table(op) ==
  IF X(op) = 2 /\ Y(op) >= 4 /\ Zz(op) < 4 THEN 16
  ELSE IF X(op) # 1 \/ op \in {119, 127} THEN 0
  ELSE <<12, 12, 15, 20, 8, 8, 8, IF Y(op) < 4 THEN 9 ELSE 18>>[Zz(op) + 1]

\* The codes that mean something after DD and FD: those of HL, H, L and (HL).
UsesHL(op) ==
  CASE X(op) = 0 -> \/ Zz(op) = 1 /\ Q(op) = 1
                    \/ Zz(op) \in 1..3 /\ P(op) = 2
                    \/ Zz(op) \in 4..6 /\ Y(op) \in 4..6
    [] X(op) = 1 -> op # 118 /\ (Y(op) \in 4..6 \/ Zz(op) \in 4..6)
    [] X(op) = 2 -> Zz(op) \in 4..6
    [] OTHER -> op \in {225, 227, 229, 233, 249}
HasD(op) ==
  CASE X(op) = 0 -> Zz(op) \in 4..6 /\ Y(op) = 6
    [] X(op) = 1 -> Y(op) = 6 \/ Zz(op) = 6
    [] OTHER -> X(op) = 2 /\ Zz(op) = 6
state_XX_table(op) ==
  IF ~UsesHL(op) THEN 0
  ELSE state_table(op) + 4 + (IF op = 54 THEN 5 ELSE IF HasD(op) THEN 8 ELSE 0)

Fetched(s) == [s EXCEPT !.PC = W16(@ + 1), !.R = Lo(@ + 1)]

\* After DD or FD; a code of another kind is left for the next instruction,
\* and no interrupt comes in between.
Prefixed(s, hl) ==
  LET op == Operand8(s)
      f == Wait(Fetched(s), state_XX_table(op))
      d == Skip(f, 1)
      opCB == Operand8(d)
  IN IF UsesHL(op) THEN Execute(f, op, hl)
     ELSE IF op = 203
     THEN ExecuteXXCB(Wait(Skip(d, 1), IF X(opCB) = 1 THEN 20 ELSE 23), opCB,
                      Address(f, hl))
     ELSE [Wait(s, 4) EXCEPT !.again = TRUE, !.intchk = 0]

Step(s) ==
  LET op == Operand8(s)
      f == Wait(Fetched(s), state_table(op))
      op2 == Operand8(f)
      f2 == Fetched(f)
  IN CASE op = 203 -> ExecuteCB(Wait(f2, state_CB_table(op2)), op2)
       [] op = 237 -> ExecuteED(Wait(f2, state_ED_table(op2)), op2)
       [] op = 221 -> Prefixed(f, "IX")
       [] op = 253 -> Prefixed(f, "IY")
       [] OTHER -> Execute(f, op, "HL")

(* An interrupt of a level, and the power on. *)

\* The code on the bus is twice the level; its states are looked up by the level.
z80_im0_interrupt(s, level) ==
  LET n == Wait(s, state_table(level))
  IN CASE level \in 1..7 -> Execute(n, 2 * level, "HL")
       [] OTHER -> n
z80_interrupt(s, level) ==
  LET n == [s EXCEPT !.IFF = FALSE, !.R = Lo(@ + 1), !.t = @ + 2, !.HALT = FALSE,
                     !.PC = IF s.HALT THEN W16(@ + 1) ELSE @]
  IN CASE n.IM = 0 -> z80_im0_interrupt(n, level)
       [] n.IM = 1 -> M_RST(Wait(n, state_table(255)), 56)
       [] OTHER -> Wait([M_PUSH(n, n.PC) EXCEPT !.PC = Word(n, 256 * n.I + 2 * level)], 17)

z80_reset(mem, inp) ==
  [A |-> 255, F |-> FLAGS, B |-> 255, C |-> 255, D |-> 255, E |-> 255, H |-> 255,
   L |-> 255, A1 |-> 255, F1 |-> FLAGS, B1 |-> 255, C1 |-> 255, D1 |-> 255,
   E1 |-> 255, H1 |-> 255, L1 |-> 255, IXh |-> 255, IXl |-> 255, IYh |-> 255,
   IYl |-> 255, SP |-> 65535, PC |-> 0, I |-> 0, R |-> 0, IFF |-> FALSE, IM |-> 0,
   HALT |-> FALSE, mem |-> mem, inp |-> inp, out |-> <<>>, t |-> 0, intchk |-> 0,
   again |-> FALSE, INT_active |-> FALSE, break_if_halt |-> FALSE]

(* The types: bytes in the registers, in memory and from the ports; two words. *)

BYTES == {"A", "B", "C", "D", "E", "H", "L", "A1", "B1", "C1", "D1", "E1", "H1", "L1",
          "IXh", "IXl", "IYh", "IYl", "I", "R", "inp"}
OTHERS == {"F", "F1", "SP", "PC", "IFF", "IM", "HALT", "mem", "out", "t", "intchk", "again",
           "INT_active", "break_if_halt"}
IsWord(w) == w \in Nat /\ w < 65536
IsBytes(f, S) == \A x \in S : f[x] \in Byte
IsCpu(s) ==
  /\ DOMAIN s = BYTES \cup OTHERS
  /\ IsBytes(s, BYTES) /\ IsBytes(s.mem, DOMAIN s.mem)
  /\ IsWord(s.SP) /\ IsWord(s.PC) /\ s.t \in Nat

(* The disassembler: the bytes z80_line_disasm takes for one line. *)

Length(op) ==
  CASE X(op) = 0 /\ (Zz(op) = 6 \/ (Zz(op) = 0 /\ Y(op) >= 2)) -> 2
    [] X(op) = 0 /\ Zz(op) = 1 /\ Q(op) = 0 -> 3
    [] X(op) = 0 /\ Zz(op) = 2 /\ Y(op) >= 4 -> 3
    [] X(op) = 3 /\ (Zz(op) \in {2, 4} \/ op \in {195, 205}) -> 3
    [] X(op) = 3 /\ (Zz(op) = 6 \/ op \in {211, 219}) -> 2
    [] OTHER -> 1
LengthED(op) == IF X(op) = 1 /\ Zz(op) = 3 THEN 4 ELSE 2
LengthCB(op) == 2
LengthDDCB(op) == 4
LengthFDCB(op) == 4
LengthDD(op) ==
  IF ~UsesHL(op) THEN 1 ELSE Length(op) + (IF HasD(op) THEN 2 ELSE 1)
LengthFD(op) == LengthDD(op)
z80_line_disasm(s) ==
  LET op == Operand8(s)
      op2 == M_RDMEM(s, s.PC + 1)
      op4 == M_RDMEM(s, s.PC + 3)
  IN CASE op = 203 -> LengthCB(op2) [] op = 237 -> LengthED(op2)
       [] op = 221 -> IF op2 = 203 THEN LengthDDCB(op4) ELSE LengthDD(op2)
       [] op = 253 -> IF op2 = 203 THEN LengthFDCB(op4) ELSE LengthFD(op2)
       [] OTHER -> Length(op)
=============================================================================
