------------------------------- MODULE MCCpu -------------------------------
(* Programs of one or two instructions on the numbers at the edges, block   *)
(* instructions with interrupts, and every code after every prefix.         *)
EXTENDS Undisturbed

CONSTANTS Edges,     \* bytes
          WordEdges, \* words
          Digits     \* decimal digits

Code == 32768
Data == 16384
Top16 == 63488
At(a, bytes) == [x \in a..(a + Len(bytes) - 1) |-> bytes[x - a + 1]]

\* PUSH AF; INC A; POP AF; EI; RET at 38H, where the vectors at 100H lead too.
Handler == At(56, <<245, 60, 241, 251, 201>>) @@ At(256, <<56, 0, 56, 0>>)
Base(bytes) ==
  [z80_reset(At(Code, bytes) @@ Handler, 7) EXCEPT !.PC = Code, !.SP = Top16, !.I = 1]

Prog(kind, bytes, c) ==
  [kind |-> kind, cpu |-> [Base(bytes) EXCEPT !.A = c.A, !.F = c.F, !.B = Hi(c.BC),
                             !.C = Lo(c.BC), !.H = Hi(c.HL), !.L = Lo(c.HL)],
   end |-> Code + Len(bytes)]
Regs(a, f, bc, hl) == [A |-> a, F |-> f, BC |-> bc, HL |-> hl]

ByteCodes == [ADD |-> <<128>>, ADC |-> <<136>>, SUB |-> <<144>>, SBC |-> <<152>>,
              CP |-> <<184>>, NEG |-> <<237, 68>>]
BytePrograms ==
  {Prog(k, ByteCodes[k], Regs(a, f, 256 * b, 0)) :
     k \in DOMAIN ByteCodes, a \in Edges, b \in Edges, f \in {{}, FLAGS}}
WordCodes == [ADCW |-> <<237, 74>>, SBCW |-> <<237, 66>>, SHL |-> <<203, 33, 203, 16>>,
              SAR |-> <<203, 40, 203, 25>>]
WordPrograms ==
  {Prog(k, WordCodes[k], Regs(0, f, x, y)) :
     k \in DOMAIN WordCodes, x \in WordEdges, y \in WordEdges, f \in {{}, {"C"}}}
\* ADC A,B or SBC A,B, and DAA.
Decimal == {16 * i + j : i \in Digits, j \in Digits}
DecimalPrograms ==
  {Prog("ADDB", <<136, 39>>, Regs(a, f, 256 * b, 0)) :
     a \in Decimal, b \in Decimal, f \in {{}, {"C"}}} \cup
  {Prog("SUBB", <<152, 39>>, Regs(a, f, 256 * b, 0)) :
     a \in Decimal, b \in Decimal, f \in {{}, {"C"}}}

\* EI and a repeated instruction on three bytes; HALT; prefixes of nothing.
Served(kind, bytes, a, bc, im) ==
  LET p == Prog(kind, <<251>> \o bytes, Regs(a, {}, bc, Data))
  IN [p EXCEPT !.cpu = [@ EXCEPT !.IM = im, !.D = 72, !.E = 0,
                                 !.mem = At(Data, <<1, 2, 3>>) @@ @]]
BlockPrograms ==
  UNION {{Served("COPY", <<237, 176>>, 0, 3, im), Served("COPY", <<237, 176>>, 0, 1, im),
          Served("down", <<237, 184>>, 0, 2, im),
          Served("FIND", <<237, 177>>, 2, 3, im), Served("FIND", <<237, 177>>, 9, 3, im),
          Served("in", <<237, 178>>, 0, 513, im), Served("SEND", <<237, 179>>, 0, 769, im),
          Served("in", <<237, 186>>, 0, 513, im), Served("out", <<237, 187>>, 0, 513, im),
          Served("HALT", <<118>>, 0, 0, im),
          Served("prefix", <<221, 253, 60, 221, 4, 253, 33, 1, 2>>, 0, 0, im)} : im \in {1, 2}}

\* Every code, after every prefix, with all flags down and up.
Prefixes == {<<>>, <<203>>, <<237>>, <<221>>, <<253>>, <<221, 203, 5>>, <<253, 203, 251>>}
OneOf(pre, op, f) ==
  [kind |-> "one", end |-> NoEnd,
   cpu |-> [Base(pre \o <<op>>) EXCEPT !.A = 3, !.F = f, !.B = 2, !.C = 0, !.D = 64,
                                       !.E = 0, !.H = 64, !.L = 16, !.IXh = 65, !.IYh = 66]]
OnePrograms ==
  {OneOf(pre, op, f) : pre \in Prefixes, op \in Byte \ {118}, f \in {{}, FLAGS}}

MCPrograms == BytePrograms \cup WordPrograms \cup DecimalPrograms \cup BlockPrograms
              \cup OnePrograms
=============================================================================
