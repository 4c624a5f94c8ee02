----------------------------- MODULE CpuProofs -----------------------------
(***************************************************************************)
(* Proofs about Z80 and Cpu, for every CPU and every program: registers    *)
(* and memory stay bytes, and every instruction but a jump goes on behind  *)
(* the bytes that the disassembler shows for it.                           *)
(*                                                                         *)
(* Moves(s, n, k) says that n is a CPU again, whose PC is k further than   *)
(* that of s and whose states are no fewer.  Each operator has a lemma of  *)
(* this form, with the k that it reads behind the code; an instruction     *)
(* adds them up.                                                           *)
(*                                                                         *)
(* At the end, the arithmetic behind ResultRight, for all numbers.         *)
(***************************************************************************)
EXTENDS Cpu, TLAPS

Moves(s, n, k) == IsCpu(n) /\ n.PC = W16(s.PC + k) /\ n.t >= s.t
\* A jump may go anywhere.
Goes(s, n) == IsCpu(n) /\ n.t >= s.t

-----------------------------------------------------------------------------
(* Numbers                                                                 *)

LEMMA ByteIs == ASSUME NEW b PROVE b \in Byte <=> b \in Nat /\ b < 256
BY DEF Byte

LEMMA LowIs == ASSUME NEW w \in Int PROVE Lo(w) \in Byte /\ Hi(w) \in Byte
BY ByteIs DEF Lo, Hi

LEMMA WordIs ==
  ASSUME NEW w \in Int
  PROVE  IsWord(W16(w)) /\ W16(W16(w)) = W16(w)
BY DEF W16, IsWord

LEMMA WordAdds ==
  ASSUME NEW w \in Int, NEW k \in Int
  PROVE  W16(W16(w) + k) = W16(w + k)
BY DEF W16

-----------------------------------------------------------------------------
(* Single registers                                                        *)

LEMMA Has ==
  ASSUME NEW s, IsCpu(s)
  PROVE  /\ IsWord(s.PC) /\ IsWord(s.SP) /\ s.t \in Nat
         /\ DOMAIN s = BYTES \cup OTHERS
BY DEF IsCpu

LEMMA Here == ASSUME NEW w, IsWord(w) PROVE W16(w + 0) = w
BY DEF W16, IsWord

LEMMA Still == ASSUME NEW s, IsCpu(s) PROVE Moves(s, s, 0)
<1>1. IsWord(s.PC) /\ s.t \in Nat
  BY Has
<1> QED BY <1>1, Here DEF Moves

LEMMA Keeps ==
  ASSUME NEW s, IsCpu(s), NEW n, DOMAIN n = BYTES \cup OTHERS, IsBytes(n, BYTES),
         IsBytes(n.mem, DOMAIN n.mem), IsWord(n.SP), n.PC = s.PC, n.t \in Nat, n.t >= s.t
  PROVE  Moves(s, n, 0)
<1>1. IsWord(n.PC)
  BY Has
<1>2. IsCpu(n)
  BY <1>1 DEF IsCpu
<1> QED BY <1>2, Has, Here DEF Moves

LEMMA MemoryOf == ASSUME NEW s, IsCpu(s) PROVE IsBytes(s.mem, DOMAIN s.mem) /\ IsBytes(s, BYTES)
BY DEF IsCpu

LEMMA Then ==
  ASSUME NEW s, NEW m, NEW n, NEW j \in Int, NEW k \in Int, IsCpu(s), Moves(s, m, j), Moves(m, n, k)
  PROVE  Moves(s, n, j + k)
<1>1. s.PC + j \in Int /\ s.t \in Int /\ m.t \in Int /\ n.t \in Int
  BY Has DEF Moves, IsCpu, IsWord
<1>2. W16(W16(s.PC + j) + k) = W16((s.PC + j) + k)
  BY <1>1, WordAdds
<1>3. (s.PC + j) + k = s.PC + (j + k)
  BY Has DEF IsWord
<1> QED BY <1>1, <1>2, <1>3 DEF Moves

LEMMA ByteSet ==
  ASSUME NEW s, IsCpu(s), NEW r \in BYTES, NEW b \in Byte
  PROVE  Moves(s, [s EXCEPT ![r] = b], 0)
<1> DEFINE n == [s EXCEPT ![r] = b]
<1>1. /\ DOMAIN n = BYTES \cup OTHERS
      /\ \A x \in BYTES \cup OTHERS : n[x] = IF x = r THEN b ELSE s[x]
  BY DEF IsCpu
<1>2. \A x \in OTHERS : x # r
  BY DEF BYTES, OTHERS
<1>3. \A x \in OTHERS : n[x] = s[x]
  BY <1>1, <1>2
<1> HIDE DEF n
<1>4. n.SP = s.SP /\ n.PC = s.PC /\ n.t = s.t /\ n.mem = s.mem
  BY <1>3 DEF OTHERS
<1>5. IsBytes(n, BYTES)
  BY <1>1 DEF IsCpu, IsBytes
<1>6. n.t \in Nat /\ n.t >= s.t /\ IsWord(n.SP) /\ IsBytes(n.mem, DOMAIN n.mem)
  BY <1>4, Has, MemoryOf
<1>7. Moves(s, n, 0)
  BY <1>1, <1>4, <1>5, <1>6, Keeps
<1> QED BY <1>7 DEF n

\* The registers that are neither bytes nor of any interest here.
FREE == {"F", "F1", "IFF", "IM", "HALT", "out", "intchk", "again", "INT_active", "break_if_halt"}
LEMMA FreeSet ==
  ASSUME NEW s, IsCpu(s), NEW r \in FREE, NEW v
  PROVE  Moves(s, [s EXCEPT ![r] = v], 0)
<1> DEFINE n == [s EXCEPT ![r] = v]
<1>1. /\ DOMAIN n = BYTES \cup OTHERS
      /\ \A x \in BYTES \cup OTHERS : n[x] = IF x = r THEN v ELSE s[x]
  BY DEF IsCpu
<1>2. \A x \in BYTES \cup {"SP", "PC", "t", "mem"} : x # r
  BY DEF BYTES, FREE
<1>3. \A x \in BYTES \cup {"SP", "PC", "t", "mem"} : n[x] = s[x]
  BY <1>1, <1>2 DEF OTHERS
<1> HIDE DEF n
<1>4. n.SP = s.SP /\ n.PC = s.PC /\ n.t = s.t /\ n.mem = s.mem
  BY <1>3
<1>5. IsBytes(n, BYTES)
  BY <1>3 DEF IsCpu, IsBytes
<1>6. n.t \in Nat /\ n.t >= s.t /\ IsWord(n.SP) /\ IsBytes(n.mem, DOMAIN n.mem)
  BY <1>4, Has, MemoryOf
<1>7. Moves(s, n, 0)
  BY <1>1, <1>4, <1>5, <1>6, Keeps
<1> QED BY <1>7 DEF n

LEMMA FlagsSet == ASSUME NEW s, IsCpu(s), NEW F PROVE Moves(s, Flagged(s, F), 0)
BY FreeSet DEF Flagged, FREE

LEMMA StackSet ==
  ASSUME NEW s, IsCpu(s), NEW w, IsWord(w)
  PROVE  Moves(s, [s EXCEPT !.SP = w], 0)
<1> DEFINE n == [s EXCEPT !.SP = w]
<1>1. /\ DOMAIN n = BYTES \cup OTHERS /\ n.SP = w
      /\ \A x \in BYTES \cup {"PC", "t", "mem"} : n[x] = s[x]
  BY DEF IsCpu, BYTES, OTHERS
<1> HIDE DEF n
<1>2. IsBytes(n, BYTES)
  BY <1>1, MemoryOf DEF IsBytes
<1>3. n.t \in Nat /\ n.t >= s.t /\ IsWord(n.SP) /\ IsBytes(n.mem, DOMAIN n.mem) /\ n.PC = s.PC
  BY <1>1, Has, MemoryOf
<1>4. Moves(s, n, 0)
  BY <1>1, <1>2, <1>3, Keeps
<1> QED BY <1>4 DEF n

LEMMA ProgramSet ==
  ASSUME NEW s, IsCpu(s), NEW w, IsWord(w)
  PROVE  LET n == [s EXCEPT !.PC = w] IN IsCpu(n) /\ n.PC = w /\ n.t = s.t
<1> DEFINE n == [s EXCEPT !.PC = w]
<1>1. /\ DOMAIN n = BYTES \cup OTHERS /\ n.PC = w
      /\ \A x \in BYTES \cup {"SP", "t", "mem"} : n[x] = s[x]
  BY DEF IsCpu, BYTES, OTHERS
<1> HIDE DEF n
<1>2. IsBytes(n, BYTES)
  BY <1>1, MemoryOf DEF IsBytes
<1>3. n.t = s.t /\ n.t \in Nat /\ IsWord(n.SP) /\ IsBytes(n.mem, DOMAIN n.mem)
  BY <1>1, Has, MemoryOf
<1>4. IsCpu(n)
  BY <1>1, <1>2, <1>3 DEF IsCpu
<1> QED BY <1>1, <1>3, <1>4 DEF n

LEMMA Skips ==
  ASSUME NEW s, IsCpu(s), NEW k \in Int
  PROVE  Moves(s, Skip(s, k), k)
<1> DEFINE w == W16(s.PC + k)
<1>1. Skip(s, k) = [s EXCEPT !.PC = w]
  BY DEF Skip
<1>2. IsWord(w) /\ s.t \in Nat
  BY WordIs, Has DEF IsWord
<1> HIDE DEF w
<1>3. LET n == [s EXCEPT !.PC = w] IN IsCpu(n) /\ n.PC = w /\ n.t = s.t
  BY <1>2, ProgramSet
<1> QED BY <1>1, <1>2, <1>3 DEF Moves, w

LEMMA Waits ==
  ASSUME NEW s, IsCpu(s), NEW k \in Nat
  PROVE  Moves(s, Wait(s, k), 0) /\ Wait(s, k).t = s.t + k
<1> DEFINE n == Wait(s, k)
<1>1. /\ DOMAIN n = BYTES \cup OTHERS /\ n.t = s.t + k
      /\ \A x \in BYTES \cup {"SP", "PC", "mem"} : n[x] = s[x]
  BY DEF IsCpu, BYTES, OTHERS, Wait
<1> HIDE DEF n
<1>2. IsBytes(n, BYTES)
  BY <1>1, MemoryOf DEF IsBytes
<1>3. n.t \in Nat /\ n.t >= s.t /\ IsWord(n.SP) /\ IsBytes(n.mem, DOMAIN n.mem) /\ n.PC = s.PC
  BY <1>1, Has, MemoryOf
<1>4. Moves(s, n, 0)
  BY <1>1, <1>2, <1>3, Keeps
<1> QED BY <1>1, <1>4 DEF n

-----------------------------------------------------------------------------
(* Memory                                                                  *)

LEMMA ReadIs == ASSUME NEW s, IsCpu(s), NEW a PROVE M_RDMEM(s, a) \in Byte
BY ByteIs DEF M_RDMEM, IsCpu, IsBytes

LEMMA ReadWord == ASSUME NEW s, IsCpu(s), NEW a PROVE IsWord(Word(s, a))
<1>1. M_RDMEM(s, a) \in Byte /\ M_RDMEM(s, a + 1) \in Byte
  BY ReadIs
<1> QED BY <1>1, ByteIs DEF Word, IsWord

LEMMA Writes ==
  ASSUME NEW s, IsCpu(s), NEW a, NEW b \in Byte
  PROVE  Moves(s, M_WRMEM(s, a, b), 0)
<1> DEFINE m == [x \in {W16(a)} \cup DOMAIN s.mem |-> IF x = W16(a) THEN b ELSE s.mem[x]]
           n == M_WRMEM(s, a, b)
<1>1. n = [s EXCEPT !.mem = m]
  BY DEF M_WRMEM
<1>2. IsBytes(m, DOMAIN m)
  BY DEF IsCpu, IsBytes
<1> HIDE DEF m, n
<1>3. /\ DOMAIN n = BYTES \cup OTHERS /\ n.mem = m
      /\ \A x \in BYTES \cup {"SP", "PC", "t"} : n[x] = s[x]
  BY <1>1 DEF IsCpu, BYTES, OTHERS
<1>4. IsBytes(n, BYTES)
  BY <1>3, MemoryOf DEF IsBytes
<1>5. n.t \in Nat /\ n.t >= s.t /\ IsWord(n.SP) /\ n.PC = s.PC
  BY <1>3, Has
<1>6. Moves(s, n, 0)
  BY <1>2, <1>3, <1>4, <1>5, Keeps
<1> QED BY <1>6 DEF n

LEMMA WritesWord ==
  ASSUME NEW s, IsCpu(s), NEW a, NEW w \in Int
  PROVE  Moves(s, WrWord(s, a, w), 0)
<1> DEFINE m == M_WRMEM(s, a, Lo(w))  n == M_WRMEM(m, a + 1, Hi(w))
<1>1. Moves(s, m, 0)
  BY LowIs, Writes
<1>2. IsCpu(m)
  BY <1>1 DEF Moves
<1> HIDE DEF m
<1>3. Moves(m, n, 0)
  BY <1>2, LowIs, Writes
<1> HIDE DEF n
<1>4. Moves(s, n, 0 + 0)
  BY <1>1, <1>3, Then
<1> QED BY <1>4 DEF WrWord, m, n

LEMMA Operands ==
  ASSUME NEW s, IsCpu(s)
  PROVE  Operand8(s) \in Byte /\ IsWord(Operand16(s)) /\ IsWord(Popped(s))
BY ReadIs, ReadWord DEF Operand8, Operand16, Popped

-----------------------------------------------------------------------------
(* Bits and arithmetic                                                     *)

LEMMA WeightIs == ASSUME NEW i \in Nat, i < 16 PROVE Weight(i) \in Nat /\ Weight(i) > 0
BY DEF Weight, Weights

LEMMA BitIs ==
  ASSUME NEW x \in Int, NEW i \in Nat, i < 16
  PROVE  Bit(x, i) = 0 \/ Bit(x, i) = 1
<1>1. Weight(i) \in Nat /\ Weight(i) > 0
  BY WeightIs
<1>2. x \div Weight(i) \in Int
  BY <1>1
<1> QED BY <1>2 DEF Bit

Eight(a, b, c, d, e, f, g, h) ==
  a + b * 2 + c * 4 + d * 8 + e * 16 + f * 32 + g * 64 + h * 128
LEMMA EightBits ==
  ASSUME NEW a \in Nat, a < 2, NEW b \in Nat, b < 2, NEW c \in Nat, c < 2, NEW d \in Nat, d < 2,
         NEW e \in Nat, e < 2, NEW f \in Nat, f < 2, NEW g \in Nat, g < 2, NEW h \in Nat, h < 2
  PROVE  Eight(a, b, c, d, e, f, g, h) \in Byte
<1>1. /\ Eight(a, b, c, d, e, f, g, h) \in Nat
      /\ Eight(a, b, c, d, e, f, g, h) < 256
  BY DEF Eight
<1> QED BY <1>1, ByteIs

LEMMA BitwiseIs ==
  ASSUME NEW x \in Byte, NEW y \in Byte, NEW f, f \in {AndBit, OrBit, XorBit}
  PROVE  Bitwise8(x, y, f) \in Byte
<1> DEFINE g(i) == f[Bit(x, i)][Bit(y, i)]
<1>1. \A a, b \in 0..1 : f[a][b] \in Nat /\ f[a][b] < 2
  BY DEF AndBit, OrBit, XorBit
<1>2. \A i \in Nat : i < 16 => g(i) \in Nat /\ g(i) < 2
  BY <1>1, BitIs, ByteIs
<1>3. /\ Weight(0) = 1 /\ Weight(1) = 2 /\ Weight(2) = 4 /\ Weight(3) = 8
      /\ Weight(4) = 16 /\ Weight(5) = 32 /\ Weight(6) = 64 /\ Weight(7) = 128
  BY DEF Weight, Weights
<1> HIDE DEF g
<1>6. /\ g(0) \in Nat /\ g(0) < 2  /\ g(1) \in Nat /\ g(1) < 2
      /\ g(2) \in Nat /\ g(2) < 2  /\ g(3) \in Nat /\ g(3) < 2
      /\ g(4) \in Nat /\ g(4) < 2  /\ g(5) \in Nat /\ g(5) < 2
      /\ g(6) \in Nat /\ g(6) < 2  /\ g(7) \in Nat /\ g(7) < 2
  BY <1>2
<1>4. Eight(g(0), g(1), g(2), g(3), g(4), g(5), g(6), g(7)) \in Byte
  BY <1>6, EightBits
<1> QED BY <1>3, <1>4, <1>6 DEF Bitwise8, Eight, g

LEMMA SetBitIs ==
  ASSUME NEW b \in Byte, NEW i \in Nat, i < 8, NEW v, v = 0 \/ v = 1
  PROVE  SetBit(b, i, v) \in Byte
<1>1. b \in Nat /\ b < 256
  BY ByteIs
<1>2. i = 0 \/ i = 1 \/ i = 2 \/ i = 3 \/ i = 4 \/ i = 5 \/ i = 6 \/ i = 7
  OBVIOUS
<1>3. SetBit(b, i, v) \in Nat /\ SetBit(b, i, v) < 256
  BY <1>1, <1>2 DEF SetBit, Bit, Weight, Weights
<1> QED BY <1>3, ByteIs

LEMMA RotIs ==
  ASSUME NEW y, NEW n \in Byte, NEW F
  PROVE  Rot(y, n, F).v \in Byte
<1>1. n \in Nat /\ n < 256
  BY ByteIs
<1>2. Bit(n, 7) = n \div 128 /\ Bit(n, 0) = n % 2
  BY <1>1 DEF Bit, Weight, Weights
<1>3. Rot(y, n, F).v \in Nat /\ Rot(y, n, F).v < 256
  BY <1>1, <1>2 DEF Rot, Lo
<1> QED BY <1>3, ByteIs

-----------------------------------------------------------------------------
(* Codes, pairs and operands                                               *)

LEMMA Decoded ==
  ASSUME NEW op \in Byte
  PROVE  /\ X(op) \in Nat /\ X(op) < 4 /\ Y(op) \in Nat /\ Y(op) < 8
         /\ Zz(op) \in Nat /\ Zz(op) < 8
         /\ P(op) \in Nat /\ P(op) < 4 /\ Q(op) \in Nat /\ Q(op) < 2
         /\ Y(op) = 2 * P(op) + Q(op)
         /\ op = 64 * X(op) + 8 * Y(op) + Zz(op)
<1>1. op \in Nat /\ op < 256
  BY ByteIs
<1> QED BY <1>1 DEF X, Y, Zz, P, Q

LEMMA EightIs ==
  ASSUME NEW i \in Nat, i < 8
  PROVE  i \in {0, 1, 2, 3, 4, 5, 6, 7}
OBVIOUS

HLS == {"HL", "IX", "IY"}
PAIRS == {"BC", "DE", "HL", "IX", "IY", "SP"}

LEMMA RegIs ==
  ASSUME NEW i \in Nat, i < 8, i # 6, NEW hl \in HLS
  PROVE  Reg(i, hl) \in BYTES
<1>1. HighOf[hl] \in BYTES /\ LowOf[hl] \in BYTES
  BY DEF HLS, HighOf, LowOf, BYTES
<1>2. i = 0 \/ i = 1 \/ i = 2 \/ i = 3 \/ i = 4 \/ i = 5 \/ i = 7
  OBVIOUS
<1>3. {"A", "B", "C", "D", "E"} \subseteq BYTES
  BY DEF BYTES
<1> QED BY <1>1, <1>2, <1>3 DEF Reg

LEMMA RegPairIs ==
  ASSUME NEW i \in Nat, i < 4, NEW hl \in HLS
  PROVE  RegPair(i, hl) \in PAIRS
<1>1. i = 0 \/ i = 1 \/ i = 2 \/ i = 3
  OBVIOUS
<1> QED BY <1>1 DEF RegPair, PAIRS, HLS

LEMMA Halves ==
  ASSUME NEW rr \in PAIRS, rr # "SP"
  PROVE  /\ HighOf[rr] \in BYTES /\ LowOf[rr] \in BYTES
         /\ rr \notin {"SP", "PC"}
BY DEF PAIRS, HighOf, LowOf, BYTES

LEMMA PairIs ==
  ASSUME NEW s, IsCpu(s), NEW rr \in PAIRS
  PROVE  IsWord(Pair(s, rr))
<1>1. CASE rr = "SP"
  BY <1>1, Has DEF Pair
<1>2. CASE rr # "SP"
  <2>1. s[HighOf[rr]] \in Byte /\ s[LowOf[rr]] \in Byte
    BY <1>2, Halves, MemoryOf DEF IsBytes
  <2>2. Pair(s, rr) = 256 * s[HighOf[rr]] + s[LowOf[rr]]
    BY <1>2, Halves DEF Pair
  <2> QED BY <2>1, <2>2, ByteIs DEF IsWord
<1> QED BY <1>1, <1>2

LEMMA TwoBytes ==
  ASSUME NEW s, IsCpu(s), NEW r \in BYTES, NEW q \in BYTES, NEW b \in Byte, NEW c \in Byte
  PROVE  Moves(s, [s EXCEPT ![r] = b, ![q] = c], 0)
<1> DEFINE m == [s EXCEPT ![r] = b]  n == [m EXCEPT ![q] = c]
<1>1. Moves(s, m, 0)
  BY ByteSet
<1>2. IsCpu(m)
  BY <1>1 DEF Moves
<1>3. n = [s EXCEPT ![r] = b, ![q] = c]
  OBVIOUS
<1> HIDE DEF m
<1>4. Moves(m, n, 0)
  BY <1>2, ByteSet
<1> HIDE DEF n
<1>5. Moves(s, n, 0 + 0)
  BY <1>1, <1>4, Then
<1> QED BY <1>3, <1>5

LEMMA PairSet ==
  ASSUME NEW s, IsCpu(s), NEW rr \in PAIRS, NEW w \in Int
  PROVE  Moves(s, SetPair(s, rr, w), 0)
<1>1. CASE rr = "SP"
  <2>1. IsWord(W16(w))
    BY WordIs
  <2> QED BY <1>1, <2>1, StackSet DEF SetPair
<1>2. CASE rr # "SP"
  BY <1>2, Halves, LowIs, TwoBytes DEF SetPair
<1> QED BY <1>1, <1>2

LEMMA Unstacks ==
  ASSUME NEW s, IsCpu(s), NEW k \in Int
  PROVE  Moves(s, [s EXCEPT !.SP = W16(@ + k)], 0)
<1>1. IsWord(W16(s.SP + k))
  BY Has, WordIs DEF IsWord
<1>2. [s EXCEPT !.SP = W16(@ + k)] = [s EXCEPT !.SP = W16(s.SP + k)]
  OBVIOUS
<1> QED BY <1>1, <1>2, StackSet

LEMMA UnstackMoves == ASSUME NEW s, IsCpu(s) PROVE Moves(s, Unstack(s), 0)
BY Unstacks DEF Unstack

LEMMA PushMoves ==
  ASSUME NEW s, IsCpu(s), NEW w \in Int
  PROVE  Moves(s, M_PUSH(s, w), 0)
<1> DEFINE m == WrWord(s, s.SP - 2, w)
<1>1. Moves(s, m, 0)
  BY WritesWord
<1>2. IsCpu(m)
  BY <1>1 DEF Moves
<1>3. M_PUSH(s, w) = [m EXCEPT !.SP = W16(@ + (-2))]
  <2>1. m.SP - 2 = m.SP + (-2)
    BY <1>2, Has DEF IsWord
  <2> QED BY <2>1 DEF M_PUSH
<1> HIDE DEF m
<1>4. Moves(m, M_PUSH(s, w), 0)
  BY <1>2, <1>3, Unstacks
<1>5. Moves(s, M_PUSH(s, w), 0 + 0)
  BY <1>1, <1>4, Then
<1> QED BY <1>5

LEMMA IsMoved == ASSUME NEW s, NEW n, NEW k, Moves(s, n, k) PROVE IsCpu(n)
BY DEF Moves

\* A step that moves nothing, before another.
LEMMA Before ==
  ASSUME NEW s, NEW m, NEW n, NEW k \in Int, IsCpu(s), Moves(s, m, 0), Moves(m, n, k)
  PROVE  Moves(s, n, k)
<1>1. Moves(s, n, 0 + k)
  BY Then
<1> QED BY <1>1

\* And after it.
LEMMA After ==
  ASSUME NEW s, NEW m, NEW n, NEW k \in Int, IsCpu(s), Moves(s, m, k), Moves(m, n, 0)
  PROVE  Moves(s, n, k)
<1>1. Moves(s, n, k + 0)
  BY Then
<1> QED BY <1>1

LEMMA BytesOf == ASSUME NEW s, IsCpu(s), NEW r \in BYTES PROVE s[r] \in Byte
BY DEF IsCpu, IsBytes

LEMMA AccumulatorSet ==
  ASSUME NEW s, IsCpu(s), NEW b \in Byte, NEW F
  PROVE  Moves(s, [s EXCEPT !.A = b, !.F = F], 0)
<1> DEFINE m == [s EXCEPT !.A = b]  n == [m EXCEPT !.F = F]
<1>1. Moves(s, m, 0)
  BY ByteSet DEF BYTES
<1>2. n = [s EXCEPT !.A = b, !.F = F]
  OBVIOUS
<1>3. IsCpu(m)
  BY <1>1, IsMoved
<1> HIDE DEF m
<1>4. Moves(m, n, 0)
  BY <1>3, FreeSet DEF FREE
<1> HIDE DEF n
<1> QED BY <1>1, <1>2, <1>4, Before

\* The displacement that is read behind the code.
Displaced(hl) == IF hl = "HL" THEN 0 ELSE 1

LEMMA PastDMoves ==
  ASSUME NEW s, IsCpu(s), NEW hl
  PROVE  Moves(s, PastD(s, hl), Displaced(hl))
BY Still, Skips DEF PastD, Displaced

LEMMA GetIs ==
  ASSUME NEW s, IsCpu(s), NEW i \in Nat, i < 8, NEW hl \in HLS
  PROVE  Get(s, i, hl) \in Byte
BY ReadIs, RegIs, BytesOf DEF Get

LEMMA PutMoves ==
  ASSUME NEW s, IsCpu(s), NEW i \in Nat, i < 8, NEW hl \in HLS, NEW b \in Byte
  PROVE  Moves(s, Put(s, i, hl, b), IF i = 6 THEN Displaced(hl) ELSE 0)
<1> DEFINE m == M_WRMEM(s, Address(s, hl), b)
<1>1. Moves(s, m, 0)
  BY Writes
<1>2. IsCpu(m) /\ Displaced(hl) \in Int
  BY <1>1, IsMoved DEF Displaced
<1>3. CASE i # 6
  BY <1>3, RegIs, ByteSet DEF Put
<1>4. CASE i = 6
  <2>1. Put(s, i, hl, b) = PastD(m, hl)
    BY <1>4 DEF Put
  <2> HIDE DEF m
  <2>2. Moves(m, PastD(m, hl), Displaced(hl))
    BY <1>2, PastDMoves
  <2>3. Moves(s, PastD(m, hl), Displaced(hl))
    BY <1>1, <1>2, <2>2, Before
  <2> QED BY <1>4, <2>1, <2>3
<1> QED BY <1>3, <1>4

LEMMA AluMoves ==
  ASSUME NEW s, IsCpu(s), NEW y, NEW n \in Byte
  PROVE  Moves(s, Alu(s, y, n), 0)
<1> DEFINE a == s.A
           r == CASE y = 0 -> M_ADC(a, n, 0)
                  [] y = 1 -> M_ADC(a, n, Carry(s))
                  [] y = 3 -> M_SBC(a, n, Carry(s))
                  [] y = 4 -> Logic(Bitwise8(a, n, AndBit), {"H"})
                  [] y = 5 -> Logic(Bitwise8(a, n, XorBit), {})
                  [] y = 6 -> Logic(Bitwise8(a, n, OrBit), {})
                  [] OTHER -> M_SBC(a, n, 0)
           v == IF y = 7 THEN a ELSE r.v
<1>1. Alu(s, y, n) = [s EXCEPT !.A = v, !.F = r.F]
  BY DEF Alu
<1>2. a \in Byte /\ a \in Int /\ n \in Int /\ Carry(s) \in Int
  BY BytesOf, ByteIs DEF BYTES, Carry
<1> HIDE DEF a
<1>3. \A c \in Int : M_ADC(a, n, c).v \in Byte
  BY <1>2, LowIs DEF M_ADC
<1>4. \A c \in Int : M_SBC(a, n, c).v \in Byte
  BY <1>2, LowIs DEF M_SBC, W16
<1>5. \A F : \A f \in {AndBit, OrBit, XorBit} : Logic(Bitwise8(a, n, f), F).v \in Byte
  BY <1>2, BitwiseIs DEF Logic
<1>6. r.v \in Byte
  BY <1>2, <1>3, <1>4, <1>5
<1>7. v \in Byte
  BY <1>2, <1>6
<1> HIDE DEF r, v
<1>8. Moves(s, [s EXCEPT !.A = v, !.F = r.F], 0)
  BY <1>7, AccumulatorSet
<1> QED BY <1>1, <1>8 DEF a

LEMMA DAAMoves == ASSUME NEW s, IsCpu(s) PROVE Moves(s, DAA(s), 0)
<1> DEFINE a == s.A
           v == Lo(IF "N" \in s.F THEN a - DAA_step(a, s.F) ELSE a + DAA_step(a, s.F))
<1>1. a \in Int
  BY BytesOf, ByteIs DEF BYTES
<1>2. DAA_step(a, s.F) \in Int
  BY DEF DAA_step
<1>3. v \in Byte
  BY <1>1, <1>2, LowIs
<1>4. PICK F : DAA(s) = [s EXCEPT !.A = v, !.F = F]
  BY DEF DAA
<1> HIDE DEF v
<1>5. Moves(s, [s EXCEPT !.A = v, !.F = F], 0)
  BY <1>3, AccumulatorSet
<1> QED BY <1>4, <1>5 DEF v

-----------------------------------------------------------------------------
(* Jumps                                                                   *)

LEMMA AnyMove == ASSUME NEW s, NEW n, NEW k, Moves(s, n, k) PROVE Goes(s, n)
BY DEF Moves, Goes

LEMMA GoesOn ==
  ASSUME NEW s, NEW m, NEW n, IsCpu(s), Goes(s, m), Goes(m, n)
  PROVE  Goes(s, n)
<1>1. IsCpu(m) /\ IsCpu(n) /\ m.t >= s.t /\ n.t >= m.t
  BY DEF Goes
<1>2. s.t \in Nat /\ m.t \in Nat /\ n.t \in Nat
  BY <1>1, Has
<1>3. n.t >= s.t
  BY <1>1, <1>2
<1> QED BY <1>1, <1>3 DEF Goes

LEMMA PCGoes ==
  ASSUME NEW s, IsCpu(s), NEW w, IsWord(w)
  PROVE  Goes(s, [s EXCEPT !.PC = w])
<1> DEFINE n == [s EXCEPT !.PC = w]
<1>1. IsCpu(n) /\ n.t = s.t
  BY ProgramSet
<1> HIDE DEF n
<1>2. Goes(s, n)
  BY <1>1, Has DEF Goes
<1> QED BY <1>2 DEF n

LEMMA WaitGoes ==
  ASSUME NEW s, IsCpu(s), NEW m, Goes(s, m), NEW k \in Nat
  PROVE  Goes(s, Wait(m, k))
<1>1. IsCpu(m)
  BY DEF Goes
<1>2. Goes(m, Wait(m, k))
  BY <1>1, Waits, AnyMove
<1> QED BY <1>2, GoesOn

LEMMA JRGoes == ASSUME NEW s, IsCpu(s) PROVE Goes(s, M_JR(s))
<1> DEFINE w == W16(s.PC + Offset(Operand8(s)) + 1)  m == [s EXCEPT !.PC = w]
<1>1. Operand8(s) \in Int /\ s.PC \in Int
  BY Operands, ByteIs, Has DEF IsWord
<1>2. IsWord(w)
  BY <1>1, WordIs DEF Offset
<1>3. M_JR(s) = Wait(m, 5)
  BY DEF M_JR
<1> HIDE DEF w
<1>4. Goes(s, m)
  BY <1>2, PCGoes
<1> HIDE DEF m
<1> QED BY <1>3, <1>4, WaitGoes

LEMMA CALLGoes == ASSUME NEW s, IsCpu(s) PROVE Goes(s, M_CALL(s))
<1> DEFINE m == M_PUSH(s, W16(s.PC + 2))  w == Operand16(s)  n == [m EXCEPT !.PC = w]
<1>1. W16(s.PC + 2) \in Int
  BY Has, WordIs DEF IsWord
<1>2. Moves(s, m, 0)
  BY <1>1, PushMoves
<1>3. IsCpu(m) /\ Goes(s, m)
  BY <1>2, IsMoved, AnyMove
<1>4. IsWord(w)
  BY Operands
<1>5. M_CALL(s) = Wait(n, 7)
  BY DEF M_CALL
<1> HIDE DEF m, w
<1>6. Goes(m, n)
  BY <1>3, <1>4, PCGoes
<1> HIDE DEF n
<1>7. Goes(s, n)
  BY <1>3, <1>6, GoesOn
<1> QED BY <1>5, <1>7, WaitGoes

LEMMA RETGoes == ASSUME NEW s, IsCpu(s) PROVE Goes(s, M_RET(s))
<1> DEFINE m == Unstack(s)  w == Popped(s)  n == [m EXCEPT !.PC = w]
<1>1. Moves(s, m, 0)
  BY UnstackMoves
<1>2. IsCpu(m) /\ Goes(s, m)
  BY <1>1, IsMoved, AnyMove
<1>3. IsWord(w)
  BY Operands
<1>4. M_RET(s) = Wait(n, 6)
  BY DEF M_RET
<1> HIDE DEF m, w
<1>5. Goes(m, n)
  BY <1>2, <1>3, PCGoes
<1> HIDE DEF n
<1>6. Goes(s, n)
  BY <1>2, <1>5, GoesOn
<1> QED BY <1>4, <1>6, WaitGoes

LEMMA RSTGoes ==
  ASSUME NEW s, IsCpu(s), NEW a, IsWord(a)
  PROVE  Goes(s, M_RST(s, a))
<1> DEFINE m == M_PUSH(s, s.PC)
<1>1. s.PC \in Int
  BY Has DEF IsWord
<1>2. Moves(s, m, 0)
  BY <1>1, PushMoves
<1>3. IsCpu(m) /\ Goes(s, m)
  BY <1>2, IsMoved, AnyMove
<1>4. M_RST(s, a) = [m EXCEPT !.PC = a]
  BY DEF M_RST
<1> HIDE DEF m
<1>5. Goes(m, [m EXCEPT !.PC = a])
  BY <1>3, PCGoes
<1> QED BY <1>3, <1>4, <1>5, GoesOn

-----------------------------------------------------------------------------
(* Codes without a prefix                                                  *)

Leaps(o) == \/ X(o) = 0 /\ Zz(o) = 0 /\ Y(o) >= 2
            \/ X(o) = 3 /\ Zz(o) \in {0, 2, 4, 7}
            \/ o \in {118, 195, 201, 205, 233}
\* What an instruction does whose code is op, k bytes long behind the code.
Runs(s, n, op, k) ==
  IsCpu(n) /\ n.t >= s.t /\ (Leaps(op) \/ n.PC = W16(s.PC + k))
\* The bytes behind a code.
Rest(op, hl) == Length(op) - 1 + (IF HasD(op) THEN Displaced(hl) ELSE 0)

LEMMA MovesRuns ==
  ASSUME NEW s, NEW n, NEW op, NEW k, Moves(s, n, k)
  PROVE  Runs(s, n, op, k)
BY DEF Moves, Runs

LEMMA GoesRuns ==
  ASSUME NEW s, NEW n, NEW op, NEW k, Goes(s, n), Leaps(op)
  PROVE  Runs(s, n, op, k)
BY DEF Goes, Runs

LEMMA Exchanges == ASSUME NEW s, IsCpu(s) PROVE Moves(s, Exchange(s), 0)
<1> DEFINE n == Exchange(s)
<1>1. /\ DOMAIN n = BYTES \cup OTHERS
      /\ \A x \in BYTES : n[x] = IF x = "A" THEN s.A1 ELSE IF x = "A1" THEN s.A ELSE s[x]
      /\ \A x \in {"SP", "PC", "t", "mem"} : n[x] = s[x]
  BY DEF IsCpu, BYTES, OTHERS, Exchange
<1> HIDE DEF n
<1>2. s.A \in Byte /\ s.A1 \in Byte
  BY BytesOf DEF BYTES
<1>3. IsBytes(n, BYTES)
  BY <1>1, <1>2, MemoryOf DEF IsBytes
<1>4. n.t \in Nat /\ n.t >= s.t /\ IsWord(n.SP) /\ IsBytes(n.mem, DOMAIN n.mem) /\ n.PC = s.PC
  BY <1>1, Has, MemoryOf
<1>5. Moves(s, n, 0)
  BY <1>1, <1>3, <1>4, Keeps
<1> QED BY <1>5 DEF n

LEMMA ExchangesX == ASSUME NEW s, IsCpu(s) PROVE Moves(s, EXX(s), 0)
<1> DEFINE n == EXX(s)
           other == [x \in BYTES |->
             CASE x = "B" -> "B1" [] x = "B1" -> "B" [] x = "C" -> "C1" [] x = "C1" -> "C"
               [] x = "D" -> "D1" [] x = "D1" -> "D" [] x = "E" -> "E1" [] x = "E1" -> "E"
               [] x = "H" -> "H1" [] x = "H1" -> "H" [] x = "L" -> "L1" [] x = "L1" -> "L"
               [] OTHER -> x]
<1>1. /\ DOMAIN n = BYTES \cup OTHERS
      /\ \A x \in BYTES : n[x] = s[other[x]]
      /\ \A x \in {"SP", "PC", "t", "mem"} : n[x] = s[x]
  <2>1. DOMAIN n = BYTES \cup OTHERS
    BY DEF IsCpu, EXX
  <2>2. \A x \in BYTES : n[x] = s[other[x]]
    BY DEF IsCpu, BYTES, EXX
  <2>3. \A x \in {"SP", "PC", "t", "mem"} : n[x] = s[x]
    BY DEF IsCpu, OTHERS, EXX
  <2> QED BY <2>1, <2>2, <2>3
<1>2. \A x \in BYTES : other[x] \in BYTES
  BY DEF BYTES
<1> HIDE DEF n, other
<1>3. IsBytes(n, BYTES)
  BY <1>1, <1>2, MemoryOf DEF IsBytes
<1>4. n.t \in Nat /\ n.t >= s.t /\ IsWord(n.SP) /\ IsBytes(n.mem, DOMAIN n.mem) /\ n.PC = s.PC
  BY <1>1, Has, MemoryOf
<1>5. Moves(s, n, 0)
  BY <1>1, <1>3, <1>4, Keeps
<1> QED BY <1>5 DEF n

LEMMA Accumulates ==
  ASSUME NEW s, IsCpu(s), NEW y
  PROVE  Moves(s, Accumulator(s, y), 0)
<1>1. s.A \in Byte /\ s.A \in Int /\ 255 - s.A \in Byte
  BY BytesOf, ByteIs DEF BYTES
<1>2. CASE y < 4
  <2> DEFINE r == Rot(y, s.A, s.F)  v == r.v
             F == (s.F \ {"H", "N", "C"}) \cup (r.F \cap {"C"})
  <2>1. v \in Byte
    BY <1>1, RotIs
  <2>2. Accumulator(s, y) = [s EXCEPT !.A = v, !.F = F]
    <3>1. Accumulator(s, y) =
            [s EXCEPT !.A = r.v, !.F = (@ \ {"H", "N", "C"}) \cup (r.F \cap {"C"})]
      BY <1>2 DEF Accumulator
    <3> QED BY <3>1, Zenon
  <2> HIDE DEF v, F
  <2>3. Moves(s, [s EXCEPT !.A = v, !.F = F], 0)
    BY <2>1, AccumulatorSet
  <2> QED BY <2>2, <2>3
<1>3. CASE ~(y < 4) /\ y = 4
  BY <1>3, DAAMoves DEF Accumulator
<1>4. CASE ~(y < 4) /\ y # 4 /\ y = 5
  <2> DEFINE v == 255 - s.A  F == s.F \cup {"H", "N"}
  <2>1. Accumulator(s, y) = [s EXCEPT !.A = v, !.F = F]
    <3>1. Accumulator(s, y) = [s EXCEPT !.A = 255 - @, !.F = @ \cup {"H", "N"}]
      BY <1>4 DEF Accumulator
    <3> QED BY <3>1, Zenon
  <2>2. v \in Byte
    BY <1>1
  <2> HIDE DEF v, F
  <2>3. Moves(s, [s EXCEPT !.A = v, !.F = F], 0)
    BY <2>2, AccumulatorSet
  <2> QED BY <2>1, <2>3
<1>5. CASE ~(y < 4) /\ y # 4 /\ y # 5
  <2>1. PICK F : Accumulator(s, y) = [s EXCEPT !.F = F]
    BY <1>5 DEF Accumulator
  <2>2. Moves(s, [s EXCEPT !.F = F], 0)
    BY FreeSet DEF FREE
  <2> QED BY <2>1, <2>2
<1> QED BY <1>2, <1>3, <1>4, <1>5

LEMMA Jumps0Goes ==
  ASSUME NEW s, IsCpu(s), NEW y \in Nat
  PROVE  /\ Goes(s, Jumps0(s, y))
         /\ y < 2 => Moves(s, Jumps0(s, y), 0)
<1> DEFINE b == Lo(s.B - 1)  djnz == [s EXCEPT !.B = b]
<1>1. s.B \in Int
  BY BytesOf, ByteIs DEF BYTES
<1>2. b \in Byte
  BY <1>1, LowIs
<1>3. y = 2 => Jumps0(s, y) = IF djnz.B # 0 THEN M_JR(djnz) ELSE Skip(djnz, 1)
  BY DEF Jumps0
<1> HIDE DEF b
<1>4. Moves(s, djnz, 0)
  BY <1>2, ByteSet DEF BYTES
<1>5. IsCpu(djnz) /\ Goes(s, djnz)
  BY <1>4, IsMoved, AnyMove
<1> HIDE DEF djnz
<1>6. \A m : IsCpu(m) => Goes(m, M_JR(m)) /\ Goes(m, Skip(m, 1))
  BY JRGoes, Skips, AnyMove
<1>7. CASE y = 2
  <2>1. Goes(s, M_JR(djnz)) /\ Goes(s, Skip(djnz, 1))
    BY <1>5, <1>6, GoesOn
  <2> QED BY <1>3, <1>7, <2>1
<1>8. CASE y = 0 \/ y = 1
  <2>1. Moves(s, Jumps0(s, y), 0)
    BY <1>8, Still, Exchanges DEF Jumps0
  <2> QED BY <2>1, AnyMove, <1>8
<1>9. CASE y # 0 /\ y # 1 /\ y # 2
  <2>1. Jumps0(s, y) = M_JR(s) \/ Jumps0(s, y) = Skip(s, 1)
    BY <1>9 DEF Jumps0
  <2> QED BY <2>1, <1>6, <1>9
<1> QED BY <1>7, <1>8, <1>9

LEMMA LoadsAMoves ==
  ASSUME NEW s, IsCpu(s), NEW y \in Nat, y < 8, NEW hl \in HLS
  PROVE  Moves(s, LoadsA(s, y, hl), IF y < 4 THEN 0 ELSE 2)
<1> DEFINE a == s.A  at16 == Operand16(s)  to == M_RDMEM(s, at16)
           ptr == Pair(s, RegPair(y \div 2, hl))  from == M_RDMEM(s, ptr)
<1>1. a \in Byte /\ from \in Byte /\ to \in Byte /\ IsWord(Word(s, at16)) /\ IsWord(Pair(s, hl))
  <2>1. hl \in PAIRS
    BY DEF HLS, PAIRS
  <2> QED BY <2>1, BytesOf, ReadIs, ReadWord, PairIs DEF BYTES
<1>2. \A n : Moves(s, n, 0) => Moves(s, Skip(n, 2), 2)
  BY IsMoved, Skips, Before
<1>3. hl \in PAIRS
  BY DEF HLS, PAIRS
<1>4. CASE y \in {0, 2}
  <2>1. LoadsA(s, y, hl) = M_WRMEM(s, ptr, a)
    BY <1>4 DEF LoadsA
  <2> HIDE DEF ptr, a
  <2> QED BY <1>1, <1>4, <2>1, Writes
<1>5. CASE y \in {1, 3}
  <2>1. LoadsA(s, y, hl) = [s EXCEPT !.A = from]
    BY <1>5 DEF LoadsA
  <2> HIDE DEF from
  <2> QED BY <1>1, <1>5, <2>1, ByteSet DEF BYTES
<1>6. CASE y = 4
  <2> DEFINE n == WrWord(s, at16, Pair(s, hl))
  <2>1. LoadsA(s, y, hl) = Skip(n, 2)
    BY <1>6 DEF LoadsA
  <2>2. Moves(s, n, 0)
    BY <1>1, WritesWord DEF IsWord
  <2> QED BY <1>2, <1>6, <2>1, <2>2
<1>7. CASE y = 5
  <2> DEFINE n == SetPair(s, hl, Word(s, at16))
  <2>1. LoadsA(s, y, hl) = Skip(n, 2)
    BY <1>7 DEF LoadsA
  <2>2. Moves(s, n, 0)
    BY <1>1, <1>3, PairSet DEF IsWord
  <2> QED BY <1>2, <1>7, <2>1, <2>2
<1>8. CASE y = 6
  <2> DEFINE n == M_WRMEM(s, at16, a)
  <2>1. LoadsA(s, y, hl) = Skip(n, 2)
    BY <1>8 DEF LoadsA
  <2>2. Moves(s, n, 0)
    BY <1>1, Writes
  <2> QED BY <1>2, <1>8, <2>1, <2>2
<1>9. CASE y = 7
  <2> DEFINE n == [s EXCEPT !.A = to]
  <2>1. LoadsA(s, y, hl) = Skip(n, 2)
    BY <1>9 DEF LoadsA
  <2> HIDE DEF to
  <2>2. Moves(s, n, 0)
    BY <1>1, ByteSet DEF BYTES
  <2> QED BY <1>2, <1>9, <2>1, <2>2
<1> QED BY <1>4, <1>5, <1>6, <1>7, <1>8, <1>9

LEMMA Quarter0Runs ==
  ASSUME NEW s, IsCpu(s), NEW op \in Byte, X(op) = 0, NEW hl \in HLS
  PROVE  Runs(s, Quarter0(s, op, hl), op, Rest(op, hl))
<1> DEFINE y == Y(op)  rr == RegPair(P(op), hl)  n == Quarter0(s, op, hl)  d == Displaced(hl)
<1>1. /\ y \in Nat /\ y < 8 /\ Zz(op) \in Nat /\ Zz(op) < 8
      /\ P(op) \in Nat /\ P(op) < 4 /\ Q(op) \in Nat /\ Q(op) < 2 /\ y = 2 * P(op) + Q(op)
  BY Decoded
<1>2. rr \in PAIRS /\ hl \in PAIRS /\ d \in Int
  BY <1>1, RegPairIs DEF HLS, PAIRS, Displaced
<1>3. IsWord(Pair(s, rr)) /\ IsWord(Pair(s, hl)) /\ IsWord(Operand16(s))
  BY <1>2, PairIs, Operands
<1>4. Operand8(s) \in Byte
  BY Operands
<1>5. CASE Zz(op) = 0
  <2>1. n = Jumps0(s, y)
    BY <1>5 DEF Quarter0
  <2>2. CASE y < 2
    <3>1. Rest(op, hl) = 0
      BY <1>1, <1>5, <2>2 DEF Rest, Length, HasD
    <3> QED BY <1>1, <2>1, <2>2, <3>1, Jumps0Goes, MovesRuns
  <2>3. CASE ~(y < 2)
    <3>1. Leaps(op)
      BY <1>1, <1>5, <2>3 DEF Leaps
    <3> QED BY <1>1, <2>1, <3>1, Jumps0Goes, GoesRuns
  <2> QED BY <2>2, <2>3
<1>6. CASE Zz(op) = 1 /\ Q(op) = 0
  <2> DEFINE m == SetPair(s, rr, Operand16(s))
  <2>1. n = Skip(m, 2)
    BY <1>6 DEF Quarter0
  <2>2. Rest(op, hl) = 2
    BY <1>6 DEF Rest, Length, HasD
  <2>3. Moves(s, m, 0)
    BY <1>2, <1>3, PairSet DEF IsWord
  <2> HIDE DEF m
  <2>4. Moves(m, Skip(m, 2), 2)
    BY <2>3, IsMoved, Skips
  <2>5. Moves(s, Skip(m, 2), 2)
    BY <2>3, <2>4, Before
  <2> QED BY <2>1, <2>2, <2>5, MovesRuns
<1>7. CASE Zz(op) = 1 /\ Q(op) = 1
  <2> DEFINE sum == M_ADDW(Pair(s, hl), Pair(s, rr), s.F)  m == SetPair(s, hl, sum.v)
  <2>1. n = Flagged(m, sum.F)
    BY <1>7 DEF Quarter0
  <2>2. Rest(op, hl) = 0
    BY <1>7 DEF Rest, Length, HasD
  <2>3. sum.v \in Int
    BY <1>3, WordIs DEF M_ADDW, IsWord
  <2>4. Moves(s, m, 0)
    BY <1>2, <2>3, PairSet
  <2> HIDE DEF m, sum
  <2>5. Moves(m, Flagged(m, sum.F), 0)
    BY <2>4, IsMoved, FlagsSet
  <2>6. Moves(s, Flagged(m, sum.F), 0)
    BY <2>4, <2>5, Before
  <2> QED BY <2>1, <2>2, <2>6, MovesRuns
<1>8. CASE Zz(op) = 2
  <2>1. n = LoadsA(s, y, hl)
    BY <1>8 DEF Quarter0
  <2>2. Rest(op, hl) = IF y < 4 THEN 0 ELSE 2
    BY <1>1, <1>8 DEF Rest, Length, HasD
  <2>3. Moves(s, LoadsA(s, y, hl), IF y < 4 THEN 0 ELSE 2)
    BY <1>1, LoadsAMoves
  <2> QED BY <2>1, <2>2, <2>3, MovesRuns
<1>9. CASE Zz(op) = 3
  <2> DEFINE w == Pair(s, rr) + (IF Q(op) = 0 THEN 1 ELSE -1)
  <2>1. n = SetPair(s, rr, w)
    BY <1>9 DEF Quarter0
  <2>2. Rest(op, hl) = 0
    BY <1>9 DEF Rest, Length, HasD
  <2>3. w \in Int
    BY <1>3 DEF IsWord
  <2>4. Moves(s, SetPair(s, rr, w), 0)
    BY <1>2, <2>3, PairSet
  <2> QED BY <2>1, <2>2, <2>4, MovesRuns
<1>10. CASE Zz(op) \in {4, 5}
  <2> DEFINE inc == IF Zz(op) = 4 THEN M_INC(Get(s, y, hl), s.F) ELSE M_DEC(Get(s, y, hl), s.F)
             m == Put(s, y, hl, inc.v)  k == IF y = 6 THEN d ELSE 0
  <2>1. n = Flagged(m, inc.F)
    BY <1>10 DEF Quarter0
  <2>2. Rest(op, hl) = k
    BY <1>2, <1>10 DEF Rest, Length, HasD
  <2>3. inc.v \in Byte
    <3>1. Get(s, y, hl) \in Int
      BY <1>1, GetIs, ByteIs
    <3> QED BY <3>1, LowIs DEF M_INC, M_DEC
  <2>4. Moves(s, m, k) /\ k \in Int
    BY <1>1, <1>2, <2>3, PutMoves
  <2> HIDE DEF m, inc, k
  <2>5. Moves(m, Flagged(m, inc.F), 0)
    BY <2>4, IsMoved, FlagsSet
  <2>6. Moves(s, Flagged(m, inc.F), k)
    BY <2>4, <2>5, After
  <2> QED BY <2>1, <2>2, <2>6, MovesRuns
<1>11. CASE Zz(op) = 6 /\ y = 6
  <2> DEFINE past == PastD(s, hl)  m == M_WRMEM(past, Address(s, hl), Operand8(past))
  <2>1. n = Skip(m, 1)
    BY <1>11 DEF Quarter0
  <2>2. Rest(op, hl) = d + 1
    BY <1>2, <1>11 DEF Rest, Length, HasD
  <2>3. Moves(s, past, d)
    BY PastDMoves
  <2>4. IsCpu(past) /\ Operand8(past) \in Byte
    BY <2>3, IsMoved, Operands
  <2> HIDE DEF past
  <2>5. Moves(past, m, 0)
    BY <2>4, Writes
  <2> HIDE DEF m
  <2>6. Moves(s, m, d)
    BY <1>2, <2>3, <2>5, After
  <2>7. Moves(m, Skip(m, 1), 1)
    BY <2>5, IsMoved, Skips
  <2>8. Moves(s, Skip(m, 1), d + 1)
    BY <1>2, <2>6, <2>7, Then
  <2> QED BY <2>1, <2>2, <2>8, MovesRuns
<1>12. CASE Zz(op) = 6 /\ y # 6
  <2> DEFINE r == Reg(y, hl)  b == Operand8(s)  m == [s EXCEPT ![r] = b]
  <2>1. n = Skip(m, 1)
    BY <1>12 DEF Quarter0
  <2>2. Rest(op, hl) = 1
    BY <1>12 DEF Rest, Length, HasD
  <2>3. r \in BYTES
    BY <1>1, <1>12, RegIs
  <2> HIDE DEF r, b
  <2>4. Moves(s, m, 0)
    BY <1>4, <2>3, ByteSet DEF b
  <2> HIDE DEF m
  <2>5. Moves(m, Skip(m, 1), 1)
    BY <2>4, IsMoved, Skips
  <2>6. Moves(s, Skip(m, 1), 1)
    BY <2>4, <2>5, Before
  <2> QED BY <2>1, <2>2, <2>6, MovesRuns
<1>13. CASE Zz(op) = 7
  <2>1. n = Accumulator(s, y)
    BY <1>13 DEF Quarter0
  <2>2. Rest(op, hl) = 0
    BY <1>13 DEF Rest, Length, HasD
  <2> QED BY <2>1, <2>2, Accumulates, MovesRuns
<1>14. Q(op) = 0 \/ Q(op) = 1
  BY <1>1
<1>15. Zz(op) \in {0, 1, 2, 3, 4, 5, 6, 7}
  BY <1>1, EightIs
<1> QED BY <1>5, <1>6, <1>7, <1>8, <1>9, <1>10, <1>11, <1>12, <1>13, <1>14, <1>15

LEMMA SkipAfter ==
  ASSUME NEW s, IsCpu(s), NEW m, Moves(s, m, 0), NEW k \in Int
  PROVE  Moves(s, Skip(m, k), k)
<1>1. Moves(m, Skip(m, k), k)
  BY IsMoved, Skips
<1> QED BY <1>1, Before

LEMMA HALTGoes == ASSUME NEW s, IsCpu(s) PROVE Goes(s, HALT(s))
<1> DEFINE w == W16(s.PC - 1)  i == IF s.INT_active \/ s.break_if_halt THEN 0 ELSE s.intchk
           m == [s EXCEPT !.HALT = TRUE]  p == [m EXCEPT !.PC = w]  n == [p EXCEPT !.intchk = i]
<1>1. HALT(s) = n
  BY DEF HALT
<1>2. IsWord(w)
  BY Has, WordIs DEF IsWord
<1> HIDE DEF i, w
<1>3. Moves(s, m, 0)
  BY FreeSet DEF FREE
<1>4. IsCpu(m) /\ Goes(s, m)
  BY <1>3, IsMoved, AnyMove
<1> HIDE DEF m
<1>5. Goes(m, p)
  BY <1>2, <1>4, PCGoes
<1>6. IsCpu(p) /\ Goes(s, p)
  BY <1>4, <1>5, GoesOn DEF Goes
<1> HIDE DEF p
<1>7. Goes(p, n)
  BY <1>6, FreeSet, AnyMove DEF FREE
<1> HIDE DEF n
<1> QED BY <1>1, <1>6, <1>7, GoesOn

LEMMA LoadsRuns ==
  ASSUME NEW s, IsCpu(s), NEW op \in Byte, X(op) = 1, NEW hl \in HLS
  PROVE  Runs(s, Loads(s, op, hl), op, Rest(op, hl))
<1> DEFINE y == Y(op)  z == Zz(op)  n == Loads(s, op, hl)  d == Displaced(hl)
<1>1. /\ y \in Nat /\ y < 8 /\ z \in Nat /\ z < 8 /\ op = 64 + 8 * y + z
  BY Decoded
<1>2. d \in Int /\ "HL" \in HLS
  BY DEF Displaced, HLS
<1>3. CASE op = 118
  <2>1. n = HALT(s)
    BY <1>3 DEF Loads
  <2>2. Leaps(op)
    BY <1>3 DEF Leaps
  <2> QED BY <2>1, <2>2, HALTGoes, GoesRuns
<1>4. CASE op # 118 /\ z = 6
  <2> DEFINE r == Reg(y, "HL")  b == Get(s, 6, hl)  m == [s EXCEPT ![r] = b]
  <2>1. n = PastD(m, hl)
    BY <1>4 DEF Loads
  <2>2. r \in BYTES
    BY <1>1, <1>2, <1>4, RegIs
  <2>3. b \in Byte
    BY GetIs
  <2>4. Rest(op, hl) = d
    BY <1>1, <1>2, <1>4 DEF Rest, Length, HasD
  <2> HIDE DEF r, b
  <2>5. Moves(s, m, 0)
    BY <2>2, <2>3, ByteSet
  <2> HIDE DEF m
  <2>6. Moves(m, PastD(m, hl), d)
    BY <2>5, IsMoved, PastDMoves
  <2>7. Moves(s, PastD(m, hl), d)
    BY <1>2, <2>5, <2>6, Before
  <2> QED BY <2>1, <2>4, <2>7, MovesRuns
<1>5. CASE op # 118 /\ z # 6 /\ y = 6
  <2> DEFINE b == s[Reg(z, "HL")]
  <2>1. n = Put(s, 6, hl, b)
    BY <1>5 DEF Loads
  <2>2. b \in Byte
    BY <1>1, <1>2, <1>5, RegIs, BytesOf
  <2>3. Rest(op, hl) = d
    BY <1>1, <1>2, <1>5 DEF Rest, Length, HasD
  <2> HIDE DEF b
  <2>4. Moves(s, Put(s, 6, hl, b), IF 6 = 6 THEN d ELSE 0)
    BY <2>2, PutMoves
  <2> QED BY <2>1, <2>3, <2>4, MovesRuns
<1>6. CASE op # 118 /\ z # 6 /\ y # 6
  <2> DEFINE b == Get(s, z, hl)
  <2>1. n = Put(s, y, hl, b)
    BY <1>6 DEF Loads
  <2>2. b \in Byte
    BY <1>1, GetIs
  <2>3. Rest(op, hl) = 0
    BY <1>1, <1>6 DEF Rest, Length, HasD
  <2> HIDE DEF b
  <2>4. Moves(s, Put(s, y, hl, b), IF y = 6 THEN d ELSE 0)
    BY <1>1, <2>2, PutMoves
  <2> QED BY <1>6, <2>1, <2>3, <2>4, MovesRuns
<1> QED BY <1>3, <1>4, <1>5, <1>6

LEMMA AluMemRuns ==
  ASSUME NEW s, IsCpu(s), NEW op \in Byte, X(op) = 2, NEW hl \in HLS
  PROVE  Runs(s, AluMem(s, op, hl), op, Rest(op, hl))
<1> DEFINE b == Get(s, Zz(op), hl)  d == IF Zz(op) = 6 THEN Displaced(hl) ELSE 0
           m == IF Zz(op) = 6 THEN PastD(s, hl) ELSE s
<1>1. AluMem(s, op, hl) = Alu(m, Y(op), b)
  BY DEF AluMem
<1>2. Rest(op, hl) = d /\ d \in Int
  BY DEF Rest, Length, HasD, Displaced
<1>3. b \in Byte
  BY Decoded, GetIs
<1>4. Moves(s, m, d)
  BY Still, PastDMoves
<1> HIDE DEF m, d, b
<1>5. Moves(m, Alu(m, Y(op), b), 0)
  BY <1>3, <1>4, IsMoved, AluMoves
<1>6. Moves(s, Alu(m, Y(op), b), d)
  BY <1>2, <1>4, <1>5, After
<1> QED BY <1>1, <1>2, <1>6, MovesRuns

\* Codes that are prefixes.
PREFIXES == {203, 221, 237, 253}

LEMMA AFSet ==
  ASSUME NEW s, IsCpu(s), NEW m, Moves(s, m, 0), NEW w \in Int
  PROVE  Moves(s, SetAF(m, w), 0)
<1> DEFINE b == Hi(w)  F == FSet(Lo(w))
<1>1. SetAF(m, w) = [m EXCEPT !.A = b, !.F = F]
  BY DEF SetAF
<1>2. b \in Byte
  BY LowIs
<1> HIDE DEF b, F
<1>3. Moves(m, [m EXCEPT !.A = b, !.F = F], 0)
  BY <1>2, IsMoved, AccumulatorSet
<1> QED BY <1>1, <1>3, Before

LEMMA AFIs == ASSUME NEW s, IsCpu(s) PROVE AF(s) \in Int
<1>1. s.A \in Int
  BY BytesOf, ByteIs DEF BYTES
<1>2. FByte(s.F) \in Int
  BY DEF FByte, Weight, Weights, FlagBit
<1> QED BY <1>1, <1>2 DEF AF

LEMMA PushedIs ==
  ASSUME NEW op \in Byte, NEW hl \in HLS
  PROVE  Pushed(op, hl) \in PAIRS \/ Pushed(op, hl) = "AF"
<1>1. P(op) \in Nat /\ P(op) < 4
  BY Decoded
<1>2. P(op) = 0 \/ P(op) = 1 \/ P(op) = 2 \/ P(op) = 3
  BY <1>1
<1> QED BY <1>2 DEF Pushed, PAIRS, HLS

LEMMA PopsRuns ==
  ASSUME NEW s, IsCpu(s), NEW op \in Byte, X(op) = 3, Zz(op) = 1, NEW hl \in HLS
  PROVE  Runs(s, Pops(s, op, hl), op, 0)
<1> DEFINE top == Popped(s)  m == Unstack(s)  rr == Pushed(op, hl)  w == Pair(s, hl)
<1>1. IsWord(top) /\ top \in Int
  BY Operands DEF IsWord
<1>2. Moves(s, m, 0)
  BY UnstackMoves
<1>3. IsWord(w)
  BY PairIs DEF HLS, PAIRS
<1>10. Q(op) = 0 => op # 201 /\ op # 217 /\ op # 233
  BY DEF Q, Y
<1>4. CASE Q(op) = 0 /\ rr = "AF"
  <2>1. Pops(s, op, hl) = SetAF(m, top)
    BY <1>4, <1>10 DEF Pops
  <2>2. Moves(s, SetAF(m, top), 0)
    BY <1>1, <1>2, AFSet
  <2> QED BY <2>1, <2>2, MovesRuns
<1>5. CASE Q(op) = 0 /\ rr # "AF"
  <2>1. Pops(s, op, hl) = SetPair(m, rr, top)
    BY <1>5, <1>10 DEF Pops
  <2>2. rr \in PAIRS
    BY <1>5, PushedIs
  <2> HIDE DEF rr, m, top
  <2>3. Moves(m, SetPair(m, rr, top), 0)
    BY <1>1, <1>2, <2>2, IsMoved, PairSet
  <2>4. Moves(s, SetPair(m, rr, top), 0)
    BY <1>2, <2>3, Before
  <2> QED BY <2>1, <2>4, MovesRuns
<1>6. CASE Q(op) # 0 /\ op = 201
  <2>1. Pops(s, op, hl) = M_RET(s) /\ Leaps(op)
    BY <1>6 DEF Pops, Leaps
  <2> QED BY <2>1, RETGoes, GoesRuns
<1>7. CASE Q(op) # 0 /\ op = 217
  <2>1. Pops(s, op, hl) = EXX(s)
    BY <1>7 DEF Pops
  <2> QED BY <2>1, ExchangesX, MovesRuns
<1>8. CASE Q(op) # 0 /\ op = 233
  <2>1. Pops(s, op, hl) = [s EXCEPT !.PC = w] /\ Leaps(op)
    BY <1>8 DEF Pops, Leaps
  <2> QED BY <1>3, <2>1, PCGoes, GoesRuns
<1>9. CASE Q(op) # 0 /\ op # 201 /\ op # 217 /\ op # 233
  <2>1. Pops(s, op, hl) = [s EXCEPT !.SP = w]
    BY <1>9 DEF Pops
  <2> QED BY <1>3, <2>1, StackSet, MovesRuns
<1> QED BY <1>4, <1>5, <1>6, <1>7, <1>8, <1>9

LEMMA PushesRuns ==
  ASSUME NEW s, IsCpu(s), NEW op \in Byte, X(op) = 3, Zz(op) = 5, op \notin PREFIXES,
         NEW hl \in HLS
  PROVE  Runs(s, Pushes(s, op, hl), op, 0)
<1> DEFINE rr == Pushed(op, hl)  w == IF rr = "AF" THEN AF(s) ELSE Pair(s, rr)
<1>1. CASE Q(op) = 0
  <2>1. Pushes(s, op, hl) = M_PUSH(s, w)
    BY <1>1 DEF Pushes
  <2>2. w \in Int
    BY PushedIs, AFIs, PairIs DEF IsWord
  <2> HIDE DEF w
  <2> QED BY <2>1, <2>2, PushMoves, MovesRuns
<1>2. CASE Q(op) # 0
  <2>1. Pushes(s, op, hl) = M_CALL(s)
    BY <1>2 DEF Pushes
  <2>2. Leaps(op)
    <3>1. op = 205
      BY <1>2, Decoded DEF PREFIXES
    <3> QED BY <3>1 DEF Leaps
  <2> QED BY <2>1, <2>2, CALLGoes, GoesRuns
<1> QED BY <1>1, <1>2

LEMMA EIMoves == ASSUME NEW s, IsCpu(s) PROVE Moves(s, EI(s), 0)
<1> DEFINE ends == s.t >= s.intchk \/ s.INT_active
           a == s.again \/ ends  i == IF ends THEN 0 ELSE s.intchk
           m == [s EXCEPT !.IFF = TRUE]  p == [m EXCEPT !.again = a]  n == [p EXCEPT !.intchk = i]
<1>1. EI(s) = n
  BY DEF EI
<1> HIDE DEF a, i
<1>2. Moves(s, m, 0)
  BY FreeSet DEF FREE
<1> HIDE DEF m
<1>3. Moves(m, p, 0)
  BY <1>2, IsMoved, FreeSet DEF FREE
<1> HIDE DEF p
<1>4. Moves(p, n, 0)
  BY <1>3, IsMoved, FreeSet DEF FREE
<1> HIDE DEF n
<1> QED BY <1>1, <1>2, <1>3, <1>4, Before

LEMMA SinglesRuns ==
  ASSUME NEW s, IsCpu(s), NEW op \in Byte, X(op) = 3, Zz(op) = 3, NEW hl \in HLS
  PROVE  Runs(s, Singles(s, op, hl), op, Rest(op, hl))
<1> DEFINE n == Singles(s, op, hl)  w == Operand16(s)
<1>1. IsWord(w)
  BY Operands
<1>2. hl \in PAIRS /\ "DE" \in PAIRS /\ "HL" \in PAIRS
  BY DEF HLS, PAIRS
<1>3. Rest(op, hl) = Length(op) - 1
  BY DEF Rest, HasD, Length
<1>4. CASE op = 195
  <2>1. n = [s EXCEPT !.PC = w] /\ Leaps(op)
    BY <1>4 DEF Singles, Leaps
  <2> QED BY <1>1, <2>1, PCGoes, GoesRuns
<1>5. CASE op = 211
  <2> DEFINE o == Append(s.out, <<Operand8(s), s.A>>)  m == [s EXCEPT !.out = o]
  <2>1. n = Skip(m, 1) /\ Rest(op, hl) = 1
    BY <1>3, <1>5 DEF Singles, Length
  <2>2. Moves(s, m, 0)
    BY FreeSet DEF FREE
  <2> HIDE DEF m
  <2> QED BY <2>1, <2>2, SkipAfter, MovesRuns
<1>6. CASE op = 219
  <2> DEFINE b == s.inp  m == [s EXCEPT !.A = b]
  <2>1. n = Skip(m, 1) /\ Rest(op, hl) = 1
    BY <1>3, <1>6 DEF Singles, Length
  <2>2. Moves(s, m, 0)
    BY BytesOf, ByteSet DEF BYTES
  <2> HIDE DEF m
  <2> QED BY <2>1, <2>2, SkipAfter, MovesRuns
<1>7. CASE op = 227
  <2> DEFINE m == WrWord(s, s.SP, Pair(s, hl))  top == Popped(s)
  <2>1. n = SetPair(m, hl, top) /\ Rest(op, hl) = 0
    BY <1>3, <1>7 DEF Singles, Length
  <2>2. Moves(s, m, 0)
    BY <1>2, PairIs, WritesWord DEF IsWord
  <2>3. top \in Int
    BY Operands DEF IsWord
  <2> HIDE DEF m, top
  <2>4. Moves(m, SetPair(m, hl, top), 0)
    BY <1>2, <2>2, <2>3, IsMoved, PairSet
  <2>5. Moves(s, SetPair(m, hl, top), 0)
    BY <2>2, <2>4, Before
  <2> QED BY <2>1, <2>5, MovesRuns
<1>8. CASE op = 235
  <2> DEFINE h == Pair(s, "HL")  de == Pair(s, "DE")  m == SetPair(s, "DE", h)
  <2>1. n = SetPair(m, "HL", de) /\ Rest(op, hl) = 0
    BY <1>3, <1>8 DEF Singles, Length
  <2>2. h \in Int /\ de \in Int
    BY <1>2, PairIs DEF IsWord
  <2> HIDE DEF h, de
  <2>3. Moves(s, m, 0)
    BY <1>2, <2>2, PairSet
  <2> HIDE DEF m
  <2>4. Moves(m, SetPair(m, "HL", de), 0)
    BY <1>2, <2>2, <2>3, IsMoved, PairSet
  <2>5. Moves(s, SetPair(m, "HL", de), 0)
    BY <2>3, <2>4, Before
  <2> QED BY <2>1, <2>5, MovesRuns
<1>9. CASE op = 243
  <2>1. n = [s EXCEPT !.IFF = FALSE] /\ Rest(op, hl) = 0
    BY <1>3, <1>9 DEF Singles, Length
  <2>2. Moves(s, [s EXCEPT !.IFF = FALSE], 0)
    BY FreeSet DEF FREE
  <2> QED BY <2>1, <2>2, MovesRuns
<1>10. CASE op \notin {195, 211, 219, 227, 235, 243}
  <2>1. op # 205
    BY DEF Zz
  <2>2. n = EI(s)
    BY <1>10 DEF Singles
  <2>3. Rest(op, hl) = 0
    BY <1>3, <1>10, <2>1 DEF Length
  <2> QED BY <2>2, <2>3, EIMoves, MovesRuns
<1> QED BY <1>4, <1>5, <1>6, <1>7, <1>8, <1>9, <1>10

LEMMA Quarter3Runs ==
  ASSUME NEW s, IsCpu(s), NEW op \in Byte, X(op) = 3, op \notin PREFIXES, NEW hl \in HLS
  PROVE  Runs(s, Quarter3(s, op, hl), op, Rest(op, hl))
<1> DEFINE y == Y(op)  z == Zz(op)  n == Quarter3(s, op, hl)  w == Operand16(s)
<1>1. /\ y \in Nat /\ y < 8 /\ z \in Nat /\ z < 8 /\ op = 192 + 8 * y + z
  BY Decoded
<1>2. IsWord(w) /\ Operand8(s) \in Byte
  BY Operands
<1>3. Goes(s, s) /\ Goes(s, Skip(s, 2)) /\ Goes(s, [s EXCEPT !.PC = w])
  BY <1>2, Still, Skips, AnyMove, PCGoes
<1>4. Rest(op, hl) = Length(op) - 1
  BY DEF Rest, HasD, Length
<1>5. CASE z = 0
  <2>1. n = M_RET(s) \/ n = s
    BY <1>5 DEF Quarter3
  <2>2. Leaps(op)
    BY <1>5 DEF Leaps
  <2> QED BY <1>3, <2>1, <2>2, RETGoes, GoesRuns
<1>6. CASE z = 1
  <2>1. n = Pops(s, op, hl) /\ Rest(op, hl) = 0
    BY <1>1, <1>4, <1>6 DEF Quarter3, Length
  <2> QED BY <1>6, <2>1, PopsRuns
<1>7. CASE z = 2
  <2>1. n = [s EXCEPT !.PC = w] \/ n = Skip(s, 2)
    BY <1>7 DEF Quarter3
  <2>2. Leaps(op)
    BY <1>7 DEF Leaps
  <2> QED BY <1>3, <2>1, <2>2, GoesRuns
<1>8. CASE z = 3
  <2>1. n = Singles(s, op, hl)
    BY <1>8 DEF Quarter3
  <2> QED BY <1>8, <2>1, SinglesRuns
<1>9. CASE z = 4
  <2>1. n = M_CALL(s) \/ n = Skip(s, 2)
    BY <1>9 DEF Quarter3
  <2>2. Leaps(op)
    BY <1>9 DEF Leaps
  <2> QED BY <1>3, <2>1, <2>2, CALLGoes, GoesRuns
<1>10. CASE z = 5
  <2>1. n = Pushes(s, op, hl)
    BY <1>10 DEF Quarter3
  <2>2. Runs(s, n, op, 0)
    BY <1>10, <2>1, PushesRuns
  <2>3. Rest(op, hl) = 0 \/ Leaps(op)
    BY <1>1, <1>4, <1>10 DEF Length, Leaps
  <2> QED BY <2>2, <2>3 DEF Runs
<1>11. CASE z = 6
  <2> DEFINE m == Alu(s, y, Operand8(s))
  <2>1. n = Skip(m, 1) /\ Rest(op, hl) = 1
    BY <1>1, <1>4, <1>11 DEF Quarter3, Length
  <2>2. Moves(s, m, 0)
    BY <1>2, AluMoves
  <2> HIDE DEF m
  <2> QED BY <2>1, <2>2, SkipAfter, MovesRuns
<1>12. CASE z = 7
  <2>1. n = M_RST(s, 8 * y)
    BY <1>12 DEF Quarter3
  <2>2. Leaps(op)
    BY <1>12 DEF Leaps
  <2>3. IsWord(8 * y)
    BY <1>1 DEF IsWord
  <2> QED BY <2>1, <2>2, <2>3, RSTGoes, GoesRuns
<1>13. z \in {0, 1, 2, 3, 4, 5, 6, 7}
  BY <1>1, EightIs
<1> QED BY <1>5, <1>6, <1>7, <1>8, <1>9, <1>10, <1>11, <1>12, <1>13

LEMMA ExecuteRuns ==
  ASSUME NEW s, IsCpu(s), NEW op \in Byte, op \notin PREFIXES, NEW hl \in HLS
  PROVE  Runs(s, Execute(s, op, hl), op, Rest(op, hl))
<1>1. X(op) \in Nat /\ X(op) < 4
  BY Decoded
<1>2. CASE X(op) = 0
  BY <1>2, Quarter0Runs DEF Execute
<1>3. CASE X(op) = 1
  BY <1>3, LoadsRuns DEF Execute
<1>4. CASE X(op) = 2
  BY <1>4, AluMemRuns DEF Execute
<1>5. CASE X(op) = 3
  BY <1>5, Quarter3Runs DEF Execute
<1> QED BY <1>1, <1>2, <1>3, <1>4, <1>5

-----------------------------------------------------------------------------
(* Codes behind CB                                                         *)

LEMMA ModifiedIs ==
  ASSUME NEW op \in Byte, NEW n \in Byte, NEW F
  PROVE  Modified(op, n, F).v \in Byte
<1>1. Y(op) \in Nat /\ Y(op) < 8
  BY Decoded
<1>2. SetBit(n, Y(op), 0) \in Byte /\ SetBit(n, Y(op), 1) \in Byte
  BY <1>1, SetBitIs
<1>3. Rot(Y(op), n, F).v \in Byte
  BY RotIs
<1> QED BY <1>2, <1>3 DEF Modified, M_RES, M_SET

LEMMA CBMoves ==
  ASSUME NEW s, IsCpu(s), NEW op \in Byte
  PROVE  Moves(s, ExecuteCB(s, op), 0)
<1> DEFINE n == Get(s, Zz(op), "HL")  r == Modified(op, n, s.F)
           m == Put(s, Zz(op), "HL", r.v)
<1>1. Zz(op) \in Nat /\ Zz(op) < 8 /\ "HL" \in HLS
  BY Decoded DEF HLS
<1>2. n \in Byte
  BY <1>1, GetIs
<1>3. r.v \in Byte
  BY <1>2, ModifiedIs
<1>4. CASE X(op) = 1
  <2>1. ExecuteCB(s, op) = Flagged(s, M_BIT(Y(op), n, s.F))
    BY <1>4 DEF ExecuteCB
  <2> QED BY <2>1, FlagsSet
<1>5. CASE X(op) # 1
  <2>1. ExecuteCB(s, op) = Flagged(m, r.F)
    BY <1>5 DEF ExecuteCB
  <2> HIDE DEF r
  <2>2. Moves(s, m, IF Zz(op) = 6 THEN Displaced("HL") ELSE 0)
    BY <1>1, <1>3, PutMoves
  <2>3. Moves(s, m, 0)
    BY <2>2 DEF Displaced
  <2> HIDE DEF m
  <2>4. Moves(m, Flagged(m, r.F), 0)
    BY <2>3, IsMoved, FlagsSet
  <2> QED BY <2>1, <2>3, <2>4, Before
<1> QED BY <1>4, <1>5

LEMMA XXCBMoves ==
  ASSUME NEW s, IsCpu(s), NEW op \in Byte, NEW a
  PROVE  Moves(s, ExecuteXXCB(s, op, a), 0)
<1> DEFINE n == M_RDMEM(s, a)  r == Modified(op, n, s.F)  v == r.v
           m == M_WRMEM(s, a, v)  w == Flagged(m, r.F)
<1>1. Zz(op) \in Nat /\ Zz(op) < 8 /\ "HL" \in HLS
  BY Decoded DEF HLS
<1>2. n \in Byte
  BY ReadIs
<1>3. v \in Byte
  BY <1>2, ModifiedIs
<1>4. CASE X(op) = 1
  <2>1. ExecuteXXCB(s, op, a) = Flagged(s, M_BIT(Y(op), n, s.F))
    BY <1>4 DEF ExecuteXXCB
  <2> QED BY <2>1, FlagsSet
<1>5. CASE X(op) # 1
  <2>1. ExecuteXXCB(s, op, a) = AlsoInto(w, Zz(op), v)
    BY <1>5 DEF ExecuteXXCB
  <2> HIDE DEF r, v
  <2>2. Moves(s, m, 0)
    BY <1>3, Writes
  <2> HIDE DEF m
  <2>3. Moves(m, w, 0)
    BY <2>2, IsMoved, FlagsSet
  <2> HIDE DEF w
  <2>4. Moves(s, w, 0) /\ IsCpu(w)
    BY <2>2, <2>3, Before, IsMoved
  <2>5. CASE Zz(op) = 6
    BY <2>1, <2>4, <2>5 DEF AlsoInto
  <2>6. CASE Zz(op) # 6
    <3> DEFINE g == Reg(Zz(op), "HL")
    <3>1. AlsoInto(w, Zz(op), v) = [w EXCEPT ![g] = v]
      BY <2>6 DEF AlsoInto
    <3>2. g \in BYTES
      BY <1>1, <2>6, RegIs
    <3> HIDE DEF g
    <3>3. Moves(w, [w EXCEPT ![g] = v], 0)
      BY <1>3, <2>4, <3>2, ByteSet
    <3> QED BY <2>1, <2>4, <3>1, <3>3, Before
  <2> QED BY <2>5, <2>6
<1> QED BY <1>4, <1>5

-----------------------------------------------------------------------------
(* Codes behind ED                                                         *)

LEMMA PairsSet ==
  ASSUME NEW s, IsCpu(s), NEW m, Moves(s, m, 0), NEW rr \in PAIRS, NEW w \in Int
  PROVE  Moves(s, SetPair(m, rr, w), 0)
<1>1. Moves(m, SetPair(m, rr, w), 0)
  BY IsMoved, PairSet
<1> QED BY <1>1, Before

LEMMA FlagsAfter ==
  ASSUME NEW s, IsCpu(s), NEW m, Moves(s, m, 0), NEW F
  PROVE  Moves(s, Flagged(m, F), 0)
<1>1. Moves(m, Flagged(m, F), 0)
  BY IsMoved, FlagsSet
<1> QED BY <1>1, Before

LEMMA PairNames == {"BC", "DE", "HL"} \subseteq PAIRS
BY DEF PAIRS

LEMMA LDxMoves ==
  ASSUME NEW s, IsCpu(s), NEW d \in Int
  PROVE  Moves(s, LDx(s, d), 0)
<1> DEFINE bc == W16(Pair(s, "BC") - 1)  de == Pair(s, "DE") + d  h == Pair(s, "HL") + d
           b == M_RDMEM(s, Pair(s, "HL"))  a == Pair(s, "DE")
           F == (s.F \ {"N", "H", "P"}) \cup When(bc # 0, "P")
           m == M_WRMEM(s, a, b)
           m1 == SetPair(m, "DE", de)  m2 == SetPair(m1, "HL", h)  m3 == SetPair(m2, "BC", bc)
<1>1. LDx(s, d) = Flagged(m3, F)
  BY DEF LDx
<1>2. de \in Int /\ h \in Int /\ bc \in Int /\ b \in Byte
  BY PairNames, PairIs, WordIs, ReadIs DEF IsWord
<1> HIDE DEF bc, de, h, b, a, F
<1>3. Moves(s, m, 0)
  BY <1>2, Writes
<1> HIDE DEF m
<1>4. Moves(s, m1, 0)
  BY <1>2, <1>3, PairNames, PairsSet
<1> HIDE DEF m1
<1>5. Moves(s, m2, 0)
  BY <1>2, <1>4, PairNames, PairsSet
<1> HIDE DEF m2
<1>6. Moves(s, m3, 0)
  BY <1>2, <1>5, PairNames, PairsSet
<1> HIDE DEF m3
<1> QED BY <1>1, <1>6, FlagsAfter

LEMMA CPxMoves ==
  ASSUME NEW s, IsCpu(s), NEW d \in Int
  PROVE  Moves(s, CPx(s, d), 0)
<1> DEFINE bc == W16(Pair(s, "BC") - 1)  h == Pair(s, "HL") + d
           m1 == SetPair(s, "HL", h)  m2 == SetPair(m1, "BC", bc)
<1>1. PICK G : CPx(s, d) = Flagged(m2, G)
  BY DEF CPx
<1>2. h \in Int /\ bc \in Int
  BY PairNames, PairIs, WordIs DEF IsWord
<1> HIDE DEF bc, h
<1>3. Moves(s, m1, 0)
  BY <1>2, PairNames, PairSet
<1> HIDE DEF m1
<1>4. Moves(s, m2, 0)
  BY <1>2, <1>3, PairNames, PairsSet
<1> HIDE DEF m2
<1> QED BY <1>1, <1>4, FlagsAfter

LEMMA CountedMoves ==
  ASSUME NEW s, IsCpu(s), NEW m, Moves(s, m, 0), NEW d \in Int
  PROVE  Moves(s, Counted(m, d), 0)
<1> DEFINE b == Lo(m.B - 1)  h == Pair(m, "HL") + d
           m1 == SetPair(m, "HL", h)  m2 == [m1 EXCEPT !.B = b]
<1>1. PICK G : Counted(m, d) = Flagged(m2, G)
  BY DEF Counted
<1>2. h \in Int /\ b \in Byte
  <2>1. IsCpu(m)
    BY IsMoved
  <2>2. m.B \in Int
    BY <2>1, BytesOf, ByteIs DEF BYTES
  <2> QED BY <2>1, <2>2, PairNames, PairIs, LowIs DEF IsWord
<1> HIDE DEF b, h
<1>3. Moves(s, m1, 0)
  BY <1>2, PairNames, PairsSet
<1> HIDE DEF m1
<1>4. Moves(m1, m2, 0)
  BY <1>2, <1>3, IsMoved, ByteSet DEF BYTES
<1> HIDE DEF m2
<1>5. Moves(s, m2, 0)
  BY <1>3, <1>4, Before
<1> QED BY <1>1, <1>5, FlagsAfter

LEMMA INxMoves ==
  ASSUME NEW s, IsCpu(s), NEW d \in Int
  PROVE  Moves(s, INx(s, d), 0)
<1> DEFINE m == M_WRMEM(s, Pair(s, "HL"), s.inp)
<1>1. Moves(s, m, 0)
  BY BytesOf, Writes DEF BYTES
<1>2. INx(s, d) = Counted(m, d)
  BY DEF INx
<1> HIDE DEF m
<1> QED BY <1>1, <1>2, CountedMoves

LEMMA OUTxMoves ==
  ASSUME NEW s, IsCpu(s), NEW d \in Int
  PROVE  Moves(s, OUTx(s, d), 0)
<1> DEFINE o == Append(s.out, <<s.C, M_RDMEM(s, Pair(s, "HL"))>>)  m == [s EXCEPT !.out = o]
<1>1. OUTx(s, d) = Counted(m, d)
  BY DEF OUTx
<1> HIDE DEF o
<1>2. Moves(s, m, 0)
  BY FreeSet DEF FREE
<1> HIDE DEF m
<1> QED BY <1>1, <1>2, CountedMoves

LEMMA BlockGoes ==
  ASSUME NEW s, IsCpu(s), NEW op \in Byte
  PROVE  /\ Goes(s, Block(s, op))
         /\ Y(op) < 6 => Moves(s, Block(s, op), 0)
<1> DEFINE d == IF Q(op) = 0 THEN 1 ELSE -1
           n == CASE Zz(op) = 0 -> LDx(s, d) [] Zz(op) = 1 -> CPx(s, d)
                  [] Zz(op) = 2 -> INx(s, d) [] OTHER -> OUTx(s, d)
           more == CASE Zz(op) = 0 -> Pair(n, "BC") # 0
                     [] Zz(op) = 1 -> Pair(n, "BC") # 0 /\ "Z" \notin n.F
                     [] OTHER -> n.B # 0
           goes == Y(op) >= 6 /\ more
<1>1. Block(s, op) = Repeat(n, goes)
  BY DEF Block
<1>2. d \in Int
  OBVIOUS
<1> HIDE DEF d
<1>3. Moves(s, n, 0)
  BY <1>2, LDxMoves, CPxMoves, INxMoves, OUTxMoves
<1>4. Y(op) < 6 => ~goes
  BY Decoded
<1> HIDE DEF n, goes
<1>5. Moves(s, Skip(n, -2), -2)
  BY <1>3, SkipAfter
<1>6. Goes(s, n) /\ Goes(s, Skip(n, -2))
  BY <1>3, <1>5, AnyMove
<1>7. Goes(s, Wait(Skip(n, -2), 5))
  BY <1>6, WaitGoes
<1> QED BY <1>1, <1>3, <1>4, <1>6, <1>7 DEF Repeat

LEMMA NibbleMoves ==
  ASSUME NEW s, IsCpu(s), NEW left \in BOOLEAN
  PROVE  Moves(s, NibbleRotate(s, left), 0)
<1> DEFINE h == Pair(s, "HL")  n == M_RDMEM(s, h)  lo == s.A % 16
           a == s.A - lo + (IF left THEN n \div 16 ELSE n % 16)
           b == IF left THEN Lo(16 * n) + lo ELSE n \div 16 + 16 * lo
           m == M_WRMEM(s, h, b)  p == [m EXCEPT !.A = a]
           F == SZP(a) \cup (s.F \cap {"C"})
<1>1. NibbleRotate(s, left) = Flagged(p, F)
  BY DEF NibbleRotate
<1>2. n \in Nat /\ n < 256 /\ s.A \in Nat /\ s.A < 256
  BY ReadIs, BytesOf, ByteIs DEF BYTES
<1>3. \A x \in Nat, y \in Nat : x < 256 /\ y < 256 =>
        /\ (x - (x % 16)) + y \div 16 \in Byte /\ (x - (x % 16)) + (y % 16) \in Byte
        /\ ((16 * y) % 256) + (x % 16) \in Byte /\ y \div 16 + 16 * (x % 16) \in Byte
  <2> TAKE x \in Nat, y \in Nat
  <2> HAVE x < 256 /\ y < 256
  <2>1. (16 * y) % 256 = 16 * (y % 16)
    OBVIOUS
  <2>2. /\ (x - (x % 16)) + y \div 16 \in Nat /\ (x - (x % 16)) + y \div 16 < 256
        /\ (x - (x % 16)) + (y % 16) \in Nat /\ (x - (x % 16)) + (y % 16) < 256
        /\ y \div 16 + 16 * (x % 16) \in Nat /\ y \div 16 + 16 * (x % 16) < 256
        /\ 16 * (y % 16) + (x % 16) \in Nat /\ 16 * (y % 16) + (x % 16) < 256
    OBVIOUS
  <2> QED BY <2>1, <2>2, ByteIs
<1>4. a \in Byte /\ b \in Byte
  <2> DEFINE x == s.A
  <2>1. /\ (x - (x % 16)) + n \div 16 \in Byte /\ (x - (x % 16)) + (n % 16) \in Byte
        /\ ((16 * n) % 256) + (x % 16) \in Byte /\ n \div 16 + 16 * (x % 16) \in Byte
    BY <1>2, <1>3
  <2>2. CASE left
    <3>1. a = (x - (x % 16)) + n \div 16 /\ b = ((16 * n) % 256) + (x % 16)
      BY <2>2 DEF Lo
    <3> HIDE DEF a, b, n, x
    <3> QED BY <2>1, <3>1
  <2>3. CASE ~left
    <3>1. a = (x - (x % 16)) + (n % 16) /\ b = n \div 16 + 16 * (x % 16)
      BY <2>3
    <3> HIDE DEF a, b, n, x
    <3> QED BY <2>1, <3>1
  <2> QED BY <2>2, <2>3
<1> HIDE DEF a, b, h, F
<1>5. Moves(s, m, 0)
  BY <1>4, Writes
<1> HIDE DEF m
<1>6. Moves(m, p, 0)
  BY <1>4, <1>5, IsMoved, ByteSet DEF BYTES
<1> HIDE DEF p
<1>7. Moves(s, p, 0)
  BY <1>5, <1>6, Before
<1> QED BY <1>1, <1>7, FlagsAfter

LEMMA LoadIRMoves ==
  ASSUME NEW s, IsCpu(s), NEW v \in Byte
  PROVE  Moves(s, LoadIR(s, v), 0)
<1> DEFINE F == SZ(v) \cup When(s.IFF, "P") \cup (s.F \cap {"C"})
<1>1. LoadIR(s, v) = [s EXCEPT !.A = v, !.F = F]
  BY Zenon DEF LoadIR
<1> HIDE DEF F
<1>2. Moves(s, [s EXCEPT !.A = v, !.F = F], 0)
  BY AccumulatorSet
<1> QED BY <1>1, <1>2

LEMMA SpecialsMoves ==
  ASSUME NEW s, IsCpu(s), NEW y
  PROVE  Moves(s, Specials(s, y), 0)
<1> DEFINE a == s.A
<1>1. a \in Byte /\ s.I \in Byte /\ s.R % 128 \in Byte
  <2>1. a \in Byte /\ s.I \in Byte /\ s.R \in Byte
    BY BytesOf DEF BYTES
  <2> QED BY <2>1, ByteIs
<1>2. CASE y = 0
  <2>1. Specials(s, y) = [s EXCEPT !.I = a]
    BY <1>2 DEF Specials
  <2> HIDE DEF a
  <2> QED BY <1>1, <2>1, ByteSet DEF BYTES
<1>3. CASE y = 1
  <2>1. Specials(s, y) = [s EXCEPT !.R = a]
    BY <1>3 DEF Specials
  <2> HIDE DEF a
  <2> QED BY <1>1, <2>1, ByteSet DEF BYTES
<1>4. CASE y = 2
  <2>1. Specials(s, y) = LoadIR(s, s.I)
    BY <1>4 DEF Specials
  <2> QED BY <1>1, <2>1, LoadIRMoves
<1>5. CASE y = 3
  <2>1. Specials(s, y) = LoadIR(s, s.R % 128)
    BY <1>5 DEF Specials
  <2> QED BY <1>1, <2>1, LoadIRMoves
<1>6. CASE y = 4
  <2>1. Specials(s, y) = NibbleRotate(s, FALSE)
    BY <1>6 DEF Specials
  <2> QED BY <2>1, NibbleMoves
<1>7. CASE y # 0 /\ y # 1 /\ y # 2 /\ y # 3 /\ y # 4
  <2>1. Specials(s, y) = NibbleRotate(s, TRUE)
    BY <1>7 DEF Specials
  <2> QED BY <2>1, NibbleMoves
<1> QED BY <1>2, <1>3, <1>4, <1>5, <1>6, <1>7

LEMMA EDGoes ==
  ASSUME NEW s, IsCpu(s), NEW op \in Byte
  PROVE  /\ Goes(s, ExecuteED(s, op))
         /\ ~(X(op) = 1 /\ Zz(op) = 5) /\ ~(X(op) = 2 /\ Y(op) >= 6)
              => Moves(s, ExecuteED(s, op), LengthED(op) - 2)
<1> DEFINE y == Y(op)  z == Zz(op)  rr == RegPair(P(op), "HL")  n == ExecuteED(s, op)
           k == LengthED(op) - 2
           F == SZP(s.inp) \cup (s.F \cap {"C"})  in == Flagged(s, F)
           hl == Pair(s, "HL")
<1>1. /\ y \in Nat /\ y < 8 /\ z \in Nat /\ z < 8
      /\ P(op) \in Nat /\ P(op) < 4 /\ op = 64 * X(op) + 8 * y + z
  BY Decoded
<1>2. "HL" \in HLS /\ "HL" \in PAIRS /\ rr \in PAIRS
  BY <1>1, RegPairIs DEF HLS, PAIRS
<1>3. IsWord(hl) /\ IsWord(Pair(s, rr)) /\ IsWord(Operand16(s)) /\ IsWord(Word(s, Operand16(s)))
  BY <1>2, PairIs, Operands, ReadWord
<1>4. s.inp \in Byte /\ s.A \in Byte
  BY BytesOf DEF BYTES
<1>5. CASE X(op) = 2 /\ y >= 4 /\ z < 4
  <2>1. n = Block(s, op)
    BY <1>5 DEF ExecuteED
  <2>2. k = 0
    BY <1>5 DEF LengthED
  <2>3. ~(y >= 6) => y < 6
    BY <1>1
  <2> QED BY <1>5, <2>1, <2>2, <2>3, BlockGoes
<1>6. CASE ~(X(op) = 2 /\ y >= 4 /\ z < 4) /\ (X(op) # 1 \/ op \in {119, 127})
  <2>1. n = Wait(s, 8)
    BY <1>6 DEF ExecuteED
  <2>2. k = 0
    <3>1. op \in {119, 127} => z # 3
      BY DEF Zz
    <3> QED BY <1>6, <3>1 DEF LengthED
  <2>3. Moves(s, Wait(s, 8), 0)
    BY Waits
  <2> QED BY <2>1, <2>2, <2>3, AnyMove
<1>7. CASE X(op) = 1 /\ op \notin {119, 127} /\ z = 0
  <2>1. n = IF y = 6 THEN in ELSE Put(in, y, "HL", s.inp)
    BY <1>7 DEF ExecuteED
  <2>2. k = 0
    BY <1>7 DEF LengthED
  <2>3. Moves(s, in, 0)
    BY FlagsSet
  <2> HIDE DEF in
  <2>4. Moves(in, Put(in, y, "HL", s.inp), IF y = 6 THEN Displaced("HL") ELSE 0)
    BY <1>1, <1>2, <1>4, <2>3, IsMoved, PutMoves
  <2>5. Moves(in, Put(in, y, "HL", s.inp), 0)
    BY <2>4 DEF Displaced
  <2>6. Moves(s, Put(in, y, "HL", s.inp), 0)
    BY <2>3, <2>5, Before
  <2> QED BY <2>1, <2>2, <2>3, <2>6, AnyMove
<1>8. CASE X(op) = 1 /\ op \notin {119, 127} /\ z = 1
  <2> DEFINE o == Append(s.out, <<s.C, IF y = 6 THEN 0 ELSE Get(s, y, "HL")>>)
  <2>1. n = [s EXCEPT !.out = o]
    BY <1>8 DEF ExecuteED
  <2>2. k = 0
    BY <1>8 DEF LengthED
  <2>3. Moves(s, [s EXCEPT !.out = o], 0)
    BY FreeSet DEF FREE
  <2> QED BY <2>1, <2>2, <2>3, AnyMove
<1>9. CASE X(op) = 1 /\ op \notin {119, 127} /\ z = 2
  <2> DEFINE sum == IF Q(op) = 1 THEN M_ADCW(hl, Pair(s, rr), Carry(s))
                    ELSE M_SBCW(hl, Pair(s, rr), Carry(s))
             v == sum.v  m == SetPair(s, "HL", v)
  <2>1. n = Flagged(m, sum.F)
    BY <1>9 DEF ExecuteED
  <2>2. k = 0
    BY <1>9 DEF LengthED
  <2>3. v \in Int
    <3>1. hl \in Int /\ Pair(s, rr) \in Int /\ Carry(s) \in Int
      BY <1>3 DEF IsWord, Carry
    <3> QED BY <3>1, WordIs DEF M_ADCW, M_SBCW, IsWord
  <2> HIDE DEF sum, v
  <2>4. Moves(s, m, 0)
    BY <1>2, <2>3, PairSet
  <2> HIDE DEF m
  <2>5. Moves(s, Flagged(m, sum.F), 0)
    BY <2>4, FlagsAfter
  <2> QED BY <2>1, <2>2, <2>5, AnyMove
<1>10. CASE X(op) = 1 /\ op \notin {119, 127} /\ z = 3
  <2> DEFINE m == IF Q(op) = 0 THEN WrWord(s, Operand16(s), Pair(s, rr))
                  ELSE SetPair(s, rr, Word(s, Operand16(s)))
  <2>1. n = Skip(m, 2)
    BY <1>10 DEF ExecuteED
  <2>2. k = 2
    BY <1>10 DEF LengthED
  <2>3. Moves(s, m, 0)
    BY <1>2, <1>3, WritesWord, PairSet DEF IsWord
  <2> HIDE DEF m
  <2> QED BY <2>1, <2>2, <2>3, SkipAfter, AnyMove
<1>11. CASE X(op) = 1 /\ op \notin {119, 127} /\ z = 4
  <2> DEFINE m == [s EXCEPT !.A = 0]  b == s.A
  <2>1. n = Alu(m, 2, b)
    BY <1>11 DEF ExecuteED
  <2>2. k = 0
    BY <1>11 DEF LengthED
  <2>3. Moves(s, m, 0)
    <3>1. 0 \in Byte /\ "A" \in BYTES
      BY ByteIs DEF BYTES
    <3> QED BY <3>1, ByteSet
  <2> HIDE DEF m
  <2>4. Moves(m, Alu(m, 2, b), 0)
    BY <1>4, <2>3, IsMoved, AluMoves
  <2>5. Moves(s, Alu(m, 2, b), 0)
    BY <2>3, <2>4, Before
  <2> QED BY <2>1, <2>2, <2>5, AnyMove
<1>12. CASE X(op) = 1 /\ op \notin {119, 127} /\ z = 5
  <2>1. n = M_RET(s)
    BY <1>12 DEF ExecuteED
  <2> QED BY <1>12, <2>1, RETGoes
<1>13. CASE X(op) = 1 /\ op \notin {119, 127} /\ z = 6
  <2> DEFINE i == IF y % 4 < 2 THEN 0 ELSE (y % 4) - 1
  <2>1. n = [s EXCEPT !.IM = i]
    BY <1>13 DEF ExecuteED
  <2>2. k = 0
    BY <1>13 DEF LengthED
  <2>3. Moves(s, [s EXCEPT !.IM = i], 0)
    BY FreeSet DEF FREE
  <2> QED BY <2>1, <2>2, <2>3, AnyMove
<1>14. CASE X(op) = 1 /\ op \notin {119, 127} /\ z = 7
  <2>1. n = Specials(s, y)
    BY <1>14 DEF ExecuteED
  <2>2. k = 0
    BY <1>14 DEF LengthED
  <2> QED BY <2>1, <2>2, SpecialsMoves, AnyMove
<1>15. z \in {0, 1, 2, 3, 4, 5, 6, 7}
  BY <1>1, EightIs
<1> QED BY <1>5, <1>6, <1>7, <1>8, <1>9, <1>10, <1>11, <1>12, <1>13, <1>14, <1>15

-----------------------------------------------------------------------------
(* One instruction                                                         *)

LEMMA FetchedMoves ==
  ASSUME NEW s, IsCpu(s)
  PROVE  Moves(s, Fetched(s), 1) /\ Fetched(s).mem = s.mem
<1> DEFINE w == W16(s.PC + 1)  b == Lo(s.R + 1)  m == [s EXCEPT !.PC = w]  n == [m EXCEPT !.R = b]
<1>1. Fetched(s) = n
  BY DEF Fetched
<1>2. IsWord(w) /\ b \in Byte
  <2>1. s.R \in Int /\ s.PC \in Int
    BY Has, BytesOf, ByteIs DEF BYTES, IsWord
  <2> QED BY <2>1, WordIs, LowIs
<1>3. m = Skip(s, 1)
  BY DEF Skip
<1>4. n.mem = s.mem
  BY DEF IsCpu, OTHERS
<1> HIDE DEF w, b, m
<1>5. Moves(s, m, 1)
  BY <1>3, Skips
<1>6. Moves(m, n, 0)
  BY <1>2, <1>5, IsMoved, ByteSet DEF BYTES
<1>7. Moves(s, n, 1)
  BY <1>5, <1>6, After
<1> QED BY <1>1, <1>4, <1>7

\* Fetching a code, with its states.
LEMMA Fetches ==
  ASSUME NEW s, IsCpu(s), NEW k \in Nat
  PROVE  LET n == Wait(Fetched(s), k)
         IN /\ Moves(s, n, 1) /\ n.mem = s.mem /\ n.t >= s.t + k
<1> DEFINE f == Fetched(s)  n == Wait(f, k)
<1>1. Moves(s, f, 1) /\ f.mem = s.mem /\ IsCpu(f)
  BY FetchedMoves, IsMoved
<1> HIDE DEF f
<1>2. Moves(f, n, 0) /\ n.t = f.t + k
  BY <1>1, Waits
<1>3. n.mem = f.mem
  BY <1>1 DEF Wait, IsCpu, OTHERS
<1> HIDE DEF n
<1>4. Moves(s, n, 1)
  BY <1>1, <1>2, After
<1>5. n.t >= s.t + k
  <2>1. f.t >= s.t /\ s.t \in Nat /\ f.t \in Nat
    BY <1>1, Has DEF Moves
  <2> QED BY <1>2, <2>1
<1> QED BY <1>1, <1>3, <1>4, <1>5 DEF n, f

\* What is read at PC behind k bytes.
LEMMA ReadBehind ==
  ASSUME NEW s, IsCpu(s), NEW n, NEW k \in Int, Moves(s, n, k), n.mem = s.mem
  PROVE  Operand8(n) = M_RDMEM(s, s.PC + k)
<1>1. s.PC + k \in Int
  BY Has DEF IsWord
<1>2. n.PC = W16(s.PC + k)
  BY DEF Moves
<1>3. W16(W16(s.PC + k)) = W16(s.PC + k)
  BY <1>1, WordIs
<1> QED BY <1>2, <1>3 DEF Operand8, M_RDMEM

LEMMA States ==
  ASSUME NEW op \in Byte
  PROVE  /\ state_table(op) \in Nat
         /\ op \notin PREFIXES => state_table(op) >= 4
         /\ state_CB_table(op) \in Nat /\ state_CB_table(op) >= 4
         /\ state_XX_table(op) \in Nat
         /\ UsesHL(op) => state_XX_table(op) >= 4
<1> DEFINE y == Y(op)
<1>1. /\ X(op) \in Nat /\ X(op) < 4 /\ y \in Nat /\ y < 8 /\ Zz(op) \in Nat /\ Zz(op) < 8
      /\ op = 64 * X(op) + 8 * y + Zz(op) /\ Q(op) \in Nat /\ Q(op) < 2
      /\ y = 2 * P(op) + Q(op) /\ P(op) \in Nat
  BY Decoded
<1>2. y \in {0, 1, 2, 3, 4, 5, 6, 7}
  BY <1>1, EightIs
<1>3. CASE X(op) = 0
  <2>1. state_table(op) \in Nat /\ state_table(op) >= 4
    <3>1. CASE Zz(op) = 0
      BY <1>2, <1>3, <3>1 DEF state_table
    <3>2. CASE Zz(op) = 2
      BY <1>2, <1>3, <3>2 DEF state_table
    <3>3. CASE Zz(op) # 0 /\ Zz(op) # 2
      BY <1>1, <1>3, <3>3 DEF state_table
    <3> QED BY <3>1, <3>2, <3>3
  <2> QED BY <2>1 DEF state_CB_table, state_XX_table
<1>4. CASE X(op) = 1
  <2>1. state_table(op) \in Nat /\ state_table(op) >= 4
    BY <1>4 DEF state_table
  <2> QED BY <2>1 DEF state_CB_table, state_XX_table
<1>5. CASE X(op) = 2
  <2>1. state_table(op) \in Nat /\ state_table(op) >= 4
    BY <1>5 DEF state_table
  <2> QED BY <2>1 DEF state_CB_table, state_XX_table
<1>6. CASE X(op) = 3
  <2>1. state_table(op) \in Nat
    BY <1>1, <1>2, <1>6 DEF state_table
  <2>2. op \notin PREFIXES => state_table(op) >= 4
    <3>1. ASSUME op \notin PREFIXES
          PROVE  ~(Zz(op) = 3 /\ y = 1) /\ (Zz(op) = 5 /\ Q(op) # 0 => y = 1)
      BY <1>1, <1>6, <3>1 DEF PREFIXES
    <3> QED BY <1>1, <1>2, <1>6, <3>1 DEF state_table
  <2> QED BY <2>1, <2>2 DEF state_CB_table, state_XX_table
<1> QED BY <1>1, <1>3, <1>4, <1>5, <1>6

\* A code behind DD or FD; s is behind the prefix.
LEMMA PrefixedRuns ==
  ASSUME NEW s, IsCpu(s), NEW hl \in {"IX", "IY"}
  PROVE  LET op == Operand8(s)
             n == Prefixed(s, hl)
         IN /\ IsCpu(n) /\ n.t >= s.t + 4
            /\ op # 233 => n.PC = W16(s.PC + ((IF op = 203 THEN 4 ELSE LengthDD(op)) - 1))
<1> DEFINE op == Operand8(s)  n == Prefixed(s, hl)
           f == Wait(Fetched(s), state_XX_table(op))  d == Skip(f, 1)  opCB == Operand8(d)
           k == IF op = 203 THEN 4 ELSE LengthDD(op)
<1>1. op \in Byte /\ hl \in HLS /\ state_XX_table(op) \in Nat /\ s.t \in Nat
  BY Operands, States, Has DEF HLS
<1>2. Moves(s, f, 1) /\ f.t >= s.t + state_XX_table(op)
  BY <1>1, Fetches
<1>3. IsCpu(f)
  BY <1>2, IsMoved
<1>4. CASE UsesHL(op)
  <2> DEFINE r == Rest(op, hl)
  <2>1. n = Execute(f, op, hl)
    BY <1>4 DEF Prefixed
  <2>2. op \notin PREFIXES /\ op # 203
    <3>1. X(op) \in Nat /\ X(op) < 4 /\ op = 64 * X(op) + 8 * Y(op) + Zz(op)
          /\ Y(op) \in Nat /\ Y(op) < 8 /\ Zz(op) \in Nat /\ Zz(op) < 8
      BY <1>1, Decoded
    <3>2. op >= 192 => X(op) = 3
      BY <3>1
    <3>3. op \in PREFIXES => op >= 192 /\ op \notin {225, 227, 229, 233, 249}
      BY DEF PREFIXES
    <3>4. op \notin PREFIXES
      BY <1>4, <3>2, <3>3 DEF UsesHL
    <3> QED BY <3>4 DEF PREFIXES
  <2>3. Leaps(op) => op = 233
    <3>1. X(op) = 3 => op = 192 + 8 * Y(op) + Zz(op)
      BY <1>1, Decoded
    <3>2. op \in {195, 201, 205} => X(op) = 3
      BY DEF X
    <3>3. X(op) = 3 => op \in {225, 227, 229, 233, 249}
      BY <1>4 DEF UsesHL
    <3>4. op \in {225, 227, 229, 249} => Zz(op) \in {1, 3, 5}
      BY DEF Zz
    <3>5. op # 118
      <4>1. op = 118 => X(op) = 1
        BY DEF X
      <4> QED BY <1>4, <4>1 DEF UsesHL
    <3>6. X(op) = 0 => Zz(op) # 0
      BY <1>4 DEF UsesHL
    <3> QED BY <3>2, <3>3, <3>4, <3>5, <3>6 DEF Leaps
  <2>4. state_XX_table(op) >= 4
    BY <1>1, <1>4, States
  <2>5. Length(op) \in Nat
    BY DEF Length
  <2>6. k = 1 + r + 1 /\ r \in Int
    BY <1>4, <2>2, <2>5 DEF LengthDD, Rest, Displaced
  <2> HIDE DEF f, r
  <2>7. Runs(f, Execute(f, op, hl), op, r)
    BY <1>1, <1>3, <2>2, ExecuteRuns DEF r
  <2>8. IsCpu(n) /\ n.t >= f.t /\ (op # 233 => n.PC = W16(f.PC + r))
    BY <2>1, <2>3, <2>7 DEF Runs
  <2>9. n.t >= s.t + 4
    BY <1>1, <1>2, <1>3, <2>4, <2>8, Has
  <2>10. W16(f.PC + r) = W16(s.PC + (k - 1))
    <3>1. f.PC = W16(s.PC + 1) /\ s.PC \in Int /\ s.PC + 1 \in Int
      BY <1>2, Has DEF Moves, IsWord
    <3>2. W16(W16(s.PC + 1) + r) = W16((s.PC + 1) + r)
      BY <2>6, <3>1, WordAdds
    <3>3. (s.PC + 1) + r = s.PC + (k - 1)
      BY <2>6, <3>1
    <3> QED BY <3>1, <3>2, <3>3
  <2> QED BY <2>8, <2>9, <2>10
<1>5. CASE ~UsesHL(op) /\ op = 203
  <2> DEFINE w == IF X(opCB) = 1 THEN 20 ELSE 23  e == Skip(d, 1)  g == Wait(e, w)
             a == Address(f, hl)
  <2>1. n = ExecuteXXCB(g, opCB, a)
    BY <1>5 DEF Prefixed
  <2> HIDE DEF f, a
  <2>2. Moves(f, d, 1) /\ IsCpu(d)
    BY <1>3, Skips, IsMoved
  <2>3. opCB \in Byte
    BY <2>2, Operands
  <2> HIDE DEF d, opCB
  <2>4. Moves(s, d, 1 + 1)
    BY <1>2, <2>2, Then
  <2>5. Moves(d, e, 1) /\ IsCpu(e)
    BY <2>2, Skips, IsMoved
  <2> HIDE DEF e
  <2>6. Moves(s, e, (1 + 1) + 1)
    BY <2>4, <2>5, Then
  <2>7. w \in Nat /\ w >= 4
    OBVIOUS
  <2> HIDE DEF w
  <2>8. Moves(e, g, 0) /\ g.t = e.t + w /\ IsCpu(g)
    BY <2>5, <2>7, Waits, IsMoved
  <2> HIDE DEF g
  <2>9. Moves(s, g, (1 + 1) + 1)
    BY <2>6, <2>8, After
  <2>10. Moves(g, n, 0)
    BY <2>1, <2>3, <2>8, XXCBMoves
  <2>11. Moves(s, n, (1 + 1) + 1)
    BY <2>9, <2>10, After
  <2>12. n.t >= s.t + 4
    <3>1. n.t >= g.t /\ e.t >= s.t /\ IsCpu(n)
      BY <2>6, <2>10 DEF Moves
    <3>2. n.t \in Nat /\ g.t \in Nat /\ e.t \in Nat
      BY <2>5, <2>8, <3>1, Has
    <3> QED BY <1>1, <2>7, <2>8, <3>1, <3>2
  <2>13. k - 1 = (1 + 1) + 1
    BY <1>5
  <2> QED BY <2>11, <2>12, <2>13 DEF Moves
<1>6. CASE ~UsesHL(op) /\ op # 203
  <2> DEFINE m == Wait(s, 4)  p == [m EXCEPT !.again = TRUE]  q == [p EXCEPT !.intchk = 0]
  <2>1. n = q
    BY <1>6 DEF Prefixed
  <2>2. Moves(s, m, 0) /\ m.t = s.t + 4 /\ IsCpu(m)
    BY Waits, IsMoved
  <2> HIDE DEF m
  <2>3. Moves(m, p, 0) /\ IsCpu(p)
    BY <2>2, FreeSet, IsMoved DEF FREE
  <2> HIDE DEF p
  <2>4. Moves(p, q, 0)
    BY <2>3, FreeSet DEF FREE
  <2> HIDE DEF q
  <2>5. Moves(m, q, 0)
    BY <2>2, <2>3, <2>4, Before
  <2>6. Moves(s, q, 0)
    BY <2>2, <2>5, Before
  <2>7. k - 1 = 0
    BY <1>6 DEF LengthDD
  <2> QED BY <2>1, <2>2, <2>5, <2>6, <2>7 DEF Moves
<1> QED BY <1>4, <1>5, <1>6

LEMMA EDStates ==
  ASSUME NEW op \in Byte, NEW s
  PROVE  /\ state_ED_table(op) \in Nat
         /\ state_ED_table(op) >= 4 \/ ExecuteED(s, op) = Wait(s, 8)
<1>1. Zz(op) \in Nat /\ Zz(op) < 8
  BY Decoded
<1>2. Zz(op) \in {0, 1, 2, 3, 4, 5, 6, 7}
  BY <1>1, EightIs
<1>3. CASE X(op) = 2 /\ Y(op) >= 4 /\ Zz(op) < 4
  BY <1>3 DEF state_ED_table
<1>4. CASE ~(X(op) = 2 /\ Y(op) >= 4 /\ Zz(op) < 4) /\ (X(op) # 1 \/ op \in {119, 127})
  <2>1. state_ED_table(op) = 0
    BY <1>4 DEF state_ED_table
  <2>2. ExecuteED(s, op) = Wait(s, 8)
    BY <1>4 DEF ExecuteED
  <2> QED BY <2>1, <2>2
<1>5. CASE X(op) = 1 /\ op \notin {119, 127}
  <2>1. state_ED_table(op) = <<12, 12, 15, 20, 8, 8, 8, IF Y(op) < 4 THEN 9 ELSE 18>>[Zz(op) + 1]
    BY <1>5 DEF state_ED_table
  <2> QED BY <1>2, <2>1
<1> QED BY <1>3, <1>4, <1>5

\* One pass of the inner loop of z80_emu, from any CPU: it is a CPU again, it
\* takes states, and it ends behind the bytes of the disassembler unless it jumps.
LEMMA StepRuns ==
  ASSUME NEW s, IsCpu(s)
  PROVE  /\ IsCpu(Step(s)) /\ Step(s).t >= s.t + 4
         /\ Jumps(s) \/ Step(s).PC = W16(s.PC + z80_line_disasm(s))
<1> DEFINE op == Operand8(s)  n == Step(s)  f == Wait(Fetched(s), state_table(op))
           op2 == M_RDMEM(s, s.PC + 1)  op4 == M_RDMEM(s, s.PC + 3)  f2 == Fetched(f)
           k == z80_line_disasm(s)
<1>1. op \in Byte /\ op2 \in Byte /\ s.PC \in Int /\ s.t \in Nat
  BY Operands, ReadIs, Has DEF IsWord
<1>2. state_table(op) \in Nat
  BY <1>1, States
<1>3. Moves(s, f, 1) /\ f.mem = s.mem /\ f.t >= s.t + state_table(op) /\ IsCpu(f)
  BY <1>2, Fetches, IsMoved
<1>4. Operand8(f) = op2 /\ f.t \in Nat /\ f.t >= s.t
  BY <1>3, ReadBehind, Has DEF Moves
<1>5. f.PC = W16(s.PC + 1) /\ s.PC + 1 \in Int
  BY <1>1, <1>3 DEF Moves
<1>6. CASE op = 203
  <2> DEFINE c == state_CB_table(op2)  g == Wait(f2, c)
  <2>1. n = ExecuteCB(g, op2)
    BY <1>4, <1>6 DEF Step
  <2>2. c \in Nat /\ c >= 4
    BY <1>1, States
  <2> HIDE DEF f, op2, c
  <2>3. Moves(f, g, 1) /\ g.t >= f.t + c /\ IsCpu(g)
    BY <1>3, <2>2, Fetches, IsMoved
  <2> HIDE DEF g
  <2>4. Moves(g, n, 0)
    BY <1>1, <2>1, <2>3, CBMoves
  <2>5. Moves(s, n, 1 + 1)
    BY <1>3, <2>3, <2>4, Then, After
  <2>6. n.t >= s.t + 4
    <3>1. n.t \in Nat /\ g.t \in Nat /\ n.t >= g.t
      BY <2>3, <2>4, IsMoved, Has DEF Moves
    <3> QED BY <1>1, <1>4, <2>2, <2>3, <3>1
  <2>7. k = 1 + 1
    BY <1>6 DEF z80_line_disasm, LengthCB
  <2> QED BY <2>5, <2>6, <2>7 DEF Moves
<1>7. CASE op = 237
  <2> DEFINE c == state_ED_table(op2)  g == Wait(f2, c)
  <2>1. n = ExecuteED(g, op2)
    BY <1>4, <1>7 DEF Step
  <2>2. c \in Nat /\ (c >= 4 \/ ExecuteED(g, op2) = Wait(g, 8))
    BY <1>1, EDStates
  <2> HIDE DEF f, op2, c
  <2>3. Moves(f, g, 1) /\ g.t >= f.t + c /\ IsCpu(g)
    BY <1>3, <2>2, Fetches, IsMoved
  <2> HIDE DEF g
  <2>4. Goes(g, n)
    BY <1>1, <2>1, <2>3, EDGoes
  <2>5. n.t >= s.t + 4
    <3>1. n.t \in Nat /\ g.t \in Nat /\ n.t >= g.t
      BY <2>3, <2>4, Has DEF Goes
    <3>2. c >= 4 \/ n.t = g.t + 8
      BY <2>1, <2>2, <2>3, Waits
    <3> QED BY <1>1, <1>4, <2>2, <2>3, <3>1, <3>2
  <2>6. Jumps(s) \/ Moves(g, n, LengthED(op2) - 2)
    <3>1. Jumps(s) \/ (~(X(op2) = 1 /\ Zz(op2) = 5) /\ ~(X(op2) = 2 /\ Y(op2) >= 6))
      BY <1>7 DEF Jumps, op2
    <3> QED BY <1>1, <2>1, <2>3, <3>1, EDGoes
  <2>7. CASE Moves(g, n, LengthED(op2) - 2)
    <3>1. LengthED(op2) \in Int
      BY DEF LengthED
    <3>2. Moves(s, g, 1 + 1)
      BY <1>3, <2>3, Then
    <3>3. Moves(s, n, (1 + 1) + (LengthED(op2) - 2))
      BY <2>7, <3>1, <3>2, Then
    <3>4. k = (1 + 1) + (LengthED(op2) - 2)
      BY <1>7, <3>1 DEF z80_line_disasm, op2
    <3> QED BY <2>4, <2>5, <3>3, <3>4 DEF Moves, Goes
  <2> QED BY <2>4, <2>5, <2>6, <2>7 DEF Goes
<1>8. CASE op \in {221, 253}
  <2> DEFINE hl == IF op = 221 THEN "IX" ELSE "IY"  j == IF op2 = 203 THEN 4 ELSE LengthDD(op2)
  <2>1. n = Prefixed(f, hl)
    BY <1>8 DEF Step
  <2>2. k = j
    BY <1>8 DEF z80_line_disasm, LengthFD, LengthDDCB, LengthFDCB
  <2>3. hl \in {"IX", "IY"}
    OBVIOUS
  <2>4. j \in Int
    <3>1. Length(op2) \in Int
      BY DEF Length
    <3> QED BY <3>1 DEF LengthDD
  <2> HIDE DEF f, op2, hl
  <2>5. /\ IsCpu(n) /\ n.t >= f.t + 4
        /\ op2 # 233 => n.PC = W16(f.PC + (j - 1))
    BY <1>3, <1>4, <2>1, <2>3, PrefixedRuns
  <2>6. n.t >= s.t + 4
    BY <1>1, <1>4, <2>5, Has
  <2>7. op2 = 233 => Jumps(s)
    BY <1>8 DEF Jumps, op2
  <2>8. W16(f.PC + (j - 1)) = W16(s.PC + k)
    <3> HIDE DEF j
    <3>3. j - 1 \in Int
      BY <2>4
    <3>1. W16(W16(s.PC + 1) + (j - 1)) = W16((s.PC + 1) + (j - 1))
      BY <1>5, <3>3, WordAdds
    <3>2. (s.PC + 1) + (j - 1) = s.PC + j
      BY <1>1, <2>4
    <3> QED BY <1>5, <2>2, <3>1, <3>2
  <2> QED BY <2>5, <2>6, <2>7, <2>8
<1>9. CASE op \notin PREFIXES
  <2> DEFINE r == Rest(op, "HL")
  <2>1. op # 203 /\ op # 221 /\ op # 237 /\ op # 253
    BY <1>9 DEF PREFIXES
  <2>2. n = Execute(f, op, "HL")
    BY <2>1 DEF Step
  <2>3. k = 1 + r /\ r \in Int
    <3>1. Length(op) \in Int
      BY DEF Length
    <3>2. k = Length(op)
      BY <2>1 DEF z80_line_disasm
    <3> QED BY <3>1, <3>2 DEF Rest, Displaced
  <2> HIDE DEF f, r
  <2>4. Runs(f, n, op, r)
    BY <1>1, <1>3, <1>9, <2>2, ExecuteRuns DEF HLS, r
  <2>5. IsCpu(n) /\ n.t >= f.t /\ (Leaps(op) \/ n.PC = W16(f.PC + r))
    BY <2>4 DEF Runs
  <2>6. n.t >= s.t + 4
    BY <1>1, <1>2, <1>3, <1>4, <1>9, <2>5, Has, States
  <2>7. W16(f.PC + r) = W16(s.PC + k)
    <3>1. W16(W16(s.PC + 1) + r) = W16((s.PC + 1) + r)
      BY <1>5, <2>3, WordAdds
    <3>2. (s.PC + 1) + r = s.PC + k
      BY <1>1, <2>3
    <3> QED BY <1>5, <3>1, <3>2
  <2>8. Leaps(op) => Jumps(s)
    BY DEF Leaps, Jumps
  <2> QED BY <2>5, <2>6, <2>7, <2>8
<1> QED BY <1>6, <1>7, <1>8, <1>9 DEF PREFIXES

-----------------------------------------------------------------------------
(* Results: the bits of the code against the numbers of Says               *)

\* What Says says, by comparisons.
Tells(F, v, sum, signed, n, h) ==
  /\ v = sum % n
  /\ "C" \in F <=> ~(0 <= sum /\ sum <= n - 1)
  /\ "Z" \in F <=> sum % n = 0
  /\ "P" \in F <=> ~(-h <= signed /\ signed <= h - 1)
  /\ "S" \in F <=> ("P" \in F <=> signed >= 0)

LEMMA SaysIf ==
  ASSUME NEW F, NEW v, NEW sum \in Int, NEW signed \in Int, NEW n \in Nat, NEW h \in Nat,
         n \div 2 = h, Tells(F, v, sum, signed, n, h)
  PROVE  Says(F, v, sum, signed, n)
BY DEF Says, Tells

LEMMA AddRight ==
  ASSUME NEW a \in Nat, a < 256, NEW b \in Nat, b < 256, NEW c \in Nat, c < 2
  PROVE  LET r == M_ADC(a, b, c)
         IN Says(r.F, r.v, a + b + c, Signed8(a) + Signed8(b) + c, 256)
<1> DEFINE r == M_ADC(a, b, c)  sum == a + b + c
           l == IF a + b + c < 256 THEN a + b + c ELSE (a + b + c) - 256
           signed == Signed8(a) + Signed8(b) + c
<1>1. l \in Nat /\ l < 256 /\ l = (a + b + c) % 256 /\ sum \in Int
  OBVIOUS
<1>2. r.v = l
  BY <1>1 DEF M_ADC, Lo
<1>3. /\ "S" \in r.F <=> l >= 128
      /\ "Z" \in r.F <=> l = 0
      /\ "P" \in r.F <=> Bit(a, 7) = Bit(b, 7) /\ Bit(b, 7) # Bit(l, 7)
      /\ "C" \in r.F <=> a + b + c >= 256
  BY <1>1, <1>2 DEF M_ADC, SZ, When, Lo, Hi
<1>4. /\ Bit(a, 7) = (IF a < 128 THEN 0 ELSE 1)
      /\ Bit(b, 7) = (IF b < 128 THEN 0 ELSE 1)
      /\ Bit(l, 7) = (IF l < 128 THEN 0 ELSE 1)
  BY <1>1 DEF Bit, Weight, Weights
<1>5. 256 \div 2 = 128 /\ signed \in Int
  BY DEF Signed8
<1>8. "P" \in r.F <=> ~(signed >= -128 /\ signed < 128)
  BY <1>1, <1>3, <1>4 DEF Signed8
<1>9. "S" \in r.F <=> (("P" \in r.F) <=> signed >= 0)
  BY <1>1, <1>3, <1>8 DEF Signed8
<1>10. /\ "C" \in r.F <=> ~(0 <= sum /\ sum <= 256 - 1)
       /\ "Z" \in r.F <=> sum % 256 = 0
       /\ "P" \in r.F <=> ~(-128 <= signed /\ signed <= 128 - 1)
  BY <1>1, <1>3, <1>5, <1>8
<1> HIDE DEF r, signed
<1>11. r.v = sum % 256
  BY <1>1, <1>2
<1> HIDE DEF sum, l
<1>12. 256 \in Nat /\ 128 \in Nat /\ sum \in Int /\ signed \in Int
  BY <1>1, <1>5
<1>13. Tells(r.F, r.v, sum, signed, 256, 128)
  BY <1>9, <1>10, <1>11 DEF Tells
<1>14. Says(r.F, r.v, sum, signed, 256)
  BY <1>5, <1>12, <1>13, SaysIf
<1> QED BY <1>14 DEF r, sum, signed

LEMMA SubRight ==
  ASSUME NEW a \in Nat, a < 256, NEW b \in Nat, b < 256, NEW c \in Nat, c < 2
  PROVE  LET r == M_SBC(a, b, c)
         IN Says(r.F, r.v, a - b - c, Signed8(a) - Signed8(b) - c, 256)
<1> DEFINE r == M_SBC(a, b, c)  sum == a - b - c
           l == IF a - b - c >= 0 THEN a - b - c ELSE (a - b - c) + 256
           signed == Signed8(a) - Signed8(b) - c
<1>1. l \in Nat /\ l < 256 /\ l = (a - b - c) % 256 /\ sum \in Int
  OBVIOUS
<1>2. r.v = l
  BY <1>1 DEF M_SBC, Lo, W16
<1>3. /\ "S" \in r.F <=> l >= 128
      /\ "Z" \in r.F <=> l = 0
      /\ "P" \in r.F <=> Bit(a, 7) # Bit(b, 7) /\ Bit(a, 7) # Bit(l, 7)
      /\ "C" \in r.F <=> a - b - c < 0
  BY <1>1, <1>2 DEF M_SBC, SZ, When, Lo, Hi, W16
<1>4. /\ Bit(a, 7) = (IF a < 128 THEN 0 ELSE 1)
      /\ Bit(b, 7) = (IF b < 128 THEN 0 ELSE 1)
      /\ Bit(l, 7) = (IF l < 128 THEN 0 ELSE 1)
  BY <1>1 DEF Bit, Weight, Weights
<1>5. 256 \div 2 = 128 /\ signed \in Int
  BY DEF Signed8
<1>8. "P" \in r.F <=> ~(signed >= -128 /\ signed < 128)
  BY <1>1, <1>3, <1>4 DEF Signed8
<1>9. "S" \in r.F <=> (("P" \in r.F) <=> signed >= 0)
  BY <1>1, <1>3, <1>8 DEF Signed8
<1>10. /\ "C" \in r.F <=> ~(0 <= sum /\ sum <= 256 - 1)
       /\ "Z" \in r.F <=> sum % 256 = 0
       /\ "P" \in r.F <=> ~(-128 <= signed /\ signed <= 128 - 1)
  BY <1>1, <1>3, <1>5, <1>8
<1> HIDE DEF r, signed
<1>11. r.v = sum % 256
  BY <1>1, <1>2
<1> HIDE DEF sum, l
<1>12. 256 \in Nat /\ 128 \in Nat /\ sum \in Int /\ signed \in Int
  BY <1>1, <1>5
<1>13. Tells(r.F, r.v, sum, signed, 256, 128)
  BY <1>9, <1>10, <1>11 DEF Tells
<1>14. Says(r.F, r.v, sum, signed, 256)
  BY <1>5, <1>12, <1>13, SaysIf
<1> QED BY <1>14 DEF r, sum, signed

LEMMA AddWordRight ==
  ASSUME NEW a \in Nat, a < 65536, NEW b \in Nat, b < 65536, NEW c \in Nat, c < 2
  PROVE  LET r == M_ADCW(a, b, c)
         IN Says(r.F, r.v, a + b + c, Signed16(a) + Signed16(b) + c, 65536)
<1> DEFINE r == M_ADCW(a, b, c)  sum == a + b + c
           l == IF a + b + c < 65536 THEN a + b + c ELSE (a + b + c) - 65536
           signed == Signed16(a) + Signed16(b) + c
<1>1. l \in Nat /\ l < 65536 /\ l = (a + b + c) % 65536 /\ sum \in Int
  OBVIOUS
<1>2. r.v = l
  BY <1>1 DEF M_ADCW, W16
<1>3. /\ "S" \in r.F <=> l >= 32768
      /\ "Z" \in r.F <=> l = 0
      /\ "P" \in r.F <=> Bit(a, 15) = Bit(b, 15) /\ Bit(b, 15) # Bit(l, 15)
      /\ "C" \in r.F <=> a + b + c >= 65536
  BY <1>1, <1>2 DEF M_ADCW, When, W16
<1>4. /\ Bit(a, 15) = (IF a < 32768 THEN 0 ELSE 1)
      /\ Bit(b, 15) = (IF b < 32768 THEN 0 ELSE 1)
      /\ Bit(l, 15) = (IF l < 32768 THEN 0 ELSE 1)
  BY <1>1 DEF Bit, Weight, Weights
<1>5. 65536 \div 2 = 32768 /\ signed \in Int
  BY DEF Signed16
<1>8. "P" \in r.F <=> ~(signed >= -32768 /\ signed < 32768)
  BY <1>1, <1>3, <1>4 DEF Signed16
<1>9. "S" \in r.F <=> (("P" \in r.F) <=> signed >= 0)
  BY <1>1, <1>3, <1>8 DEF Signed16
<1>10. /\ "C" \in r.F <=> ~(0 <= sum /\ sum <= 65536 - 1)
       /\ "Z" \in r.F <=> sum % 65536 = 0
       /\ "P" \in r.F <=> ~(-32768 <= signed /\ signed <= 32768 - 1)
  BY <1>1, <1>3, <1>5, <1>8
<1> HIDE DEF r, signed
<1>11. r.v = sum % 65536
  BY <1>1, <1>2
<1> HIDE DEF sum, l
<1>12. 65536 \in Nat /\ 32768 \in Nat /\ sum \in Int /\ signed \in Int
  BY <1>1, <1>5
<1>13. Tells(r.F, r.v, sum, signed, 65536, 32768)
  BY <1>9, <1>10, <1>11 DEF Tells
<1>14. Says(r.F, r.v, sum, signed, 65536)
  BY <1>5, <1>12, <1>13, SaysIf
<1> QED BY <1>14 DEF r, sum, signed

LEMMA SubWordRight ==
  ASSUME NEW a \in Nat, a < 65536, NEW b \in Nat, b < 65536, NEW c \in Nat, c < 2
  PROVE  LET r == M_SBCW(a, b, c)
         IN Says(r.F, r.v, a - b - c, Signed16(a) - Signed16(b) - c, 65536)
<1> DEFINE r == M_SBCW(a, b, c)  sum == a - b - c
           l == IF a - b - c >= 0 THEN a - b - c ELSE (a - b - c) + 65536
           signed == Signed16(a) - Signed16(b) - c
<1>1. l \in Nat /\ l < 65536 /\ l = (a - b - c) % 65536 /\ sum \in Int
  OBVIOUS
<1>2. r.v = l
  BY <1>1 DEF M_SBCW, W16
<1>3. /\ "S" \in r.F <=> l >= 32768
      /\ "Z" \in r.F <=> l = 0
      /\ "P" \in r.F <=> Bit(a, 15) # Bit(b, 15) /\ Bit(a, 15) # Bit(l, 15)
      /\ "C" \in r.F <=> a - b - c < 0
  BY <1>1, <1>2 DEF M_SBCW, When, W16
<1>4. /\ Bit(a, 15) = (IF a < 32768 THEN 0 ELSE 1)
      /\ Bit(b, 15) = (IF b < 32768 THEN 0 ELSE 1)
      /\ Bit(l, 15) = (IF l < 32768 THEN 0 ELSE 1)
  BY <1>1 DEF Bit, Weight, Weights
<1>5. 65536 \div 2 = 32768 /\ signed \in Int
  BY DEF Signed16
<1>8. "P" \in r.F <=> ~(signed >= -32768 /\ signed < 32768)
  BY <1>1, <1>3, <1>4 DEF Signed16
<1>9. "S" \in r.F <=> (("P" \in r.F) <=> signed >= 0)
  BY <1>1, <1>3, <1>8 DEF Signed16
<1>10. /\ "C" \in r.F <=> ~(0 <= sum /\ sum <= 65536 - 1)
       /\ "Z" \in r.F <=> sum % 65536 = 0
       /\ "P" \in r.F <=> ~(-32768 <= signed /\ signed <= 32768 - 1)
  BY <1>1, <1>3, <1>5, <1>8
<1> HIDE DEF r, signed
<1>11. r.v = sum % 65536
  BY <1>1, <1>2
<1> HIDE DEF sum, l
<1>12. 65536 \in Nat /\ 32768 \in Nat /\ sum \in Int /\ signed \in Int
  BY <1>1, <1>5
<1>13. Tells(r.F, r.v, sum, signed, 65536, 32768)
  BY <1>9, <1>10, <1>11 DEF Tells
<1>14. Says(r.F, r.v, sum, signed, 65536)
  BY <1>5, <1>12, <1>13, SaysIf
<1> QED BY <1>14 DEF r, sum, signed

LEMMA CarryIs == ASSUME NEW s PROVE Carry(s) \in Nat /\ Carry(s) < 2
BY DEF Carry

LEMMA ByteWidth == ASSUME NEW b \in Byte PROVE b \in Nat /\ b < 256
BY DEF Byte

\* ADD, ADC, SUB, SBC and CP of the accumulator and any byte: the result and its
\* flags are those of plain arithmetic, for every pair of bytes.
THEOREM AluRight ==
  ASSUME NEW s, IsCpu(s), NEW n \in Byte
  PROVE  LET a == s.A
             c == Carry(s)
             r(y) == Alu(s, y, n)
         IN /\ Says(r(0).F, r(0).A, a + n + 0, Signed8(a) + Signed8(n) + 0, 256)
            /\ Says(r(1).F, r(1).A, a + n + c, Signed8(a) + Signed8(n) + c, 256)
            /\ Says(r(2).F, r(2).A, a - n - 0, Signed8(a) - Signed8(n) - 0, 256)
            /\ Says(r(3).F, r(3).A, a - n - c, Signed8(a) - Signed8(n) - c, 256)
            /\ r(7).A = a
            /\ Says(r(7).F, Lo(a - n), a - n - 0, Signed8(a) - Signed8(n) - 0, 256)
<1> DEFINE a == s.A  c == Carry(s)  r(y) == Alu(s, y, n)
<1>1. /\ a \in Nat /\ a < 256 /\ n \in Nat /\ n < 256 /\ c \in Nat /\ c < 2
      /\ "A" \in DOMAIN s /\ "F" \in DOMAIN s
  <2>1. "A" \in BYTES /\ "F" \in OTHERS
    BY DEF BYTES, OTHERS
  <2>2. a \in Byte
    BY <2>1 DEF IsCpu, IsBytes
  <2> QED BY <2>1, <2>2, ByteWidth, CarryIs DEF IsCpu
<1>2. /\ r(0).A = M_ADC(a, n, 0).v /\ r(0).F = M_ADC(a, n, 0).F
      /\ r(1).A = M_ADC(a, n, c).v /\ r(1).F = M_ADC(a, n, c).F
  BY <1>1 DEF Alu
<1>3. /\ r(2).A = M_SBC(a, n, 0).v /\ r(2).F = M_SBC(a, n, 0).F
      /\ r(3).A = M_SBC(a, n, c).v /\ r(3).F = M_SBC(a, n, c).F
      /\ r(7).A = a /\ r(7).F = M_SBC(a, n, 0).F
  BY <1>1 DEF Alu
<1>4. M_SBC(a, n, 0).v = Lo(a - n)
  BY <1>1 DEF M_SBC, Lo, W16
<1>5. /\ Says(M_ADC(a, n, 0).F, M_ADC(a, n, 0).v, a + n + 0, Signed8(a) + Signed8(n) + 0, 256)
      /\ Says(M_ADC(a, n, c).F, M_ADC(a, n, c).v, a + n + c, Signed8(a) + Signed8(n) + c, 256)
  <2>1. 0 \in Nat /\ 0 < 2
    OBVIOUS
  <2> HIDE DEF a, c
  <2> QED BY <1>1, <2>1, AddRight
<1>6. /\ Says(M_SBC(a, n, 0).F, M_SBC(a, n, 0).v, a - n - 0, Signed8(a) - Signed8(n) - 0, 256)
      /\ Says(M_SBC(a, n, c).F, M_SBC(a, n, c).v, a - n - c, Signed8(a) - Signed8(n) - c, 256)
  BY <1>1, SubRight
<1> HIDE DEF a, c, r
<1> QED BY <1>2, <1>3, <1>4, <1>5, <1>6 DEF a, c, r

Decimal(b) == b \div 16 < 10 /\ b % 16 < 10

LEMMA Digits2 ==
  ASSUME NEW h \in Nat, h < 16, NEW l \in Nat, l < 16
  PROVE  (16 * h + l) \div 16 = h /\ (16 * h + l) % 16 = l
OBVIOUS

\* DAA behind ADC of two bytes of two decimal digits: their decimal sum, and the
\* carry of it.
THEOREM DecimalRight ==
  ASSUME NEW s, IsCpu(s),
         NEW a \in Nat, a < 256, Decimal(a), NEW b \in Nat, b < 256, Decimal(b),
         NEW c \in Nat, c < 2, s.A = M_ADC(a, b, c).v, s.F = M_ADC(a, b, c).F
  PROVE  /\ Bcd(DAA(s).A) = (Bcd(a) + Bcd(b) + c) % 100
         /\ "C" \in DAA(s).F <=> Bcd(a) + Bcd(b) + c >= 100
<1> DEFINE al == a % 16  ah == a \div 16  bl == b % 16  bh == b \div 16
           sum == Bcd(a) + Bcd(b) + c  v == s.A  low == al + bl + c
<1>1. /\ al \in Nat /\ al < 10 /\ ah \in Nat /\ ah < 10 /\ a = 16 * ah + al
      /\ bl \in Nat /\ bl < 10 /\ bh \in Nat /\ bh < 10 /\ b = 16 * bh + bl
  BY DEF Decimal
<1>2. v = (16 * (ah + bh) + low) % 256
  BY <1>1 DEF M_ADC, Lo
<1>3. "C" \in s.F <=> 16 * (ah + bh) + low >= 256
  BY <1>1 DEF M_ADC, SZ, When, Hi
<1>4. "H" \in s.F <=> low >= 16
  <2>1. "H" \in s.F <=> Xor3(a, b, v, 4)
    BY <1>1, <1>2 DEF M_ADC, SZ, When, Lo
  <2>2. Bit(a, 4) = ah % 2 /\ Bit(b, 4) = bh % 2 /\ Bit(v, 4) = (v \div 16) % 2
    BY <1>1, <1>2 DEF Bit, Weight, Weights
  <2>3. (v \div 16) % 2 = (ah + bh + (IF low >= 16 THEN 1 ELSE 0)) % 2
    BY <1>1, <1>2
  <2> QED BY <1>1, <2>1, <2>2, <2>3 DEF Xor3
<1>5. "N" \notin s.F
  BY DEF M_ADC, SZ, When
<1> DEFINE ten == low >= 10  hi == ah + bh + (IF ten THEN 1 ELSE 0)
           h == IF hi >= 10 THEN hi - 10 ELSE hi  l == IF ten THEN low - 10 ELSE low
<1>6. /\ low \in Nat /\ low < 20 /\ hi \in Nat /\ hi < 20
      /\ h \in Nat /\ h < 10 /\ l \in Nat /\ l < 10 /\ v \in Nat /\ v < 256
      /\ sum = 10 * hi + l
  BY <1>1, <1>2 DEF Bcd
<1>7. "H" \in s.F \/ v % 16 > 9 <=> ten
  <2>1. v % 16 = IF low >= 16 THEN low - 16 ELSE low
    BY <1>1, <1>2
  <2> QED BY <1>1, <1>4, <2>1
<1>8. "C" \in s.F \/ v > 153 <=> hi >= 10
  BY <1>1, <1>2, <1>3
<1>9. hi >= 10 <=> sum >= 100
  BY <1>6
<1>10. "A" \in DOMAIN s /\ "F" \in DOMAIN s
  BY DEF IsCpu, BYTES, OTHERS
<1>11. "C" \in DAA(s).F <=> "C" \in s.F \/ v > 153
  BY <1>10 DEF DAA, SZP, SZ, When
<1>12. DAA(s).A = 16 * h + l
  <2>1. DAA(s).A = Lo(v + DAA_step(v, s.F))
    BY <1>5, <1>10 DEF DAA
  <2>2. DAA_step(v, s.F) = (IF ten THEN 6 ELSE 0) + (IF hi >= 10 THEN 96 ELSE 0)
    BY <1>7, <1>8 DEF DAA_step
  <2>3. (v + (IF ten THEN 6 ELSE 0) + (IF hi >= 10 THEN 96 ELSE 0)) % 256 = 16 * h + l
    BY <1>1, <1>2
  <2> HIDE DEF ten, hi, h, l
  <2> QED BY <1>6, <2>1, <2>2, <2>3 DEF Lo
<1>13. Bcd(16 * h + l) = sum % 100
  <2>1. (16 * h + l) \div 16 = h /\ (16 * h + l) % 16 = l
    BY <1>6, Digits2
  <2>2. sum % 100 = 10 * h + l
    BY <1>6
  <2> QED BY <2>1, <2>2 DEF Bcd
<1> QED BY <1>8, <1>9, <1>11, <1>12, <1>13

\* DAA behind SBC of two bytes of two decimal digits: their decimal difference,
\* and the borrow of it.
THEOREM DecimalSubRight ==
  ASSUME NEW s, IsCpu(s),
         NEW a \in Nat, a < 256, Decimal(a), NEW b \in Nat, b < 256, Decimal(b),
         NEW c \in Nat, c < 2, s.A = M_SBC(a, b, c).v, s.F = M_SBC(a, b, c).F
  PROVE  /\ Bcd(DAA(s).A) = (Bcd(a) - Bcd(b) - c) % 100
         /\ "C" \in DAA(s).F <=> Bcd(a) - Bcd(b) - c < 0
<1> DEFINE al == a % 16  ah == a \div 16  bl == b % 16  bh == b \div 16
           sum == Bcd(a) - Bcd(b) - c  v == s.A  low == al - bl - c
<1>1. /\ al \in Nat /\ al < 10 /\ ah \in Nat /\ ah < 10 /\ a = 16 * ah + al
      /\ bl \in Nat /\ bl < 10 /\ bh \in Nat /\ bh < 10 /\ b = 16 * bh + bl
  BY DEF Decimal
<1>2. v = (16 * (ah - bh) + low) % 256
  <2>1. v = (a - b - c) % 256
    BY DEF M_SBC, Lo, W16
  <2>2. a - b - c = 16 * (ah - bh) + low
    BY <1>1
  <2> QED BY <2>1, <2>2
<1>3. "C" \in s.F <=> 16 * (ah - bh) + low < 0
  BY <1>1 DEF M_SBC, SZ, When, Hi, W16
<1>4. "H" \in s.F <=> low < 0
  <2>1. "H" \in s.F <=> Xor3(a, b, v, 4)
    BY <1>1, <1>2 DEF M_SBC, SZ, When, Lo, W16
  <2>2. Bit(a, 4) = ah % 2 /\ Bit(b, 4) = bh % 2 /\ Bit(v, 4) = (v \div 16) % 2
    BY <1>1, <1>2 DEF Bit, Weight, Weights
  <2>3. (v \div 16) % 2 = (ah + bh + (IF low < 0 THEN 1 ELSE 0)) % 2
    BY <1>1, <1>2
  <2> QED BY <1>1, <2>1, <2>2, <2>3 DEF Xor3
<1>5. "N" \in s.F
  BY DEF M_SBC, SZ, When
<1> DEFINE ten == low < 0  hi == ah - bh - (IF ten THEN 1 ELSE 0)
           h == IF hi < 0 THEN hi + 10 ELSE hi  l == IF ten THEN low + 10 ELSE low
<1>6. /\ low \in Int /\ low >= -10 /\ low < 10 /\ hi \in Int /\ hi >= -10 /\ hi < 10
      /\ h \in Nat /\ h < 10 /\ l \in Nat /\ l < 10 /\ v \in Nat /\ v < 256
      /\ sum = 10 * hi + l
  BY <1>1, <1>2 DEF Bcd
<1>7. "H" \in s.F \/ v % 16 > 9 <=> ten
  <2>1. v % 16 = IF low < 0 THEN low + 16 ELSE low
    BY <1>1, <1>2
  <2> QED BY <1>1, <1>4, <2>1
<1>8. "C" \in s.F \/ v > 153 <=> hi < 0
  <2>1. CASE 16 * (ah - bh) + low < 0
    BY <1>1, <1>3, <2>1
  <2>2. CASE 16 * (ah - bh) + low >= 0
    <3>1. v = 16 * (ah - bh) + low
      BY <1>1, <1>2, <2>2
    <3> QED BY <1>1, <1>3, <2>2, <3>1
  <2> QED BY <1>1, <2>1, <2>2
<1>9. hi < 0 <=> sum < 0
  BY <1>6
<1>10. "A" \in DOMAIN s /\ "F" \in DOMAIN s
  BY DEF IsCpu, BYTES, OTHERS
<1>11. "C" \in DAA(s).F <=> "C" \in s.F \/ v > 153
  BY <1>10 DEF DAA, SZP, SZ, When
<1>12. DAA(s).A = 16 * h + l
  <2>1. DAA(s).A = Lo(v - DAA_step(v, s.F))
    BY <1>5, <1>10 DEF DAA
  <2>2. DAA_step(v, s.F) = (IF ten THEN 6 ELSE 0) + (IF hi < 0 THEN 96 ELSE 0)
    BY <1>7, <1>8 DEF DAA_step
  <2>3. (v - ((IF ten THEN 6 ELSE 0) + (IF hi < 0 THEN 96 ELSE 0))) % 256 = 16 * h + l
    BY <1>1, <1>2
  <2> HIDE DEF ten, hi, h, l
  <2> QED BY <1>6, <2>1, <2>2, <2>3 DEF Lo
<1>13. Bcd(16 * h + l) = sum % 100
  <2>1. (16 * h + l) \div 16 = h /\ (16 * h + l) % 16 = l
    BY <1>6, Digits2
  <2>2. sum % 100 = 10 * h + l
    BY <1>6
  <2> QED BY <2>1, <2>2 DEF Bcd
<1> QED BY <1>8, <1>9, <1>11, <1>12, <1>13

-----------------------------------------------------------------------------
(* The loop                                                                *)

LEMMA InterruptGoes ==
  ASSUME NEW s, IsCpu(s), NEW level \in Nat, level < 8
  PROVE  IsCpu(z80_interrupt(s, level))
<1> DEFINE n == [s EXCEPT !.IFF = FALSE, !.R = Lo(@ + 1), !.t = @ + 2, !.HALT = FALSE,
                          !.PC = IF s.HALT THEN W16(@ + 1) ELSE @]
<1>1. IsCpu(n)
  <2>1. /\ DOMAIN n = BYTES \cup OTHERS
        /\ n.R = Lo(s.R + 1) /\ n.t = s.t + 2 /\ n.PC = IF s.HALT THEN W16(s.PC + 1) ELSE s.PC
        /\ n.SP = s.SP /\ n.mem = s.mem
        /\ \A x \in BYTES : x # "R" => n[x] = s[x]
    BY DEF IsCpu, BYTES, OTHERS
  <2> HIDE DEF n
  <2>2. s.R \in Int /\ s.PC \in Int
    BY Has, BytesOf, ByteIs DEF BYTES, IsWord
  <2>3. n.R \in Byte
    BY <2>1, <2>2, LowIs
  <2>4. IsBytes(n, BYTES)
    BY <2>1, <2>3, MemoryOf DEF IsBytes
  <2>5. IsWord(n.PC) /\ IsWord(n.SP) /\ n.t \in Nat /\ IsBytes(n.mem, DOMAIN n.mem)
    BY <2>1, <2>2, WordIs, Has, MemoryOf
  <2> QED BY <2>1, <2>4, <2>5 DEF IsCpu
<1>2. /\ n.IM = 0 => z80_interrupt(s, level) = z80_im0_interrupt(n, level)
      /\ n.IM = 1 => z80_interrupt(s, level) = M_RST(Wait(n, state_table(255)), 56)
      /\ n.IM # 0 /\ n.IM # 1 =>
           z80_interrupt(s, level) =
             Wait([M_PUSH(n, n.PC) EXCEPT !.PC = Word(n, 256 * n.I + 2 * level)], 17)
  BY DEF z80_interrupt
<1> HIDE DEF n
<1>3. CASE n.IM = 0
  <2> DEFINE k == state_table(level)  m == Wait(n, k)
  <2>1. k \in Nat
    BY ByteIs, States
  <2> HIDE DEF k
  <2>2. IsCpu(m)
    BY <1>1, <2>1, Waits, IsMoved
  <2> HIDE DEF m
  <2>3. CASE level = 0
    BY <1>2, <1>3, <2>2, <2>3 DEF z80_im0_interrupt, m, k
  <2>4. CASE level # 0
    <3>1. 2 * level \in Byte /\ 2 * level \notin PREFIXES /\ "HL" \in HLS
      BY <2>4, ByteIs DEF PREFIXES, HLS
    <3>2. level \in 1..7
      BY <2>4
    <3>3. z80_im0_interrupt(n, level) = Execute(m, 2 * level, "HL")
      BY <3>2 DEF z80_im0_interrupt, m, k
    <3>4. Runs(m, Execute(m, 2 * level, "HL"), 2 * level, Rest(2 * level, "HL"))
      BY <2>2, <3>1, ExecuteRuns
    <3> QED BY <1>2, <1>3, <3>3, <3>4 DEF Runs
  <2> QED BY <2>3, <2>4
<1>4. CASE n.IM = 1
  <2> DEFINE k == state_table(255)  m == Wait(n, k)
  <2>1. k \in Nat
    <3>1. 255 \in Byte
      BY ByteIs
    <3> QED BY <3>1, States
  <2> HIDE DEF k
  <2>2. IsCpu(m)
    BY <1>1, <2>1, Waits, IsMoved
  <2> HIDE DEF m
  <2>3. Goes(m, M_RST(m, 56))
    BY <2>2, RSTGoes DEF IsWord
  <2> QED BY <1>2, <1>4, <2>3 DEF Goes, m, k
<1>5. CASE n.IM # 0 /\ n.IM # 1
  <2> DEFINE m == M_PUSH(n, n.PC)  w == Word(n, 256 * n.I + 2 * level)  p == [m EXCEPT !.PC = w]
  <2>1. IsWord(w) /\ n.PC \in Int
    BY <1>1, ReadWord, Has DEF IsWord
  <2>2. IsCpu(m)
    BY <1>1, <2>1, PushMoves, IsMoved
  <2> HIDE DEF m, w
  <2>3. IsCpu(p)
    BY <2>1, <2>2, PCGoes DEF Goes
  <2> HIDE DEF p
  <2>4. IsCpu(Wait(p, 17))
    BY <2>3, Waits, IsMoved
  <2> QED BY <1>2, <1>5, <2>4 DEF p, m, w
<1> QED BY <1>3, <1>4, <1>5

LEMMA FreeIs ==
  ASSUME NEW s, IsCpu(s), NEW r \in FREE, NEW v
  PROVE  /\ IsCpu([s EXCEPT ![r] = v])
         /\ [s EXCEPT ![r] = v].PC = s.PC /\ [s EXCEPT ![r] = v].t = s.t
<1> DEFINE n == [s EXCEPT ![r] = v]
<1>1. IsCpu(n)
  BY FreeSet, IsMoved
<1>2. n.PC = s.PC /\ n.t = s.t
  BY DEF IsCpu, OTHERS, FREE
<1> QED BY <1>1, <1>2

LEMMA TimeReset ==
  ASSUME NEW s, IsCpu(s), NEW v
  PROVE  IsCpu([s EXCEPT !.INT_active = v, !.t = 0])
<1> DEFINE m == [s EXCEPT !.INT_active = v]  n == [m EXCEPT !.t = 0]
<1>1. n = [s EXCEPT !.INT_active = v, !.t = 0]
  OBVIOUS
<1>2. IsCpu(m)
  BY FreeIs DEF FREE
<1> HIDE DEF m
<1>3. /\ DOMAIN n = BYTES \cup OTHERS /\ n.t = 0
      /\ \A x \in BYTES \cup {"SP", "PC", "mem"} : n[x] = m[x]
  BY <1>2 DEF IsCpu, BYTES, OTHERS
<1> HIDE DEF n
<1>4. IsBytes(n, BYTES)
  BY <1>2, <1>3, MemoryOf DEF IsBytes
<1>5. n.t \in Nat /\ IsWord(n.SP) /\ IsWord(n.PC) /\ IsBytes(n.mem, DOMAIN n.mem)
  BY <1>2, <1>3, Has, MemoryOf
<1>6. IsCpu(n)
  BY <1>3, <1>4, <1>5 DEF IsCpu
<1> QED BY <1>1, <1>6

CpuInv == IsCpu(z80)

LEMMA CpuInit == Init => CpuInv
BY CpuAssumption DEF Init, CpuInv

LEMMA CpuNext == CpuInv /\ [Next]_vars => CpuInv'
<1> SUFFICES ASSUME IsCpu(z80), [Next]_vars PROVE IsCpu(z80')
  BY DEF CpuInv
<1>1. CASE Emu
  BY <1>1 DEF Emu
<1>2. CASE Top
  <2>1. PICK v : z80' = [z80 EXCEPT !.intchk = v]
    BY <1>2 DEF Top
  <2> QED BY <2>1, FreeIs DEF FREE
<1>3. CASE Instruction
  <2> DEFINE n == Step(z80)
  <2>1. z80' = n \/ z80' = [n EXCEPT !.intchk = 0]
    BY <1>3 DEF Instruction
  <2>2. IsCpu(n)
    BY StepRuns
  <2> HIDE DEF n
  <2> QED BY <2>1, <2>2, FreeIs DEF FREE
<1>4. CASE Update
  <2>1. PICK v \in BOOLEAN : z80' = [z80 EXCEPT !.INT_active = v, !.t = 0]
    BY <1>4 DEF Update
  <2> QED BY <2>1, TimeReset
<1>5. CASE Check
  <2>1. CASE z80' = [z80 EXCEPT !.again = FALSE]
    BY <2>1, FreeIs DEF FREE
  <2>2. ASSUME NEW level \in Levels, NEW more \in BOOLEAN,
               z80' = [z80_interrupt(z80, level) EXCEPT !.INT_active = more]
        PROVE  IsCpu(z80')
    <3> DEFINE n == z80_interrupt(z80, level)
    <3>1. level \in Nat /\ level < 8
      BY CpuAssumption
    <3>2. IsCpu(n)
      BY <3>1, InterruptGoes
    <3>3. z80' = [n EXCEPT !.INT_active = more]
      BY <2>2
    <3> HIDE DEF n
    <3> QED BY <3>2, <3>3, FreeIs DEF FREE
  <2>3. CASE z80' = [z80 EXCEPT !.INT_active = FALSE]
    BY <2>3, FreeIs DEF FREE
  <2>4. CASE z80' = z80
    BY <2>4
  <2> QED BY <1>5, <2>1, <2>2, <2>3, <2>4 DEF Check
<1>6. CASE Finished
  BY <1>6 DEF Finished, vars
<1>7. CASE UNCHANGED vars
  BY <1>7 DEF vars
<1> QED BY <1>1, <1>2, <1>3, <1>4, <1>5, <1>6, <1>7 DEF Next

\* The registers and the memory stay bytes, and PC and SP words, whatever runs
\* and whenever it is interrupted.
THEOREM CpuTypeHolds == Spec => []CpuInv
BY CpuInit, CpuNext, PTL DEF Spec

LEMMA CpuAccount ==
  ASSUME CpuInv, [Next]_vars
  PROVE  [at = "run" => /\ z80'.t >= z80.t + 4
                        /\ Jumps(z80) \/ z80'.PC = W16(z80.PC + z80_line_disasm(z80))]_vars
<1> SUFFICES ASSUME Next, at = "run", ~UNCHANGED vars
             PROVE  /\ z80'.t >= z80.t + 4
                    /\ Jumps(z80) \/ z80'.PC = W16(z80.PC + z80_line_disasm(z80))
  OBVIOUS
<1> DEFINE n == Step(z80)
<1>1. Instruction
  BY DEF Next, Emu, Top, Update, Check, Finished
<1>2. z80' = n \/ z80' = [n EXCEPT !.intchk = 0]
  BY <1>1 DEF Instruction
<1>3. /\ IsCpu(n) /\ n.t >= z80.t + 4
      /\ Jumps(z80) \/ n.PC = W16(z80.PC + z80_line_disasm(z80))
  BY StepRuns DEF CpuInv
<1> HIDE DEF n
<1>4. z80'.PC = n.PC /\ z80'.t = n.t
  BY <1>2, <1>3 DEF IsCpu, OTHERS
<1> QED BY <1>3, <1>4

\* Every instruction but a jump goes on behind the bytes the disassembler shows
\* for it, and every one uses up states: for every program and every CPU.
THEOREM StepsAccountHolds == Spec => StepsAccount
BY CpuTypeHolds, CpuAccount, PTL DEF Spec, StepsAccount
=============================================================================
