----------------------------- MODULE PioProofs ------------------------------
(***************************************************************************)
(* The two 8255 chips and the scheduling of the two CPUs implement the     *)
(* link, for all bytes, timings, costs of instructions and numbers of      *)
(* resets.                                                                 *)
(*                                                                         *)
(* The programs keep to the handshake; what must be shown is that the      *)
(* chips do not let them get out of step.  The invariant Together says     *)
(* which places of the two programs go together: thirteen pairs, in which  *)
(* either CPU may be the sender.  A line is up exactly while its writer is *)
(* at the places LinesAt names, so a poll can only succeed in the pairs    *)
(* that expect it.                                                         *)
(***************************************************************************)
EXTENDS Pio, SequenceTheorems, TLAPS

\* The lines a program at place pc has up.
LinesAt(pc) ==
  CASE pc \in {"wantDAC", "DAVdown"}   -> {DAV}
    [] pc \in {"wantDAV", "RFDdown"}   -> {RFD}
    [] pc \in {"wantNoDAV", "DACdown"} -> {DAC}
    [] OTHER -> {}

\* Where the other program may be while one waits, sends or has just sent.
Together == {<<"wantRFD", "RFDup">>, <<"wantRFD", "wantDAV">>, <<"put", "wantDAV">>,
             <<"DAVup", "wantDAV">>, <<"wantDAC", "wantDAV">>, <<"wantDAC", "RFDdown">>,
             <<"wantDAC", "get">>, <<"wantDAC", "DACup">>, <<"wantDAC", "wantNoDAV">>,
             <<"DAVdown", "wantNoDAV">>, <<"wantNoDAC", "wantNoDAV">>,
             <<"wantNoDAC", "DACdown">>, <<"wantNoDAC", "wantRFD">>}


PortState == [type : {"READ", "WRITE"}, exist : BOOLEAN, data : Bytes \union {0}]
HalfLines == SUBSET Lines
HalfState == [type : {"READ", "WRITE"}, cont_f : BOOLEAN, data : HalfLines]
ChipsTyped ==
  /\ pio_AB \in [Sides -> [Ports -> PortState]]
  /\ pio_C \in [Sides -> [Halves -> HalfState]]
  /\ guest \in [Sides -> [pc : Pcs, byte : Bytes \union {None}]]
  /\ got \in [Sides -> Bytes \union {0, None}]

\* Nobody sets a mode: port A and CL are inputs, B and CH outputs.
Modes ==
  \A s \in Sides : /\ pio_AB[s]["A"].type = "READ" /\ pio_AB[s]["B"].type = "WRITE"
                   /\ pio_C[s]["CH"].type = "WRITE" /\ pio_C[s]["CL"].type = "READ"

LinesUp == \A s \in Sides : pio_C[s]["CH"].data = LinesAt(guest[s].pc)
Paired(p, q) == <<p, q>> \in Together \/ <<q, p>> \in Together
InStep == \A s \in Sides : Paired(guest[s].pc, guest[Peer(s)].pc)

\* The byte of a sender at place p is on its way, with the receiver at q.
Sending(p, q) == p \in {"DAVup", "wantDAC"} /\ q \notin {"DACup", "wantNoDAV"}
Carried ==
  \A s \in Sides : Sending(guest[s].pc, guest[Peer(s)].pc) =>
                     pio_AB[s]["B"].data = guest[s].byte /\ guest[s].byte \in Bytes

Kept == ChipsTyped /\ Modes /\ LinesUp /\ InStep /\ Carried
Inv == ~wild => Kept

-----------------------------------------------------------------------------
(* What a poll and a signal do                                             *)

\* The lines of a half when l is raised or dropped.
After(lines, l, up) == IF up THEN lines \union {l} ELSE lines \ {l}

LEMMA PeerSide ==
  ASSUME NEW s \in Sides
  PROVE  Peer(s) \in Sides /\ Peer(s) # s /\ Peer(Peer(s)) = s
BY DEF Sides, Peer

\* One field of one half changes.
LEMMA FlipHalf ==
  ASSUME NEW s \in Sides, NEW h \in Halves, NEW v \in BOOLEAN,
         NEW c \in [Sides -> [Halves -> HalfState]]
  PROVE  /\ [c EXCEPT ![s][h].cont_f = v] \in [Sides -> [Halves -> HalfState]]
         /\ \A x \in Sides, g \in Halves :
              /\ [c EXCEPT ![s][h].cont_f = v][x][g].type = c[x][g].type
              /\ [c EXCEPT ![s][h].cont_f = v][x][g].data = c[x][g].data
<1>1. \A x \in Sides, g \in Halves : c[x][g] \in HalfState
  OBVIOUS
<1>2. [c[s][h] EXCEPT !.cont_f = v] \in HalfState
      /\ [c[s][h] EXCEPT !.cont_f = v].type = c[s][h].type
      /\ [c[s][h] EXCEPT !.cont_f = v].data = c[s][h].data
  BY <1>1 DEF HalfState
<1> DEFINE e == [c[s][h] EXCEPT !.cont_f = v]
<1>3. [c EXCEPT ![s][h].cont_f = v] = [c EXCEPT ![s] = [c[s] EXCEPT ![h] = e]]
  OBVIOUS
<1> HIDE DEF e
<1> QED BY <1>2, <1>3

LEMMA SetHalf ==
  ASSUME NEW s \in Sides, NEW h \in Halves, NEW v \in HalfLines,
         NEW c \in [Sides -> [Halves -> HalfState]]
  PROVE  /\ [c EXCEPT ![s][h].data = v] \in [Sides -> [Halves -> HalfState]]
         /\ [c EXCEPT ![s][h].data = v][s][h].data = v
         /\ \A x \in Sides, g \in Halves :
              /\ [c EXCEPT ![s][h].data = v][x][g].type = c[x][g].type
              /\ x # s \/ g # h => [c EXCEPT ![s][h].data = v][x][g].data = c[x][g].data
<1>1. \A x \in Sides, g \in Halves : c[x][g] \in HalfState
  OBVIOUS
<1>2. [c[s][h] EXCEPT !.data = v] \in HalfState
      /\ [c[s][h] EXCEPT !.data = v].type = c[s][h].type
      /\ [c[s][h] EXCEPT !.data = v].data = v
  BY <1>1 DEF HalfState
<1> DEFINE e == [c[s][h] EXCEPT !.data = v]
<1>3. [c EXCEPT ![s][h].data = v] = [c EXCEPT ![s] = [c[s] EXCEPT ![h] = e]]
  OBVIOUS
<1> HIDE DEF e
<1> QED BY <1>2, <1>3

\* A data port is written, or found empty.
LEMMA WritePort ==
  ASSUME NEW s \in Sides, NEW b \in Bytes, NEW c \in [Sides -> [Ports -> PortState]]
  PROVE  LET d == [c EXCEPT ![s]["B"].exist = TRUE, ![s]["B"].data = b] IN
         /\ d \in [Sides -> [Ports -> PortState]]
         /\ d[s]["B"].data = b
         /\ \A x \in Sides : x # s => d[x] = c[x]
         /\ \A x \in Sides, p \in Ports : d[x][p].type = c[x][p].type
<1> DEFINE e == [c[s]["B"] EXCEPT !.exist = TRUE, !.data = b]
<1>1. "B" \in Ports /\ c[s]["B"] \in PortState
  BY DEF Ports
<1>2. e \in PortState /\ e.type = c[s]["B"].type /\ e.data = b
  BY <1>1 DEF PortState
<1>3. [c EXCEPT ![s]["B"].exist = TRUE, ![s]["B"].data = b]
      = [c EXCEPT ![s] = [c[s] EXCEPT !["B"] = e]]
  BY <1>1
<1> HIDE DEF e
<1>4. [c EXCEPT ![s] = [c[s] EXCEPT !["B"] = e]] \in [Sides -> [Ports -> PortState]]
  BY <1>1, <1>2
<1> QED BY <1>1, <1>2, <1>3, <1>4

LEMMA EmptyPort ==
  ASSUME NEW s \in Sides, NEW c \in [Sides -> [Ports -> PortState]]
  PROVE  LET d == [c EXCEPT ![s]["B"].exist = FALSE] IN
         /\ d \in [Sides -> [Ports -> PortState]]
         /\ \A x \in Sides, p \in Ports : /\ d[x][p].type = c[x][p].type
                                          /\ d[x][p].data = c[x][p].data
<1> DEFINE e == [c[s]["B"] EXCEPT !.exist = FALSE]
<1>1. "B" \in Ports /\ c[s]["B"] \in PortState
  BY DEF Ports
<1>2. e \in PortState /\ e.type = c[s]["B"].type /\ e.data = c[s]["B"].data
  BY <1>1 DEF PortState
<1>3. [c EXCEPT ![s]["B"].exist = FALSE] = [c EXCEPT ![s] = [c[s] EXCEPT !["B"] = e]]
  BY <1>1
<1> HIDE DEF e
<1>4. [c EXCEPT ![s] = [c[s] EXCEPT !["B"] = e]] \in [Sides -> [Ports -> PortState]]
  BY <1>1, <1>2
<1> QED BY <1>1, <1>2, <1>3, <1>4

\* A poll of the other side's line, as its writer has it.
LEMMA PollEffect ==
  ASSUME Kept, NEW s \in Sides, NEW brk, NEW pc \in Pcs, NEW l \in Lines,
         NEW up, NEW next \in Pcs, Poll(s, brk, pc, l, up, next)
  PROVE  /\ ChipsTyped' /\ Modes' /\ UNCHANGED <<pio_AB, got>>
         /\ \A x \in Sides : pio_C'[x]["CH"].data = pio_C[x]["CH"].data
         /\ guest[s].pc = pc
         /\ guest' = [guest EXCEPT ![s].pc =
                        IF (l \in LinesAt(guest[Peer(s)].pc)) = up THEN next ELSE pc]
<1>1. ReadHalf(s, "CL") = LinesAt(guest[Peer(s)].pc)
  BY PeerSide DEF Kept, Modes, LinesUp, ReadHalf
<1>2. /\ pio_C' = [pio_C EXCEPT ![s]["CL"].cont_f = ~@]
      /\ UNCHANGED <<pio_AB, got>>
  BY DEF Poll, pio_read_C
<1>3. guest[s].pc = pc
      /\ guest' = [guest EXCEPT ![s].pc =
                     IF (l \in LinesAt(guest[Peer(s)].pc)) = up THEN next ELSE pc]
  BY <1>1 DEF Poll, Goto
<1>4. guest' \in [Sides -> [pc : Pcs, byte : Bytes \union {None}]]
  BY <1>3 DEF Kept, ChipsTyped
<1>5. pio_C' \in [Sides -> [Halves -> HalfState]]
      /\ \A x \in Sides, h \in Halves : /\ pio_C'[x][h].type = pio_C[x][h].type
                                        /\ pio_C'[x][h].data = pio_C[x][h].data
  <2> DEFINE v == ~ pio_C[s]["CL"].cont_f
  <2>1. "CL" \in Halves
    BY DEF Halves
  <2>2. pio_C \in [Sides -> [Halves -> HalfState]]
    BY DEF Kept, ChipsTyped
  <2>3. v \in BOOLEAN
    BY Zenon
  <2>4. pio_C' = [pio_C EXCEPT ![s]["CL"].cont_f = v]
    BY <1>2
  <2> HIDE DEF v
  <2> QED BY <2>1, <2>2, <2>3, <2>4, FlipHalf
<1>6. ChipsTyped'
  BY <1>2, <1>4, <1>5 DEF Kept, ChipsTyped
<1>7. Modes' /\ \A x \in Sides : pio_C'[x]["CH"].data = pio_C[x]["CH"].data
  BY <1>2, <1>5 DEF Kept, Modes, Halves
<1> QED BY <1>2, <1>3, <1>6, <1>7

LEMMA SignalEffect ==
  ASSUME Kept, NEW s \in Sides, NEW brk, NEW pc \in Pcs, NEW l \in Lines,
         NEW up, NEW next \in Pcs, Signal(s, brk, pc, l, up, next)
  PROVE  /\ ChipsTyped' /\ Modes' /\ UNCHANGED <<pio_AB, got>>
         /\ pio_C'[s]["CH"].data = After(pio_C[s]["CH"].data, l, up)
         /\ \A x \in Sides : x # s => pio_C'[x]["CH"].data = pio_C[x]["CH"].data
         /\ guest[s].pc = pc
<1> DEFINE v == After(pio_C[s]["CH"].data, l, up)
<1>1. /\ pio_C' = [pio_C EXCEPT ![s]["CH"].data = v]
      /\ UNCHANGED <<pio_AB, got>> /\ guest[s].pc = pc
      /\ guest' = [guest EXCEPT ![s].pc = next]
  BY DEF Signal, pio_write_C, Goto, After
<1>2. guest' \in [Sides -> [pc : Pcs, byte : Bytes \union {None}]]
  BY <1>1 DEF Kept, ChipsTyped
<1>3. /\ "CH" \in Halves /\ v \in HalfLines
      /\ pio_C \in [Sides -> [Halves -> HalfState]]
  <2>1. "CH" \in Halves /\ pio_C \in [Sides -> [Halves -> HalfState]]
    BY DEF Kept, ChipsTyped, Halves
  <2>2. pio_C[s]["CH"] \in HalfState
    BY <2>1
  <2>3. pio_C[s]["CH"].data \in HalfLines
    BY <2>2 DEF HalfState
  <2> QED BY <2>1, <2>3 DEF HalfLines, After
<1>4. /\ pio_C' \in [Sides -> [Halves -> HalfState]]
      /\ pio_C'[s]["CH"].data = v
      /\ \A x \in Sides, g \in Halves :
              /\ pio_C'[x][g].type = pio_C[x][g].type
              /\ x # s \/ g # "CH" => pio_C'[x][g].data = pio_C[x][g].data
  <2> HIDE DEF v
  <2>1. [pio_C EXCEPT ![s]["CH"].data = v] = pio_C'
    BY <1>1
  <2>2. /\ [pio_C EXCEPT ![s]["CH"].data = v] \in [Sides -> [Halves -> HalfState]]
        /\ [pio_C EXCEPT ![s]["CH"].data = v][s]["CH"].data = v
        /\ \A x \in Sides, g \in Halves :
              /\ [pio_C EXCEPT ![s]["CH"].data = v][x][g].type = pio_C[x][g].type
              /\ x # s \/ g # "CH" =>
                   [pio_C EXCEPT ![s]["CH"].data = v][x][g].data = pio_C[x][g].data
    BY <1>3, SetHalf
  <2> QED BY <2>1, <2>2
<1>5. ChipsTyped'
  BY <1>1, <1>2, <1>4 DEF Kept, ChipsTyped
<1>6. Modes'
  BY <1>1, <1>4 DEF Kept, Modes, Halves
<1> QED BY <1>1, <1>3, <1>4, <1>5, <1>6 

-----------------------------------------------------------------------------
(* The places of the two programs                                          *)

\* Going from place p to n suits a program whose peer is at q: they stay
\* paired, and no byte is put or taken.
Fits(p, n, q) == /\ n \in Pcs /\ Paired(n, q)
                 /\ Sending(n, q) <=> Sending(p, q)
                 /\ Sending(q, n) <=> Sending(q, p)

PollRow(pc, l, up, next) ==
  \A q : Paired(pc, q) =>
    /\ (l \in LinesAt(q)) = up => Fits(pc, next, q) /\ LinesAt(next) = LinesAt(pc)
    /\ pc \in Pcs /\ next \in Pcs /\ l \in Lines

SignalRow(pc, l, up, next) ==
  \A q : Paired(pc, q) =>
    /\ Fits(pc, next, q)
    /\ LinesAt(next) = After(LinesAt(pc), l, up)
    /\ pc \in Pcs /\ next \in Pcs /\ l \in Lines

LEMMA PollRows ==
  /\ PollRow("wantRFD", RFD, TRUE, "put")
  /\ PollRow("wantDAC", DAC, TRUE, "DAVdown")
  /\ PollRow("wantNoDAC", DAC, FALSE, "RFDup")
  /\ PollRow("wantDAV", DAV, TRUE, "RFDdown")
  /\ PollRow("wantNoDAV", DAV, FALSE, "DACdown")
<1> USE DEF PollRow, Paired, Together, LinesAt, Fits, Sending, Pcs, SendPcs, RecvPcs,
            Lines, DAV, RFD, DAC
<1>1. PollRow("wantRFD", RFD, TRUE, "put")
  OBVIOUS
<1>2. PollRow("wantDAC", DAC, TRUE, "DAVdown")
  OBVIOUS
<1>3. PollRow("wantNoDAC", DAC, FALSE, "RFDup")
  OBVIOUS
<1>4. PollRow("wantDAV", DAV, TRUE, "RFDdown")
  OBVIOUS
<1>5. PollRow("wantNoDAV", DAV, FALSE, "DACdown")
  OBVIOUS
<1> HIDE DEF PollRow
<1> QED BY <1>1, <1>2, <1>3, <1>4, <1>5

LEMMA SignalRows ==
  /\ SignalRow("DAVup", DAV, TRUE, "wantDAC")
  /\ SignalRow("DAVdown", DAV, FALSE, "wantNoDAC")
  /\ SignalRow("RFDup", RFD, TRUE, "wantDAV")
  /\ SignalRow("RFDdown", RFD, FALSE, "get")
  /\ SignalRow("DACup", DAC, TRUE, "wantNoDAV")
  /\ SignalRow("DACdown", DAC, FALSE, "wantRFD")
<1> USE DEF SignalRow, After, Paired, Together, LinesAt, Fits, Sending, Pcs, SendPcs, RecvPcs,
            Lines, DAV, RFD, DAC
<1>1. SignalRow("DAVup", DAV, TRUE, "wantDAC")
  OBVIOUS
<1>2. SignalRow("DAVdown", DAV, FALSE, "wantNoDAC")
  OBVIOUS
<1>3. SignalRow("RFDup", RFD, TRUE, "wantDAV")
  OBVIOUS
<1>4. SignalRow("RFDdown", RFD, FALSE, "get")
  OBVIOUS
<1>5. SignalRow("DACup", DAC, TRUE, "wantNoDAV")
  OBVIOUS
<1>6. SignalRow("DACdown", DAC, FALSE, "wantRFD")
  OBVIOUS
<1> HIDE DEF SignalRow
<1> QED BY <1>1, <1>2, <1>3, <1>4, <1>5, <1>6

\* A program goes to place n, and its lines with it.
LEMMA Move ==
  ASSUME Kept, NEW s \in Sides, NEW n, UNCHANGED <<wild, pio_AB, got>>,
         guest' = [guest EXCEPT ![s].pc = n], ChipsTyped', Modes',
         \A x \in Sides : x # s => pio_C'[x]["CH"].data = pio_C[x]["CH"].data,
         pio_C'[s]["CH"].data = LinesAt(n),
         Fits(guest[s].pc, n, guest[Peer(s)].pc)
  PROVE  Kept' /\ OnItsWay' = OnItsWay
<1>1. \A x \in Sides : /\ guest'[x].byte = guest[x].byte
                       /\ guest'[x].pc = IF x = s THEN n ELSE guest[x].pc
  BY DEF Kept, ChipsTyped
<1>2. LinesUp'
  BY <1>1 DEF Kept, LinesUp
<1>3. \A x \in Sides : x # s => x = Peer(s) /\ Peer(x) = s
  BY DEF Sides, Peer
<1>4. InStep'
  BY <1>1, <1>3, PeerSide DEF Kept, InStep, Fits, Paired
<1>5. \A x \in Sides : Sending(guest'[x].pc, guest'[Peer(x)].pc)
                       <=> Sending(guest[x].pc, guest[Peer(x)].pc)
  <2> SUFFICES ASSUME NEW x \in Sides
               PROVE  Sending(guest'[x].pc, guest'[Peer(x)].pc)
                      <=> Sending(guest[x].pc, guest[Peer(x)].pc)
    OBVIOUS
  <2>1. CASE x = s
    BY <2>1, <1>1, PeerSide DEF Fits
  <2>2. CASE x # s
    BY <2>2, <1>1, <1>3, PeerSide DEF Fits
  <2> QED BY <2>1, <2>2
<1>6. Carried'
  BY <1>1, <1>5 DEF Kept, Carried
<1>7. OnItsWay' = OnItsWay
  BY <1>1, <1>5 DEF OnItsWay, Taken, Sending
<1> QED BY <1>2, <1>4, <1>6, <1>7 DEF Kept

LEMMA PollStep ==
  ASSUME Kept, UNCHANGED wild, NEW s \in Sides, NEW brk, NEW pc, NEW l,
         NEW up, NEW next, PollRow(pc, l, up, next),
         Poll(s, brk, pc, l, up, next)
  PROVE  Kept' /\ OnItsWay' = OnItsWay /\ UNCHANGED got
<1> DEFINE q == guest[Peer(s)].pc
           n == IF (l \in LinesAt(q)) = up THEN next ELSE pc
<1>1. guest[s].pc = pc /\ Paired(pc, q)
  BY DEF Poll, Kept, InStep
<1>2. pc \in Pcs /\ next \in Pcs /\ l \in Lines
  BY <1>1 DEF PollRow
<1>3. /\ ChipsTyped' /\ Modes' /\ UNCHANGED <<pio_AB, got>>
      /\ \A x \in Sides : pio_C'[x]["CH"].data = pio_C[x]["CH"].data
      /\ guest' = [guest EXCEPT ![s].pc = n]
  BY <1>2, PollEffect
<1>4. pio_C[s]["CH"].data = LinesAt(pc)
  BY <1>1 DEF Kept, LinesUp
<1>5. Fits(pc, n, q) /\ LinesAt(n) = LinesAt(pc)
  <2>1. CASE (l \in LinesAt(q)) = up
    BY <2>1, <1>1 DEF PollRow
  <2>2. CASE (l \in LinesAt(q)) # up
    BY <2>2, <1>1, <1>2 DEF Fits
  <2> QED BY <2>1, <2>2
<1> HIDE DEF n
<1>6. pio_C'[s]["CH"].data = LinesAt(n)
  BY <1>3, <1>4, <1>5
<1>7. Fits(guest[s].pc, n, guest[Peer(s)].pc)
  BY <1>1, <1>5
<1> QED BY <1>3, <1>6, <1>7, Move

LEMMA SignalStep ==
  ASSUME Kept, UNCHANGED wild, NEW s \in Sides, NEW brk, NEW pc, NEW l,
         NEW up, NEW next, SignalRow(pc, l, up, next),
         Signal(s, brk, pc, l, up, next)
  PROVE  Kept' /\ OnItsWay' = OnItsWay /\ UNCHANGED got
<1>1. guest[s].pc = pc /\ Paired(pc, guest[Peer(s)].pc)
  BY DEF Signal, Kept, InStep
<1>2. /\ pc \in Pcs /\ next \in Pcs /\ l \in Lines
      /\ Fits(pc, next, guest[Peer(s)].pc)
      /\ LinesAt(next) = After(LinesAt(pc), l, up)
  BY <1>1 DEF SignalRow
<1>3. /\ ChipsTyped' /\ Modes' /\ UNCHANGED <<pio_AB, got>>
      /\ pio_C'[s]["CH"].data = After(pio_C[s]["CH"].data, l, up)
      /\ \A x \in Sides : x # s => pio_C'[x]["CH"].data = pio_C[x]["CH"].data
      /\ guest' = [guest EXCEPT ![s].pc = next]
  <2>1. guest' = [guest EXCEPT ![s].pc = next]
    BY DEF Signal, Goto
  <2> QED BY <1>2, <2>1, SignalEffect
<1>4. pio_C[s]["CH"].data = LinesAt(pc)
  BY <1>1 DEF Kept, LinesUp
<1>5. pio_C'[s]["CH"].data = LinesAt(next)
  BY <1>2, <1>3, <1>4
<1> QED BY <1>1, <1>2, <1>3, <1>5, Move

-----------------------------------------------------------------------------
(* Sending and receiving a byte                                            *)

LEMMA PutStep ==
  ASSUME Kept, ~wild, UNCHANGED wild, NEW s \in Sides, NEW brk, Put(s, brk)
  PROVE  Kept' /\ L!Offer(s)
<1> DEFINE t == Peer(s)
<1>1. PICK b \in Bytes :
        /\ pio_AB' = [pio_AB EXCEPT ![s]["B"].exist = TRUE, ![s]["B"].data = b]
        /\ guest' = [guest EXCEPT ![s] = [pc |-> "DAVup", byte |-> b]]
        /\ guest[s].pc = "put" /\ UNCHANGED <<pio_C, got>>
  BY DEF Put, pio_write_AB
<1>2. t \in Sides /\ t # s /\ Peer(t) = s /\ \A x \in Sides : x = s \/ x = t
  BY DEF Sides, Peer
<1>3. guest[t].pc = "wantDAV"
  <2>1. Paired("put", guest[t].pc)
    BY <1>1 DEF Kept, InStep
  <2> QED BY <2>1 DEF Paired, Together
<1>4. /\ guest' \in [Sides -> [pc : Pcs, byte : Bytes \union {None}]]
      /\ guest'[s].pc = "DAVup" /\ guest'[s].byte = b /\ guest'[t] = guest[t]
  BY <1>1, <1>2 DEF Kept, ChipsTyped, Pcs, SendPcs
<1>5. /\ pio_AB' \in [Sides -> [Ports -> PortState]]
      /\ pio_AB'[s]["B"].data = b
      /\ pio_AB'[t] = pio_AB[t]
      /\ \A x \in Sides, p \in Ports : pio_AB'[x][p].type = pio_AB[x][p].type
  <2>1. pio_AB \in [Sides -> [Ports -> PortState]]
    BY DEF Kept, ChipsTyped
  <2>2. pio_AB' = [pio_AB EXCEPT ![s]["B"].exist = TRUE, ![s]["B"].data = b]
    BY <1>1
  <2> DEFINE d == [pio_AB EXCEPT ![s]["B"].exist = TRUE, ![s]["B"].data = b]
  <2>3. /\ d \in [Sides -> [Ports -> PortState]]
        /\ d[s]["B"].data = b
        /\ \A x \in Sides : x # s => d[x] = pio_AB[x]
        /\ \A x \in Sides, p \in Ports : d[x][p].type = pio_AB[x][p].type
    BY <2>1, WritePort
  <2>4. pio_AB' = d
    BY <2>2
  <2> HIDE DEF d
  <2> QED BY <2>3, <2>4, <1>2
<1>6. ChipsTyped' /\ Modes'
  BY <1>1, <1>4, <1>5 DEF Kept, ChipsTyped, Modes, Ports
<1>7. LinesUp'
  BY <1>1, <1>2, <1>3, <1>4 DEF Kept, LinesUp, LinesAt
<1>8. InStep'
  BY <1>2, <1>3, <1>4 DEF InStep, Paired, Together
<1>9. Carried'
  BY <1>2, <1>3, <1>4, <1>5 DEF Carried, Sending
<1>10. OnItsWay[s] = None /\ OnItsWay' = [OnItsWay EXCEPT ![s] = b]
  BY <1>1, <1>2, <1>3, <1>4 DEF OnItsWay, Taken
<1> QED BY <1>1, <1>6, <1>7, <1>8, <1>9, <1>10 DEF Kept, L!Offer

LEMMA GetStep ==
  ASSUME Kept, ~wild, UNCHANGED wild, NEW s \in Sides, NEW brk, Get(s, brk)
  PROVE  Kept' /\ L!Take(s, Peer(s))
<1> DEFINE t == Peer(s)
<1>2. t \in Sides /\ t # s /\ Peer(t) = s /\ \A x \in Sides : x = s \/ x = t
  BY DEF Sides, Peer
<1>1. /\ pio_AB' = [pio_AB EXCEPT ![t]["B"].exist = FALSE]
      /\ got' = [got EXCEPT ![s] = pio_AB[t]["B"].data]
      /\ guest' = [guest EXCEPT ![s].pc = "DACup"]
      /\ guest[s].pc = "get" /\ UNCHANGED pio_C
  BY DEF Get, pio_read_AB, OwnPort, ReadABValue, Opposite, Goto, Kept, Modes
<1>3. guest[t].pc = "wantDAC"
  <2>1. Paired("get", guest[t].pc)
    BY <1>1 DEF Kept, InStep
  <2> QED BY <2>1 DEF Paired, Together
<1>4. /\ guest' \in [Sides -> [pc : Pcs, byte : Bytes \union {None}]]
      /\ guest'[s].pc = "DACup" /\ guest'[t] = guest[t]
  BY <1>1, <1>2 DEF Kept, ChipsTyped, Pcs, RecvPcs
<1>5. /\ pio_AB' \in [Sides -> [Ports -> PortState]]
      /\ \A x \in Sides, p \in Ports : pio_AB'[x][p].type = pio_AB[x][p].type
  BY <1>1, <1>2, EmptyPort DEF Kept, ChipsTyped
<1>6. pio_AB[t]["B"].data = guest[t].byte /\ guest[t].byte \in Bytes
  BY <1>1, <1>2, <1>3 DEF Kept, Carried, Sending
<1>7. got' \in [Sides -> Bytes \union {0, None}]
  BY <1>1, <1>6 DEF Kept, ChipsTyped
<1>8. ChipsTyped' /\ Modes'
  BY <1>1, <1>4, <1>5, <1>7 DEF Kept, ChipsTyped, Modes, Ports
<1>9. LinesUp'
  BY <1>1, <1>2, <1>3, <1>4 DEF Kept, LinesUp, LinesAt
<1>10. InStep'
  BY <1>2, <1>3, <1>4 DEF InStep, Paired, Together
<1>11. Carried'
  BY <1>2, <1>3, <1>4 DEF Carried, Sending
<1>12. /\ OnItsWay[t] = guest[t].byte /\ guest[t].byte # None
       /\ OnItsWay' = [OnItsWay EXCEPT ![t] = None]
  BY <1>1, <1>2, <1>3, <1>4, <1>6, PioConstants DEF OnItsWay, Taken
<1> QED
  BY <1>1, <1>2, <1>6, <1>8, <1>9, <1>10, <1>11, <1>12 DEF Kept, L!Take

\* One instruction of a program that keeps to the handshake.
LEMMA HandshakeStep ==
  ASSUME Kept, ~wild, UNCHANGED wild, NEW s \in Sides, NEW brk, Handshake(s, brk)
  PROVE  Kept' /\ [L!LinkNext]_(L!linkVars)
<1> USE DEF L!linkVars
<1>1. ASSUME NEW pc, NEW l, NEW up, NEW next, PollRow(pc, l, up, next),
             Poll(s, brk, pc, l, up, next)
      PROVE  Kept' /\ UNCHANGED L!linkVars
  BY <1>1, PollStep
<1>2. ASSUME NEW pc, NEW l, NEW up, NEW next, SignalRow(pc, l, up, next),
             Signal(s, brk, pc, l, up, next)
      PROVE  Kept' /\ UNCHANGED L!linkVars
  BY <1>2, SignalStep
<1>3. CASE Put(s, brk)
  BY <1>3, PutStep DEF L!LinkNext
<1>4. CASE Get(s, brk)
  BY <1>4, GetStep, PeerSide DEF L!LinkNext
<1>5. CASE Poll(s, brk, "wantRFD", RFD, TRUE, "put")
  BY <1>1, <1>5, PollRows
<1>6. CASE Poll(s, brk, "wantDAC", DAC, TRUE, "DAVdown")
  BY <1>1, <1>6, PollRows
<1>7. CASE Poll(s, brk, "wantNoDAC", DAC, FALSE, "RFDup")
  BY <1>1, <1>7, PollRows
<1>8. CASE Poll(s, brk, "wantDAV", DAV, TRUE, "RFDdown")
  BY <1>1, <1>8, PollRows
<1>9. CASE Poll(s, brk, "wantNoDAV", DAV, FALSE, "DACdown")
  BY <1>1, <1>9, PollRows
<1>10. CASE Signal(s, brk, "DAVup", DAV, TRUE, "wantDAC")
  BY <1>2, <1>10, SignalRows
<1>11. CASE Signal(s, brk, "DAVdown", DAV, FALSE, "wantNoDAC")
  BY <1>2, <1>11, SignalRows
<1>12. CASE Signal(s, brk, "RFDup", RFD, TRUE, "wantDAV")
  BY <1>2, <1>12, SignalRows
<1>13. CASE Signal(s, brk, "RFDdown", RFD, FALSE, "get")
  BY <1>2, <1>13, SignalRows
<1>14. CASE Signal(s, brk, "DACup", DAC, TRUE, "wantNoDAV")
  BY <1>2, <1>14, SignalRows
<1>15. CASE Signal(s, brk, "DACdown", DAC, FALSE, "wantRFD")
  BY <1>2, <1>15, SignalRows
<1> QED
  BY <1>3, <1>4, <1>5, <1>6, <1>7, <1>8, <1>9, <1>10, <1>11, <1>12, <1>13, <1>14, <1>15
     DEF Handshake

\* Programs that start over are paired, and no byte is on its way.
LEMMA Started ==
  ASSUME pio_AB = ResetAB, pio_C = ResetC,
         guest = [s \in Sides |-> [pc |-> IF s = "M" THEN "wantRFD" ELSE "RFDup",
                                   byte |-> None]],
         got = [s \in Sides |-> None]
  PROVE  Kept /\ OnItsWay = [s \in Sides |-> None]
<1>1. ChipsTyped
  <2>1. guest \in [Sides -> [pc : Pcs, byte : Bytes \union {None}]]
    BY DEF Pcs, SendPcs, RecvPcs
  <2>2. ResetAB \in [Sides -> [Ports -> PortState]]
    BY DEF ResetAB, PortState
  <2>3. ResetC \in [Sides -> [Halves -> HalfState]]
    BY DEF ResetC, HalfState, HalfLines
  <2> QED BY <2>1, <2>2, <2>3 DEF ChipsTyped
<1>2. Modes
  BY DEF Modes, ResetAB, ResetC, Ports, Halves
<1>3. guest["M"].pc = "wantRFD" /\ guest["S"].pc = "RFDup"
  BY DEF Sides
<1>4. LinesUp
  BY <1>3 DEF LinesUp, LinesAt, ResetC, Halves, Sides
<1>5. InStep
  BY <1>3 DEF InStep, Paired, Together, Sides, Peer
<1>6. Carried /\ OnItsWay = [s \in Sides |-> None]
  BY <1>3 DEF Carried, Sending, OnItsWay, Sides
<1> QED BY <1>1, <1>2, <1>4, <1>5, <1>6 DEF Kept

\* The same of the state after a reset.
LEMMA StartedAgain ==
  ASSUME pio_AB' = ResetAB, pio_C' = ResetC,
         guest' = [s \in Sides |-> [pc |-> IF s = "M" THEN "wantRFD" ELSE "RFDup",
                                   byte |-> None]],
         got' = [s \in Sides |-> None]
  PROVE  Kept' /\ OnItsWay' = [s \in Sides |-> None]
<1>1. ChipsTyped'
  <2>1. guest' \in [Sides -> [pc : Pcs, byte : Bytes \union {None}]]
    BY DEF Pcs, SendPcs, RecvPcs
  <2>2. ResetAB \in [Sides -> [Ports -> PortState]]
    BY DEF ResetAB, PortState
  <2>3. ResetC \in [Sides -> [Halves -> HalfState]]
    BY DEF ResetC, HalfState, HalfLines
  <2> QED BY <2>1, <2>2, <2>3 DEF ChipsTyped
<1>2. Modes'
  BY DEF Modes, ResetAB, ResetC, Ports, Halves
<1>3. guest'["M"].pc = "wantRFD" /\ guest'["S"].pc = "RFDup"
  BY DEF Sides
<1>4. LinesUp'
  BY <1>3 DEF LinesUp, LinesAt, ResetC, Halves, Sides
<1>5. InStep'
  BY <1>3 DEF InStep, Paired, Together, Sides, Peer
<1>6. Carried' /\ OnItsWay' = [s \in Sides |-> None]
  BY <1>3 DEF Carried, Sending, OnItsWay, Sides
<1> QED BY <1>1, <1>2, <1>4, <1>5, <1>6 DEF Kept

\* Every step of the machine keeps the programs in step, and is a step of
\* the link or one that does not touch it.
LEMMA NextKeeps ==
  ASSUME Inv, [PioNext]_pioVars
  PROVE  Inv' /\ [L!LinkNext]_(L!linkVars)
<1> USE DEF L!linkVars
<1>1. ASSUME UNCHANGED <<chips, program, wild>>
      PROVE  Inv' /\ UNCHANGED L!linkVars
  <2> USE <1>1 DEF chips, program
  <2>1. ChipsTyped' = ChipsTyped /\ Modes' = Modes /\ LinesUp' = LinesUp
    BY DEF ChipsTyped, Modes, LinesUp
  <2>2. InStep' = InStep /\ Carried' = Carried
    BY DEF InStep, Carried
  <2>3. UNCHANGED L!linkVars
    BY DEF OnItsWay, Taken
  <2> QED BY <2>1, <2>2, <2>3 DEF Inv, Kept
<1>2. CASE Pass
  BY <1>1, <1>2 DEF Pass
<1>3. CASE Redraw
  BY <1>1, <1>3 DEF Redraw
<1>4. ASSUME NEW s \in Sides, Step(s)
      PROVE  Inv' /\ [L!LinkNext]_(L!linkVars)
  <2>1. PICK brk : Instruction(s, brk)
    BY <1>4 DEF Step
  <2>2. UNCHANGED wild
    BY <1>4 DEF Step
  <2>3. CASE wild
    <3>1. UNCHANGED program
      BY <2>1, <2>3 DEF Instruction, AnyAccess
    <3>2. UNCHANGED L!linkVars
      BY <2>2, <2>3, <3>1 DEF OnItsWay, program
    <3> QED BY <2>2, <2>3, <3>2 DEF Inv
  <2>4. CASE ~wild
    <3>1. Kept /\ Handshake(s, brk)
      BY <2>1, <2>4 DEF Instruction, Inv
    <3> QED BY <2>2, <2>4, <3>1, HandshakeStep DEF Inv
  <2> QED BY <2>3, <2>4
<1>5. CASE quasi88_reset
  <2>1. Kept' /\ OnItsWay' = [s \in Sides |-> None] /\ got' = [s \in Sides |-> None]
    BY <1>5, StartedAgain DEF quasi88_reset, pio_init, StartPrograms
  <2> QED BY <2>1 DEF Inv, L!LinkNext, L!Restart
<1>6. CASE UNCHANGED pioVars
  BY <1>1, <1>6 DEF pioVars, chips, program
<1> QED
  BY <1>2, <1>3, <1>4, <1>5, <1>6 DEF PioNext, Thread

\* With every -cpu option, all timings and any interruption of the two CPUs,
\* pio.c and emu.c carry each byte sent with the handshake to the other side
\* once and unchanged.
THEOREM LinkHolds == PioSpec => LinkImplemented
<1>1. PioInit => Inv /\ L!LinkInit
  <2> SUFFICES ASSUME PioInit PROVE Inv /\ L!LinkInit
    OBVIOUS
  <2>1. Kept /\ OnItsWay = [s \in Sides |-> None]
    BY Started DEF PioInit
  <2> QED BY <2>1 DEF Inv, L!LinkInit, PioInit
<1>2. Inv /\ [PioNext]_pioVars => Inv' /\ [L!LinkNext]_(L!linkVars)
  BY NextKeeps
<1> QED
  BY <1>1, <1>2, PTL DEF PioSpec, LinkImplemented, L!LinkSpec

-----------------------------------------------------------------------------
(* The accounts of the two CPUs with -cpu 2                                *)

\* A CPU is called with the whole states of its account, and a call that is
\* not over has used less: done up to the last interrupt update, state0 since.
Least(c, i) == (1 - c - i) * JACKUP
Account(s) ==
  /\ state[s] \in Int /\ state[s] < Granted(s) + JACKUP
  /\ \E c \in Costs, i \in {0} \union IntCosts : state[s] >= Least(c, i)
Whole(x) == x \div JACKUP
Called(s) == Call(s, Whole(state[s]))
Plans == {<<>>, <<Called("M")>>, <<Called("S")>>, <<Called("M"), Called("S")>>}
Accounts ==
  /\ state \in [Sides -> Int] /\ state0 \in [Sides -> Nat] /\ done \in Nat
  /\ \A s \in Sides : Account(s)
  /\ cpu_timing # 2 => state = [s \in Sides |-> 0]
  /\ cpu_timing = 2 =>
       /\ plan \in Plans
       /\ \A i \in DOMAIN plan : state[plan[i].cpu] >= JACKUP
       /\ plan = <<>> => done = 0
       /\ plan # <<>> => done < plan[1].goal
       /\ \A s \in Sides : state0[s] \in {0} \union IntCosts
            \/ /\ plan # <<>> /\ plan[1].cpu = s
               /\ done + state0[s] < plan[1].goal

LEMMA GrantedPositive == \A s \in Sides : Granted(s) \in Nat \ {0}
BY PioConstants DEF Granted

\* The whole states of an account that holds one, and what is left over.
LEMMA WholeStates ==
  ASSUME NEW x \in Int, x >= JACKUP
  PROVE  Whole(x) \in Nat /\ Whole(x) >= 1 /\ Whole(x) * JACKUP <= x
BY PioConstants DEF Whole

\* A call that is over has used at most its goal less one state, one
\* instruction and one interrupt: what an account owes then.
LEMMA Owed ==
  ASSUME NEW x \in Int, NEW g \in Int, NEW used \in Int, NEW least \in Int,
         g * JACKUP <= x, used + least <= g
  PROVE  x - used * JACKUP >= least * JACKUP
<1>1. JACKUP \in Nat /\ (g - used) - least >= 0
  BY PioConstants
<1>2. ((g - used) - least) * JACKUP >= 0
  BY <1>1
<1>3. ((g - used) - least) * JACKUP = (g * JACKUP - used * JACKUP) - least * JACKUP
  BY <1>1
<1>4. g * JACKUP \in Int /\ used * JACKUP \in Int /\ least * JACKUP \in Int
  BY <1>1
<1> QED BY <1>2, <1>3, <1>4

LEMMA LeastBelow ==
  ASSUME NEW c \in Costs, NEW i \in {0} \union IntCosts
  PROVE  Least(c, i) \in Int /\ Least(c, i) <= 0
<1>1. JACKUP \in Nat /\ 1 - c - i \in Int /\ 1 - c - i <= 0
  BY PioConstants
<1> QED BY <1>1 DEF Least

\* What is used up is taken off.
LEMMA TakenOff ==
  ASSUME NEW used \in Nat
  PROVE  used * JACKUP \in Nat
BY PioConstants

\* Two calls one after the other.
LEMMA OneAndOne ==
  ASSUME NEW S, NEW x \in S, NEW y \in S
  PROVE  <<x>> \o <<y>> = <<x, y>>
<1> DEFINE s == <<x>>
           t == <<y>>
           u == <<x, y>>
<1>1. s \in Seq(S) /\ t \in Seq(S) /\ u \in Seq(S)
  OBVIOUS
<1>2. Len(s) = 1 /\ Len(t) = 1 /\ s[1] = x /\ t[1] = y /\ Len(u) = 2 /\ u[1] = x /\ u[2] = y
  OBVIOUS
<1> HIDE DEF s, t, u
<1>3. s \o t \in Seq(S) /\ Len(s \o t) = 2
  BY <1>1, <1>2, ConcatProperties
<1>4. \A i \in 1..2 : (s \o t)[i] = IF i <= 1 THEN s[i] ELSE t[i-1]
  BY <1>1, <1>2, ConcatProperties
<1>6. s \o t \in Seq(S) /\ Len(s \o t) = 2 /\ (s \o t)[1] = x /\ (s \o t)[2] = y
  BY <1>2, <1>3, <1>4
<1>7. \A i \in 1..Len(u) : (s \o t)[i] = u[i]
  BY <1>6, <1>2
<1>8. s \o t = u
  BY <1>1, <1>6, <1>2, <1>7, SeqEqual
<1> QED BY <1>8 DEF s, t, u

LEMMA InitAccounts == PioInit => Accounts
<1> SUFFICES ASSUME PioInit PROVE Accounts
  OBVIOUS
<1>1. PICK c \in Costs : TRUE
  BY PioConstants
<1>2. 0 >= Least(c, 0)
  BY LeastBelow
<1>3. \A s \in Sides : Account(s)
  BY <1>2, GrantedPositive, PioConstants DEF PioInit, Account
<1> QED BY <1>3 DEF PioInit, Accounts, Plans

LEMMA PassAccounts == ASSUME Accounts, Pass PROVE Accounts'
<1>1. /\ plan = <<>> /\ UNCHANGED <<cpu_timing, done, state0>>
  BY DEF Pass
<1>2. CASE cpu_timing # 2
  <2>1. UNCHANGED state
    BY <1>2 DEF Pass
  <2> QED BY <1>1, <1>2, <2>1 DEF Accounts, Account
<1>3. CASE cpu_timing = 2
  <2>1. /\ state' = Grant(state)
        /\ plan' = Calls(Grant(state), "M") \o Calls(Grant(state), "S")
    BY <1>3 DEF Pass
  <2>2. state' \in [Sides -> Int]
    BY <2>1, GrantedPositive DEF Accounts, Grant
  <2>3. \A s \in Sides : Account(s)'
    <3> SUFFICES ASSUME NEW s \in Sides PROVE Account(s)'
      OBVIOUS
    <3>1. Account(s) /\ Granted(s) \in Nat \ {0} /\ state \in [Sides -> Int]
      BY GrantedPositive DEF Accounts
    <3>2. PICK c \in Costs, i \in {0} \union IntCosts : state[s] >= Least(c, i)
      BY <3>1 DEF Account
    <3>3. CASE \A x \in Sides : state[x] < JACKUP
      <4>1. state'[s] = state[s] + Granted(s) /\ state[s] < JACKUP
        BY <2>1, <3>3 DEF Grant
      <4>2. /\ state'[s] \in Int /\ state'[s] < Granted(s) + JACKUP
            /\ state'[s] >= Least(c, i)
        BY <3>1, <3>2, <4>1, LeastBelow, PioConstants DEF Account
      <4> QED BY <4>2 DEF Account, Granted, Least
    <3>4. CASE ~ \A x \in Sides : state[x] < JACKUP
      <4>1. state' = state
        BY <2>1, <3>4 DEF Grant
      <4> QED BY <3>1, <4>1 DEF Account, Granted, Least
    <3> QED BY <3>3, <3>4
  <2>4. plan' \in Plans'
    <3>1. /\ Calls(state', "M") = <<>> \/ Calls(state', "M") = <<Called("M")>>'
          /\ Calls(state', "S") = <<>> \/ Calls(state', "S") = <<Called("S")>>'
      BY DEF Calls, Called, Call, Whole
    <3>2. plan' = Calls(state', "M") \o Calls(state', "S")
      BY <2>1
    <3>3. \A a, b : LET x == Call("M", a) y == Call("S", b) IN
                   /\ <<>> \o <<>> = <<>>
                   /\ <<x>> \o <<>> = <<x>>
                   /\ <<>> \o <<y>> = <<y>>
                   /\ <<x>> \o <<y>> = <<x, y>>
      <4> TAKE a, b
      <4> DEFINE x == Call("M", a)
                 y == Call("S", b)
                 S == {x, y}
      <4>1. x \in S /\ y \in S
        OBVIOUS
      <4> HIDE DEF x, y, S
      <4>2. <<x>> \in Seq(S) /\ <<y>> \in Seq(S) /\ <<>> \in Seq(S)
        BY <4>1
      <4>3. <<x>> \o <<y>> = <<x, y>>
        BY <4>1, OneAndOne
      <4>4. <<>> \o <<>> = <<>> /\ <<x>> \o <<>> = <<x>> /\ <<>> \o <<y>> = <<y>>
        BY <4>2, ConcatEmptySeq
      <4>5. /\ <<>> \o <<>> = <<>> /\ <<x>> \o <<>> = <<x>>
            /\ <<>> \o <<y>> = <<y>> /\ <<x>> \o <<y>> = <<x, y>>
        BY <4>3, <4>4
      <4> QED BY <4>5 DEF x, y
    <3> QED BY <3>1, <3>2, <3>3 DEF Plans, Called
  <2>5. /\ \A i \in DOMAIN plan' : state'[plan'[i].cpu] >= JACKUP
        /\ plan' # <<>> => plan'[1].goal \in Int /\ plan'[1].goal >= 1
    <3> DEFINE st == Grant(state)
               a == st["M"] \div JACKUP
               b == st["S"] \div JACKUP
               x == Call("M", a)
               y == Call("S", b)
    <3>1. st["M"] \in Int /\ st["S"] \in Int /\ state' = st
      BY <2>1, <2>2 DEF Sides
    <3>2. /\ st["M"] >= JACKUP => a \in Int /\ a >= 1
          /\ st["S"] >= JACKUP => b \in Int /\ b >= 1
      BY <3>1, WholeStates DEF Whole
    <3>3. plan' = (IF st["M"] >= JACKUP THEN <<x>> ELSE <<>>)
                  \o (IF st["S"] >= JACKUP THEN <<y>> ELSE <<>>)
      BY <2>1 DEF Calls
    <3>4. x.cpu = "M" /\ x.goal = a /\ y.cpu = "S" /\ y.goal = b
      BY DEF Call
    <3> HIDE DEF st, a, b, x, y
    <3> DEFINE S == {x, y}
    <3>5. <<x>> \o <<y>> = <<x, y>>
      <4>1. x \in S /\ y \in S
        OBVIOUS
      <4> HIDE DEF S
      <4> QED BY <4>1, OneAndOne
    <3>6. /\ <<>> \o <<>> = <<>> /\ <<x>> \o <<>> = <<x>> /\ <<>> \o <<y>> = <<y>>
      <4>1. x \in S /\ y \in S
        OBVIOUS
      <4> HIDE DEF S
      <4>2. <<x>> \in Seq(S) /\ <<y>> \in Seq(S) /\ <<>> \in Seq(S)
        BY <4>1
      <4> QED BY <4>2, ConcatEmptySeq
    <3>7. CASE st["M"] >= JACKUP /\ st["S"] >= JACKUP
      <4>1. plan' = <<x, y>>
        BY <3>3, <3>5, <3>7
      <4> QED BY <3>1, <3>2, <3>4, <3>7, <4>1
    <3>8. CASE st["M"] >= JACKUP /\ ~(st["S"] >= JACKUP)
      <4>1. plan' = <<x>>
        BY <3>3, <3>6, <3>8
      <4> QED BY <3>1, <3>2, <3>4, <3>8, <4>1
    <3>9. CASE ~(st["M"] >= JACKUP) /\ st["S"] >= JACKUP
      <4>1. plan' = <<y>>
        BY <3>3, <3>6, <3>9
      <4> QED BY <3>1, <3>2, <3>4, <3>9, <4>1
    <3>10. CASE ~(st["M"] >= JACKUP) /\ ~(st["S"] >= JACKUP)
      <4>1. plan' = <<>>
        BY <3>3, <3>6, <3>10
      <4> QED BY <4>1
    <3> QED BY <3>7, <3>8, <3>9, <3>10
  <2>6. done = 0 /\ \A s \in Sides : state0[s] \in {0} \union IntCosts
    BY <1>1, <1>3 DEF Accounts
  <2>7. plan' # <<>> => done' < plan'[1].goal
    <3> QED BY <1>1, <2>5, <2>6
  <2> QED BY <1>1, <1>3, <2>2, <2>3, <2>4, <2>5, <2>6, <2>7 DEF Accounts
<1> QED BY <1>2, <1>3

LEMMA StepAccounts == ASSUME Accounts, NEW s \in Sides, Step(s) PROVE Accounts'
<1> DEFINE goal == Head(plan).goal
<1>0. PICK brk \in BOOLEAN, refresh \in BOOLEAN, cost \in Costs,
           taken \in {0} \union IntCosts :
        Settle(s, state0[s] + cost, brk, UpdateDue(state0[s] + cost, brk \/ refresh),
               EmuEnds(s, state0[s] + cost, brk,
                       UpdateDue(state0[s] + cost, brk \/ refresh)), taken)
  BY DEF Step
<1> DEFINE update == UpdateDue(state0[s] + cost, brk \/ refresh)
           ends == EmuEnds(s, state0[s] + cost, brk, update)
<1>1. /\ state0' = [state0 EXCEPT ![s] = IF update THEN taken ELSE state0[s] + cost]
      /\ plan' = IF ends THEN Tail(plan) ELSE plan
      /\ done' = IF ends \/ goal = 0 THEN 0
                 ELSE IF update THEN done + (state0[s] + cost) ELSE done
      /\ state' = IF ends /\ cpu_timing = 2
                    THEN [state EXCEPT ![s] = @ - (done + (state0[s] + cost)) * JACKUP] ELSE state
      /\ ends => update
      /\ ~update => goal = 0 \/ ~(state0[s] + cost >= goal - done)
      /\ update /\ ~ends => goal = 0 \/ ~(goal <= done + (state0[s] + cost))
  <2>1. /\ state0' = [state0 EXCEPT ![s] = IF update THEN taken ELSE state0[s] + cost]
        /\ plan' = IF ends THEN Tail(plan) ELSE plan
        /\ done' = IF ends \/ goal = 0 THEN 0
                   ELSE IF update THEN done + (state0[s] + cost) ELSE done
        /\ state' = IF ends /\ cpu_timing = 2
                      THEN [state EXCEPT ![s] = @ - (done + (state0[s] + cost)) * JACKUP] ELSE state
    BY <1>0 DEF Settle, Goal
  <2>2. brk => update
    BY DEF UpdateDue
  <2>3. ends => update
    BY <2>2 DEF EmuEnds
  <2>4. ~update => goal = 0 \/ ~(state0[s] + cost >= goal - done)
    BY DEF UpdateDue, Goal
  <2>5. update /\ ~ends => goal = 0 \/ ~(goal <= done + (state0[s] + cost))
    BY DEF EmuEnds, Goal
  <2> QED BY <2>1, <2>3, <2>4, <2>5
<1> HIDE DEF update, ends
<1>2. plan # <<>> /\ Head(plan).cpu = s /\ UNCHANGED cpu_timing
  BY DEF Step
<1>3. cost \in Nat /\ cost > 0 /\ state0[s] \in Nat /\ done \in Nat /\ state[s] \in Int
      /\ taken \in Nat
  BY <1>1, PioConstants DEF Accounts
<1>4. state0' \in [Sides -> Nat]
  BY <1>1, <1>3 DEF Accounts
<1>5. CASE cpu_timing # 2
  BY <1>1, <1>2, <1>3, <1>4, <1>5 DEF Accounts, Account
<1>6. CASE cpu_timing = 2
  <2>1. /\ plan \in Plans /\ goal = Whole(state[s]) /\ goal \in Nat /\ goal >= 1
        /\ goal * JACKUP <= state[s] /\ done < goal
        /\ \A x \in Sides : state0[x] \in {0} \union IntCosts
                            \/ (x = s /\ done + state0[x] < goal)
    <3>1. plan[1] = Head(plan) /\ plan \in Plans
      BY <1>2, <1>6 DEF Accounts, Plans
    <3>6. goal = Whole(state[s]) /\ state[s] >= JACKUP
      BY <1>2, <1>6, <3>1 DEF Accounts, Plans, Called, Call
    <3>2. /\ goal = Whole(state[s]) /\ goal \in Nat /\ goal >= 1
          /\ goal * JACKUP <= state[s]
      BY <1>3, <3>6, WholeStates
    <3>3. plan[1].cpu = s /\ plan[1].goal = goal
      BY <1>2, <3>1
    <3> HIDE DEF goal
    <3>4. done < goal
      BY <1>2, <1>6, <3>3 DEF Accounts
    <3>5. \A x \in Sides : state0[x] \in {0} \union IntCosts
                           \/ (x = s /\ done + state0[x] < goal)
      BY <1>2, <1>6, <3>3 DEF Accounts
    <3> QED BY <3>1, <3>2, <3>4, <3>5
  <2>2. CASE ~ends
    <3>1. state' = state /\ plan' = plan
      BY <1>1, <2>2
    <3>2. done' \in Nat /\ done' < goal
      BY <1>1, <1>3, <2>1, <2>2 DEF Accounts
    <3>3. state0'[s] \in {0} \union IntCosts \/ done' + state0'[s] < goal
      <4>1. CASE update
        BY <1>1, <4>1 DEF Accounts
      <4>2. CASE ~update
        BY <1>1, <1>3, <2>1, <2>2, <4>2 DEF Accounts
      <4> QED BY <4>1, <4>2
    <3>4. \A x \in Sides : x # s => state0'[x] = state0[x]
      BY <1>1 DEF Accounts
    <3>5. \A x \in Sides : state0'[x] \in {0} \union IntCosts
                           \/ (x = s /\ done' + state0'[x] < goal)
      <4> SUFFICES ASSUME NEW x \in Sides
                   PROVE  state0'[x] \in {0} \union IntCosts
                          \/ (x = s /\ done' + state0'[x] < goal)
        OBVIOUS
      <4> HIDE DEF goal
      <4>1. CASE x = s
        BY <3>3, <4>1
      <4>2. CASE x # s
        BY <2>1, <3>4, <4>2
      <4> QED BY <4>1, <4>2
    <3>6. plan'[1].cpu = s /\ plan'[1].goal = goal
      BY <1>2, <3>1
    <3>7. \A x \in Sides : Account(x)'
      BY <3>1 DEF Accounts, Account, Granted, Least
    <3>8. plan' \in Plans' /\ \A i \in DOMAIN plan' : state'[plan'[i].cpu] >= JACKUP
      BY <1>6, <3>1 DEF Accounts, Plans, Called, Whole
    <3>9. state' \in [Sides -> Int]
      BY <3>1 DEF Accounts
    <3> HIDE DEF goal
    <3> QED BY <1>2, <1>4, <1>6, <3>1, <3>2, <3>5, <3>6, <3>7, <3>8, <3>9 DEF Accounts
  <2>3. CASE ends
    <3>1. /\ state' = [state EXCEPT ![s] = @ - (done + (state0[s] + cost)) * JACKUP]
          /\ plan' = Tail(plan) /\ done' = 0 /\ state0'[s] = taken
      BY <1>1, <1>6, <2>3 DEF Accounts
    <3>2. \A x \in Sides : state0'[x] \in {0} \union IntCosts
      <4>1. \A x \in Sides : x # s => state0'[x] = state0[x]
        BY <1>1 DEF Accounts
      <4> QED BY <2>1, <3>1, <4>1
    <3>3. /\ state'[s] \in Int /\ state'[s] < Granted(s) + JACKUP
          /\ \E i \in {0} \union IntCosts : state'[s] >= Least(cost, i)
      <4> DEFINE used == done + (state0[s] + cost)
      <4>1. state'[s] = state[s] - used * JACKUP
        BY <3>1 DEF Accounts
      <4>2. /\ state[s] < Granted(s) + JACKUP /\ Granted(s) \in Nat
            /\ JACKUP \in Nat /\ used \in Nat
        BY <1>3, PioConstants, GrantedPositive DEF Accounts, Account
      <4>3. used * JACKUP \in Nat
        BY <4>2, TakenOff
      <4>4. state'[s] \in Int /\ state'[s] < Granted(s) + JACKUP
        BY <1>3, <4>1, <4>2, <4>3
      <4>5. PICK i \in {0} \union IntCosts : used + (1 - cost - i) <= goal /\ i \in Nat
        <5> HIDE DEF goal
        <5>1. CASE state0[s] \in {0} \union IntCosts
          BY <1>3, <2>1, <5>1
        <5>2. CASE done + state0[s] < goal
          BY <1>3, <2>1, <5>2
        <5> QED BY <2>1, <5>1, <5>2
      <4>6. state'[s] >= Least(cost, i)
        <5> HIDE DEF goal, used
        <5>1. 1 - cost - i \in Int
          BY <1>3, <4>5
        <5>2. state[s] - used * JACKUP >= (1 - cost - i) * JACKUP
          BY <1>3, <2>1, <4>2, <4>5, <5>1, Owed
        <5> QED BY <4>1, <5>2 DEF Least
      <4> QED BY <4>4, <4>6
    <3>4. \A x \in Sides : Account(x)'
      BY <1>1, <3>1, <3>3 DEF Accounts, Account, Granted, Least
    <3>5. \/ plan' = <<>>
          \/ s = "M" /\ plan' = <<Called("S")>> /\ state["S"] >= JACKUP
      <4>1. CASE plan = <<Called("M")>> \/ plan = <<Called("S")>>
        <5>1. plan \in Seq({Called("M"), Called("S")}) /\ Len(plan) = 1 /\ plan # <<>>
          <6>1. ASSUME NEW S, NEW c \in S PROVE <<c>> \in Seq(S) /\ Len(<<c>>) = 1
            OBVIOUS
          <6>2. CASE plan = <<Called("M")>>
            BY <6>1, <6>2, <1>2
          <6>3. CASE plan = <<Called("S")>>
            BY <6>1, <6>3, <1>2
          <6> QED BY <4>1, <6>2, <6>3
        <5>2. Tail(plan) \in Seq({Called("M"), Called("S")}) /\ Len(Tail(plan)) = 0
          BY <5>1, HeadTailProperties
        <5>3. Tail(plan) = <<>>
          BY <5>2, EmptySeq
        <5> QED BY <3>1, <5>3
      <4>2. CASE plan = <<Called("M"), Called("S")>>
        <5>1. plan' = <<Called("S")>>
          BY <3>1, <4>2
        <5>2. plan[1] = Called("M") /\ plan[2] = Called("S") /\ 2 \in DOMAIN plan
          BY <4>2
        <5>3. s = "M"
          BY <1>2, <4>2, <5>2 DEF Called, Call
        <5>4. state[plan[2].cpu] >= JACKUP
          BY <1>6, <5>2 DEF Accounts
        <5> QED BY <5>1, <5>2, <5>3, <5>4 DEF Called, Call
      <4> QED BY <1>2, <2>1, <4>1, <4>2 DEF Plans
    <3>6. CASE plan' = <<>>
      BY <1>2, <1>4, <1>6, <3>1, <3>2, <3>3, <3>4, <3>6 DEF Accounts, Plans
    <3>7. CASE s = "M" /\ plan' = <<Called("S")>> /\ state["S"] >= JACKUP
      <4>1. "S" \in Sides /\ state'["S"] = state["S"]
        BY <3>1, <3>7 DEF Accounts, Sides
      <4>2. plan' = <<Called("S")'>>
        BY <3>7, <4>1 DEF Called, Whole
      <4>3. /\ plan'[1].cpu = "S" /\ plan'[1].goal = Whole(state'["S"]) /\ plan' # <<>>
            /\ \A i \in DOMAIN plan' : i = 1
        BY <4>2 DEF Called, Call
      <4>4. plan' \in Plans'
        BY <4>2 DEF Plans
      <4>5. state' \in [Sides -> Int]
        BY <3>1, <3>3 DEF Accounts
      <4>6. done' < Whole(state'["S"]) /\ state'["S"] >= JACKUP
        BY <3>1, <3>7, <4>1, <4>5, WholeStates
      <4> QED BY <1>2, <1>4, <1>6, <3>1, <3>2, <3>4, <4>3, <4>4, <4>5, <4>6 DEF Accounts
    <3> QED BY <3>5, <3>6, <3>7
  <2> QED BY <2>2, <2>3
<1> QED BY <1>5, <1>6

LEMMA NextAccounts == ASSUME Accounts, [PioNext]_pioVars PROVE Accounts'
<1>1. CASE Redraw
  BY <1>1 DEF Redraw, Accounts, Account, Plans, Called
<1>2. CASE quasi88_reset
  <2>1. /\ plan' = <<>> /\ done' = done /\ UNCHANGED cpu_timing /\ plan = <<>>
        /\ state' = [s \in Sides |-> 0] /\ state0' = [s \in Sides |-> 0]
    BY <1>2 DEF quasi88_reset, emu_reset
  <2>2. \A s \in Sides : Account(s)'
    <3>1. PICK c \in Costs : TRUE
      BY PioConstants
    <3>2. 0 >= Least(c, 0)
      BY LeastBelow
    <3> QED BY <2>1, <3>2, GrantedPositive, PioConstants DEF Account, Granted, Least
  <2> QED BY <2>1, <2>2 DEF Accounts, Plans
<1>3. CASE UNCHANGED pioVars
  BY <1>3 DEF pioVars, Accounts, Account, Plans, Called
<1> QED BY <1>1, <1>2, <1>3, PassAccounts, StepAccounts DEF PioNext, Thread

\* With -cpu 2 no account ever holds a whole state more than one grant or owes
\* a whole instruction and an interrupt taken, whatever fraction of a state
\* the accounts are kept in and however the calls of z80_emu are broken off.
THEOREM CreditsHold == PioSpec => []CreditsBounded
<1>1. Accounts => CreditsBounded
  <2> SUFFICES ASSUME Accounts, NEW s \in Sides
               PROVE  /\ state[s] < Granted(s) + JACKUP
                      /\ \E c \in Costs, i \in {0} \union IntCosts :
                           state[s] >= (1 - c - i) * JACKUP
    BY DEF CreditsBounded
  <2> QED BY DEF Accounts, Account, Least
<1> QED BY <1>1, InitAccounts, NextAccounts, PTL DEF PioSpec
=============================================================================
