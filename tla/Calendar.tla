------------------------------ MODULE Calendar ------------------------------
(***************************************************************************)
(* The clock chip (pc88main.c): a register of 52 bits that a program       *)
(* shifts through ports 10H and 40H, and the difference between the time   *)
(* the program has set and the host's.  A moment is a number of seconds,   *)
(* in years of four: two after New Year and two before the next.           *)
(***************************************************************************)
EXTENDS Integers, Sequences

CONSTANTS
  HostStart,     \* the host's time at the beginning
  MaxTicks,      \* seconds that pass
  Dates          \* moments a program sets

ASSUME CalendarAssumption ==
  /\ HostStart \in Nat /\ MaxTicks \in Nat /\ Dates \subseteq (1938 * 4)..(2037 * 4 + 3)

VARIABLES
  rtc,           \* [reg, cdo, diff, cmd, bit, ctrl]
  host,          \* time(NULL)
  job,           \* what the program does: [kind, wide, date]
  done,          \* how many of its accesses are over
  taken,         \* the bits it has read
  told, readAt   \* ghosts: what the chip was last told and when; the last read

calendarVars == <<rtc, host, job, done, taken, told, readAt>>

(***************************************************************************)
(* localtime and mktime.                                                   *)
(***************************************************************************)
Year(t) == t \div 4
NewYear(t) == t % 4 < 2
localtime(t) ==
  [year |-> Year(t), sec |-> IF NewYear(t) THEN t % 4 ELSE 56 + (t % 4),
   min |-> IF NewYear(t) THEN 0 ELSE 59, hour |-> IF NewYear(t) THEN 0 ELSE 23,
   mday |-> IF NewYear(t) THEN 1 ELSE 31, mon |-> IF NewYear(t) THEN 1 ELSE 12,
   wday |-> (Year(t) + (t % 4) \div 2) % 7]
SameDate(a, b) == \A f \in DOMAIN a \ {"wday"} : a[f] = b[f]
mktime(d) == CHOOSE t \in (4 * d.year)..(4 * d.year + 3) : SameDate(localtime(t), d)

(***************************************************************************)
(* The register: 13 digits of four bits, the lowest of the seconds first.  *)
(***************************************************************************)
\* Bit i of a digit, and of a sequence of digits.
Bit4(digit, i) == (digit \div <<1, 2, 4, 8>>[i + 1]) % 2
Serial(digits, i) == Bit4(digits[i \div 4 + 1], i % 4)

\* Seconds, minutes, hours, day; day of the week, month, year.
Digits(d) ==
  <<d.sec % 10, d.sec \div 10, d.min % 10, d.min \div 10, d.hour % 10, d.hour \div 10,
    d.mday % 10, d.mday \div 10, d.wday, d.mon, d.year % 10, (d.year % 100) \div 10>>

Digit(reg, k) ==
  reg[4 * k] + 2 * reg[4 * k + 1] + 4 * reg[4 * k + 2] + 8 * reg[4 * k + 3]
BCD2INT(reg, k) == Digit(reg, k) + 10 * Digit(reg, k + 1)

Top52 == 51
calendar_shift_clock(c, n) ==
  [c EXCEPT !.reg = [i \in 0..Top52 |-> IF i + n <= Top52 THEN c.reg[i + n] ELSE c.bit],
            !.cdo = c.reg[n - 1]]

\* A digit is left in front, for the four bits of a command.
get_calendar_work(c, now) ==
  LET digits == Digits(localtime(now + c.diff))
  IN  [c EXCEPT !.reg = [i \in 0..Top52 |-> IF i < 4 THEN 0 ELSE Serial(digits, i - 4)]]

\* What is in the register, with the year of the clock or its own.
Told(c, withYear, now) ==
  [year |-> IF ~withYear THEN Year(now + c.diff)
            ELSE IF BCD2INT(c.reg, 10) >= 38 THEN 1900 + BCD2INT(c.reg, 10)
            ELSE 2000 + BCD2INT(c.reg, 10),
   mon |-> Digit(c.reg, 9), mday |-> BCD2INT(c.reg, 6), wday |-> Digit(c.reg, 8) % 8,
   hour |-> BCD2INT(c.reg, 4), min |-> BCD2INT(c.reg, 2), sec |-> BCD2INT(c.reg, 0)]

\* Mutant: the difference to the clock as it was.
set_calendar_workRelative(c, withYear, now) ==
  [c EXCEPT !.diff = mktime(Told(c, withYear, now)) - (now + c.diff)]
set_calendar_work(c, withYear, now) ==
  [c EXCEPT !.diff = mktime(Told(c, withYear, now)) - now]

\* Commands; with 7 the command is in the register itself.
calendar_stlobe(c, now) ==
  CASE c.cmd = 1 -> calendar_shift_clock(c, 1)
    [] c.cmd = 2 -> set_calendar_work(calendar_shift_clock(c, 12), FALSE, now)
    [] c.cmd = 3 -> calendar_shift_clock(get_calendar_work(c, now), 4)
    [] c.cmd = 7 /\ Digit(c.reg, 12) = 1 -> calendar_shift_clock(c, 1)
    [] c.cmd = 7 /\ Digit(c.reg, 12) = 2 -> set_calendar_work(c, TRUE, now)
    [] c.cmd = 7 /\ Digit(c.reg, 12) = 3 -> get_calendar_work(c, now)
    [] OTHER -> c

(***************************************************************************)
(* The ports.                                                              *)
(***************************************************************************)

\* OUT 10H.
OutCommon(c, cmd, bit) == [c EXCEPT !.cmd = cmd, !.bit = bit]

\* OUT 40H: the strobe and the clock, each where its line falls.
out_ctrl_signal(c, lines, now) ==
  LET fall == c.ctrl \ lines
      Strobed(r) == IF "stb" \in fall THEN calendar_stlobe(r, now) ELSE r
      Clocked(r) == IF "clk" \in fall THEN calendar_shift_clock(r, 1) ELSE r
  IN  [Clocked(Strobed(c)) EXCEPT !.ctrl = lines]

Pulse(c, line, now) == out_ctrl_signal(out_ctrl_signal(c, {line}, now), {}, now)

\* calendar_init, and ctrl_signal of a reset; port 10H keeps its byte.
calendar_init(c) ==
  [c EXCEPT !.reg = [i \in 0..Top52 |-> 0], !.cdo = 0, !.diff = 0, !.ctrl = {"stb", "clk"}]

(***************************************************************************)
(* The program: it sends bits, strobes commands and takes bits; it sets    *)
(* the date and reads it by either set of commands, the wide one of which  *)
(* has the year.                                                           *)
(***************************************************************************)
Send(b) == [op |-> "send", v |-> b]
Strobe(cmd) == [op |-> "strobe", v |-> cmd]
Take == [op |-> "take", v |-> 0]

\* Bits of a date that a job moves, and its accesses, counted from 0.  A wide
\* command is sent as a digit of its own.
Moves(j) == IF j.wide THEN 48 ELSE 40
LastAccess(j) == CASE j.kind = "set" -> Moves(j) + (IF j.wide THEN 4 ELSE 0)
             [] j.kind = "read" -> Moves(j) + (IF j.wide THEN 9 ELSE 1)
             [] OTHER -> -1
WideCommand(cmd, i) == IF i < 4 THEN Send(Bit4(cmd, i)) ELSE Strobe(7)
AccessAt(j, n) ==
  CASE j.kind = "set" /\ n < Moves(j) -> Send(Serial(Digits(localtime(j.date)), n))
    [] j.kind = "set" /\ n >= Moves(j) -> IF j.wide THEN WideCommand(2, n - 48) ELSE Strobe(2)
    [] j.kind = "read" /\ j.wide /\ n < 10 ->
         IF n < 5 THEN WideCommand(3, n) ELSE WideCommand(1, n - 5)
    [] j.kind = "read" /\ ~j.wide /\ n < 2 -> Strobe(IF n = 0 THEN 3 ELSE 1)
    [] OTHER -> Take
\* The access that copies the time into the register.
Copies(j, n) == j.kind = "read" /\ n = (IF j.wide THEN 4 ELSE 0)

Jobs == [kind : {"set"}, wide : BOOLEAN, date : Dates]
          \cup [kind : {"read"}, wide : BOOLEAN, date : {HostStart}]

Shown(at) == told.date + (at - told.at)
\* The moment a job sets: in the year the chip shows, if it does not say.
Meant == IF job.wide THEN job.date ELSE 4 * Year(Shown(host)) + (job.date % 4)

StartJob ==
  /\ done > LastAccess(job)
  /\ job' \in Jobs /\ done' = 0 /\ taken' = <<>>
  /\ UNCHANGED <<rtc, host, told, readAt>>

Access ==
  /\ done <= LastAccess(job)
  /\ LET a == AccessAt(job, done)
     IN  /\ rtc' = CASE a.op = "send" -> Pulse(OutCommon(rtc, 0, a.v), "clk", host)
                     [] a.op = "strobe" -> Pulse(OutCommon(rtc, a.v, 0), "stb", host)
                     [] a.op = "take" -> Pulse(rtc, "clk", host)
         /\ taken' = IF a.op = "take" THEN Append(taken, rtc.cdo) ELSE taken
  /\ told' = IF job.kind = "set" /\ done = LastAccess(job) THEN [date |-> Meant, at |-> host] ELSE told
  /\ readAt' = IF Copies(job, done) THEN host ELSE readAt
  /\ done' = done + 1
  /\ UNCHANGED <<host, job>>

Tick ==
  /\ host < HostStart + MaxTicks /\ host' = host + 1
  /\ UNCHANGED <<rtc, job, done, taken, told, readAt>>

\* A reset stops the program; the clock shows the host's time again.
CalendarReset ==
  /\ rtc' = calendar_init(rtc)
  /\ job' = [job EXCEPT !.kind = "none"] /\ done' = 0 /\ taken' = <<>>
  /\ told' = [date |-> host, at |-> host]
  /\ UNCHANGED <<host, readAt>>

CalendarInit ==
  /\ host = HostStart
  /\ rtc = calendar_init([reg |-> <<>>, cdo |-> 0, diff |-> 0, cmd |-> 0, bit |-> 0,
                          ctrl |-> {}])
  /\ job = [kind |-> "none", wide |-> FALSE, date |-> HostStart]
  /\ done = 0 /\ taken = <<>>
  /\ told = [date |-> HostStart, at |-> HostStart] /\ readAt = HostStart

(***************************************************************************)
(* What must hold.                                                         *)
(***************************************************************************)

\* A date that was read whole is the one last set, or the host's after a
\* reset, and the seconds that have passed: whichever commands set it, and
\* whenever the host's clock ticks on the way.
DateKept ==
  job.kind = "read" /\ done > LastAccess(job) =>
    LET digits == Digits(localtime(Shown(readAt)))
    IN  taken = [i \in 1..Moves(job) |-> Serial(digits, i - 1)]

=============================================================================
