-------------------------- MODULE MainLoopProofs --------------------------
(***************************************************************************)
(* What holds of the main loop for every clock, boost, sub_load_rate and   *)
(* set of keys.                                                            *)
(*                                                                         *)
(* The invariant Inv splits the state in three: the clock of the main CPU  *)
(* (ClockOK), where the loop's own slack argument lives; the thread and    *)
(* its flags (ThreadOK); and the plain domains of the rest (RestOK).  Each *)
(* action is taken through one lemma per part.                             *)
(***************************************************************************)
EXTENDS MainLoop, TLAPS

\* The timers.  While the display period of a field has not begun, the VSYNC
\* is further away than it by all but Over of the display period itself.
ClockOK ==
  /\ vsyncTimer \in 0 .. VsyncBase /\ ctrlVrtc \in 1 .. 3
  /\ vrtcTimer \in 0 .. VsyncBase /\ boostCnt \in 0 .. Boost - 1
  /\ ctrlVrtc = 1 => vsyncTimer >= vrtcTimer + VrtcBase2 - Over

\* The thread and its flags.
ThreadOK ==
  /\ step \in {"INIT", "MAIN", "WAIT"} /\ stepAfterWait \in {"INIT", "MAIN"}
  /\ mode \in Modes
  /\ flags \in SUBSET Flags
  /\ pc \in {"loop", "emu", "z80", "ran"}
  /\ picture \in {"current", "stale"}
  /\ pc # "loop" => step = "MAIN" /\ mode = "EXEC"
  /\ pc = "loop" => picture = "current"
  /\ EventsConsumed

RestOK ==
  /\ nextMode \in Modes
  /\ cpu \in {"main", "sub"} /\ goal \in {0, 1}
  /\ subTotal \in 0 .. SubLoad * VsyncBase
  /\ key \in Keys \union {NoKey}

Inv == ClockOK /\ ThreadOK /\ RestOK

-----------------------------------------------------------------------------
(* The operators the actions are made of                                   *)

\* A poll restarts the clock or leaves it alone.
LEMMA PollClock ==
  ASSUME ClockOK, NEW m, EventUpdate(m) \/ NoPoll
  PROVE  ClockOK'
BY BasesAssumption DEF ClockOK, EventUpdate, NoPoll, INTInit, clock

\* A poll only adds a request to the flags.
LEMMA PolledFlags ==
  ASSUME NEW m, NEW f, NEW S, f \subseteq S, "MODE_CHANGED" \in S
  PROVE  Polled(m, f) \subseteq S
BY DEF Polled

\* A poll takes the key and asks for a mode, if for any.
LEMMA PollRest ==
  ASSUME nextMode \in Modes, key \in Keys \union {NoKey}, NEW m \in Modes,
         EventUpdate(m) \/ NoPoll
  PROVE  nextMode' \in Modes /\ key' \in Keys \union {NoKey}
BY DEF EventUpdate, NoPoll, Asked, Modes

\* After step MAIN the loop is at one of its steps, without a picture due.
LEMMA AfterMainEffect ==
  ASSUME NEW f, f \subseteq {"FRAME_UPDATE", "MODE_CHANGED"}, AfterMain(f)
  PROVE  /\ step' \in {"INIT", "MAIN", "WAIT"} /\ stepAfterWait' \in {"INIT", "MAIN"}
         /\ flags' \subseteq {"MODE_CHANGED"}
         /\ picture' = picture \/ picture' = "current"
         /\ "FRAME_UPDATE" \in f => picture' = "current"
BY DEF AfterMain

\* After a slice the thread is in z80_emu, and then no event was raised, or
\* back from it.
LEMMA SliceEndsEffect ==
  ASSUME ThreadOK, RestOK, pc = "z80",
         NEW e, e \subseteq {"FRAME_UPDATE", "AUDIO_UPDATE"}, SliceEnds(e)
  PROVE  ThreadOK' /\ goal' \in {0, 1} /\ cpu' = cpu /\ key' = key
                   /\ nextMode' = nextMode
<1>1. goal' \in {0, 1} /\ (e # {} => goal' = 1)
  BY DEF SliceEnds, RestOK
<1>2. pc' \in {"z80", "ran"} /\ (pc' # "ran" => e = {})
  BY <1>1 DEF SliceEnds
<1>3. flags \subseteq {"MODE_CHANGED"}
  BY DEF ThreadOK, EventsConsumed
<1>4. flags' \in SUBSET Flags /\ (pc' # "ran" => flags' \subseteq {"MODE_CHANGED"})
  BY <1>2, <1>3 DEF SliceEnds, Flags
<1> QED
  BY <1>1, <1>2, <1>4 DEF SliceEnds, ThreadOK, EventsConsumed, loop, modes

\* The bound of a slice is at most each timer that still counts.
LEMMA IcountBound ==
  ASSUME ClockOK
  PROVE  /\ Icount \in Nat /\ Icount <= vsyncTimer
         /\ ctrlVrtc < 3 => Icount <= vrtcTimer
BY BasesAssumption DEF ClockOK, Icount

\* The count of fields stays below boost.
LEMMA CountFields == boostCnt \in 0 .. Boost - 1
                       => (boostCnt + 1) % Boost \in 0 .. Boost - 1
BY BasesAssumption

-----------------------------------------------------------------------------
(* The slices                                                              *)

\* A slice of the main CPU keeps the timers within their periods, and the
\* slack between the two.
LEMMA MainSliceClock ==
  ASSUME ClockOK, MainSlice
  PROVE  ClockOK'
<1>1. PICK s \in 1 .. Icount + Over :
        Vsync(s) \/ Display(s) \/ Blank(s) \/ Quiet(s)
  BY DEF MainSlice
<1>2. /\ s \in Nat /\ s <= vsyncTimer + Over
      /\ ctrlVrtc < 3 => s <= vrtcTimer + Over
  BY <1>1, IcountBound, BasesAssumption DEF ClockOK
<1>3. CASE Vsync(s)
  <2>1. /\ vsyncTimer - s < 0 /\ vsyncTimer' = vsyncTimer - s + VsyncBase
        /\ ctrlVrtc' = 1 /\ vrtcTimer' = VrtcBase
        /\ boostCnt' = (boostCnt + 1) % Boost
    BY <1>3 DEF Vsync
  <2>2. boostCnt' \in 0 .. Boost - 1
    BY <2>1, CountFields DEF ClockOK
  <2> QED
    BY <1>2, <2>1, <2>2, BasesAssumption DEF ClockOK
<1>4. CASE Display(s)
  <2>1. /\ vsyncTimer - s >= 0 /\ ctrlVrtc = 1 /\ vrtcTimer - s < 0
        /\ vsyncTimer' = vsyncTimer - s
        /\ ctrlVrtc' = 2 /\ vrtcTimer' = vrtcTimer - s + VrtcBase2
        /\ boostCnt' = boostCnt
    BY <1>4 DEF Display
  <2> QED
    BY <1>2, <2>1, BasesAssumption DEF ClockOK
<1>5. CASE Blank(s)
  BY <1>2, <1>5, BasesAssumption DEF ClockOK, Blank
<1>6. CASE Quiet(s)
  <2>1. /\ vsyncTimer - s >= 0 /\ (ctrlVrtc = 3 \/ vrtcTimer - s >= 0)
        /\ vsyncTimer' = vsyncTimer - s
        /\ vrtcTimer' = IF ctrlVrtc = 3 THEN 0 ELSE vrtcTimer - s
        /\ ctrlVrtc' = ctrlVrtc /\ boostCnt' = boostCnt
    BY <1>6 DEF Quiet
  <2> QED
    BY <1>2, <2>1, BasesAssumption DEF ClockOK
<1> QED
  BY <1>1, <1>3, <1>4, <1>5, <1>6

\* A slice of the main CPU ends as every slice does, with an event or none.
LEMMA MainSliceEnds ==
  ASSUME MainSlice
  PROVE  \E e \in SUBSET {"FRAME_UPDATE", "AUDIO_UPDATE"} : SliceEnds(e)
<1>1. PICK s : Vsync(s) \/ Display(s) \/ Blank(s) \/ Quiet(s)
  BY DEF MainSlice
<1> DEFINE E == {"FRAME_UPDATE", "AUDIO_UPDATE"}
<1>2. CASE Vsync(s)
  <2>1. SliceEnds(IfPicture(boostCnt', "AUDIO_UPDATE"))
    BY <1>2 DEF Vsync
  <2>2. IfPicture(boostCnt', "AUDIO_UPDATE") \in SUBSET E
    BY DEF IfPicture
  <2> QED
    BY <2>1, <2>2
<1>3. CASE Display(s)
  <2>1. SliceEnds(IfPicture(boostCnt, "FRAME_UPDATE"))
    BY <1>3 DEF Display
  <2>2. IfPicture(boostCnt, "FRAME_UPDATE") \in SUBSET E
    BY DEF IfPicture
  <2> QED
    BY <2>1, <2>2
<1>4. CASE Blank(s) \/ Quiet(s)
  <2>1. SliceEnds({})
    BY <1>4 DEF Blank, Quiet
  <2> QED
    BY <2>1
<1> QED
  BY <1>1, <1>2, <1>3, <1>4

\* So does a slice of the sub CPU, whose count starts again when it is up.
LEMMA SubCpuSliceEffect ==
  ASSUME RestOK, SubCpuSlice
  PROVE  /\ \E e \in SUBSET {"FRAME_UPDATE", "AUDIO_UPDATE"} : SliceEnds(e)
         /\ subTotal' \in 0 .. SubLoad * VsyncBase
<1>1. PICK s \in 1 .. SubSlice + Over :
        IF subTotal + s >= SubLoad * VsyncBase
        THEN subTotal' = 0 /\ SliceEnds(SubEvents)
        ELSE subTotal' = subTotal + s /\ SliceEnds({})
  BY DEF SubCpuSlice
<1>2. SubLoad * VsyncBase \in Nat
  BY BasesAssumption
<1>3. CASE subTotal + s >= SubLoad * VsyncBase
  BY <1>1, <1>2, <1>3 DEF SubEvents
<1>4. CASE ~(subTotal + s >= SubLoad * VsyncBase)
  <2>1. subTotal' = subTotal + s /\ SliceEnds({})
    BY <1>1, <1>4
  <2>2. subTotal \in Nat /\ s \in Nat
    BY <1>1, <1>2, BasesAssumption DEF RestOK
  <2>3. subTotal' \in 0 .. SubLoad * VsyncBase
    BY <1>2, <1>4, <2>1, <2>2
  <2> QED
    BY <2>1, <2>3
<1> QED
  BY <1>3, <1>4

-----------------------------------------------------------------------------
(* The other steps of the thread                                           *)

\* The return to emu_main leaves it for a picture, or goes on without events.
LEMMA RanStep ==
  ASSUME ThreadOK, Ran
  PROVE  ThreadOK'
<1> DEFINE f == IF "AUDIO_UPDATE" \in flags
                THEN Polled(mode, flags \ {"AUDIO_UPDATE"}) ELSE flags
<1>1. flags \subseteq Flags /\ mode \in Modes /\ mode' = mode
      /\ step = "MAIN" /\ mode = "EXEC" /\ stepAfterWait \in {"INIT", "MAIN"}
      /\ picture \in {"current", "stale"}
  BY DEF ThreadOK, Ran
<1>2. f \subseteq {"FRAME_UPDATE", "MODE_CHANGED"}
  <2>1. flags \ {"AUDIO_UPDATE"} \subseteq {"FRAME_UPDATE", "MODE_CHANGED"}
    BY <1>1 DEF Flags
  <2>2. Polled(mode, flags \ {"AUDIO_UPDATE"}) \subseteq {"FRAME_UPDATE", "MODE_CHANGED"}
    BY <2>1, PolledFlags
  <2> QED
    BY <2>1, <2>2
<1>3. IF "FRAME_UPDATE" \in f
      THEN pc' = "loop" /\ AfterMain(f)
      ELSE pc' = "emu" /\ flags' = f /\ UNCHANGED <<loop, picture>>
  BY DEF Ran
<1> HIDE DEF f
<1>4. CASE "FRAME_UPDATE" \in f
  BY <1>1, <1>2, <1>3, <1>4, AfterMainEffect DEF ThreadOK, EventsConsumed, Flags
<1>5. CASE "FRAME_UPDATE" \notin f
  <2>1. flags' = f
    BY <1>3, <1>5
  <2>2. f \subseteq {"MODE_CHANGED"}
    BY <1>2, <1>5
  <2>3. flags' \subseteq {"MODE_CHANGED"}
    BY <2>1, <2>2
  <2> QED
    BY <1>1, <1>3, <1>5, <2>3 DEF ThreadOK, EventsConsumed, Flags, loop
<1> QED
  BY <1>4, <1>5

\* The steps of quasi88_loop between which the thread is in no CPU.
LEMMA LoopStep ==
  ASSUME ThreadOK, RestOK, LoopInit \/ PauseMain \/ MenuMain \/ Wait
  PROVE  ThreadOK'
<1>1. /\ flags \subseteq {"FRAME_UPDATE", "AUDIO_UPDATE", "MODE_CHANGED"}
      /\ pc # "ran" => flags \subseteq {"MODE_CHANGED"}
  BY DEF ThreadOK, EventsConsumed, Flags
<1>2. CASE LoopInit
  <2>1. pc = "loop" /\ pc' = "loop" /\ picture' = picture
    BY <1>2 DEF LoopInit, ThreadOK
  <2>2. mode' \in Modes
    BY <1>2 DEF LoopInit, RestOK
  <2>3. flags' \subseteq {"MODE_CHANGED"}
    <3>1. flags \ {"MODE_CHANGED"} \subseteq {"MODE_CHANGED"}
      BY <1>1, <2>1
    <3>2. Polled(mode', flags \ {"MODE_CHANGED"}) \subseteq {"MODE_CHANGED"}
      BY <3>1, PolledFlags
    <3> QED
      BY <1>2, <3>1, <3>2 DEF LoopInit
  <2>4. step' = "MAIN" /\ stepAfterWait' = stepAfterWait
    BY <1>2 DEF LoopInit
  <2> QED
    BY <2>1, <2>2, <2>3, <2>4 DEF ThreadOK, EventsConsumed, Flags
<1>3. CASE PauseMain
  <2>1. pc = "loop" /\ pc' = "loop" /\ mode' = mode
    BY <1>3 DEF PauseMain, ThreadOK
  <2> DEFINE f == Polled(mode, flags)
             g == IF "MODE_CHANGED" \in f THEN f ELSE f \union {"FRAME_UPDATE"}
  <2>2. f \subseteq {"MODE_CHANGED"}
    BY <1>1, <2>1, PolledFlags
  <2>3. g \subseteq {"FRAME_UPDATE", "MODE_CHANGED"}
    BY <2>2
  <2>4. AfterMain(g)
    BY <1>3 DEF PauseMain
  <2> HIDE DEF g
  <2> QED
    BY <2>1, <2>3, <2>4, AfterMainEffect DEF ThreadOK, EventsConsumed, Flags
<1>4. CASE MenuMain
  <2>1. pc = "loop" /\ pc' = "loop" /\ mode' = mode /\ AfterMain(flags)
    BY <1>4 DEF MenuMain, ThreadOK
  <2>2. flags \subseteq {"FRAME_UPDATE", "MODE_CHANGED"}
    BY <1>1, <2>1
  <2> QED
    BY <2>1, <2>2, AfterMainEffect DEF ThreadOK, EventsConsumed, Flags
<1>5. CASE Wait
  BY <1>5 DEF Wait, ThreadOK, EventsConsumed, modes
<1> QED
  BY <1>2, <1>3, <1>4, <1>5

-----------------------------------------------------------------------------

LEMMA InvInit == Init => Inv
<1> SUFFICES ASSUME Init PROVE Inv
  OBVIOUS
<1>1. ClockOK
  BY BasesAssumption DEF Init, ClockOK
<1>2. ThreadOK
  BY DEF Init, ThreadOK, EventsConsumed, Modes, Flags
<1>3. SubLoad * VsyncBase \in Nat
  BY BasesAssumption
<1>4. RestOK
  BY <1>3 DEF Init, RestOK, Modes
<1> QED
  BY <1>1, <1>2, <1>4 DEF Inv

LEMMA InvStep == Inv /\ [Next]_vars => Inv'
<1> SUFFICES ASSUME Inv, [Next]_vars PROVE Inv'
  OBVIOUS
<1> USE DEF Inv
<1>1. CASE Press
  <2>1. ClockOK' /\ ThreadOK'
    BY <1>1 DEF Press, ClockOK, ThreadOK, EventsConsumed, clock, loop, modes
  <2> QED
    BY <1>1, <2>1 DEF Press, RestOK, modes, z80
<1>2. CASE LoopInit \/ PauseMain \/ MenuMain \/ Wait
  <2>1. ThreadOK'
    BY <1>2, LoopStep
  <2>2. CASE LoopInit \/ PauseMain \/ MenuMain
    <3>1. \E m \in Modes : EventUpdate(m) \/ NoPoll
      <4>1. mode \in Modes /\ nextMode \in Modes
        BY DEF ThreadOK, RestOK
      <4> QED
        BY <2>2, <4>1 DEF LoopInit, PauseMain, MenuMain
    <3>2. ClockOK'
      BY <3>1, PollClock
    <3>3. nextMode' \in Modes /\ key' \in Keys \union {NoKey}
      BY <3>1, PollRest DEF RestOK
    <3>4. z80' = z80 /\ subTotal' = subTotal
      BY <2>2 DEF LoopInit, PauseMain, MenuMain
    <3> QED
      BY <2>1, <3>2, <3>3, <3>4 DEF RestOK, z80
  <2>3. CASE Wait
    <3>1. ClockOK' /\ RestOK'
      BY <2>3 DEF Wait, ClockOK, RestOK, clock, z80, modes
    <3> QED
      BY <2>1, <3>1
  <2> QED
    BY <1>2, <2>2, <2>3
<1>3. CASE EmuMain \/ Z80Emu
  <2>1. ClockOK' /\ RestOK'
    BY <1>3 DEF EmuMain, Z80Emu, ClockOK, RestOK, clock, z80, modes
  <2>2. ThreadOK'
    BY <1>3 DEF EmuMain, Z80Emu, ThreadOK, EventsConsumed, loop, modes
  <2> QED
    BY <2>1, <2>2
<1>4. CASE MainSlice
  <2>1. ClockOK'
    BY <1>4, MainSliceClock
  <2>2. PICK e \in SUBSET {"FRAME_UPDATE", "AUDIO_UPDATE"} : SliceEnds(e)
    BY <1>4, MainSliceEnds
  <2>3. pc = "z80" /\ subTotal' = subTotal
    BY <1>4 DEF MainSlice
  <2>4. ThreadOK' /\ goal' \in {0, 1} /\ cpu' = cpu /\ key' = key
                  /\ nextMode' = nextMode
    BY <2>2, <2>3, SliceEndsEffect
  <2> QED
    BY <2>1, <2>3, <2>4 DEF RestOK
<1>5. CASE SubCpuSlice
  <2>1. PICK e \in SUBSET {"FRAME_UPDATE", "AUDIO_UPDATE"} : SliceEnds(e)
    BY <1>5, SubCpuSliceEffect
  <2>2. pc = "z80" /\ clock' = clock /\ subTotal' \in 0 .. SubLoad * VsyncBase
    BY <1>5, SubCpuSliceEffect DEF SubCpuSlice
  <2>3. ThreadOK' /\ goal' \in {0, 1} /\ cpu' = cpu /\ key' = key
                  /\ nextMode' = nextMode
    BY <2>1, <2>2, SliceEndsEffect
  <2>4. ClockOK'
    BY <2>2 DEF ClockOK, clock
  <2> QED
    BY <2>2, <2>3, <2>4 DEF RestOK
<1>6. CASE Ran
  <2>1. ThreadOK'
    BY <1>6, RanStep
  <2>2. \E m \in Modes : EventUpdate(m) \/ NoPoll
    BY <1>6 DEF Ran, ThreadOK
  <2>3. ClockOK'
    BY <2>2, PollClock
  <2>4. nextMode' \in Modes /\ key' \in Keys \union {NoKey}
    BY <2>2, PollRest DEF RestOK
  <2> QED
    BY <1>6, <2>1, <2>3, <2>4 DEF Ran, RestOK, z80
<1>7. CASE UNCHANGED vars
  BY <1>7 DEF vars, loop, modes, z80, clock, ClockOK, ThreadOK, RestOK,
              EventsConsumed
<1> QED
  BY <1>1, <1>2, <1>3, <1>4, <1>5, <1>6, <1>7 DEF Next, Run

THEOREM Invariance == Spec => []Inv
<1> QED
  BY InvInit, InvStep, PTL DEF Spec

\* Type correctness of the main loop.
THEOREM TypeCorrect == Spec => []TypeOK
<1>1. Inv => TypeOK
  BY DEF Inv, ClockOK, ThreadOK, RestOK, TypeOK
<1> QED
  BY Invariance, <1>1, PTL

\* The events of a slice are dealt with before anything else runs.
THEOREM EventsAreConsumed == Spec => []EventsConsumed
<1>1. Inv => EventsConsumed
  BY DEF Inv, ThreadOK
<1> QED
  BY Invariance, <1>1, PTL

\* A mode change waits until the last emulated state is drawn.
THEOREM PictureIsCurrent == Spec => []PictureCurrent
<1>1. Inv => PictureCurrent
  BY DEF Inv, ThreadOK, PictureCurrent
<1> QED
  BY Invariance, <1>1, PTL

\* No VSYNC comes before the display period of the field before it.
THEOREM FieldsInOrder == Spec => FieldOrder
<1> DEFINE Order == pc = "z80" /\ vsyncTimer' > vsyncTimer => ctrlVrtc # 1
<1>1. Inv /\ [Next]_vars => Order
  <2> SUFFICES ASSUME Inv, [Next]_vars, pc = "z80", vsyncTimer' > vsyncTimer,
                      ctrlVrtc = 1
               PROVE  FALSE
    OBVIOUS
  <2>1. clock' # clock
    BY DEF clock, Inv, ClockOK
  <2>2. step = "MAIN" /\ mode = "EXEC"
    BY DEF Inv, ThreadOK
  <2>3. MainSlice
    BY <2>1, <2>2 DEF Next, Run, Press, LoopInit, PauseMain, MenuMain, Wait, EmuMain,
                      Z80Emu, SubCpuSlice, Ran, vars
  <2>4. PICK s \in 1 .. Icount + Over :
          Vsync(s) \/ Display(s) \/ Blank(s) \/ Quiet(s)
    BY <2>3 DEF MainSlice
  <2>5. s \in Nat /\ s > 0 /\ s <= vrtcTimer + Over
    BY <2>4, IcountBound, BasesAssumption DEF Inv, ClockOK
  <2>6. vsyncTimer \in Nat /\ vsyncTimer' # vsyncTimer - s
    BY <2>5 DEF Inv, ClockOK
  <2>7. vsyncTimer - s < 0
    BY <2>4, <2>6 DEF Vsync, Display, Blank, Quiet
  <2> QED
    BY <2>5, <2>7, BasesAssumption DEF Inv, ClockOK
<1> QED
  BY Invariance, <1>1, PTL DEF Spec, FieldOrder

=============================================================================
