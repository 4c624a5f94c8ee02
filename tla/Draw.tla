------------------------------- MODULE Draw -------------------------------
(***************************************************************************)
(* The drawing thread of the LCD (graph_update_thread, pinned to core 0)   *)
(* and the emulator's thread, which draws menus on the same LCD and reads  *)
(* the SD card on the same bus (graph.cpp, file-op.cpp, event.cpp).        *)
(*                                                                         *)
(* Nothing but three flags keeps them apart: the emulator asks for a       *)
(* picture (needDrawUpdateFlag), waits until no drawing is in progress     *)
(* (nowDrawingFlag) and forbids the next ones (stopDrawingFlag).  Each     *)
(* access to a flag is a step.  The flags are neither volatile nor atomic: *)
(* the calls between the accesses keep the compiler from caching them, but *)
(* the two loads of the test and the two stores after the drawing may come *)
(* in either order, and do here.                                           *)
(*                                                                         *)
(* The emulator's side is a list of steps still to do: what a call of the  *)
(* code does with the flags, the card and the LCD, in its order.           *)
(***************************************************************************)
EXTENDS Sequences

VARIABLES
  needDrawUpdateFlag, nowDrawingFlag, stopDrawingFlag,
  pc,       \* where the drawing thread is
  left,     \* the flags its statement has yet to load or store
  todo,     \* what the emulator's call has left to do
  decided,  \* the drawing under way had found the way free before the stop
  refused,  \* osd_fopen found no free stream, and no restart since
  owed      \* a picture asked for, and no drawing since, see Withdraws

flags    == <<needDrawUpdateFlag, nowDrawingFlag, stopDrawingFlag>>
drawVars == <<flags, pc, left, todo, decided, refused, owed>>

-----------------------------------------------------------------------------
(* The calls of the emulator's thread                                      *)

Steps == {"wait", "stop", "restart", "need", "card", "lcd", "refuse"}
Wait    == <<"wait">>      \* waitDrawing
Stop    == <<"stop">>      \* graph_stopDrawing
Restart == <<"restart">>   \* graph_restartDrawing
Need    == <<"need">>      \* graph_updateDrawFlag, graph_update
Card    == <<"card">>      \* an access to the SD card
Lcd     == <<"lcd">>       \* the menu draws on the LCD itself
Refuse  == <<"refuse">>    \* osd_fopen returns without a free stream

\* Mutant: a call returns early without restarting the drawing.
FileOpBug == Wait \o Stop \o Card

FileOp == Wait \o Stop \o Card \o Restart   \* read, write, seek, close ...
Rewind == Wait \o Stop \o FileOp \o FileOp \o Restart

\* osd_fopen finds a stream, or none.  (It also returns without a restart
\* when it shares a stream, but it looks for one among the free streams,
\* which have no path.)
OsdFopen == {Wait \o Card \o Restart, Wait \o Refuse}

\* osd_file_stat of a name that is taken, and of one that is not, which
\* leaves the drawing stopped.
Taken == Wait \o Stop \o Card \o Restart
Free  == Wait \o Stop \o Card

\* A snapshot asks for a name with each suffix in turn, takes another number
\* when one is taken, and opens the file.
Snapshot == {Free \o Free \o open : open \in OsdFopen} \cup
            {Free \o Taken \o Free \o Free \o open : open \in OsdFopen}

\* A menu, and what it does to the disks while it is on the screen: nothing,
\* ejecting, inserting, inserting in place of another.
MenuFiles == {<<>>, FileOp} \cup OsdFopen \cup {FileOp \o open : open \in OsdFopen}

\* Mutant: the menu closes without restarting the drawing.
MenuBug == {Wait \o Stop \o Lcd \o files \o Lcd \o Need : files \in MenuFiles}

Menu == {Wait \o Stop \o Lcd \o files \o Lcd \o Need \o Restart : files \in MenuFiles}

Calls == {FileOp, Rewind, Need} \cup OsdFopen \cup Snapshot \cup Menu

-----------------------------------------------------------------------------
DrawInit == /\ needDrawUpdateFlag = FALSE
            /\ nowDrawingFlag = FALSE
            /\ stopDrawingFlag = FALSE
            /\ pc = "test" /\ left = {"need", "stop"}
            /\ todo = <<>>
            /\ decided = FALSE /\ refused = FALSE /\ owed = FALSE

-----------------------------------------------------------------------------
(* The emulator's thread                                                   *)

Call == /\ todo = <<>>
        /\ todo' \in Calls
        /\ UNCHANGED <<flags, pc, left, decided, refused, owed>>

AtStep(s) == todo # <<>> /\ <<Head(todo)>> = s
Advance   == todo' = Tail(todo) /\ UNCHANGED <<pc, left>>

\* while (nowDrawingFlag == TRUE) delay(10);
WaitDrawing == /\ AtStep(Wait) /\ ~nowDrawingFlag
               /\ Advance
               /\ UNCHANGED <<flags, decided, refused, owed>>

\* The thread draws, or will whatever becomes of the stop flag.
WillDraw == nowDrawingFlag \/ pc = "mark" \/ (pc = "test" /\ "stop" \notin left)

StopDrawing == /\ AtStep(Stop)
               /\ stopDrawingFlag' = TRUE
               /\ decided' = IF stopDrawingFlag THEN decided ELSE WillDraw
               /\ Advance
               /\ UNCHANGED <<needDrawUpdateFlag, nowDrawingFlag, refused, owed>>

RestartDrawing == /\ AtStep(Restart)
                  /\ stopDrawingFlag' = FALSE
                  /\ refused' = FALSE
                  /\ Advance
                  /\ UNCHANGED <<needDrawUpdateFlag, nowDrawingFlag, decided, owed>>

\* The thread, which has begun to draw, is about to take a request back.
Withdraws == pc = "draw" \/ (pc = "stores" /\ "need" \in left)

RequestDrawing == /\ AtStep(Need)
                  /\ needDrawUpdateFlag' = TRUE
                  /\ owed' = (owed \/ ~Withdraws)
                  /\ Advance
                  /\ UNCHANGED <<nowDrawingFlag, stopDrawingFlag, decided, refused>>

UseCardOrLcd == /\ AtStep(Card) \/ AtStep(Lcd)
                /\ Advance
                /\ UNCHANGED <<flags, decided, refused, owed>>

RefuseOpen == /\ AtStep(Refuse)
              /\ refused' = TRUE
              /\ Advance
              /\ UNCHANGED <<flags, decided, owed>>

Emulator == \/ WaitDrawing \/ StopDrawing \/ RestartDrawing
            \/ RequestDrawing \/ UseCardOrLcd \/ RefuseOpen

-----------------------------------------------------------------------------
(* The drawing thread                                                      *)

\* if (needDrawUpdateFlag == TRUE && stopDrawingFlag == FALSE)
Tested(flag, open) ==
  /\ pc = "test" /\ flag \in left
  /\ IF open THEN left' = left \ {flag} ELSE left' = {}
  /\ pc' = IF ~open THEN "sleep" ELSE IF left = {flag} THEN "mark" ELSE "test"
  /\ UNCHANGED <<flags, todo, decided, refused, owed>>

TestNeed == Tested("need", needDrawUpdateFlag)

\* Mutant: the thread does not look at the stop flag.
TestStopBug == Tested("stop", TRUE)

TestStop == Tested("stop", ~stopDrawingFlag)

Mark == /\ pc = "mark"
        /\ nowDrawingFlag' = TRUE
        /\ pc' = "draw"
        /\ UNCHANGED <<needDrawUpdateFlag, stopDrawingFlag>>
        /\ UNCHANGED <<left, todo, decided, refused, owed>>

DrawPicture == /\ pc = "draw"
               /\ pc' = "stores" /\ left' = {"now", "need"}
               /\ owed' = FALSE
               /\ UNCHANGED <<flags, todo, decided, refused>>

Stored(flag) == /\ pc = "stores" /\ flag \in left
                /\ left' = left \ {flag}
                /\ pc' = IF left = {flag} THEN "sleep" ELSE "stores"
                /\ UNCHANGED <<stopDrawingFlag, todo, refused, owed>>

\* Mutant: the mark is not taken down.
UnmarkBug == Stored("now") /\ UNCHANGED <<needDrawUpdateFlag, nowDrawingFlag, decided>>

Unmark == /\ Stored("now")
          /\ nowDrawingFlag' = FALSE
          /\ decided' = FALSE
          /\ UNCHANGED needDrawUpdateFlag

\* Mutant: the request is not taken back once drawn.
ClearNeedBug == Stored("need") /\ UNCHANGED <<needDrawUpdateFlag, nowDrawingFlag, decided>>

ClearNeed == /\ Stored("need")
             /\ needDrawUpdateFlag' = FALSE
             /\ UNCHANGED <<nowDrawingFlag, decided>>

\* Mutant: the request is taken back after the delay, drawn or not.
WakeBug == /\ pc = "sleep"
           /\ pc' = "test" /\ left' = {"need", "stop"}
           /\ needDrawUpdateFlag' = FALSE
           /\ UNCHANGED <<nowDrawingFlag, stopDrawingFlag, todo, decided, refused, owed>>

\* delay(10)
Wake == /\ pc = "sleep"
        /\ pc' = "test" /\ left' = {"need", "stop"}
        /\ UNCHANGED <<flags, todo, decided, refused, owed>>

Thread == TestNeed \/ TestStop \/ Mark \/ DrawPicture \/ Unmark \/ ClearNeed \/ Wake

DrawNext == Call \/ Emulator \/ Thread

DrawSpec == DrawInit /\ [][DrawNext]_drawVars
\* Two cores: each thread keeps running; no call need ever be made.
FairSpec == DrawSpec /\ WF_drawVars(Emulator) /\ WF_drawVars(Thread)

-----------------------------------------------------------------------------
(* Properties                                                              *)

\* The types; and nowDrawingFlag, which two threads read and whose store
\* may be moved past the next one, is up exactly while the thread draws.
TypeOK == /\ needDrawUpdateFlag \in BOOLEAN /\ stopDrawingFlag \in BOOLEAN
          /\ pc \in {"test", "mark", "draw", "stores", "sleep"}
          /\ left \subseteq IF pc = "stores" THEN {"now", "need"} ELSE {"need", "stop"}
          /\ nowDrawingFlag = (pc = "draw" \/ "now" \in left)
          /\ todo \in Seq(Steps)
          /\ decided \in BOOLEAN /\ refused \in BOOLEAN /\ owed \in BOOLEAN

\* Once the drawing is stopped (graph_stopDrawing) and until it is
\* restarted, the only drawing that can be under way is one the thread had
\* decided on before the stop, having found both flags open; when that one
\* is over no other begins.  The wait before the stop does not exclude it:
\* waitDrawing can pass between the test and the mark.
OnlyDecidedDrawings == stopDrawingFlag /\ nowDrawingFlag => decided

\* Between two calls the drawing is never left stopped, although
\* osd_file_stat returns without restarting it, unless the osd_fopen that
\* followed found no free stream (it returns before its restart).
StopReleased == todo = <<>> /\ stopDrawingFlag => refused

\* waitDrawing returns, even if it starts when a picture is wanted and the
\* thread begins to draw again and again: only the waiting thread asks.
WaitEnds == AtStep(Wait) /\ nowDrawingFlag ~> ~AtStep(Wait)

\* The thread takes back (needDrawUpdateFlag = FALSE) no request but those
\* it has drawn and those made while it was drawing.  These it may lose: the
\* buffer may be read already, and the request is taken back all the same.
RequestKept == owed => needDrawUpdateFlag

\* A picture asked for while none is being drawn is drawn, in a drawing that
\* begins after the request, whatever calls go on meanwhile; unless calls
\* stop the drawing again and again, or an osd_fopen that found no free
\* stream has left it stopped.
RequestServed ==
  (owed ~> ~owed) \/ []<>(stopDrawingFlag /\ (todo # <<>> \/ refused))

=============================================================================
