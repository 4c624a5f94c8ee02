---------------------------- MODULE DeviceProofs ----------------------------
(***************************************************************************)
(* Proofs about the M5Stack's two ends: Inputs (with Keyboard and Romaji), *)
(* of which no key stays down, and Draw, whose drawing is never left       *)
(* stopped.                                                                *)
(*                                                                         *)
(* The functions of the keyboard take a record and give one back, so each  *)
(* has a lemma that says of the keys of X what it leaves of Good(k, X):    *)
(* nothing is down but X, the locks and what romaji_output presses.  The   *)
(* ring is why the lemmas carry a number n, the keys it has room for: a    *)
(* key that is overtaken while it is down is never let go.  A letter takes *)
(* room for six (CollectIs), a look at the sources brings three letters at *)
(* most (LookKeys), and Room is what the theorem asks of who types.        *)
(*                                                                         *)
(* The calls of Draw are lists put together with \o, so the lemmas of its  *)
(* part say first of what a call is made and how it ends: every call ends  *)
(* by restarting the drawing or by being refused a stream, but the one     *)
(* that only asks for a picture.  Closing carries that fact along while    *)
(* the call's list shrinks; Guarded is the inductive form of               *)
(* OnlyDecidedDrawings: it speaks of the drawing the thread is bound to    *)
(* begin as well as of the one under way.                                  *)
(***************************************************************************)
EXTENDS Inputs, Draw, TLAPS

-----------------------------------------------------------------------------
(* What the lemmas say                                                     *)

Places == 0..(ROMAJI_QUE_SIZE - 1)

\* The fields of the record.
IsKb(k) ==
  k = [down |-> k.down, mode |-> k.mode, next_mode |-> k.next_mode, key_func |-> k.key_func,
       romaji_input_mode |-> k.romaji_input_mode, frameskip_rate |-> k.frameskip_rate,
       wait_rate |-> k.wait_rate, no_wait |-> k.no_wait, romaji_type |-> k.romaji_type,
       input_buf |-> k.input_buf, romaji_set |-> k.romaji_set, romaji_ptr |-> k.romaji_ptr,
       romaji_que |-> k.romaji_que, press_timer |-> k.press_timer, typed |-> k.typed,
       said |-> k.said]

\* Of the ring; there is room for n keys.
Ring(k, n) ==
  /\ k.romaji_set \in Places /\ k.romaji_ptr \in Places /\ DOMAIN k.romaji_que = Places
  /\ k.press_timer \in 0..8 /\ (KeyDown(k) => k.romaji_ptr # k.romaji_set)
  /\ Waiting(k) + n < ROMAJI_QUE_SIZE

\* What romaji_output has pressed.
Rom(k) == IF KeyDown(k) THEN WithShift(k.romaji_que[k.romaji_ptr]) ELSE {}
\* What no key changes.
Kept(k, r) ==
  IsKb(r) /\ r.mode = k.mode /\ r.key_func = k.key_func /\ r.romaji_type = k.romaji_type
\* No key is down but those of X, the locks and romaji_output's.
Good(k, X) == k.down \subseteq X \cup Locks \cup Rom(k)

-----------------------------------------------------------------------------
(* The ring                                                                *)

LEMMA SizeIs == ROMAJI_QUE_SIZE \in Nat /\ ROMAJI_QUE_SIZE > 0
BY RomajiAssumption

LEMMA Wraps ==
  ASSUME NEW s \in Nat, s > 0, NEW x \in (-s)..(2 * s - 1)
  PROVE  x % s = IF x < 0 THEN x + s ELSE IF x < s THEN x ELSE x - s
OBVIOUS

LEMMA Wrap ==
  ASSUME NEW x \in Int, -ROMAJI_QUE_SIZE <= x, x < 2 * ROMAJI_QUE_SIZE
  PROVE  x % ROMAJI_QUE_SIZE = IF x < 0 THEN x + ROMAJI_QUE_SIZE
                               ELSE IF x < ROMAJI_QUE_SIZE THEN x ELSE x - ROMAJI_QUE_SIZE
<1> DEFINE s == ROMAJI_QUE_SIZE
<1>1. s \in Nat /\ s > 0 /\ x \in (-s)..(2 * s - 1)
  BY SizeIs
<1> HIDE DEF s
<1>2. x % s = IF x < 0 THEN x + s ELSE IF x < s THEN x ELSE x - s
  BY <1>1, Wraps
<1> QED BY <1>2 DEF s

LEMMA WaitingIs ==
  ASSUME NEW k, k.romaji_set \in Places, k.romaji_ptr \in Places
  PROVE  /\ Waiting(k) = IF k.romaji_ptr <= k.romaji_set THEN k.romaji_set - k.romaji_ptr
                         ELSE (k.romaji_set - k.romaji_ptr) + ROMAJI_QUE_SIZE
         /\ Waiting(k) \in Places
<1> DEFINE x == k.romaji_set - k.romaji_ptr
<1>1. x \in Int /\ x < ROMAJI_QUE_SIZE /\ -ROMAJI_QUE_SIZE <= x /\ x < 2 * ROMAJI_QUE_SIZE
      /\ x > -ROMAJI_QUE_SIZE
  BY SizeIs DEF Places
<1>2. Waiting(k) = x % ROMAJI_QUE_SIZE
  BY DEF Waiting
<1> HIDE DEF x
<1>3. Waiting(k) = IF x < 0 THEN x + ROMAJI_QUE_SIZE
                   ELSE IF x < ROMAJI_QUE_SIZE THEN x ELSE x - ROMAJI_QUE_SIZE
  BY <1>1, <1>2, Wrap
<1> QED BY <1>1, <1>3, SizeIs DEF Places, x

\* Of two places neither is a whole turn from the other.
LEMMA Behind ==
  ASSUME NEW p \in Places, NEW m \in Nat, m < ROMAJI_QUE_SIZE
  PROVE  (p + m) % ROMAJI_QUE_SIZE = (IF p + m < ROMAJI_QUE_SIZE THEN p + m
                                      ELSE (p + m) - ROMAJI_QUE_SIZE)
         /\ (p + m) % ROMAJI_QUE_SIZE \in Places
<1> DEFINE x == p + m
<1>1. x \in Int /\ x >= 0 /\ -ROMAJI_QUE_SIZE <= x /\ x < 2 * ROMAJI_QUE_SIZE
  BY SizeIs DEF Places
<1> HIDE DEF x
<1>2. x % ROMAJI_QUE_SIZE = IF x < ROMAJI_QUE_SIZE THEN x ELSE x - ROMAJI_QUE_SIZE
  BY <1>1, Wrap, SizeIs
<1> QED BY <1>1, <1>2, SizeIs DEF Places, x

LEMMA Turn ==
  ASSUME NEW s \in Nat, NEW a \in 0..(s - 1), NEW p \in 0..(s - 1), NEW m \in Nat, NEW n \in Nat,
         NEW w, w = (IF p <= a THEN a - p ELSE (a - p) + s), (w + n) + m < s
  PROVE  /\ \A j \in Nat : j < m /\ a # p =>
              (IF a + j < s THEN a + j ELSE (a + j) - s) # p
         /\ \A b : b = (IF a + m < s THEN a + m ELSE (a + m) - s) =>
              /\ (IF p <= b THEN b - p ELSE (b - p) + s) = w + m
              /\ a # p => b # p
  OBVIOUS

\* Keys are queued behind those that wait, of which the first stays.
LEMMA QueIs ==
  ASSUME NEW k, IsKb(k), NEW keys, Len(keys) \in Nat, DOMAIN keys = 1..Len(keys), NEW n \in Nat,
         Ring(k, n + Len(keys))
  PROVE  LET r == set_romaji_que(k, keys)
         IN  /\ Ring(r, n) /\ Rom(r) = Rom(k) /\ Kept(k, r) /\ r.down = k.down
             /\ r.next_mode = k.next_mode /\ r.romaji_input_mode = k.romaji_input_mode
             /\ r.input_buf = k.input_buf
<1> DEFINE m == Len(keys)  r == set_romaji_que(k, keys)
           at(i) == (k.romaji_set + i - 1) % ROMAJI_QUE_SIZE
           que == [p \in DOMAIN k.romaji_que |->
                   IF \E i \in DOMAIN keys : at(i) = p
                   THEN keys[CHOOSE i \in DOMAIN keys : at(i) = p] ELSE k.romaji_que[p]]
<1>1. r = [k EXCEPT !.romaji_set = (k.romaji_set + m) % ROMAJI_QUE_SIZE, !.romaji_que = que]
  BY DEF set_romaji_que
<1> HIDE DEF m
<1>2. k.romaji_set \in Places /\ k.romaji_ptr \in Places /\ DOMAIN k.romaji_que = Places
      /\ k.press_timer \in 0..8 /\ m \in Nat
  BY DEF Ring, m
<1>3. Waiting(k) \in Nat /\ Waiting(k) + n + m < ROMAJI_QUE_SIZE /\ m < ROMAJI_QUE_SIZE
      /\ Waiting(k) = IF k.romaji_ptr <= k.romaji_set THEN k.romaji_set - k.romaji_ptr
                      ELSE (k.romaji_set - k.romaji_ptr) + ROMAJI_QUE_SIZE
  <2>1. Waiting(k) \in Nat
        /\ Waiting(k) = IF k.romaji_ptr <= k.romaji_set THEN k.romaji_set - k.romaji_ptr
                        ELSE (k.romaji_set - k.romaji_ptr) + ROMAJI_QUE_SIZE
    BY <1>2, WaitingIs DEF Places
  <2>2. Waiting(k) + (n + m) < ROMAJI_QUE_SIZE
    BY DEF Ring, m
  <2> QED BY <1>2, <2>1, <2>2, SizeIs
<1>t. /\ \A j \in Nat : j < m /\ k.romaji_set # k.romaji_ptr =>
              (IF k.romaji_set + j < ROMAJI_QUE_SIZE THEN k.romaji_set + j
               ELSE (k.romaji_set + j) - ROMAJI_QUE_SIZE) # k.romaji_ptr
      /\ \A b : b = (IF k.romaji_set + m < ROMAJI_QUE_SIZE THEN k.romaji_set + m
                     ELSE (k.romaji_set + m) - ROMAJI_QUE_SIZE) =>
              /\ (IF k.romaji_ptr <= b THEN b - k.romaji_ptr
                  ELSE (b - k.romaji_ptr) + ROMAJI_QUE_SIZE) = Waiting(k) + m
              /\ k.romaji_set # k.romaji_ptr => b # k.romaji_ptr
  <2> DEFINE s == ROMAJI_QUE_SIZE  a == k.romaji_set  p == k.romaji_ptr  w == Waiting(k)
  <2>1. /\ s \in Nat /\ a \in 0..(s - 1) /\ p \in 0..(s - 1) /\ m \in Nat
        /\ w = (IF p <= a THEN a - p ELSE (a - p) + s) /\ (w + n) + m < s
    BY <1>2, <1>3, SizeIs DEF Places
  <2> HIDE DEF s, a, p, w
  <2>2. /\ \A j \in Nat : j < m /\ a # p => (IF a + j < s THEN a + j ELSE (a + j) - s) # p
        /\ \A b : b = (IF a + m < s THEN a + m ELSE (a + m) - s) =>
              /\ (IF p <= b THEN b - p ELSE (b - p) + s) = w + m
              /\ a # p => b # p
    BY <2>1, Turn
  <2> QED BY <2>2 DEF s, a, p, w
<1>4. ASSUME k.romaji_ptr # k.romaji_set PROVE que[k.romaji_ptr] = k.romaji_que[k.romaji_ptr]
  <2>1. ASSUME NEW i \in 1..m PROVE at(i) # k.romaji_ptr
    <3> DEFINE j == i - 1
    <3>1. j \in Nat /\ j < m /\ j < ROMAJI_QUE_SIZE /\ at(i) = (k.romaji_set + j) % ROMAJI_QUE_SIZE
      <4>1. k.romaji_set + i - 1 = k.romaji_set + j
        BY <1>2 DEF Places
      <4> QED BY <1>2, <1>3, <4>1, SizeIs
    <3> HIDE DEF j, at
    <3>2. at(i) = IF k.romaji_set + j < ROMAJI_QUE_SIZE THEN k.romaji_set + j
                  ELSE (k.romaji_set + j) - ROMAJI_QUE_SIZE
      BY <1>2, <3>1, Behind
    <3> QED BY <1>t, <1>4, <3>1, <3>2
  <2>2. k.romaji_ptr \in DOMAIN k.romaji_que /\ ~(\E i \in DOMAIN keys : at(i) = k.romaji_ptr)
    BY <1>2, <2>1 DEF m
  <2> HIDE DEF at
  <2> QED BY <2>2
<1>5. DOMAIN que = Places
  BY <1>2
<1> HIDE DEF que, r
<1>6. /\ r.romaji_set = (k.romaji_set + m) % ROMAJI_QUE_SIZE /\ r.romaji_que = que
      /\ IsKb(r) /\ r.mode = k.mode /\ r.key_func = k.key_func /\ r.romaji_type = k.romaji_type
      /\ r.down = k.down /\ r.next_mode = k.next_mode /\ r.press_timer = k.press_timer
      /\ r.romaji_input_mode = k.romaji_input_mode /\ r.romaji_ptr = k.romaji_ptr
      /\ r.input_buf = k.input_buf
  BY <1>1 DEF IsKb
<1>7. /\ r.romaji_set \in Places
      /\ r.romaji_set = IF k.romaji_set + m < ROMAJI_QUE_SIZE THEN k.romaji_set + m
                        ELSE (k.romaji_set + m) - ROMAJI_QUE_SIZE
  BY <1>2, <1>3, <1>6, Behind
<1>8. Waiting(r) = Waiting(k) + m
  <2>1. Waiting(r) = IF k.romaji_ptr <= r.romaji_set THEN r.romaji_set - k.romaji_ptr
                     ELSE (r.romaji_set - k.romaji_ptr) + ROMAJI_QUE_SIZE
    BY <1>2, <1>6, <1>7, WaitingIs
  <2> QED BY <1>t, <1>7, <2>1
<1>9. KeyDown(r) <=> KeyDown(k)
  BY <1>6 DEF KeyDown
<1>10. ASSUME KeyDown(k) PROVE k.romaji_ptr # k.romaji_set /\ r.romaji_ptr # r.romaji_set
  <2>1. k.romaji_ptr # k.romaji_set
    BY <1>10 DEF Ring
  <2> QED BY <1>t, <1>6, <1>7, <2>1
<1>11. Rom(r) = Rom(k)
  BY <1>4, <1>6, <1>9, <1>10 DEF Rom
<1>12. Waiting(r) + n < ROMAJI_QUE_SIZE
  BY <1>2, <1>3, <1>8, SizeIs
<1>13. Ring(r, n)
  BY <1>2, <1>5, <1>6, <1>7, <1>9, <1>10, <1>12 DEF Ring
<1> QED BY <1>6, <1>9, <1>11, <1>13 DEF Kept, r
-----------------------------------------------------------------------------
(* One key of the ring after another                                       *)

\* What the ring has to do with the rest.
Wired(k, n) ==
  /\ IsKb(k) /\ Ring(k, n) /\ k.romaji_type \in DOMAIN list /\ k.key_func \in Functions
  /\ k.mode # "EXEC" => k.next_mode = k.mode
\* Nothing but the keys that are down, and the letters and the ring.
Same(k, r) == Kept(k, r) /\ r.next_mode = k.next_mode /\ r.romaji_input_mode = k.romaji_input_mode

LEMMA OutputIs ==
  ASSUME NEW k, IsKb(k), NEW n \in Nat, Ring(k, n)
  PROVE  LET r == romaji_output(k)
         IN  /\ Ring(r, n) /\ IsKb(r)
             /\ r.mode = k.mode /\ r.key_func = k.key_func /\ r.romaji_type = k.romaji_type
             /\ r.next_mode = k.next_mode /\ r.romaji_input_mode = k.romaji_input_mode
             /\ \A X : Good(k, X) => Good(r, X)
<1> DEFINE r == romaji_output(k)
<1>0. /\ k.romaji_set \in Places /\ k.romaji_ptr \in Places /\ DOMAIN k.romaji_que = Places
      /\ k.press_timer \in 0..8 /\ Waiting(k) \in Nat /\ Waiting(k) + n < ROMAJI_QUE_SIZE
  BY WaitingIs DEF Ring, Places
<1>1. CASE k.press_timer = 0 /\ k.romaji_ptr = k.romaji_set
  <2>1. r = k
    BY <1>1 DEF romaji_output, KEY_ON_OFF_INTERVAL
  <2> QED BY <2>1
<1>2. CASE k.press_timer = 0 /\ k.romaji_ptr # k.romaji_set
  <2> DEFINE c == k.romaji_que[k.romaji_ptr]
             s == Append(k.said, [key |-> c.key, shift |-> "SHIFT" \in k.down \cup WithShift(c)])
  <2>1. r = PressFirst(k)
    BY <1>2 DEF romaji_output, KEY_ON_OFF_INTERVAL
  <2>2. PressFirst(k) = [k EXCEPT !.down = k.down \cup WithShift(c), !.press_timer = 1, !.said = s]
    BY DEF PressFirst
  <2> HIDE DEF s, r
  <2>3. /\ IsKb(r) /\ r.down = k.down \cup WithShift(c) /\ r.press_timer = 1
        /\ r.romaji_que = k.romaji_que /\ r.romaji_ptr = k.romaji_ptr
        /\ r.romaji_set = k.romaji_set /\ r.mode = k.mode /\ r.key_func = k.key_func
        /\ r.romaji_type = k.romaji_type /\ r.next_mode = k.next_mode
        /\ r.romaji_input_mode = k.romaji_input_mode
    BY <2>1, <2>2 DEF IsKb
  <2>4. Rom(r) = WithShift(c) /\ Rom(k) = {}
    BY <1>2, <2>3 DEF Rom, KeyDown, KEY_ON_OFF_INTERVAL
  <2>5. Waiting(r) = Waiting(k)
    BY <2>3 DEF Waiting
  <2>6. Ring(r, n)
    BY <1>0, <1>2, <2>3, <2>5 DEF Ring
  <2> QED BY <2>3, <2>4, <2>6 DEF Good, r
<1>3. CASE k.press_timer = 4
  <2> DEFINE c == k.romaji_que[k.romaji_ptr]
  <2>1. r = ReleaseFirst(k)
    BY <1>3 DEF romaji_output, KEY_ON_OFF_INTERVAL
  <2>2. ReleaseFirst(k) = [k EXCEPT !.down = k.down \ WithShift(c),
                                    !.romaji_ptr = Next1(k.romaji_ptr), !.press_timer = 5]
    BY DEF ReleaseFirst, KEY_ON_OFF_INTERVAL
  <2> HIDE DEF r
  <2>3. /\ IsKb(r) /\ r.down = k.down \ WithShift(c) /\ r.press_timer = 5
        /\ r.romaji_que = k.romaji_que /\ r.romaji_ptr = Next1(k.romaji_ptr)
        /\ r.romaji_set = k.romaji_set /\ r.mode = k.mode /\ r.key_func = k.key_func
        /\ r.romaji_type = k.romaji_type /\ r.next_mode = k.next_mode
        /\ r.romaji_input_mode = k.romaji_input_mode
    BY <2>1, <2>2 DEF IsKb
  <2>4. KeyDown(k) /\ Rom(k) = WithShift(c) /\ ~KeyDown(r) /\ Rom(r) = {}
    BY <1>3, <2>3 DEF Rom, KeyDown, KEY_ON_OFF_INTERVAL
  <2>5. k.romaji_ptr # k.romaji_set
    BY <2>4 DEF Ring
  <2>6. ROMAJI_QUE_SIZE > 1
    BY <1>0, <2>5, SizeIs DEF Places
  <2>7. /\ r.romaji_ptr \in Places
        /\ r.romaji_ptr = IF k.romaji_ptr + 1 < ROMAJI_QUE_SIZE THEN k.romaji_ptr + 1
                          ELSE (k.romaji_ptr + 1) - ROMAJI_QUE_SIZE
    BY <1>0, <2>3, <2>6, Behind DEF Next1
  <2>8. Waiting(r) \in Nat /\ Waiting(r) < Waiting(k)
    <3>1. Waiting(r) = IF r.romaji_ptr <= k.romaji_set THEN k.romaji_set - r.romaji_ptr
                       ELSE (k.romaji_set - r.romaji_ptr) + ROMAJI_QUE_SIZE
      BY <1>0, <2>3, <2>7, WaitingIs
    <3>2. Waiting(k) = IF k.romaji_ptr <= k.romaji_set THEN k.romaji_set - k.romaji_ptr
                       ELSE (k.romaji_set - k.romaji_ptr) + ROMAJI_QUE_SIZE
      BY <1>0, WaitingIs
    <3> DEFINE s == ROMAJI_QUE_SIZE  a == k.romaji_set  p == k.romaji_ptr  q == r.romaji_ptr
               w == Waiting(k)  v == Waiting(r)
    <3>3. /\ s \in Nat /\ a \in 0..(s - 1) /\ p \in 0..(s - 1) /\ a # p
          /\ q = (IF p + 1 < s THEN p + 1 ELSE (p + 1) - s)
          /\ v = (IF q <= a THEN a - q ELSE (a - q) + s)
          /\ w = (IF p <= a THEN a - p ELSE (a - p) + s)
      BY <1>0, <2>5, <2>7, <3>1, <3>2, SizeIs DEF Places
    <3> HIDE DEF s, a, p, q, w, v
    <3>4. v \in Nat /\ v < w
      BY <3>3
    <3> QED BY <3>4 DEF w, v
  <2>9. Ring(r, n)
    BY <1>0, <2>3, <2>4, <2>7, <2>8, SizeIs DEF Ring
  <2> QED BY <2>3, <2>4, <2>9 DEF Good, r
<1>4. CASE k.press_timer \in {1, 2, 3, 5, 6, 7, 8}
  <2> DEFINE t == IF k.press_timer = 8 THEN 0 ELSE k.press_timer + 1
  <2>1. r = [k EXCEPT !.press_timer = t]
    BY <1>4 DEF romaji_output, KEY_ON_OFF_INTERVAL
  <2> HIDE DEF r, t
  <2>2. /\ IsKb(r) /\ r.down = k.down /\ r.press_timer = t
        /\ r.romaji_que = k.romaji_que /\ r.romaji_ptr = k.romaji_ptr
        /\ r.romaji_set = k.romaji_set /\ r.mode = k.mode /\ r.key_func = k.key_func
        /\ r.romaji_type = k.romaji_type /\ r.next_mode = k.next_mode
        /\ r.romaji_input_mode = k.romaji_input_mode
    BY <2>1 DEF IsKb
  <2>3. t \in 0..8 /\ (t \in 1..4 <=> k.press_timer \in 1..4)
    BY <1>4 DEF t
  <2>4. (KeyDown(r) <=> KeyDown(k)) /\ Rom(r) = Rom(k)
    BY <2>2, <2>3 DEF KeyDown, Rom, KEY_ON_OFF_INTERVAL
  <2>5. Waiting(r) = Waiting(k)
    BY <2>2 DEF Waiting
  <2>6. Ring(r, n)
    BY <1>0, <2>2, <2>3, <2>4, <2>5 DEF Ring
  <2> QED BY <2>2, <2>4, <2>6 DEF Good, r
<1> QED BY <1>0, <1>1, <1>2, <1>3, <1>4

\* romaji_clear lets the key go that is down for the ring.
LEMMA ClearIs ==
  ASSUME NEW k, IsKb(k), NEW n \in Nat, Ring(k, n), NEW m \in Nat, m < ROMAJI_QUE_SIZE
  PROVE  LET r == romaji_clear(k)
         IN  /\ Ring(r, m) /\ Same(k, r) /\ ~KeyDown(r) /\ r.down = k.down \ Rom(k)
<1> DEFINE r == romaji_clear(k)
           q == [k EXCEPT !.press_timer = KEY_ON_OFF_INTERVAL]
           up == IF KeyDown(k) THEN romaji_output(q) ELSE k
           c == k.romaji_que[k.romaji_ptr]
<1>1. r = [up EXCEPT !.romaji_set = 0, !.romaji_ptr = 0, !.press_timer = 0,
                     !.input_buf = <<>>, !.typed = <<>>, !.said = <<>>]
  BY DEF romaji_clear
<1>2. /\ q.press_timer = 4 /\ IsKb(q) /\ q.down = k.down /\ q.romaji_ptr = k.romaji_ptr
      /\ q.romaji_que = k.romaji_que /\ q.romaji_set = k.romaji_set /\ q.mode = k.mode
      /\ q.key_func = k.key_func /\ q.romaji_type = k.romaji_type
      /\ q.next_mode = k.next_mode /\ q.romaji_input_mode = k.romaji_input_mode
  BY DEF IsKb, KEY_ON_OFF_INTERVAL
<1>3. romaji_output(q) = [q EXCEPT !.down = k.down \ WithShift(c),
                                   !.romaji_ptr = Next1(k.romaji_ptr), !.press_timer = 5]
  <2> HIDE DEF q
  <2>1. romaji_output(q) = ReleaseFirst(q)
    BY <1>2 DEF romaji_output, KEY_ON_OFF_INTERVAL
  <2> QED BY <1>2, <2>1 DEF ReleaseFirst, KEY_ON_OFF_INTERVAL
<1> HIDE DEF q
<1>4. /\ IsKb(up) /\ up.down = k.down \ Rom(k) /\ up.mode = k.mode /\ up.key_func = k.key_func
      /\ up.romaji_type = k.romaji_type /\ up.next_mode = k.next_mode
      /\ up.romaji_input_mode = k.romaji_input_mode /\ DOMAIN up.romaji_que = Places
  <2>1. CASE KeyDown(k)
    <3> DEFINE o == [q EXCEPT !.down = k.down \ WithShift(c),
                              !.romaji_ptr = Next1(k.romaji_ptr), !.press_timer = 5]
    <3>1. up = o
      BY <1>3, <2>1
    <3>2. /\ IsKb(o) /\ o.down = k.down \ WithShift(c) /\ o.mode = q.mode /\ o.key_func = q.key_func
          /\ o.romaji_type = q.romaji_type /\ o.next_mode = q.next_mode
          /\ o.romaji_input_mode = q.romaji_input_mode /\ o.romaji_que = q.romaji_que
      <4>1. IsKb(q)
        BY <1>2
      <4>2. o = [q EXCEPT !.down = k.down \ WithShift(c),
                          !.romaji_ptr = Next1(k.romaji_ptr), !.press_timer = 5]
        OBVIOUS
      <4> HIDE DEF o
      <4> QED BY <4>1, <4>2 DEF IsKb
    <3> HIDE DEF o, up
    <3> QED BY <1>2, <2>1, <3>1, <3>2 DEF Rom, Ring
  <2>2. CASE ~KeyDown(k)
    <3>1. up = k
      BY <2>2
    <3> HIDE DEF up
    <3> QED BY <2>2, <3>1 DEF Rom, Ring
  <2> QED BY <2>1, <2>2
<1> HIDE DEF up, r
<1>5. /\ r.romaji_set = 0 /\ r.romaji_ptr = 0 /\ r.press_timer = 0 /\ IsKb(r)
      /\ r.down = k.down \ Rom(k) /\ r.mode = k.mode /\ r.key_func = k.key_func
      /\ r.romaji_type = k.romaji_type /\ r.next_mode = k.next_mode
      /\ r.romaji_input_mode = k.romaji_input_mode /\ DOMAIN r.romaji_que = Places
  BY <1>1, <1>4 DEF IsKb
<1>6. ~KeyDown(r)
  BY <1>5 DEF KeyDown, KEY_ON_OFF_INTERVAL
<1>7. 0 \in Places
  BY SizeIs DEF Places
<1>8. Waiting(r) = 0
  BY <1>5, <1>7, WaitingIs
<1>9. Ring(r, m)
  BY <1>5, <1>6, <1>7, <1>8, SizeIs DEF Ring
<1> QED BY <1>5, <1>6, <1>9 DEF Same, Kept, r
-----------------------------------------------------------------------------
(* Letters                                                                 *)

\* The record with other letters collected, and with one letter more.
WithBuf(k, b) == [k EXCEPT !.input_buf = b]
WithLetter(k, key) == [k EXCEPT !.input_buf = Append(@, key), !.typed = Append(@, key)]

LEMMA BufIs ==
  ASSUME NEW k, IsKb(k), NEW b, NEW n, NEW r,
         r = WithBuf(k, b) \/ r = WithLetter(k, b)
  PROVE  /\ Ring(k, n) => Ring(r, n)
         /\ Same(k, r) /\ Rom(r) = Rom(k) /\ r.down = k.down
         /\ r = WithBuf(k, b) => r.input_buf = b
<1>1. /\ IsKb(r) /\ r.down = k.down /\ r.press_timer = k.press_timer
      /\ r.romaji_que = k.romaji_que /\ r.romaji_ptr = k.romaji_ptr
      /\ r.romaji_set = k.romaji_set /\ r.mode = k.mode /\ r.key_func = k.key_func
      /\ r.romaji_type = k.romaji_type /\ r.next_mode = k.next_mode
      /\ r.romaji_input_mode = k.romaji_input_mode
  <2>1. CASE r = WithBuf(k, b)
    BY <2>1 DEF IsKb, WithBuf
  <2>2. CASE r = WithLetter(k, b)
    BY <2>2 DEF IsKb, WithLetter
  <2> QED BY <2>1, <2>2
<1>2. r = WithBuf(k, b) => r.input_buf = b
  BY DEF IsKb, WithBuf
<1>3. Waiting(r) = Waiting(k) /\ (KeyDown(r) <=> KeyDown(k)) /\ Rom(r) = Rom(k)
  BY <1>1 DEF Waiting, KeyDown, Rom
<1>4. Ring(k, n) => Ring(r, n)
  BY <1>1, <1>3 DEF Ring
<1> QED BY <1>1, <1>2, <1>3, <1>4 DEF Same, Kept

LEMMA SameTwice ==
  ASSUME NEW k, NEW q, NEW r, Same(k, q), Same(q, r)
  PROVE  Same(k, r)
BY DEF Same, Kept

\* Room for some keys is room for fewer.
LEMMA RoomFor ==
  ASSUME NEW k, NEW n \in Nat, Ring(k, n), NEW m \in Nat, m <= n
  PROVE  Ring(k, m) /\ m < ROMAJI_QUE_SIZE
<1>1. Waiting(k) \in Nat /\ Waiting(k) + n < ROMAJI_QUE_SIZE
  BY WaitingIs DEF Ring, Places
<1> QED BY <1>1, SizeIs DEF Ring

\* The ring has room for n keys, and as long as a round has something to do for
\* j letters more and one kana of three keys.
Left(k, n, j) ==
  /\ IsKb(k) /\ k.romaji_type \in DOMAIN list
  /\ Ring(k, n) /\ (k.input_buf # <<>> => Ring(k, (n + 3) + j))

LEMMA DropIs ==
  ASSUME NEW k, IsKb(k), NEW n \in Nat, Ring(k, n + 1)
  PROVE  LET r == Drop(k)
         IN  Ring(r, n) /\ Same(k, r) /\ Rom(r) = Rom(k) /\ r.down = k.down
<1> DEFINE buf == k.input_buf
           heard == CASE buf[1] = "N" -> set_romaji_que(k, XR_NN)
                      [] buf[1] # "N" /\ Len(buf) >= 2 /\ buf[1] = buf[2] ->
                           set_romaji_que(k, XR_tu)
                      [] OTHER -> k
           r == Drop(k)
<1>1. ASSUME NEW keys, Len(keys) = 1, DOMAIN keys = 1..Len(keys)
      PROVE  LET q == set_romaji_que(k, keys)
             IN  Ring(q, n) /\ Same(k, q) /\ Rom(q) = Rom(k) /\ q.down = k.down
  <2>1. Ring(k, n + Len(keys)) /\ Len(keys) \in Nat
    BY <1>1
  <2> QED BY <1>1, <2>1, QueIs DEF Same
<1>2. /\ Len(XR_NN) = 1 /\ DOMAIN XR_NN = 1..Len(XR_NN)
      /\ Len(XR_tu) = 1 /\ DOMAIN XR_tu = 1..Len(XR_tu)
  BY DEF XR_NN, XR_tu
<1>3. Ring(k, n) /\ Same(k, k)
  BY RoomFor DEF Same, Kept
<1>4. heard \in {k, set_romaji_que(k, XR_NN), set_romaji_que(k, XR_tu)}
  BY Zenon
<1>5. r = [heard EXCEPT !.input_buf = Tail(heard.input_buf)]
  BY DEF Drop
<1> HIDE DEF heard, r
<1>6. Ring(heard, n) /\ Same(k, heard) /\ Rom(heard) = Rom(k) /\ heard.down = k.down
  BY <1>1, <1>2, <1>3, <1>4
<1>7. IsKb(heard)
  BY <1>6 DEF Same, Kept
<1>8. Ring(r, n) /\ Same(heard, r) /\ Rom(r) = Rom(heard) /\ r.down = heard.down
  <2> DEFINE b == Tail(heard.input_buf)
  <2>1. r = WithBuf(heard, b)
    BY <1>5 DEF WithBuf
  <2> HIDE DEF b
  <2> QED BY <1>6, <1>7, <2>1, BufIs
<1> QED BY <1>6, <1>8, SameTwice DEF r

LEMMA RoundIs ==
  ASSUME NEW k, NEW n \in Nat, NEW j \in Nat, Left(k, n, j)
  PROVE  LET r == Round(k)
         IN  /\ Left(r, n, j - 1) \/ j = 0
             /\ Ring(r, n) /\ Same(k, r) /\ Rom(r) = Rom(k) /\ r.down = k.down
<1> DEFINE table == list[k.romaji_type]
           rows == Found(table, k.input_buf)
           same == {i \in rows : table[i].s = k.input_buf}
           r == Round(k)
<1>0. IsKb(k) /\ Ring(k, n) /\ k.romaji_type \in DOMAIN list /\ Same(k, k)
  BY DEF Left, Same, Kept
<1>1. CASE k.input_buf = <<>>
  <2>1. r = k
    BY <1>1 DEF Round, RoundOf
  <2> HIDE DEF r
  <2> QED BY <1>0, <1>1, <2>1 DEF Left, r
<1>2. CASE k.input_buf # <<>> /\ same # {}
  <2> DEFINE i == CHOOSE i \in same : TRUE  keys == table[i].list  q == set_romaji_que(k, keys)
  <2>1. r = WithBuf(q, <<>>)
    <3>1. r = [set_romaji_que(k, table[CHOOSE i1 \in same : TRUE].list) EXCEPT !.input_buf = <<>>]
      BY <1>2, Zenon DEF Round, RoundOf
    <3> HIDE DEF r
    <3> QED BY <3>1 DEF WithBuf
  <2>2. i \in DOMAIN table
    BY <1>2 DEF Found
  <2>3. Len(keys) \in 1..3 /\ DOMAIN keys = 1..Len(keys)
    <3> HIDE DEF i
    <3> QED BY <1>0, <2>2, ListAssumption
  <2> HIDE DEF keys, q, r
  <2>4. Ring(k, n + Len(keys)) /\ Len(keys) \in Nat
    <3>1. Ring(k, (n + 3) + j) /\ (n + 3) + j \in Nat /\ n + Len(keys) \in Nat
          /\ n + Len(keys) <= (n + 3) + j /\ Len(keys) \in Nat
      BY <1>2, <2>3 DEF Left
    <3> QED BY <3>1, RoomFor
  <2>5. Ring(q, n) /\ Same(k, q) /\ Rom(q) = Rom(k) /\ q.down = k.down /\ IsKb(q)
    BY <1>0, <2>3, <2>4, QueIs DEF Same, Kept, q
  <2>6. Ring(r, n) /\ Same(q, r) /\ Rom(r) = Rom(q) /\ r.down = q.down /\ r.input_buf = <<>>
    BY <2>1, <2>5, BufIs
  <2>7. Same(k, r)
    BY <2>5, <2>6, SameTwice
  <2>8. Left(r, n, j - 1)
    BY <1>0, <2>6, <2>7 DEF Left, Same, Kept
  <2> QED BY <2>5, <2>6, <2>7, <2>8 DEF r
<1>3. CASE k.input_buf # <<>> /\ same = {} /\ rows # {}
  <2>1. r = k
    BY <1>3, Zenon DEF Round, RoundOf
  <2> HIDE DEF r
  <2>2. j # 0 => Left(k, n, j - 1)
    <3> SUFFICES ASSUME j # 0 PROVE Left(k, n, j - 1)
      OBVIOUS
    <3>1. Ring(k, (n + 3) + j) /\ (n + 3) + j \in Nat /\ (n + 3) + (j - 1) \in Nat
          /\ (n + 3) + (j - 1) <= (n + 3) + j
      BY <1>3 DEF Left
    <3>2. Ring(k, (n + 3) + (j - 1))
      BY <3>1, RoomFor
    <3> QED BY <1>0, <3>2 DEF Left
  <2> QED BY <1>0, <2>1, <2>2 DEF r
<1>4. CASE k.input_buf # <<>> /\ same = {} /\ rows = {}
  <2>1. r = Drop(k)
    BY <1>4, Zenon DEF Round, RoundOf
  <2>2. Ring(k, (n + 3) + j)
    BY <1>4 DEF Left
  <2>3. Ring(k, n + 1)
    <3>1. (n + 3) + j \in Nat /\ n + 1 \in Nat /\ n + 1 <= (n + 3) + j
      OBVIOUS
    <3> QED BY <2>2, <3>1, RoomFor
  <2>4. Ring(r, n) /\ Same(k, r) /\ Rom(r) = Rom(k) /\ r.down = k.down
    BY <1>0, <2>1, <2>3, DropIs
  <2> HIDE DEF r
  <2>5. j # 0 => Left(r, n, j - 1)
    <3> SUFFICES ASSUME j # 0 PROVE Left(r, n, j - 1)
      OBVIOUS
    <3> DEFINE m == (n + 3) + (j - 1)
    <3>1. m \in Nat /\ m + 1 = (n + 3) + j
      OBVIOUS
    <3>2. Ring(k, m + 1)
      BY <2>2, <3>1
    <3> HIDE DEF m
    <3>3. Ring(r, m)
      BY <1>0, <2>1, <3>1, <3>2, DropIs
    <3> QED BY <1>0, <2>4, <3>3 DEF Left, Same, Kept, m
  <2> QED BY <2>4, <2>5 DEF r
<1> QED BY <1>1, <1>2, <1>3, <1>4

\* A letter brings at most six keys: three by itself, each behind a letter that
\* is given up.
LEMMA CollectIs ==
  ASSUME NEW k, IsKb(k), NEW n \in Nat, Ring(k, n + 6), k.romaji_type \in DOMAIN list
  PROVE  LET r == Collect(k)
         IN  Ring(r, n) /\ Same(k, r) /\ Rom(r) = Rom(k) /\ r.down = k.down
<1> DEFINE a == Round(k)  b == Round(a)  c == Round(b)  d == Round(c)  r == Collect(k)
<1>1. Left(k, n, 3)
  <2>1. n + 6 \in Nat /\ n + 6 = (n + 3) + 3 /\ n <= n + 6
    OBVIOUS
  <2>2. Ring(k, n)
    BY <2>1, RoomFor
  <2> QED BY <2>1, <2>2 DEF Left
<1>2. r = IF Len(d.input_buf) >= 4 THEN WithBuf(d, <<>>) ELSE d
  BY DEF Collect, WithBuf
<1>3. Left(a, n, 2) /\ Same(k, a) /\ Rom(a) = Rom(k) /\ a.down = k.down
  BY <1>1, RoundIs
<1> HIDE DEF a
<1>4. Left(b, n, 1) /\ Same(k, b) /\ Rom(b) = Rom(k) /\ b.down = k.down
  <2>1. Left(b, n, 1) /\ Same(a, b) /\ Rom(b) = Rom(a) /\ b.down = a.down
    BY <1>3, RoundIs
  <2> HIDE DEF b
  <2> QED BY <1>3, <2>1, SameTwice
<1> HIDE DEF b
<1>5. Left(c, n, 0) /\ Same(k, c) /\ Rom(c) = Rom(k) /\ c.down = k.down
  <2>1. Left(c, n, 0) /\ Same(b, c) /\ Rom(c) = Rom(b) /\ c.down = b.down
    BY <1>4, RoundIs
  <2> HIDE DEF c
  <2> QED BY <1>4, <2>1, SameTwice
<1> HIDE DEF c
<1>6. Ring(d, n) /\ Same(k, d) /\ Rom(d) = Rom(k) /\ d.down = k.down
  <2>1. Ring(d, n) /\ Same(c, d) /\ Rom(d) = Rom(c) /\ d.down = c.down
    BY <1>5, RoundIs
  <2> HIDE DEF d
  <2> QED BY <1>5, <2>1, SameTwice
<1> HIDE DEF d, r
<1>7. IsKb(d)
  BY <1>6 DEF Same, Kept
<1>8. CASE r = d
  BY <1>6, <1>8 DEF r
<1>9. CASE r = WithBuf(d, <<>>)
  <2>1. Ring(r, n) /\ Same(d, r) /\ Rom(r) = Rom(d) /\ r.down = d.down
    BY <1>6, <1>7, <1>9, BufIs
  <2> QED BY <1>6, <2>1, SameTwice DEF r
<1> QED BY <1>2, <1>8, <1>9

\* What the romaji mode makes of a key: a letter is taken, any other key leaves
\* the ring as it is or empties it.
LEMMA InputIs ==
  ASSUME NEW k, IsKb(k), NEW n \in Nat, Ring(k, n + 6), k.romaji_type \in DOMAIN list, NEW key
  PROVE  LET r == romaji_input(k, key)
         IN  /\ Same(k, r.k) /\ Ring(r.k, IF key \in Letters THEN n ELSE n + 6)
             /\ \A X : Good(k, X) => Good(r.k, X)
<1> DEFINE r == romaji_input(k, key)
           q == WithLetter(k, key)
<1>1. CASE key \in Letters
  <2>1. r.k = Collect(q)
    BY <1>1 DEF romaji_input, Letters, Quiet, WithLetter
  <2>2. Ring(q, n + 6) /\ Same(k, q) /\ Rom(q) = Rom(k) /\ q.down = k.down
    BY BufIs
  <2> HIDE DEF q
  <2>3. IsKb(q) /\ q.romaji_type \in DOMAIN list
    BY <2>2 DEF Same, Kept
  <2> DEFINE c == Collect(q)
  <2>4. Ring(c, n) /\ Same(q, c) /\ Rom(c) = Rom(q) /\ c.down = q.down
    BY <2>2, <2>3, CollectIs
  <2> HIDE DEF c
  <2>5. Same(k, c)
    BY <2>2, <2>4, SameTwice
  <2>6. \A X : Good(k, X) => Good(c, X)
    BY <2>2, <2>4 DEF Good
  <2> QED BY <1>1, <2>1, <2>4, <2>5, <2>6 DEF c
<1>2. CASE key \notin Letters /\ r.k = k
  BY <1>2 DEF Same, Kept
<1>3. CASE key \notin Letters /\ r.k = romaji_clear(k)
  <2> DEFINE c == romaji_clear(k)
  <2>1. n + 6 < ROMAJI_QUE_SIZE /\ n + 6 \in Nat
    BY RoomFor
  <2>2. Ring(c, n + 6) /\ Same(k, c) /\ ~KeyDown(c) /\ c.down = k.down \ Rom(k)
    BY <2>1, ClearIs
  <2> HIDE DEF c
  <2>3. \A X : Good(k, X) => Good(c, X)
    BY <2>2 DEF Good
  <2> QED BY <1>3, <2>2, <2>3 DEF c
<1>4. key \notin Letters => r.k = k \/ r.k = romaji_clear(k)
  BY DEF romaji_input
<1> QED BY <1>1, <1>2, <1>3, <1>4
-----------------------------------------------------------------------------
(* Functions                                                               *)

\* The record with other keys down.
WithDown(k, d) == [k EXCEPT !.down = d]
SameRing(k, r) ==
  /\ r.romaji_set = k.romaji_set /\ r.romaji_ptr = k.romaji_ptr /\ r.romaji_que = k.romaji_que
  /\ r.press_timer = k.press_timer

LEMMA SameRingIs ==
  ASSUME NEW k, NEW r, SameRing(k, r)
  PROVE  (\A n : Ring(k, n) => Ring(r, n)) /\ (KeyDown(r) <=> KeyDown(k)) /\ Rom(r) = Rom(k)
<1>1. Waiting(r) = Waiting(k) /\ (KeyDown(r) <=> KeyDown(k)) /\ Rom(r) = Rom(k)
  BY DEF SameRing, Waiting, KeyDown, Rom
<1> QED BY <1>1 DEF SameRing, Ring

LEMMA DownIs ==
  ASSUME NEW k, IsKb(k), NEW d
  PROVE  LET r == WithDown(k, d)
         IN  Same(k, r) /\ SameRing(k, r) /\ Rom(r) = Rom(k) /\ r.down = d /\ IsKb(r)
<1> DEFINE r == WithDown(k, d)
<1>1. r = [k EXCEPT !.down = d]
  BY DEF WithDown
<1> HIDE DEF r
<1>2. /\ IsKb(r) /\ r.down = d /\ SameRing(k, r) /\ r.mode = k.mode /\ r.key_func = k.key_func
      /\ r.romaji_type = k.romaji_type /\ r.next_mode = k.next_mode
      /\ r.romaji_input_mode = k.romaji_input_mode
  BY <1>1 DEF IsKb, SameRing
<1> QED BY <1>2, SameRingIs DEF Same, Kept, r

\* keyboard_reset lets go of every key, for good.
LEMMA ResetIs ==
  ASSUME NEW k, NEW n, Wired(k, n), n \in Nat, NEW m \in Nat, m < ROMAJI_QUE_SIZE
  PROVE  LET r == keyboard_reset(k)
         IN  Wired(r, m) /\ Kept(k, r) /\ r.down = {}
<1> DEFINE q == WithDown(k, {})  r == romaji_clear(q)
<1>1. keyboard_reset(k) = r
  BY DEF keyboard_reset, WithDown
<1>2. IsKb(k) /\ Ring(k, n)
  BY DEF Wired
<1>3. Same(k, q) /\ SameRing(k, q) /\ q.down = {} /\ IsKb(q)
  BY <1>2, DownIs
<1> HIDE DEF q
<1>4. Ring(q, n)
  BY <1>2, <1>3, SameRingIs
<1>5. Ring(r, m) /\ Same(q, r) /\ ~KeyDown(r) /\ r.down = q.down \ Rom(q)
  BY <1>3, <1>4, ClearIs
<1> HIDE DEF r
<1>6. Same(k, r) /\ r.down = {}
  BY <1>3, <1>5, SameTwice
<1>7. Wired(r, m)
  BY <1>5, <1>6 DEF Wired, Same, Kept
<1> QED BY <1>1, <1>6, <1>7 DEF Same

\* A lock of a function: KANA and CAPS stay by themselves.
LEMMA ToggledIs ==
  ASSUME NEW k, NEW X, Good(k, X), NEW b \in Locks
  PROVE  Toggled(k.down, b) \subseteq X \cup Locks \cup Rom(k)
BY DEF Good, Toggled

LEMMA FuncIs ==
  ASSUME NEW k, NEW n \in Nat, Wired(k, n), k.mode = "EXEC", NEW X, Good(k, X), NEW f
  PROVE  LET r == do_func(k, f)
         IN  Wired(r, n) /\ Kept(k, r) /\ Good(r, X)
<1> DEFINE r == do_func(k, f)
<1>0. IsKb(k) /\ Ring(k, n) /\ n < ROMAJI_QUE_SIZE
  BY RoomFor DEF Wired
\* What leaves the keys alone.
<1>1. ASSUME IsKb(r), SameRing(k, r), r.down = k.down, r.mode = k.mode, r.key_func = k.key_func,
             r.romaji_type = k.romaji_type, r.romaji_input_mode = k.romaji_input_mode
      PROVE  Wired(r, n) /\ Kept(k, r) /\ Good(r, X)
  <2> HIDE DEF r
  <2>1. Ring(r, n) /\ (KeyDown(r) <=> KeyDown(k)) /\ Rom(r) = Rom(k)
    BY <1>0, <1>1, SameRingIs
  <2> QED BY <1>0, <1>1, <2>1 DEF Wired, Kept, Good
<1>2. CASE f = "FN_FRATE_UP"
  <2> DEFINE v == change_framerate(k.frameskip_rate, TRUE)
  <2>1. r = [k EXCEPT !.frameskip_rate = v]
    BY <1>2 DEF do_func
  <2> HIDE DEF r, v
  <2> QED BY <1>0, <1>1, <2>1 DEF IsKb, SameRing, r
<1>3. CASE f = "FN_FRATE_DOWN"
  <2> DEFINE v == change_framerate(k.frameskip_rate, FALSE)
  <2>1. r = [k EXCEPT !.frameskip_rate = v]
    BY <1>3 DEF do_func
  <2> HIDE DEF r, v
  <2> QED BY <1>0, <1>1, <2>1 DEF IsKb, SameRing, r
<1>4. CASE f = "FN_NOWAIT"
  <2>1. r = [k EXCEPT !.no_wait = ~k.no_wait]
    BY <1>4 DEF do_func
  <2> HIDE DEF r
  <2> QED BY <1>0, <1>1, <2>1 DEF IsKb, SameRing, r
<1>5. CASE f = "FN_SPEED_UP"
  <2> DEFINE v == change_wait(k.wait_rate, TRUE)
  <2>1. r = [k EXCEPT !.wait_rate = v]
    BY <1>5 DEF do_func
  <2> HIDE DEF r, v
  <2> QED BY <1>0, <1>1, <2>1 DEF IsKb, SameRing, r
<1>6. CASE f = "FN_SPEED_DOWN"
  <2> DEFINE v == change_wait(k.wait_rate, FALSE)
  <2>1. r = [k EXCEPT !.wait_rate = v]
    BY <1>6 DEF do_func
  <2> HIDE DEF r, v
  <2> QED BY <1>0, <1>1, <2>1 DEF IsKb, SameRing, r
<1>7. CASE f = "FN_MAX_SPEED"
  <2> DEFINE v == change_max_speed(k.wait_rate)
  <2>1. r = [k EXCEPT !.wait_rate = v, !.no_wait = FALSE]
    BY <1>7 DEF do_func
  <2> HIDE DEF r, v
  <2> QED BY <1>0, <1>1, <2>1 DEF IsKb, SameRing, r
<1>8. CASE f = "FN_PAUSE" \/ f = "FN_MENU"
  <2> DEFINE m == IF f = "FN_PAUSE" THEN "PAUSE" ELSE "MENU"
  <2>1. r = SetNext(k, m)
    BY <1>8 DEF do_func
  <2>2. r = k \/ r = [k EXCEPT !.next_mode = m]
    BY <2>1 DEF SetNext
  <2> HIDE DEF r, m
  <2>3. CASE r = k
    BY <1>0, <1>1, <2>3 DEF SameRing, r
  <2>4. CASE r = [k EXCEPT !.next_mode = m]
    BY <1>0, <1>1, <2>4 DEF IsKb, SameRing, r
  <2> QED BY <2>2, <2>3, <2>4
<1>9. CASE f = "FN_RESET"
  <2>1. r = keyboard_reset(k)
    BY <1>9 DEF do_func
  <2> HIDE DEF r
  <2>2. Wired(r, n) /\ Kept(k, r) /\ r.down = {}
    BY <1>0, <2>1, ResetIs
  <2> QED BY <2>2 DEF Good, r
<1>10. CASE f = "FN_KANA"
  <2> DEFINE d == Toggled(k.down, "KANA")
  <2>1. r = [k EXCEPT !.down = d, !.romaji_input_mode = FALSE]
    BY <1>10 DEF do_func
  <2>2. d \subseteq X \cup Locks \cup Rom(k)
    BY ToggledIs DEF Locks
  <2> HIDE DEF r, d
  <2>3. /\ IsKb(r) /\ SameRing(k, r) /\ r.mode = k.mode /\ r.key_func = k.key_func
        /\ r.romaji_type = k.romaji_type /\ r.down = d
    BY <1>0, <2>1 DEF IsKb, SameRing
  <2>4. Ring(r, n) /\ Rom(r) = Rom(k)
    BY <1>0, <2>3, SameRingIs
  <2> QED BY <2>2, <2>3, <2>4 DEF Wired, Kept, Good, r
<1>11. CASE f = "FN_ROMAJI"
  <2> DEFINE d == Toggled(k.down, "KANA")  t == WithDown(k, d)
             on == [t EXCEPT !.romaji_input_mode = TRUE]
  <2>0. r = ToggleRomaji(k)
    BY <1>11 DEF do_func
  <2>1. d \subseteq X \cup Locks \cup Rom(k)
    BY ToggledIs DEF Locks
  <2> HIDE DEF d
  <2>2. Same(k, t) /\ SameRing(k, t) /\ t.down = d /\ IsKb(t) /\ Rom(t) = Rom(k)
    BY <1>0, DownIs
  <2>3. r = romaji_clear(on) \/ r = [t EXCEPT !.romaji_input_mode = FALSE]
    BY <2>0, Zenon DEF ToggleRomaji, WithDown, d
  <2> HIDE DEF t
  <2>4. Ring(t, n)
    BY <1>0, <2>2, SameRingIs
  <2>5. CASE r = romaji_clear(on)
    <3>1. /\ IsKb(on) /\ SameRing(t, on) /\ on.mode = t.mode /\ on.key_func = t.key_func
          /\ on.romaji_type = t.romaji_type /\ on.down = t.down /\ on.next_mode = t.next_mode
      <4>1. on = [t EXCEPT !.romaji_input_mode = TRUE]
        OBVIOUS
      <4> HIDE DEF on
      <4> QED BY <2>2, <4>1 DEF IsKb, SameRing
    <3> HIDE DEF on, r
    <3>2. Ring(on, n) /\ Rom(on) = Rom(k)
      BY <2>2, <2>4, <3>1, SameRingIs
    <3>3. Ring(r, n) /\ Same(on, r) /\ r.down = on.down \ Rom(on)
      BY <1>0, <2>5, <3>1, <3>2, ClearIs
    <3>4. Kept(k, r) /\ r.down = d \ Rom(k)
      BY <2>2, <3>1, <3>2, <3>3 DEF Same, Kept
    <3>5. r.mode = "EXEC" /\ r.key_func = k.key_func /\ r.romaji_type = k.romaji_type /\ IsKb(r)
      BY <3>4 DEF Kept
    <3>6. Wired(r, n)
      BY <3>3, <3>5 DEF Wired
    <3> QED BY <2>1, <3>4, <3>6 DEF Good, r
  <2>6. CASE r = [t EXCEPT !.romaji_input_mode = FALSE]
    <3> HIDE DEF r
    <3>1. /\ IsKb(r) /\ SameRing(t, r) /\ r.mode = t.mode /\ r.key_func = t.key_func
          /\ r.romaji_type = t.romaji_type /\ r.down = t.down
      BY <2>2, <2>6 DEF IsKb, SameRing
    <3>2. Ring(r, n) /\ Rom(r) = Rom(k)
      BY <2>2, <2>4, <3>1, SameRingIs
    <3>3. /\ r.mode = "EXEC" /\ r.key_func = k.key_func /\ r.romaji_type = k.romaji_type
          /\ r.down = d
      BY <2>2, <3>1 DEF Same, Kept
    <3>4. Wired(r, n) /\ Kept(k, r)
      BY <3>1, <3>2, <3>3 DEF Wired, Kept
    <3> QED BY <2>1, <3>2, <3>3, <3>4 DEF Good, r
  <2> QED BY <2>3, <2>5, <2>6
<1>12. CASE f = "FN_CAPS"
  <2> DEFINE d == Toggled(k.down, "CAPS")
  <2>1. r = WithDown(k, d)
    BY <1>12 DEF do_func, WithDown
  <2>2. d \subseteq X \cup Locks \cup Rom(k)
    BY ToggledIs DEF Locks
  <2> HIDE DEF r, d
  <2>3. Same(k, r) /\ SameRing(k, r) /\ r.down = d /\ IsKb(r) /\ Rom(r) = Rom(k)
    BY <1>0, <2>1, DownIs
  <2>4. Ring(r, n)
    BY <1>0, <2>3, SameRingIs
  <2> QED BY <2>2, <2>3, <2>4 DEF Wired, Same, Kept, Good, r
<1>13. CASE f \notin {"FN_FRATE_UP", "FN_FRATE_DOWN", "FN_NOWAIT", "FN_SPEED_UP", "FN_SPEED_DOWN",
                      "FN_MAX_SPEED", "FN_PAUSE", "FN_MENU", "FN_RESET", "FN_KANA", "FN_ROMAJI",
                      "FN_CAPS"}
  <2>1. r = k
    BY <1>13 DEF do_func
  <2> HIDE DEF r
  <2> QED BY <1>0, <1>1, <2>1 DEF SameRing, r
<1> QED BY <1>2, <1>3, <1>4, <1>5, <1>6, <1>7, <1>8, <1>9, <1>10, <1>11, <1>12, <1>13
-----------------------------------------------------------------------------
(* Keys                                                                    *)

LEMMA NoFunction ==
  ASSUME NEW k, k.key_func \in Functions, NEW code, code \notin FunctionKeys
  PROVE  Assigned(k, code) = code
BY FunctionsAssumption DEF Assigned

LEMMA AssignedKept ==
  ASSUME NEW k, NEW r, Kept(k, r), NEW code
  PROVE  Assigned(r, code) = Assigned(k, code) /\ Assumed(r, code) = Assumed(k, code)
BY DEF Kept, Assigned, Assumed

LEMMA KeptTwice ==
  ASSUME NEW k, NEW q, NEW r, Kept(k, q), Kept(q, r)
  PROVE  Kept(k, r)
BY DEF Kept

LEMMA WiredKept ==
  ASSUME NEW k, NEW n \in Nat, Wired(k, n)
  PROVE  IsKb(k) /\ Ring(k, n) /\ n < ROMAJI_QUE_SIZE /\ Kept(k, k)
BY RoomFor DEF Wired, Kept

LEMMA WiredFor ==
  ASSUME NEW k, NEW n \in Nat, Wired(k, n), NEW m \in Nat, m <= n
  PROVE  Wired(k, m)
BY RoomFor DEF Wired

LEMMA SameWired ==
  ASSUME NEW k, NEW n, Wired(k, n), k.mode = "EXEC", NEW r, Same(k, r), NEW m, Ring(r, m)
  PROVE  Wired(r, m)
BY DEF Wired, Same, Kept

\* A key that goes down is there for as it is assigned, or the ring has it.
LEMMA KeyOn ==
  ASSUME NEW k, NEW n \in Nat, Wired(k, n + 6), k.mode = "EXEC", NEW X, Good(k, X), NEW code
  PROVE  LET r == quasi88_key(k, code, TRUE)
         IN  /\ Wired(r, n) /\ Kept(k, r) /\ Good(r, X \cup Assumed(k, code))
             /\ Assigned(k, code) \notin Letters => Wired(r, n + 6)
<1> DEFINE f == Assigned(k, code)  i == romaji_input(k, f)  r == quasi88_key(k, code, TRUE)
<1>0. /\ IsKb(k) /\ Ring(k, n + 6) /\ n + 6 \in Nat /\ n <= n + 6 /\ Kept(k, k) /\ Same(k, k)
      /\ Wired(k, n) /\ Ring(k, n) /\ k.romaji_type \in DOMAIN list
  <2>1. n + 6 \in Nat /\ n <= n + 6
    OBVIOUS
  <2>2. Wired(k, n)
    BY <2>1, WiredFor
  <2> QED BY <2>1, <2>2, WiredKept DEF Wired, Same
<1>1. CASE code = "0xff"
  <2>1. r = k
    BY <1>1 DEF quasi88_key, KeyAs
  <2> HIDE DEF r
  <2> QED BY <1>0, <2>1 DEF Good, r
<1>2. CASE code # "0xff" /\ f \in FunctionNames
  <2>1. r = do_func(k, f)
    BY <1>2 DEF quasi88_key, KeyAs
  <2> HIDE DEF f, r
  <2>2. Wired(r, n + 6) /\ Kept(k, r) /\ Good(r, X)
    BY <1>0, <2>1, FuncIs DEF f
  <2>3. Wired(r, n)
    BY <1>0, <2>2, WiredFor
  <2> QED BY <2>2, <2>3 DEF Good, r
<1>3. CASE code # "0xff" /\ f \notin FunctionNames
  <2>0. Assumed(k, code) = Bits(f)
    BY <1>3 DEF Assumed
  <2>1. r = IF ~k.romaji_input_mode THEN do_key(k, f, TRUE)
            ELSE IF i.key = "none" THEN i.k ELSE do_key(i.k, f, TRUE)
    <3>1. i.key # "none" => i.key = f
      BY DEF romaji_input
    <3>2. r = IF ~k.romaji_input_mode THEN do_key(k, f, TRUE) ELSE Pressed(i)
      BY <1>3 DEF quasi88_key, KeyAs
    <3> HIDE DEF r, f, i
    <3> QED BY <3>1, <3>2 DEF Pressed
  <2> DEFINE m == IF f \in Letters THEN n ELSE n + 6
  <2>2. m \in Nat /\ (f \notin Letters => m = n + 6) /\ n <= m
    BY <1>0
  <2>3. Same(k, i.k) /\ Ring(i.k, m) /\ Good(i.k, X)
    BY <1>0, InputIs
  <2>4. ASSUME NEW q, Same(k, q), Ring(q, m), Good(q, X), r = q \/ r = do_key(q, f, TRUE)
        PROVE  Same(k, r) /\ Ring(r, m) /\ Good(r, X \cup Bits(f))
    <3> DEFINE d == q.down \cup Bits(f)  e == WithDown(q, d)
    <3>1. do_key(q, f, TRUE) = e
      BY DEF do_key, WithDown
    <3>2. IsKb(q)
      BY <2>4 DEF Same, Kept
    <3> HIDE DEF r, f, m, d
    <3>3. Same(q, e) /\ SameRing(q, e) /\ Rom(e) = Rom(q) /\ e.down = d
      BY <3>2, DownIs
    <3> HIDE DEF e
    <3>4. Same(k, e) /\ Ring(e, m) /\ Good(e, X \cup Bits(f))
      BY <2>4, <3>3, SameTwice, SameRingIs DEF Good, d
    <3>5. Good(q, X \cup Bits(f))
      BY <2>4 DEF Good
    <3> QED BY <2>4, <3>1, <3>4, <3>5
  <2> HIDE DEF r, f, i, m
  <2>5. Ring(k, m)
    BY <1>0, <2>2, RoomFor DEF m
  <2>6. Same(k, r) /\ Ring(r, m) /\ Good(r, X \cup Bits(f))
    <3>1. CASE ~k.romaji_input_mode
      BY <1>0, <2>1, <2>4, <2>5, <3>1
    <3>2. CASE k.romaji_input_mode
      BY <2>1, <2>3, <2>4, <3>2
    <3> QED BY <3>1, <3>2
  <2>7. Wired(r, m)
    BY <1>0, <2>6, SameWired
  <2>8. Wired(r, n)
    BY <2>2, <2>7, WiredFor
  <2> QED BY <2>0, <2>2, <2>6, <2>7, <2>8 DEF Same, r, f
<1> QED BY <1>1, <1>2, <1>3

\* A key that comes up is gone, whatever it was when it went down.
LEMMA KeyOff ==
  ASSUME NEW k, NEW n \in Nat, Wired(k, n), k.mode = "EXEC", NEW X, Good(k, X), NEW code
  PROVE  LET r == quasi88_key(k, code, FALSE)
         IN  Wired(r, n) /\ Kept(k, r) /\ Good(r, X \ Assumed(k, code))
<1> DEFINE f == Assigned(k, code)  r == quasi88_key(k, code, FALSE)
<1>0. IsKb(k) /\ Ring(k, n) /\ Kept(k, k)
  BY WiredKept
<1>1. CASE code = "0xff" \/ f \in FunctionNames
  <2>1. r = k
    BY <1>1 DEF quasi88_key, KeyAs
  <2>2. Assumed(k, code) = {}
    BY <1>1 DEF Assumed
  <2> HIDE DEF r
  <2> QED BY <1>0, <2>1, <2>2 DEF Good, r
<1>2. CASE code # "0xff" /\ f \notin FunctionNames
  <2> DEFINE d == k.down \ Bits(f)
  <2>1. Assumed(k, code) = Bits(f)
    BY <1>2 DEF Assumed
  <2>2. r = WithDown(k, d)
    BY <1>2 DEF quasi88_key, KeyAs, do_key, WithDown
  <2> HIDE DEF r, f, d
  <2>3. Same(k, r) /\ SameRing(k, r) /\ Rom(r) = Rom(k) /\ r.down = d
    BY <1>0, <2>2, DownIs
  <2>4. Ring(r, n)
    BY <1>0, <2>3, SameRingIs
  <2>5. Wired(r, n)
    BY <2>3, <2>4, SameWired
  <2> QED BY <2>1, <2>3, <2>5 DEF Good, Same, d, r
<1> QED BY <1>1, <1>2

LEMMA KeyIdle ==
  ASSUME NEW k, k.mode # "EXEC", NEW code, NEW on
  PROVE  quasi88_key(k, code, on) = k
BY DEF quasi88_key, KeyAs

-----------------------------------------------------------------------------
(* The tables                                                              *)

LEMMA ShiftBits ==
  /\ Bits("SHIFT") = {"SHIFT"} /\ Bits("CTRL") = {"CTRL"} /\ Bits("GRAPH") = {"GRAPH"}
  /\ Bits("KANA") = {"KANA"}
BY DEF Bits, keyport, IS_KEY88_LATTERTYPE, WithShiftKey

LEMMA OwnKeys ==
  /\ {"SHIFT", "SHIFTR", "CTRL", "GRAPH", "KANA"}
       \cap (FunctionKeys \cup FunctionNames \cup Letters) = {}
  /\ "0xff" \notin {"SHIFT", "SHIFTR", "CTRL", "GRAPH", "KANA"}
BY DEF FunctionKeys, FunctionNames, Letters
-----------------------------------------------------------------------------
(* One look at the sources                                                 *)

\* What the last report and the count of five looks hold.
LastBits(k, l) == IF l = None THEN {} ELSE Assumed(k, hid_to_emu[l])
PressBits(k, p) == IF p = None THEN {} ELSE Assumed(k, p) \cup Assumed(k, "SHIFTR")
Mods == {"SHIFT", "CTRL", "GRAPH"}

LEMMA BitsKept ==
  ASSUME NEW k, NEW r, Kept(k, r), NEW l
  PROVE  LastBits(r, l) = LastBits(k, l) /\ PressBits(r, l) = PressBits(k, l) /\ r.mode = k.mode
<1>1. Assumed(r, hid_to_emu[l]) = Assumed(k, hid_to_emu[l]) /\ Assumed(r, l) = Assumed(k, l)
      /\ Assumed(r, "SHIFTR") = Assumed(k, "SHIFTR")
  BY AssignedKept
<1>2. r.mode = k.mode
  BY DEF Kept
<1> QED BY <1>1, <1>2 DEF LastBits, PressBits

\* A lock or SHIFT comes with no letter and no function.
LEMMA OwnKey ==
  ASSUME NEW k, NEW n, Wired(k, n), NEW code \in {"SHIFT", "SHIFTR", "CTRL", "GRAPH", "KANA"}
  PROVE  /\ Assigned(k, code) = code /\ Assigned(k, code) \notin Letters
         /\ Assumed(k, code) = Bits(code)
<1>1. k.key_func \in Functions /\ code \notin FunctionKeys \cup FunctionNames \cup Letters
      /\ code # "0xff"
  BY OwnKeys DEF Wired
<1>2. Assigned(k, code) = code
  BY <1>1, NoFunction
<1> QED BY <1>1, <1>2 DEF Assumed, FunctionNames

LEMMA LetGoIs ==
  ASSUME NEW k, NEW n \in Nat, Wired(k, n), k.mode = "EXEC", NEW X,
         Good(k, X \cup PressBits(k, pressedKey88))
  PROVE  LET r == LetGo(k) IN Wired(r, n) /\ Kept(k, r) /\ Good(r, X)
<1>1. CASE pressedKey88 = None
  BY <1>1, WiredKept DEF LetGo, PressBits, Good
<1>2. CASE pressedKey88 # None
  <2> DEFINE Y == X \cup PressBits(k, pressedKey88)
             q == quasi88_key(k, pressedKey88, FALSE)  r == quasi88_key(q, "SHIFTR", FALSE)
  <2>1. LetGo(k) = r
    BY <1>2 DEF LetGo
  <2>2. Wired(q, n) /\ Kept(k, q) /\ Good(q, Y \ Assumed(k, pressedKey88))
    BY KeyOff
  <2> HIDE DEF q
  <2>3. q.mode = "EXEC" /\ Assumed(q, "SHIFTR") = Assumed(k, "SHIFTR")
    BY <2>2, AssignedKept DEF Kept
  <2>4. Wired(r, n) /\ Kept(q, r) /\ Good(r, (Y \ Assumed(k, pressedKey88)) \ Assumed(k, "SHIFTR"))
    BY <2>2, <2>3, KeyOff
  <2> HIDE DEF r
  <2>5. (Y \ Assumed(k, pressedKey88)) \ Assumed(k, "SHIFTR") \subseteq X
    BY <1>2 DEF PressBits
  <2>6. Good(r, X)
    BY <2>4, <2>5 DEF Good
  <2> QED BY <2>1, <2>2, <2>4, <2>6, KeptTwice
<1> QED BY <1>1, <1>2

LEMMA PressIs ==
  ASSUME NEW k, NEW n \in Nat, Wired(k, n + 6), k.mode = "EXEC", NEW X, Good(k, X), NEW c
  PROVE  LET r == keyPress(k, c)
         IN  /\ Wired(r, n) /\ Kept(k, r) /\ Good(r, X \cup PressBits(k, Code(c)))
             /\ Code(c) = None => r = k
<1>0. n + 6 \in Nat /\ n <= n + 6 /\ Wired(k, n)
  BY WiredFor
<1>1. CASE Code(c) = None
  BY <1>0, <1>1, WiredKept DEF keyPress, PressBits, Good
<1>2. CASE Code(c) # None
  <2> DEFINE S == Assumed(k, "SHIFTR")
             q == IF WithShift88(c) THEN quasi88_key(k, "SHIFTR", TRUE) ELSE k
             r == quasi88_key(q, Code(c), TRUE)
  <2>1. keyPress(k, c) = r
    BY <1>2 DEF keyPress
  <2>2. Wired(q, n + 6) /\ Kept(k, q) /\ Good(q, X \cup S)
    <3>1. CASE WithShift88(c)
      BY <1>0, <3>1, OwnKey, KeyOn
    <3>2. CASE ~WithShift88(c)
      BY <1>0, <3>2, WiredKept DEF Good
    <3> QED BY <3>1, <3>2
  <2> HIDE DEF q
  <2>3. q.mode = "EXEC" /\ Assumed(q, Code(c)) = Assumed(k, Code(c))
    BY <2>2, AssignedKept DEF Kept
  <2>4. Wired(r, n) /\ Kept(q, r) /\ Good(r, (X \cup S) \cup Assumed(k, Code(c)))
    BY <2>2, <2>3, KeyOn
  <2> HIDE DEF r
  <2>5. Good(r, X \cup PressBits(k, Code(c)))
    BY <1>2, <2>4 DEF Good, PressBits
  <2> QED BY <1>2, <2>1, <2>2, <2>4, <2>5, KeptTwice
<1> QED BY <1>1, <1>2

LEMMA ModIs ==
  ASSUME NEW k, NEW n \in Nat, Wired(k, n + 6), k.mode = "EXEC", NEW X, Good(k, X), NEW b \in Mods,
         NEW on \in BOOLEAN
  PROVE  LET r == quasi88_key(k, b, on)
         IN  Wired(r, n + 6) /\ Kept(k, r) /\ Good(r, IF on THEN X \cup {b} ELSE X \ {b})
<1>0. n + 6 \in Nat /\ Assumed(k, b) = {b} /\ Assigned(k, b) \notin Letters
  <2>1. b \in {"SHIFT", "SHIFTR", "CTRL", "GRAPH", "KANA"} /\ Bits(b) = {b}
    BY ShiftBits DEF Mods
  <2> QED BY <2>1, OwnKey
<1>1. CASE on = TRUE
  <2>1. Wired(quasi88_key(k, b, TRUE), n + 6) /\ Kept(k, quasi88_key(k, b, TRUE))
        /\ Good(quasi88_key(k, b, TRUE), X \cup {b})
    BY <1>0, KeyOn
  <2> QED BY <1>1, <2>1
<1>2. CASE on = FALSE
  <2>1. Wired(quasi88_key(k, b, FALSE), n + 6) /\ Kept(k, quasi88_key(k, b, FALSE))
        /\ Good(quasi88_key(k, b, FALSE), X \ {b})
    BY <1>0, KeyOff
  <2> QED BY <1>2, <2>1
<1> QED BY <1>1, <1>2

LEMMA ModifiersIs ==
  ASSUME NEW k, NEW n \in Nat, Wired(k, n + 6), k.mode = "EXEC", NEW M \in SUBSET Mods, NEW X,
         Good(k, M \cup X), NEW m
  PROVE  LET r == Modifiers(k, m) IN Wired(r, n + 6) /\ Kept(k, r) /\ Good(r, m \cup X)
<1> DEFINE a == quasi88_key(k, "SHIFT", "SHIFT" \in m)  b == quasi88_key(a, "CTRL", "CTRL" \in m)
           r == quasi88_key(b, "GRAPH", "GRAPH" \in m)
           Y == IF "SHIFT" \in m THEN (M \cup X) \cup {"SHIFT"} ELSE (M \cup X) \ {"SHIFT"}
           Z == IF "CTRL" \in m THEN Y \cup {"CTRL"} ELSE Y \ {"CTRL"}
           U == IF "GRAPH" \in m THEN Z \cup {"GRAPH"} ELSE Z \ {"GRAPH"}
<1>1. Modifiers(k, m) = r
  BY DEF Modifiers
<1>2. Wired(a, n + 6) /\ Kept(k, a) /\ Good(a, Y)
  <2>1. "SHIFT" \in Mods /\ ("SHIFT" \in m) \in BOOLEAN
    BY DEF Mods
  <2> QED BY <2>1, ModIs
<1>3. U \subseteq m \cup X
  BY DEF Mods
<1> HIDE DEF a, Y
<1>4. Wired(b, n + 6) /\ Kept(k, b) /\ Good(b, Z)
  <2>1. "CTRL" \in Mods /\ ("CTRL" \in m) \in BOOLEAN /\ a.mode = "EXEC"
    BY <1>2 DEF Mods, Kept
  <2>2. Wired(b, n + 6) /\ Kept(a, b) /\ Good(b, Z)
    BY <1>2, <2>1, ModIs
  <2> HIDE DEF b, Z
  <2> QED BY <1>2, <2>2, KeptTwice
<1> HIDE DEF b, Z
<1>5. Wired(r, n + 6) /\ Kept(k, r) /\ Good(r, U)
  <2>1. "GRAPH" \in Mods /\ ("GRAPH" \in m) \in BOOLEAN /\ b.mode = "EXEC"
    BY <1>4 DEF Mods, Kept
  <2>2. Wired(r, n + 6) /\ Kept(b, r) /\ Good(r, U)
    BY <1>4, <2>1, ModIs
  <2> HIDE DEF r, U
  <2> QED BY <1>4, <2>2, KeptTwice
<1> HIDE DEF r, U
<1>6. Good(r, m \cup X)
  BY <1>3, <1>5 DEF Good
<1> QED BY <1>1, <1>5, <1>6

LEMMA KeyboardIs ==
  ASSUME NEW k, NEW n \in Nat, Wired(k, n + 6), k.mode = "EXEC", NEW M \in SUBSET Mods,
         NEW E, Good(k, (M \cup LastBits(k, _last_key)) \cup E), NEW m, NEW key
  PROVE  LET r == keyboard(k, m, key)
         IN  Wired(r.k, n) /\ Kept(k, r.k) /\ Good(r.k, (m \cup LastBits(k, r.last)) \cup E)
<1> DEFINE q == Modifiers(k, m)  r == keyboard(k, m, key)  L == LastBits(k, _last_key)
<1>0. n + 6 \in Nat /\ n <= n + 6
  OBVIOUS
<1>1. Wired(q, n + 6) /\ Kept(k, q) /\ Good(q, m \cup (L \cup E))
  <2>1. Good(k, M \cup (L \cup E))
    BY DEF Good
  <2> QED BY <2>1, ModifiersIs
<1>2. CASE key = _last_key
  <2>1. r.k = q /\ r.last = _last_key
    BY <1>2 DEF keyboard, FirstKey, NoReport
  <2> HIDE DEF r, q, L
  <2>2. Wired(q, n)
    BY <1>0, <1>1, WiredFor
  <2>3. Good(q, (m \cup L) \cup E)
    BY <1>1 DEF Good
  <2> QED BY <1>1, <2>1, <2>2, <2>3 DEF r, L
<1>3. CASE key # _last_key /\ IsKana(key)
  <2> DEFINE e == quasi88_key(q, "KANA", ~kanaMode)
  <2>1. r.k = e /\ r.last = _last_key
    BY <1>3 DEF keyboard, FirstKey, Emu, IsKana
  <2> HIDE DEF q, L
  <2>2. Assumed(q, "KANA") = {"KANA"} /\ q.mode = "EXEC"
    BY <1>0, <1>1, ShiftBits, OwnKey DEF Kept
  <2>3. Wired(e, n) /\ Kept(q, e) /\ Good(e, (m \cup (L \cup E)) \cup {"KANA"})
    <3> DEFINE u == quasi88_key(q, "KANA", TRUE)  d == quasi88_key(q, "KANA", FALSE)
    <3>1. Wired(u, n) /\ Kept(q, u) /\ Good(u, (m \cup (L \cup E)) \cup {"KANA"})
      BY <1>1, <2>2, KeyOn
    <3>2. Wired(d, n + 6) /\ Kept(q, d) /\ Good(d, (m \cup (L \cup E)) \ {"KANA"})
      BY <1>0, <1>1, <2>2, KeyOff
    <3>3. Wired(d, n)
      BY <1>0, <3>2, WiredFor
    <3>4. e = u \/ e = d
      <4>1. (~kanaMode) = TRUE \/ (~kanaMode) = FALSE
        OBVIOUS
      <4> QED BY <4>1, Zenon
    <3> HIDE DEF e, u, d
    <3> QED BY <3>1, <3>2, <3>3, <3>4 DEF Good
  <2> HIDE DEF r, e
  <2>4. Good(e, (m \cup L) \cup E)
    BY <2>3 DEF Good, Locks
  <2> QED BY <1>1, <2>1, <2>3, <2>4, KeptTwice DEF r, L
<1>4. CASE key # _last_key /\ ~IsKana(key)
  <2> DEFINE o == Emu(q, _last_key, FALSE)  e == Emu(o, key, TRUE)
  <2>1. r.k = e /\ r.last = key
    BY <1>4 DEF keyboard, FirstKey
  <2> HIDE DEF r, q
  <2>2. Wired(o, n + 6) /\ Kept(k, o) /\ Good(o, m \cup E) /\ o.mode = "EXEC"
    <3>1. CASE _last_key = None
      BY <1>1, <3>1 DEF Emu, LastBits, Kept, Good
    <3>2. CASE _last_key # None
      <4> DEFINE code == hid_to_emu[_last_key]  B == Assumed(k, code)
      <4>1. o = quasi88_key(q, code, FALSE)
        BY <3>2 DEF Emu
      <4>2. Assumed(q, code) = B /\ q.mode = "EXEC" /\ L = B
        BY <1>1, <3>2, AssignedKept DEF Kept, LastBits
      <4> HIDE DEF o, code, B, L
      <4>3. Wired(o, n + 6) /\ Kept(q, o) /\ Good(o, (m \cup (B \cup E)) \ B)
        BY <1>0, <1>1, <4>1, <4>2, KeyOff
      <4>4. Good(o, m \cup E)
        BY <4>3 DEF Good
      <4>5. Kept(k, o) /\ o.mode = "EXEC"
        BY <1>1, <4>3, KeptTwice DEF Kept
      <4> QED BY <4>3, <4>4, <4>5
    <3> QED BY <3>1, <3>2
  <2> HIDE DEF o
  <2>3. CASE key = None
    <3>1. e = o
      BY <2>3 DEF Emu
    <3> HIDE DEF e
    <3>2. Wired(o, n)
      BY <1>0, <2>2, WiredFor
    <3> QED BY <2>1, <2>2, <2>3, <3>1, <3>2 DEF LastBits, Good, r
  <2>4. CASE key # None
    <3> DEFINE code == hid_to_emu[key]
    <3>1. e = quasi88_key(o, code, TRUE)
      BY <2>4 DEF Emu
    <3>2. Assumed(o, code) = LastBits(k, key)
      BY <2>2, <2>4, AssignedKept DEF LastBits
    <3> HIDE DEF e, code
    <3>3. Wired(e, n) /\ Kept(o, e) /\ Good(e, (m \cup E) \cup LastBits(k, key))
      BY <2>2, <3>1, <3>2, KeyOn
    <3>4. Good(e, (m \cup LastBits(k, key)) \cup E)
      BY <3>3 DEF Good
    <3> QED BY <2>1, <2>2, <3>3, <3>4, KeptTwice DEF r
  <2> QED BY <2>3, <2>4
<1> QED BY <1>2, <1>3, <1>4
-----------------------------------------------------------------------------
(* A frame is over, and the other steps                                    *)

LEMMA UpdateIs ==
  ASSUME NEW k, NEW n \in Nat, Wired(k, n)
  PROVE  LET r == keyboard_update(k)
         IN  /\ Wired(r, n) /\ r.mode = k.mode /\ r.key_func = k.key_func
             /\ \A X : Good(k, X) => Good(r, X)
<1> DEFINE r == keyboard_update(k)  o == romaji_output(k)
<1>1. CASE k.mode = "EXEC" /\ k.romaji_input_mode
  <2>1. r = o
    BY <1>1 DEF keyboard_update
  <2>2. /\ Ring(o, n) /\ IsKb(o) /\ o.mode = k.mode /\ o.key_func = k.key_func
        /\ o.romaji_type = k.romaji_type /\ o.next_mode = k.next_mode
        /\ o.romaji_input_mode = k.romaji_input_mode /\ \A X : Good(k, X) => Good(o, X)
    BY OutputIs DEF Wired
  <2> HIDE DEF o, r
  <2>3. Wired(o, n)
    BY <1>1, <2>2 DEF Wired
  <2> QED BY <2>1, <2>2, <2>3 DEF r
<1>2. CASE ~(k.mode = "EXEC" /\ k.romaji_input_mode)
  BY <1>2 DEF keyboard_update
<1> QED BY <1>1, <1>2

LEMMA SwitchIs ==
  ASSUME NEW k, NEW n \in Nat, Wired(k, n), k.next_mode # k.mode
  PROVE  LET r == keyboard_switch(k) IN Wired(r, n) /\ r.mode # "EXEC"
<1> DEFINE q == [k EXCEPT !.mode = k.next_mode]  r == romaji_clear(q)
<1>1. k.mode = "EXEC" /\ k.next_mode # "EXEC" /\ IsKb(k) /\ Ring(k, n) /\ n < ROMAJI_QUE_SIZE
  BY WiredKept DEF Wired
<1>2. keyboard_switch(k) = IF q.mode = "EXEC" THEN q ELSE r
  BY DEF keyboard_switch
<1>3. /\ IsKb(q) /\ q.mode = k.next_mode /\ q.next_mode = k.next_mode /\ SameRing(k, q)
      /\ q.key_func = k.key_func /\ q.romaji_type = k.romaji_type
  BY <1>1 DEF IsKb, SameRing
<1> HIDE DEF q
<1>4. Ring(q, n)
  BY <1>1, <1>3, SameRingIs
<1>5. Ring(r, n) /\ Same(q, r) /\ ~KeyDown(r)
  BY <1>1, <1>3, <1>4, ClearIs
<1> HIDE DEF r
<1>6. Wired(r, n) /\ r.mode # "EXEC"
  BY <1>1, <1>3, <1>5 DEF Wired, Same, Kept
<1> QED BY <1>1, <1>2, <1>3, <1>6

LEMMA InitIs ==
  ASSUME NEW type \in DOMAIN list, NEW f \in Functions
  PROVE  LET k == keyboard_init(type, f) IN Wired(k, 0) /\ k.down = {}
<1> DEFINE k == keyboard_init(type, f)
<1>1. /\ k.romaji_set = 0 /\ k.romaji_ptr = 0 /\ k.press_timer = 0 /\ k.down = {}
      /\ k.romaji_type = type /\ k.key_func = f /\ k.mode = "EXEC"
      /\ DOMAIN k.romaji_que = 0..(ROMAJI_QUE_SIZE - 1) /\ IsKb(k)
  BY DEF keyboard_init, IsKb
<1> HIDE DEF k
<1>2. 0 \in Places /\ ~KeyDown(k)
  BY <1>1, SizeIs DEF Places, KeyDown, KEY_ON_OFF_INTERVAL
<1>3. Waiting(k) = 0
  BY <1>1, <1>2, WaitingIs
<1>4. Ring(k, 0)
  BY <1>1, <1>2, <1>3, SizeIs DEF Ring, Places
<1> QED BY <1>1, <1>2, <1>4 DEF Wired, k

-----------------------------------------------------------------------------
(* No key is stuck                                                         *)

\* The keys that are down in the mode EXEC are those of the last report, of the
\* count of five looks, of the ring from the press of one to its release, the
\* locks, and what was overlooked.
Inv ==
  /\ scene \in Scenes /\ mods \in SUBSET Mods /\ Wired(kb, 0)
  /\ kb.mode = "EXEC" =>
       Good(kb, mods \cup LastBits(kb, _last_key) \cup PressBits(kb, pressedKey88) \cup overlooked)

LEMMA InvNoStuck == Inv => NoStuck
<1> SUFFICES ASSUME Inv, kb.mode = "EXEC"
             PROVE  kb.down \subseteq Held \cup Locks \cup overlooked \cup Frozen
  BY DEF NoStuck
<1> QED BY DEF Inv, Good, Held, Frozen, LastBits, PressBits, Rom

LEMMA InitInv == Init => Inv
<1> SUFFICES ASSUME Init PROVE Inv
  OBVIOUS
<1>1. PICK type \in scene.types, f \in Functions : kb = keyboard_init(type, f)
  BY DEF Init
<1>2. scene \in Scenes /\ type \in DOMAIN list
  BY InputsAssumption DEF Init
<1>3. Wired(kb, 0) /\ kb.down = {}
  BY <1>1, <1>2, InitIs
<1> QED BY <1>2, <1>3 DEF Init, Inv, Good

\* The modifiers of the last report.
ModsOf(report) == IF report = <<>> THEN mods ELSE report[1]

LEMMA ReportIs ==
  ASSUME Inv, NEW k, NEW n \in Nat, Wired(k, n + 6), k.mode = "EXEC", Kept(kb, k), NEW E,
         Good(k, (mods \cup LastBits(kb, _last_key)) \cup E), NEW report \in Reports, NEW r,
         r = Reported(k, report), NEW m, m = ModsOf(report)
  PROVE  /\ Wired(r.k, n) /\ Kept(kb, r.k) /\ m \in SUBSET Mods
         /\ Good(r.k, (m \cup LastBits(kb, r.last)) \cup E)
<1>0. n + 6 \in Nat /\ n <= n + 6 /\ mods \in SUBSET Mods /\ scene \in Scenes
  BY DEF Inv
<1>1. CASE report = <<>>
  <2>1. r.k = k /\ r.last = _last_key /\ m = mods
    BY <1>1 DEF NoReport, Reported, ModsOf
  <2>2. Wired(k, n)
    BY <1>0, WiredFor
  <2> QED BY <1>0, <2>1, <2>2
<1>2. CASE report # <<>>
  <2> DEFINE key == report[2]
  <2>1. report[1] \in scene.mods
    BY <1>2 DEF Reports
  <2>2. m = report[1] /\ m \in SUBSET Mods /\ r = keyboard(k, m, key)
    BY <1>0, <1>2, <2>1, InputsAssumption DEF Mods, Reported, ModsOf
  <2> HIDE DEF key
  <2>3. Good(k, (mods \cup LastBits(k, _last_key)) \cup E)
    BY BitsKept
  <2>4. Wired(r.k, n) /\ Kept(k, r.k) /\ Good(r.k, (m \cup LastBits(k, r.last)) \cup E)
    BY <1>0, <2>2, <2>3, KeyboardIs
  <2>5. LastBits(k, r.last) = LastBits(kb, r.last)
    BY BitsKept
  <2>6. Kept(kb, r.k)
    BY <2>4, KeptTwice
  <2> QED BY <2>2, <2>4, <2>5, <2>6
<1> QED BY <1>1, <1>2

\* What nobody knows of after a look, of what was down before and what it
\* pressed.
Unknown(c) == overlooked \cup Overlooked(c, AutoTurn.types)

\* Of the letters, one of each source, each takes its room from what is left.
LEMMA LookKeys ==
  ASSUME Inv, Room, kb.mode = "EXEC", NEW c \in Chars, NEW report \in Reports,
         PollLooks(c, report)
  PROVE  /\ mods' \in SUBSET Mods
         /\ \E u : /\ kb' = keyboard_update(u) /\ Wired(u, 0) /\ Kept(kb, u)
                   /\ Good(u, mods' \cup LastBits(kb, _last_key')
                                   \cup PressBits(kb, pressedKey88') \cup Unknown(c))
<1> DEFINE t == AutoTurn.types
           g == LetGo(kb)
           s == keyPress(g, c)
           r == Reported(s, report)
           u == keyPress(r.k, t)
           m == ModsOf(report)
           L == LastBits(kb, _last_key)
           P == PressBits(kb, Code(c))
           Q == PressBits(kb, Code(t))
           R == LastBits(kb, r.last)
<1>1. /\ kb' = keyboard_update(u) /\ _last_key' = r.last /\ mods' = m
      /\ pressedKey88' = IF Code(t) = None THEN Code(c) ELSE Code(t)
  BY DEF PollLooks, Typing, ModsOf
\* Any two of these sets together are what is down of one source and the rest.
<1>2. P \cup Q \subseteq PressBits(kb, pressedKey88') \cup Overlooked(c, t)
  BY <1>1 DEF PressBits, Overlooked
<1>3. Wired(g, 12 + 6) /\ Kept(kb, g) /\ Good(g, (mods \cup L) \cup overlooked)
  <2>1. Wired(kb, 18)
    BY DEF Inv, Room, PollKeys, Wired, Ring
  <2>2. Good(kb, ((mods \cup L) \cup overlooked) \cup PressBits(kb, pressedKey88))
    BY DEF Inv, Good
  <2> QED BY <2>1, <2>2, LetGoIs
<1>4. g.mode = "EXEC" /\ PressBits(g, Code(c)) = P
  BY <1>3, BitsKept
<1> HIDE DEF g, t, L, Q
<1>5. Wired(s, 6 + 6) /\ Kept(g, s) /\ Good(s, ((mods \cup L) \cup overlooked) \cup P)
  BY <1>3, <1>4, PressIs
<1> HIDE DEF s, P
<1>6. Kept(kb, s) /\ s.mode = "EXEC" /\ Good(s, (mods \cup L) \cup (overlooked \cup P))
  BY <1>3, <1>4, <1>5, KeptTwice DEF Kept, Good
<1> HIDE DEF m
<1>7. Wired(r.k, 0 + 6) /\ Kept(kb, r.k) /\ m \in SUBSET Mods
      /\ Good(r.k, (m \cup R) \cup (overlooked \cup P))
  <2> DEFINE E == overlooked \cup P
  <2>1. Good(s, (mods \cup LastBits(kb, _last_key)) \cup E)
    BY <1>6 DEF L
  <2>2. m = ModsOf(report)
    BY DEF m
  <2> HIDE DEF E
  <2>3. /\ Wired(r.k, 6) /\ Kept(kb, r.k) /\ m \in SUBSET Mods
        /\ Good(r.k, (m \cup LastBits(kb, r.last)) \cup E)
    BY <1>5, <1>6, <2>1, <2>2, ReportIs
  <2> QED BY <2>3 DEF E
<1> HIDE DEF r, R
<1>8. r.k.mode = "EXEC" /\ PressBits(r.k, Code(t)) = Q
  BY <1>7, BitsKept DEF Q
<1>9. Wired(u, 0) /\ Kept(r.k, u) /\ Good(u, ((m \cup R) \cup (overlooked \cup P)) \cup Q)
  BY <1>7, <1>8, PressIs
<1> HIDE DEF u
<1>10. Kept(kb, u)
  BY <1>7, <1>9, KeptTwice
<1>11. Good(u, mods' \cup LastBits(kb, _last_key') \cup PressBits(kb, pressedKey88') \cup Unknown(c))
  <2>1. ((m \cup R) \cup (overlooked \cup P)) \cup Q
          \subseteq mods' \cup LastBits(kb, _last_key') \cup PressBits(kb, pressedKey88')
                          \cup Unknown(c)
    BY <1>1, <1>2 DEF R, Unknown, t
  <2> QED BY <1>9, <2>1 DEF Good
<1> QED BY <1>1, <1>7, <1>9, <1>10, <1>11

\* In the other modes no key comes through.
LEMMA IdleIs ==
  ASSUME kb.mode # "EXEC", NEW c, NEW report, PollLooks(c, report)
  PROVE  kb' = kb
<1> DEFINE t == AutoTurn.types
           g == LetGo(kb)
           s == keyPress(g, c)
           r == Reported(s, report)
           u == keyPress(r.k, t)
<1>1. kb' = keyboard_update(u)
  BY DEF PollLooks, Typing
<1>2. g = kb
  BY KeyIdle DEF LetGo
<1> HIDE DEF g
<1>3. s = kb
  BY <1>2, KeyIdle DEF keyPress
<1> HIDE DEF s, t
<1>4. r.k = kb
  <2>1. CASE report = <<>>
    BY <1>3, <2>1 DEF NoReport, Reported
  <2>2. CASE report # <<>>
    <3> DEFINE m == report[1]  key == report[2]
    <3>1. r = keyboard(kb, m, key)
      BY <1>3, <2>2 DEF Reported
    <3> HIDE DEF r, m, key
    <3>2. Modifiers(kb, m) = kb
      BY KeyIdle DEF Modifiers
    <3>3. \A x : Emu(kb, x, TRUE) = kb /\ Emu(kb, x, FALSE) = kb /\ Emu(kb, x, ~kanaMode) = kb
      BY KeyIdle DEF Emu
    <3> QED BY <3>1, <3>2, <3>3 DEF keyboard, FirstKey, NoReport
  <2> QED BY <2>1, <2>2
<1> HIDE DEF r
<1>5. u = kb
  BY <1>4, KeyIdle DEF keyPress
<1> QED BY <1>1, <1>5 DEF keyboard_update

LEMMA LookInv ==
  ASSUME Inv, Room, NEW c \in Chars, NEW report \in Reports, PollLooks(c, report),
         StillDown(Unknown(c)), scene' = scene
  PROVE  Inv'
<1>1. CASE kb.mode = "EXEC"
  <2>1. PICK u : /\ kb' = keyboard_update(u) /\ Wired(u, 0) /\ Kept(kb, u)
                 /\ Good(u, mods' \cup LastBits(kb, _last_key')
                                 \cup PressBits(kb, pressedKey88') \cup Unknown(c))
    BY <1>1, LookKeys
  <2>2. mods' \in SUBSET Mods
    BY <1>1, LookKeys
  <2>3. /\ Wired(kb', 0) /\ kb'.key_func = u.key_func
        /\ Good(kb', mods' \cup LastBits(kb, _last_key')
                          \cup PressBits(kb, pressedKey88') \cup Unknown(c))
    BY <2>1, UpdateIs
  <2>4. kb'.key_func = kb.key_func
    BY <2>1, <2>3 DEF Kept
  <2>5. /\ LastBits(kb', _last_key') = LastBits(kb, _last_key')
        /\ PressBits(kb', pressedKey88') = PressBits(kb, pressedKey88')
    BY <2>4 DEF LastBits, PressBits, Assumed, Assigned
  <2>6. Good(kb', mods' \cup LastBits(kb', _last_key')
                        \cup PressBits(kb', pressedKey88') \cup overlooked')
    BY <2>3, <2>5 DEF Good, StillDown
  <2> QED BY <2>2, <2>3, <2>6 DEF Inv
<1>2. CASE kb.mode # "EXEC"
  <2>1. kb' = kb
    BY <1>2, IdleIs
  <2>2. mods' \in SUBSET Mods
    <3>1. mods' = IF report = <<>> THEN mods ELSE report[1]
      BY DEF PollLooks, Typing
    <3>2. report # <<>> => report[1] \in scene.mods
      BY DEF Reports
    <3> QED BY <3>1, <3>2, InputsAssumption DEF Inv, Mods
  <2> QED BY <1>2, <2>1, <2>2 DEF Inv
<1> QED BY <1>1, <1>2

LEMMA HoldsInv ==
  ASSUME Inv, PollHolds, StillDown(overlooked), scene' = scene
  PROVE  Inv'
<1>1. kb' = keyboard_update(kb) /\ UNCHANGED <<mods, _last_key, pressedKey88>>
  BY DEF PollHolds
<1>2. Wired(kb', 0) /\ kb'.mode = kb.mode /\ kb'.key_func = kb.key_func
      /\ \A X : Good(kb, X) => Good(kb', X)
  BY <1>1, UpdateIs DEF Inv
<1>3. LastBits(kb', _last_key) = LastBits(kb, _last_key)
      /\ PressBits(kb', pressedKey88) = PressBits(kb, pressedKey88)
  BY <1>2 DEF LastBits, PressBits, Assumed, Assigned
<1>4. Good(kb', mods \cup LastBits(kb, _last_key) \cup PressBits(kb, pressedKey88) \cup overlooked)
      => Good(kb', mods \cup LastBits(kb, _last_key) \cup PressBits(kb, pressedKey88)
                        \cup overlooked')
  BY DEF Good, StillDown
<1> QED BY <1>1, <1>2, <1>3, <1>4 DEF Inv

LEMMA NextInv ==
  ASSUME Inv, Room, [Next]_vars
  PROVE  Inv'
<1>1. CASE UNCHANGED vars
  BY <1>1 DEF vars, autoVars, Inv
<1>2. CASE Poll
  <2>1. scene' = scene
    BY <1>2 DEF Poll
  <2>2. CASE PollHolds /\ StillDown(overlooked)
    BY <2>1, <2>2, HoldsInv
  <2>3. ASSUME NEW c \in Chars, NEW report \in Reports, PollLooks(c, report),
               StillDown(Unknown(c))
        PROVE  Inv'
    BY <2>1, <2>3, LookInv
  <2> QED BY <1>2, <2>2, <2>3 DEF Poll, Unknown
<1>3. CASE Switch
  <2>1. kb.next_mode # kb.mode /\ kb' = keyboard_switch(kb) /\ UNCHANGED <<scene, mods>>
    BY <1>3 DEF Switch
  <2>2. Wired(kb', 0) /\ kb'.mode # "EXEC"
    BY <2>1, SwitchIs DEF Inv
  <2> QED BY <2>1, <2>2 DEF Inv
<1>4. CASE MenuReset
  <2>1. kb' = keyboard_reset(kb) /\ UNCHANGED <<scene, mods>>
    BY <1>4 DEF MenuReset
  <2>2. Wired(kb', 0) /\ kb'.down = {}
    BY <2>1, ResetIs, SizeIs DEF Inv
  <2> QED BY <2>1, <2>2 DEF Inv, Good
<1>5. CASE MenuFile
  BY <1>5 DEF MenuFile, Inv
<1> QED BY <1>1, <1>2, <1>3, <1>4, <1>5 DEF Next

\* A key that is down is held by the last report, by the count of five looks or
\* by romaji_output, whatever comes from the sources, as long as the ring has
\* room for one look more; but for a character of the serial line in the look of
\* one of a file, and the kana key of a romaji mode that was left (quasi88_key,
\* checkKeyboard, romaji_input, romaji_clear).
THEOREM NoStuckHolds == Spec /\ []Room => []NoStuck
<1>1. Init => Inv
  BY InitInv
<1>2. Inv /\ Room /\ [Next]_vars => Inv'
  BY NextInv
<1>3. Inv => NoStuck
  BY InvNoStuck
<1> QED BY <1>1, <1>2, <1>3, PTL DEF Spec

-----------------------------------------------------------------------------
(* The drawing of the LCD                                                  *)

Ends    == {"restart", "refuse"}

\* A list of steps that ends by releasing the drawing, or by being refused.
Closed(s) == s \in Seq(Steps) /\ s # <<>> /\ Last(s) \in Ends

Closing == todo # <<>> /\ todo # Need => Last(todo) \in Ends

\* What is left stopped will be restarted by the call under way.
Unreleased == stopDrawingFlag /\ (todo = <<>> \/ todo = Need) => refused

Guarded == stopDrawingFlag /\ WillDraw => decided

\* No request waits for a drawing while one is about to be taken back.
AskedFor ==
  /\ owed => needDrawUpdateFlag
  /\ pc = "stores" /\ "need" \in left => ~owed

DrawInv == TypeOK /\ Closing /\ Unreleased /\ Guarded /\ AskedFor

-----------------------------------------------------------------------------
LEMMA Joined == ASSUME NEW s \in Seq(Steps), NEW t \in Seq(Steps)
                PROVE  s \o t \in Seq(Steps)
OBVIOUS

LEMMA JoinedClosed == ASSUME NEW s \in Seq(Steps), NEW t, Closed(t)
                      PROVE  Closed(s \o t)
<1>1. s \o t \in Seq(Steps) /\ Len(s \o t) = Len(s) + Len(t) /\ Len(t) > 0
  BY DEF Closed
<1>2. (s \o t)[Len(s) + Len(t)] = t[Len(t)]
  BY <1>1 DEF Closed
<1> QED
  BY <1>1, <1>2 DEF Closed, Last

LEMMA EmptyList == <<>> \in Seq(Steps)
OBVIOUS

LEMMA StepLists == /\ Wait \in Seq(Steps) /\ Stop \in Seq(Steps) /\ Need \in Seq(Steps)
                   /\ Card \in Seq(Steps) /\ Lcd \in Seq(Steps)
                   /\ Closed(Restart) /\ Closed(Refuse)
BY DEF Wait, Stop, Need, Card, Lcd, Restart, Refuse, Closed, Last, Ends, Steps

LEMMA FileOpClosed == Closed(FileOp) /\ Closed(Taken) /\ Free \in Seq(Steps)
<1>1. Wait \o Stop \o Card \in Seq(Steps)
  BY StepLists, Joined
<1> QED
  BY <1>1, StepLists, JoinedClosed DEF FileOp, Taken, Free

LEMMA RewindClosed == Closed(Rewind)
<1>1. Wait \o Stop \o FileOp \o FileOp \in Seq(Steps)
  BY StepLists, FileOpClosed, Joined DEF Closed
<1> QED
  BY <1>1, StepLists, JoinedClosed DEF Rewind

LEMMA OsdFopenClosed == \A c \in OsdFopen : Closed(c)
<1>1. Wait \o Card \in Seq(Steps)
  BY StepLists, Joined
<1> QED
  BY <1>1, StepLists, JoinedClosed DEF OsdFopen

LEMMA SnapshotClosed == \A c \in Snapshot : Closed(c)
<1>1. Free \o Free \in Seq(Steps) /\ Free \o Taken \o Free \o Free \in Seq(Steps)
  BY FileOpClosed, Joined DEF Closed
<1>2. ASSUME NEW open \in OsdFopen
      PROVE  Closed(Free \o Free \o open) /\ Closed(Free \o Taken \o Free \o Free \o open)
  BY <1>1, OsdFopenClosed, JoinedClosed
<1> QED
  BY <1>2 DEF Snapshot

LEMMA MenuClosed == \A c \in Menu : Closed(c)
<1> SUFFICES ASSUME NEW files \in MenuFiles
             PROVE  Closed(Wait \o Stop \o Lcd \o files \o Lcd \o Need \o Restart)
  BY DEF Menu
<1>1. files \in Seq(Steps)
  <2>1. ASSUME NEW open \in OsdFopen
        PROVE  open \in Seq(Steps) /\ FileOp \o open \in Seq(Steps)
    BY OsdFopenClosed, FileOpClosed, Joined DEF Closed
  <2> QED
    BY <2>1, EmptyList, FileOpClosed DEF MenuFiles, Closed
<1>2. Wait \o Stop \o Lcd \o files \in Seq(Steps)
  BY <1>1, StepLists, Joined
<1>3. Wait \o Stop \o Lcd \o files \o Lcd \o Need \in Seq(Steps)
  BY <1>2, StepLists, Joined
<1> QED
  BY <1>3, StepLists, JoinedClosed

LEMMA CallsClosed == \A c \in Calls : c = Need \/ Closed(c)
BY FileOpClosed, RewindClosed, OsdFopenClosed, SnapshotClosed, MenuClosed DEF Calls

-----------------------------------------------------------------------------
\* The list after one of its steps: the end stays the end.
LEMMA Advanced ==
  ASSUME todo \in Seq(Steps), Closing, Advance, NEW s \in Steps, AtStep(<<s>>)
  PROVE  /\ todo' \in Seq(Steps) /\ Closing' /\ pc' = pc /\ left' = left
         /\ s \notin Ends /\ todo # Need => todo' # <<>> /\ todo' # Need
         /\ todo = Need => s = "need" /\ todo' = <<>>
<1>1. todo # <<>> /\ Head(todo) = s /\ todo' = Tail(todo) /\ pc' = pc /\ left' = left
  BY DEF AtStep, Advance
<1>2. /\ Tail(todo) \in Seq(Steps) /\ Len(Tail(todo)) = Len(todo) - 1
      /\ \A i \in 1..Len(todo) - 1 : Tail(todo)[i] = todo[i + 1]
  BY <1>1
<1>3. CASE todo = Need
  BY <1>1, <1>2, <1>3 DEF Need, Closing
<1>4. CASE todo # Need /\ Len(todo) = 1
  <2>1. s \in Ends
    BY <1>1, <1>4 DEF Closing, Last
  <2> QED
    BY <1>1, <1>2, <1>4, <2>1 DEF Closing
<1>5. CASE todo # Need /\ Len(todo) # 1
  <2>1. Len(todo) \in Nat /\ Len(todo) > 1
    BY <1>1, <1>5
  <2>2. Last(Tail(todo)) = Last(todo) /\ Tail(todo) # <<>> /\ Last(todo) \in Ends
    BY <1>1, <1>2, <1>5, <2>1 DEF Last, Closing
  <2>3. Tail(todo) # Need
    <3>1. Last(Need) = "need"
      BY DEF Need, Last
    <3> QED
      BY <2>2, <3>1 DEF Ends
  <2> QED
    BY <1>1, <1>2, <1>5, <2>2, <2>3 DEF Closing
<1> QED
  BY <1>3, <1>4, <1>5
-----------------------------------------------------------------------------
LEMMA InitDrawInv == DrawInit => DrawInv
BY EmptyList DEF DrawInit, DrawInv, TypeOK, Closing, Unreleased, Guarded, WillDraw, AskedFor

LEMMA CallStep == DrawInv /\ Call => DrawInv'
<1> SUFFICES ASSUME DrawInv, Call PROVE DrawInv'
  OBVIOUS
<1>1. todo' \in Seq(Steps) /\ todo' # <<>> /\ (todo' = Need \/ Last(todo') \in Ends)
  BY CallsClosed, StepLists DEF Call, Closed, Need
<1>2. TypeOK'
  BY <1>1 DEF DrawInv, TypeOK, Call, flags
<1>3. Closing'
  BY <1>1 DEF Closing
<1>4. Unreleased'
  BY <1>1 DEF DrawInv, Unreleased, Call, flags
<1>5. Guarded'
  BY DEF DrawInv, Guarded, WillDraw, Call, flags
<1>6. AskedFor'
  BY DEF DrawInv, AskedFor, Call, flags
<1> QED
  BY <1>2, <1>3, <1>4, <1>5, <1>6 DEF DrawInv

LEMMA EmulatorStep == DrawInv /\ Emulator => DrawInv'
<1> SUFFICES ASSUME DrawInv, Emulator PROVE DrawInv'
  OBVIOUS
<1> USE DEF DrawInv
<1>1. CASE WaitDrawing
  <2>1. todo' \in Seq(Steps) /\ Closing' /\ pc' = pc /\ left' = left /\ todo # Need
        /\ todo' # <<>> /\ todo' # Need
    BY <1>1, Advanced DEF WaitDrawing, TypeOK, Wait, Steps, Ends
  <2> QED
    BY <1>1, <2>1 DEF WaitDrawing, TypeOK, Unreleased, Guarded, WillDraw, AskedFor, flags
<1>2. CASE StopDrawing
  <2>1. todo' \in Seq(Steps) /\ Closing' /\ pc' = pc /\ left' = left /\ todo # Need
        /\ todo' # <<>> /\ todo' # Need
    BY <1>2, Advanced DEF StopDrawing, TypeOK, Stop, Steps, Ends
  <2>2. TypeOK' /\ Unreleased'
    BY <1>2, <2>1 DEF StopDrawing, TypeOK, Unreleased, WillDraw
  <2>3. Guarded' /\ AskedFor'
    BY <1>2, <2>1 DEF StopDrawing, TypeOK, Guarded, WillDraw, AskedFor
  <2> QED
    BY <2>1, <2>2, <2>3
<1>3. CASE RestartDrawing
  <2>1. todo' \in Seq(Steps) /\ Closing' /\ pc' = pc /\ left' = left
    BY <1>3, Advanced DEF RestartDrawing, TypeOK, Restart, Steps
  <2> QED
    BY <1>3, <2>1 DEF RestartDrawing, TypeOK, Unreleased, Guarded, AskedFor
<1>4. CASE RequestDrawing
  <2>1. todo' \in Seq(Steps) /\ Closing' /\ pc' = pc /\ left' = left
        /\ (todo # Need => todo' # <<>> /\ todo' # Need)
    BY <1>4, Advanced DEF RequestDrawing, TypeOK, Need, Steps, Ends
  <2> QED
    BY <1>4, <2>1 DEF RequestDrawing, TypeOK, Unreleased, Guarded, WillDraw, AskedFor, Withdraws
<1>5. CASE UseCardOrLcd
  <2>1. todo' \in Seq(Steps) /\ Closing' /\ pc' = pc /\ left' = left
        /\ todo' # <<>> /\ todo' # Need
    BY <1>5, Advanced DEF UseCardOrLcd, TypeOK, Card, Lcd, Steps, Ends
  <2> QED
    BY <1>5, <2>1 DEF UseCardOrLcd, TypeOK, Unreleased, Guarded, WillDraw, AskedFor, flags
<1>6. CASE RefuseOpen
  <2>1. todo' \in Seq(Steps) /\ Closing' /\ pc' = pc /\ left' = left
    BY <1>6, Advanced DEF RefuseOpen, TypeOK, Refuse, Steps
  <2> QED
    BY <1>6, <2>1 DEF RefuseOpen, TypeOK, Unreleased, Guarded, WillDraw, AskedFor, flags
<1> QED
  BY <1>1, <1>2, <1>3, <1>4, <1>5, <1>6 DEF Emulator

LEMMA ThreadStep == DrawInv /\ Thread => DrawInv'
<1> SUFFICES ASSUME DrawInv, Thread PROVE DrawInv'
  OBVIOUS
<1> USE DEF DrawInv, TypeOK, Closing, Unreleased, Guarded, WillDraw, AskedFor, flags
<1>1. CASE TestNeed
  BY <1>1 DEF TestNeed, Tested
<1>2. CASE TestStop
  BY <1>2 DEF TestStop, Tested
<1>3. CASE Mark
  BY <1>3 DEF Mark
<1>4. CASE DrawPicture
  BY <1>4 DEF DrawPicture
<1>5. CASE Unmark
  BY <1>5 DEF Unmark, Stored
<1>6. CASE ClearNeed
  BY <1>6 DEF ClearNeed, Stored
<1>7. CASE Wake
  BY <1>7 DEF Wake
<1> QED
  BY <1>1, <1>2, <1>3, <1>4, <1>5, <1>6, <1>7 DEF Thread

LEMMA DrawInvariance == DrawSpec => []DrawInv
<1>1. DrawInv /\ UNCHANGED drawVars => DrawInv'
  BY DEF DrawInv, TypeOK, Closing, Unreleased, Guarded, WillDraw, AskedFor, drawVars, flags
<1>2. DrawInv /\ [DrawNext]_drawVars => DrawInv'
  BY <1>1, CallStep, EmulatorStep, ThreadStep DEF DrawNext
<1> QED
  BY <1>2, InitDrawInv, PTL DEF DrawSpec

\* The mark is up exactly while the thread draws, whatever the order of its
\* stores, and the other variables keep their types.
THEOREM DrawTypeCorrect == DrawSpec => []TypeOK
<1>1. DrawInv => TypeOK
  BY DEF DrawInv
<1> QED
  BY <1>1, DrawInvariance, PTL

\* While the drawing is stopped, only a drawing decided on before the stop
\* can be under way.
THEOREM StopIsObeyed == DrawSpec => []OnlyDecidedDrawings
<1>1. DrawInv => OnlyDecidedDrawings
  BY DEF DrawInv, Guarded, OnlyDecidedDrawings, WillDraw
<1> QED
  BY <1>1, DrawInvariance, PTL

\* No call leaves the drawing stopped, but one that found no free stream.
THEOREM StopIsReleased == DrawSpec => []StopReleased
<1>1. DrawInv => StopReleased
  BY DEF DrawInv, Unreleased, StopReleased
<1> QED
  BY <1>1, DrawInvariance, PTL

\* No request made outside a drawing is taken back before it is drawn.
THEOREM RequestsAreKept == DrawSpec => []RequestKept
<1>1. DrawInv => RequestKept
  BY DEF DrawInv, AskedFor, RequestKept
<1> QED
  BY <1>1, DrawInvariance, PTL

=============================================================================
