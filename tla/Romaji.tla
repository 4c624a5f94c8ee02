------------------------------- MODULE Romaji -------------------------------
(***************************************************************************)
(* Typing kana in Latin letters (romaji.c, romaji-table.h): letters are    *)
(* collected until they spell a row of the table, the keys of the kana are *)
(* queued, and romaji_output presses one of them at a time in the key      *)
(* matrix, four frames down and four up.                                   *)
(*                                                                         *)
(* The functions take and give back the record k of the keyboard.  Of it   *)
(* they use                                                                *)
(*   down         the keys of the matrix that are down (key_scan)          *)
(*   input_buf    the letters collected                                    *)
(*   romaji_que, romaji_set, romaji_ptr   the ring of keys                 *)
(*   press_timer  frames since the first of them went down                 *)
(*   romaji_type  the table in use                                         *)
(* and two ghosts: typed, the letters since romaji_clear, and said, the    *)
(* keys pressed since then, each with the state of SHIFT it came with.     *)
(***************************************************************************)
EXTENDS Integers, Sequences, SequencesExt, TLC

CONSTANT ROMAJI_QUE_SIZE   \* a power of two

ASSUME RomajiAssumption == ROMAJI_QUE_SIZE \in Nat \ {0}

KEY_ON_OFF_INTERVAL == 4

Plain(key) == [key |-> key, shift |-> FALSE]
Shifted(key) == [key |-> key, shift |-> TRUE]

(***************************************************************************)
(* The tables: of each, the rows that differ in what they do (one key or   *)
(* several, one to four letters, in one table but not in another).  No row *)
(* is the beginning of another.                                            *)
(***************************************************************************)
Row(s, keys) == [s |-> s, list |-> keys]

\* The keys of the kana.  XR_NN and XR_tu are rows by themselves.
XR__A == Plain("3")
XR__U == Plain("4")
XR_KA == Plain("T")
XR_SA == Plain("X")
XR_SI == Plain("D")
XR_TA == Plain("Q")
XR_TI == Plain("A")
XR_TU == Plain("Z")
XR_NA == Plain("U")
XR_NI == Plain("I")
XR_YA == Plain("7")
XR_jj == Plain("@")
XR__a == Shifted("3")
XR_ya == Shifted("7")
XR_NN == <<Plain("Y")>>
XR_tu == <<Shifted("Z")>>
list_mark == <<Row(<<"SPACE">>, <<Plain("SPACE")>>), Row(<<"-">>, <<Plain("YEN")>>)>>

Common ==
  <<Row(<<"A">>, <<XR__A>>), Row(<<"U">>, <<XR__U>>),
    Row(<<"S", "A">>, <<XR_SA>>), Row(<<"Y", "A">>, <<XR_YA>>),
    Row(<<"J", "A">>, <<XR_SI, XR_jj, XR_ya>>),
    Row(<<"K", "A">>, <<XR_KA>>), Row(<<"N", "A">>, <<XR_NA>>),
    Row(<<"T", "A">>, <<XR_TA>>), Row(<<"T", "U">>, <<XR_TU>>),
    Row(<<"N", "Y", "A">>, <<XR_NI, XR_ya>>), Row(<<"T", "Y", "A">>, <<XR_TI, XR_ya>>),
    Row(<<"T", "S", "U">>, <<XR_TU>>), Row(<<"X", "T", "U">>, XR_tu),
    Row(<<"N", "'">>, XR_NN)>>
\* The row TSA of MS-IME ends with the small ya, those of the others with the
\* small a.
list_msime ==
  Common \o <<Row(<<"T", "S", "A">>, <<XR_TU, XR_ya>>), Row(<<"N", "N">>, XR_NN)>>
list_atok ==
  Common \o <<Row(<<"T", "S", "A">>, <<XR_TU, XR__a>>), Row(<<"X", "T", "S", "U">>, XR_tu),
              Row(<<"N", "N">>, XR_NN)>>
list_egg ==
  Common \o <<Row(<<"T", "S", "A">>, <<XR_TU, XR__a>>), Row(<<"X", "T", "S", "U">>, XR_tu)>>

(* romaji_init sorts a table by its letters; the marks follow it. *)
Order == <<"'", "A", "J", "K", "N", "S", "T", "U", "X", "Y">>
Place(c) == CHOOSE i \in DOMAIN Order : Order[i] = c
romajicmp(p, q) ==
  \/ IsStrictPrefix(p.s, q.s)
  \/ \E i \in DOMAIN p.s \cap DOMAIN q.s :
       /\ SubSeq(p.s, 1, i - 1) = SubSeq(q.s, 1, i - 1)
       /\ Place(p.s[i]) < Place(q.s[i])
Sorted(table) == SortSeq(table, romajicmp) \o list_mark
list == [egg |-> Sorted(list_egg), msime |-> Sorted(list_msime), atok |-> Sorted(list_atok)]

\* A row has one to three keys: its list has room for them and a 0.
ASSUME ListAssumption ==
  \A type \in DOMAIN list : \A i \in DOMAIN list[type] :
    LET keys == list[type][i].list IN Len(keys) \in 1..3 /\ DOMAIN keys = 1..Len(keys)

Letters == {"A", "J", "K", "N", "S", "T", "U", "X", "Y", "'", "SPACE", "-"}
\* The keys that are not letters and yet leave what was collected alone.
Quiet == {"SHIFT", "SHIFTL", "SHIFTR", "CAPS", "KANA", "GRAPH"}

(***************************************************************************)
(* One key of the matrix after another.                                    *)
(***************************************************************************)
Next1(p) == (p + 1) % ROMAJI_QUE_SIZE
WithShift(c) == {c.key} \cup (IF c.shift THEN {"SHIFT"} ELSE {})

PressFirst(k) ==
  LET c == k.romaji_que[k.romaji_ptr]
      down == k.down \cup WithShift(c)
  IN  [k EXCEPT !.down = down, !.press_timer = 1,
                !.said = Append(@, [key |-> c.key, shift |-> "SHIFT" \in down])]
ReleaseFirst(k) ==
  [k EXCEPT !.down = @ \ WithShift(k.romaji_que[k.romaji_ptr]),
            !.romaji_ptr = Next1(@), !.press_timer = KEY_ON_OFF_INTERVAL + 1]

romaji_output(k) ==
  CASE k.press_timer = 0 -> IF k.romaji_ptr = k.romaji_set THEN k ELSE PressFirst(k)
    [] k.press_timer = KEY_ON_OFF_INTERVAL -> ReleaseFirst(k)
    [] k.press_timer = 2 * KEY_ON_OFF_INTERVAL -> [k EXCEPT !.press_timer = 0]
    [] OTHER -> [k EXCEPT !.press_timer = @ + 1]

KeyDown(k) == k.press_timer \in 1..KEY_ON_OFF_INTERVAL

romaji_clear(k) ==
  LET up == IF KeyDown(k)
            THEN romaji_output([k EXCEPT !.press_timer = KEY_ON_OFF_INTERVAL]) ELSE k
  IN  [up EXCEPT !.romaji_set = 0, !.romaji_ptr = 0, !.press_timer = 0,
                 !.input_buf = <<>>, !.typed = <<>>, !.said = <<>>]

set_romaji_que(k, keys) ==
  LET at(i) == (k.romaji_set + i - 1) % ROMAJI_QUE_SIZE
  IN  [k EXCEPT !.romaji_set = (@ + Len(keys)) % ROMAJI_QUE_SIZE,
                !.romaji_que = [p \in DOMAIN @ |->
                   IF \E i \in DOMAIN keys : at(i) = p
                   THEN keys[CHOOSE i \in DOMAIN keys : at(i) = p] ELSE @[p]]]

(***************************************************************************)
(* Letters to keys.                                                        *)
(***************************************************************************)
\* The rows the search comes upon: it leaves at the first row that does not
\* begin with the letters, once it has met one that does.
Found(table, buf) ==
  LET hits == {i \in DOMAIN table : IsPrefix(buf, table[i].s)}
  IN  {i \in hits : \A j \in hits : \A m \in j..i : m \in hits}

\* Mutant: a double letter is looked for first.
DropDouble(k) ==
  LET buf == k.input_buf
      heard == CASE Len(buf) >= 2 /\ buf[1] = buf[2] -> set_romaji_que(k, XR_tu)
                 [] Len(buf) = 1 /\ buf[1] = "N" -> set_romaji_que(k, XR_NN)
                 [] OTHER -> k
  IN  [heard EXCEPT !.input_buf = Tail(@)]
\* No row begins with the letters: the first of them goes, and may speak.
Drop(k) ==
  LET buf == k.input_buf
      heard == CASE buf[1] = "N" -> set_romaji_que(k, XR_NN)
                 [] buf[1] # "N" /\ Len(buf) >= 2 /\ buf[1] = buf[2] -> set_romaji_que(k, XR_tu)
                 [] OTHER -> k
  IN  [heard EXCEPT !.input_buf = Tail(@)]

RoundOf(k, table) ==
  LET rows == Found(table, k.input_buf)
      same == {i \in rows : table[i].s = k.input_buf}
  IN  IF k.input_buf = <<>> \/ (same = {} /\ rows # {}) THEN k
      ELSE IF same # {}
      THEN [set_romaji_que(k, table[CHOOSE i \in same : TRUE].list) EXCEPT !.input_buf = <<>>]
      ELSE Drop(k)
Round(k) == RoundOf(k, list[k.romaji_type])

\* The while loop: a round leaves it or drops one of at most four letters.
Collect(k) ==
  LET end == Round(Round(Round(Round(k))))
  IN  IF Len(end.input_buf) >= 4 THEN [end EXCEPT !.input_buf = <<>>] ELSE end

\* romaji_input gives back the key, or 0 ("none") if it has taken it.
romaji_input(k, key) ==
  CASE key \in Letters ->
         [k |-> Collect([k EXCEPT !.input_buf = Append(@, key), !.typed = Append(@, key)]),
          key |-> "none"]
    [] key = "ESC" /\ k.input_buf # <<>> -> [k |-> romaji_clear(k), key |-> "none"]
    [] key \in Quiet -> [k |-> k, key |-> key]
    [] OTHER -> [k |-> romaji_clear(k), key |-> key]

(***************************************************************************)
(* What the letters mean, read as a whole.                                 *)
(***************************************************************************)
\* The kana the tables behind the lists promise, letters to kana.
Kana ==
  LET all == <<"A">> :> <<XR__A>> @@ <<"U">> :> <<XR__U>> @@ <<"S", "A">> :> <<XR_SA>>
             @@ <<"Y", "A">> :> <<XR_YA>> @@ <<"J", "A">> :> <<XR_SI, XR_jj, XR_ya>>
             @@ <<"K", "A">> :> <<XR_KA>> @@ <<"N", "A">> :> <<XR_NA>>
             @@ <<"T", "A">> :> <<XR_TA>> @@ <<"T", "U">> :> <<XR_TU>>
             @@ <<"N", "Y", "A">> :> <<XR_NI, XR_ya>> @@ <<"T", "Y", "A">> :> <<XR_TI, XR_ya>>
             @@ <<"T", "S", "A">> :> <<XR_TU, XR__a>> @@ <<"T", "S", "U">> :> <<XR_TU>>
             @@ <<"X", "T", "U">> :> XR_tu @@ <<"N", "'">> :> XR_NN
             @@ <<"SPACE">> :> <<Plain("SPACE")>> @@ <<"-">> :> <<Plain("YEN")>>
      nn == <<"N", "N">> :> XR_NN
      xtsu == <<"X", "T", "S", "U">> :> XR_tu
  IN  [msime |-> all @@ nn, atok |-> all @@ nn @@ xtsu, egg |-> all @@ xtsu]

\* Kana first; then a letter with which one could have begun, and which none
\* did: N is a kana of its own, a letter that stands twice a small tsu.
Meaning(kana, w) ==
  LET n == Len(w)
      Rest(i) == SubSeq(w, i, n)
      KanaAt(i) == {s \in DOMAIN kana : IsPrefix(s, Rest(i))}
      Starts(c) == \E s \in DOMAIN kana : s[1] = c
      from[i \in 1..(n + 1)] ==
        IF i > n THEN [keys |-> <<>>, rest |-> <<>>]
        ELSE IF KanaAt(i) # {} THEN
          LET s == CHOOSE s \in KanaAt(i) : TRUE
              f == from[i + Len(s)]
          IN  [f EXCEPT !.keys = kana[s] \o @]
        ELSE IF \E s \in DOMAIN kana : IsPrefix(Rest(i), s) THEN
          [keys |-> <<>>, rest |-> Rest(i)]
        ELSE LET f == from[i + 1]
             IN  [f EXCEPT !.keys =
                    CASE w[i] = "N" -> XR_NN \o @
                      [] w[i] # "N" /\ i < n /\ w[i] = w[i + 1] /\ Starts(w[i]) -> XR_tu \o @
                      [] OTHER -> @]
  IN  from[1]

=============================================================================
