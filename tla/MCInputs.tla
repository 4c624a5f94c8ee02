------------------------------ MODULE MCInputs ------------------------------
EXTENDS Inputs

Scene(lines, keys, sets, files, types, n) ==
  [lines |-> lines, keys |-> keys, mods |-> sets, files |-> files, types |-> types,
   events |-> n]

\* A text with capitals and doubled characters, one with an empty line and the
\* pauses of a line with # by itself, two whose lines follow at once, one of them
\* with empty lines.
MCFiles ==
  {<<"a", "a", "A", "!", "\r", "\r">>,
   <<"#", "1", "\r", "#", "\r", "a", "#", "\r", "b">>,
   <<"#", "\r", "a", "\r", "#">>,
   <<"#", "\r", "a", "\r", "\r", "\r", "#", "\r", "\r", "b">>}
MCScenes ==
  {Scene({<<"a">>, <<"Z">>, <<"ESC">>, <<"ESC", "INSERT">>}, {"none", "ins", "grave"},
         {{}}, {}, {"egg"}, 3),
   Scene({}, {"none", "a", "ins", "grave", "f1", "f2", "f3", "f4"}, {{}, {"SHIFT"}}, {}, {"egg"}, 4),
   Scene({}, {"none", "f1", "a", "n", "y", "k"}, {{}}, {}, DOMAIN list, 6),
   Scene({}, {"none", "f1", "t", "s", "u", "x"}, {{}}, {}, DOMAIN list, 6),
   Scene({}, {"none", "f1", "t", "s", "a"}, {{}}, {}, DOMAIN list, 6),
   Scene({<<"a">>}, {"none", "f1", "a"}, {{}}, {<<"a", "A">>}, {"egg"}, 3),
   Scene({<<"Z">>, <<"INSERT">>}, {"none", "a"}, {{}, {"SHIFT"}}, {<<"A">>}, {"egg"}, 2),
   Scene({}, {}, {}, MCFiles, {"egg"}, 1)}
MCFunctions == {("F1" :> "FN_ROMAJI" @@ "F2" :> "FN_RESET" @@ "F3" :> "FN_MENU" @@
                  "F4" :> "KETTEI")}
=============================================================================
