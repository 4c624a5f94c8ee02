SPECIFICATION LiveSpec
CONSTANTS
  Tapes = {"cmt", "t88", "odd"}
  T88 = {"t88", "odd"}
  Image <- MCImage
  ComLen = 2
  NoTape = NoTape
  TickRate = 2
  SoundII = TRUE
  AdpcmTop = 2
  Programs = {"tape", "poll"}
  Clocks = {}
  MaxActs = 0
INVARIANT OnlyData
