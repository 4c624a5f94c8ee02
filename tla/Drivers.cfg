SPECIFICATION LiveSpec
CONSTANTS
  Tapes = {"cmt", "t88"}
  T88 = {"t88"}
  Image <- MCImage
  ComLen = 2
  NoTape = NoTape
  TickRate = 2
  SoundII = TRUE
  AdpcmTop = 2
  Programs = {"tape", "com", "poll", "sound", "play"}
  Clocks = {"VSYNC"}
  MaxActs = 0
PROPERTY Loaded
PROPERTY SoundKeepsComing
PROPERTY ReplaysGoOn
INVARIANT NextIsHeard
