SPECIFICATION Spec
CONSTANTS
  Tapes = {"t88"}
  T88 = {"t88"}
  Image <- MCImage
  ComLen = 2
  NoTape = NoTape
  TickRate = 2
  SoundII = TRUE
  AdpcmTop = 1
  Programs = {"tape", "com", "poll", "sound"}
  Clocks = {}
  MaxActs = 2
INVARIANT PendingIsReal
INVARIANT RateFollows
