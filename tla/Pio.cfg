SPECIFICATION PioSpec
CONSTANTS
  Timings = {0,1,2}
  Bytes = {1, 2}
  None = None
  CPU_1_COUNT = 2
  JACKUP = 2
  MainSlice = 3
  SubSlice = 2
  Costs = {1, 2}
  IntCosts = {1}
  Icount = 2
  state_of_vsync = 4
  sub_load_rate = 1
  ModeBytes <- MCModeBytes
  MaxResets = 1
INVARIANT CreditsBounded
PROPERTY LinkImplemented
PROPERTY TransfersContinue
