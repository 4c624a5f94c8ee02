SPECIFICATION LiveSpec
CONSTANTS
  MaxDrive = 2
  NrDrive = 1
  fdc_wait = TRUE
  CmdBytes = {166, 133, 13, 15, 8, 66, 17}
  UnitBytes = {0}
  CylBytes = {0, 1}
  RBytes = {1}
  EotBytes = {2}
  Polite = TRUE
  Disks = {d1}
  NoDisk = NoDisk
  Protected = {}
  Menu = "never"
  IoErrors = FALSE
  SecLen = 1
  FormatLen = 4
  RWrap = 4
  Window = 1
PROPERTIES CommandEnds
CHECK_DEADLOCK FALSE
