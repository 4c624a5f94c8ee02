SPECIFICATION Spec
CONSTANTS
  MaxDrive = 4
  NrDrive = 2
  fdc_wait = FALSE
  CmdBytes = {166, 137, 13, 10}
  UnitBytes = {0, 1}
  CylBytes = {0}
  RBytes = {1}
  EotBytes = {2}
  Polite = TRUE
  Disks = {d1, d2}
  NoDisk = NoDisk
  Protected = {d2}
  Menu = "idle"
  IoErrors = TRUE
  SecLen = 2
  FormatLen = 4
  RWrap = 4
  Window = 1
INVARIANTS NormalEndNeedsTC BufferCursor SecBufCoherent
CHECK_DEADLOCK FALSE
