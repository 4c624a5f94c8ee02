SPECIFICATION Spec
CONSTANTS
  MaxDrive = 4
  NrDrive = 2
  fdc_wait = FALSE
  CmdBytes = {15, 7, 8, 4, 3}
  UnitBytes = {0, 1, 6}
  CylBytes = {0, 1}
  RBytes = {1}
  EotBytes = {1}
  Polite = FALSE
  Disks = {d1}
  NoDisk = NoDisk
  Protected = {}
  Menu = "idle"
  IoErrors = FALSE
  SecLen = 1
  FormatLen = 1
  RWrap = 4
  Window = 1
INVARIANTS BusyMatchesSeek IntrHasSource SeekIntrPending
