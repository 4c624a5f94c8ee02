SPECIFICATION Spec
CONSTANTS
  MaxDrive = 4
  NrDrive = 2
  fdc_wait = FALSE
  CmdBytes = {5}
  UnitBytes = {0}
  CylBytes = {0}
  RBytes = {1}
  EotBytes = {2}
  Polite = TRUE
  Disks = {d1}
  NoDisk = NoDisk
  Protected = {}
  Menu = "never"
  IoErrors = TRUE
  SecLen = 1
  FormatLen = 1
  RWrap = 4
  Window = 1
INVARIANTS FailedWriteReported
