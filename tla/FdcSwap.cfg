SPECIFICATION Spec
CONSTANTS
  MaxDrive = 4
  NrDrive = 2
  fdc_wait = FALSE
  CmdBytes = {5}
  UnitBytes = {0}
  CylBytes = {0}
  RBytes = {1}
  EotBytes = {1}
  Polite = TRUE
  Disks = {d1, d2}
  NoDisk = NoDisk
  Protected = {}
  Menu = "any"
  IoErrors = FALSE
  SecLen = 1
  FormatLen = 1
  RWrap = 4
  Window = 1
INVARIANTS WriteHitsSearchedDisk
