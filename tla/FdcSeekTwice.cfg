SPECIFICATION Spec
CONSTANTS
  MaxDrive = 4
  NrDrive = 2
  fdc_wait = FALSE
  CmdBytes = {15, 8}
  UnitBytes = {0, 1}
  CylBytes = {0, 1}
  RBytes = {1}
  EotBytes = {1}
  Polite = TRUE
  Disks = {d1}
  NoDisk = NoDisk
  Protected = {}
  Menu = "never"
  IoErrors = FALSE
  SecLen = 1
  FormatLen = 1
  RWrap = 4
  Window = 1
PROPERTIES SeekReportKept
