SPECIFICATION Spec
CONSTANTS
  UseExtram = 9
  LinearExt = FALSE
  UseJisho = TRUE
  HighModes = {TRUE, FALSE}
  ExtBytes = {0, 1, 8, 9, 59, 64}
  Columns = 2
  Rows <- MCRows
  TextPages <- MCPages
  Formats <- MCFormats
  BlinkUnit = 1
  Rates = {1, 2}
  SkipMax = 2
  Inks = {0, 7}
  Scenes = {"map","vram","screen","crtc","user","state","clock"}
  HostStart = 8098
  MaxTicks = 2
  Dates <- MCDates
  StateDisks = {"disk"}
  NoDisk = "none"
  NoFile = NoFile
  Serials <- MCSerials
  StemLen <- MCStems
  NameMax = 10
  Cuts = {"FDC2"}
  Faults = {"MAI2", "KYBD"}
  resume_force = TRUE
  Windows = {235, 239, 240, 253}
  AluOps <- MCAluOps
  MaxActs <- MCActs
INVARIANTS MapRight PictureFresh LoadGives DateKept
PROPERTIES FrameDrawn
