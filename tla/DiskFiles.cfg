SPECIFICATION Spec
CONSTANTS
  one = one
  two = two
  three = three
  none = none
  gone = gone
  tape = tape
  keys = keys
  NoPath = NoPath
  Paths = {one, two, three, none, gone, tape, keys}
  Missing = {gone}
  Unwritable = {three}
  DriveFiles = {one, two, three, none, gone}
  Images <- MCImages
  Tabs <- MCTabs
  OtherFiles <- MCOtherFiles
  MaxStream = 3
  MaxNrImage = 2
  ImageArgs <- MCImageArgs
  fdc_ignore_readonly = FALSE
  CharSigned = TRUE
CHECK_DEADLOCK FALSE
INVARIANTS HandlesOwned NamesMatch StateNameFollowsDisk
