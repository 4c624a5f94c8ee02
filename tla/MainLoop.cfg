SPECIFICATION FairSpec
CONSTANTS
  Keys = {"menu", "pause", "esc", "reset"}
  VsyncBase = 7
  VrtcBase = 2
  VrtcBase2 = 4
  RtcBase = 3
  SubSlice = 4
  Over = 2
  Boost = 2
  SubLoad = 1
INVARIANTS EventsConsumed PictureCurrent
PROPERTIES ModeTakesEffect KeysPolled PictureRefreshed
