SPECIFICATION Spec
CONSTANTS
  ROMAJI_QUE_SIZE = 32
  Functions <- MCFunctions
  Scenes <- MCScenes
  KeyPolls = {6, 7}
INVARIANTS NoStuck Converted
PROPERTY Typed
