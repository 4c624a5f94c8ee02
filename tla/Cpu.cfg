SPECIFICATION Spec
CONSTANTS
  Programs <- MCPrograms
  Goals = {0, 30}
  Icounts = {1, 40}
  Levels = {0, 1}
  MaxIntr = 2
  Stack = 61440
  NoEnd = NoEnd
  Edges = {0, 1, 15, 16, 127, 128, 129, 255}
  WordEdges = {0, 1, 4095, 32767, 32768, 32769, 65535}
  Digits = {0, 1, 5, 8, 9}
INVARIANT ResultRight
INVARIANT NoTrace
PROPERTY StepsAccount
