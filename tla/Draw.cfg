SPECIFICATION FairSpec
INVARIANTS OnlyDecidedDrawings StopReleased RequestKept
PROPERTIES WaitEnds RequestServed
