CONSTANTS
  LogFd = log
  RelFds = {rel}
  PageNums = {1, 2}
  Data = {zero, other}
  Zero = zero
  NumFrames = 2
  MaxPins = 2
SPECIFICATION Spec
CONSTRAINT ThreePages
INVARIANTS TypeOK FramesPartition HashMatchesUsed Coherent
PROPERTIES PinnedStay LogBeforeData ImplementsPageStore
