SPECIFICATION Spec
CONSTANTS
  Frames <- SmallFrames
  Needs <- SmallNeeds
INVARIANTS
  NoOverlap
  AboveSavedPairAndAligned
  FrameEndsBelowIncoming
  EveryNeedIsPlaced
CHECK_DEADLOCK FALSE
