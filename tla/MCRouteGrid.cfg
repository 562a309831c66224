SPECIFICATION FairSpec
CONSTANTS
  LayerNum = 2
  TrackIsX <- MCTrackIsX
  NumTracks <- Three
  NumCrossPoints <- Three
  TrackLoc <- Pitch1
  CrossPointLoc <- Pitch1
  UpperTrack <- Straight
  UpperCrossPoint <- Straight
  Nets = {"a", "b"}
  Threads = {"t1", "t2"}
  ViaTypes = {"default", "rotated"}
  DefaultType = "default"
  Walks <- MCWalks
INVARIANTS
  WireMapExact
  ViaMapsExact
  SoleViaMark
PROPERTIES
  AtomicUpdates
  PhaseEnds
