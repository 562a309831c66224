SPECIFICATION Spec
CONSTANTS
  LayerNum = 7
  TrackIsX <- MCTrackIsX
  NumTracks <- MCTracks
  NumCrossPoints <- MCCrossPoints
  TrackLoc <- Spaced
  CrossPointLoc <- Spaced
  UpperTrack <- Straight
  UpperCrossPoint <- Straight
  GraphChoices <- MCGraphs
  MinLen <- MCMinLen
  MinLenOneVia <- MCOneVia
  MinLenTwoVia <- MCTwoVia
  ViaOvlpDist <- MCOverlap
  Pitch <- Four
  UnitMinAreaVioCost = 60
INVARIANTS
  FailsOnlyWhenDisconnected
  PinsJoined
  TopoIsPaths
PROPERTIES
  CheapestConnection
  Terminates
