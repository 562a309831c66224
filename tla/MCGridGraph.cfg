SPECIFICATION GraphSpec
CONSTANTS
  LayerNum = 4
  TrackIsX <- MCTrackIsX
  NumTracks <- MCNumTracks
  NumCrossPoints <- MCNumCrossPoints
  TrackLoc <- MCTrackLoc
  CrossPointLoc <- MCCrossPointLoc
  UpperTrack <- MCUpperTrack
  UpperCrossPoint <- MCUpperCrossPoint
  Pitch <- MCPitch
  ForbidMargin <- MCForbidMargin
  PoorVia <- MCPoorVia
  NetChoices <- MCNetChoices
  defaultGuideExpand = 0
  guideExpandIterLimit = 1
  diffLayerGuideVioThres = 2
  addDiffLayerGuides = FALSE
  CpCost <- MCCpCost
  ViaCost <- MCViaCost
  Free <- MCFree
  BadTap <- MCBadTap
  MinLen <- MCMinLen
  WrongWayCost <- MCWrongWayCost
  DensityNum = 1
  DensityDen = 3
  outOfPinWireLengthPenalty = 3
  UnitViaCost = 8
  UnitSpaceVioCost = 40
CHECK_DEADLOCK FALSE
INVARIANTS
  SkippingKeepsPaths
  TrackCosts
  MinAreaFlagsExact
  PinsReady
PROPERTIES
  MendingKeepsOthers
