SPECIFICATION Spec
CONSTANTS
  LayerNum = 4
  TrackIsX <- MCTrackIsX
  NumTracks <- MCNumTracks
  NumCrossPoints <- MCNumCrossPoints
  TrackLoc <- MCTrackLoc
  CrossPointLoc <- MCCrossPointLoc
  UpperTrack <- MCUpperTrack
  UpperCrossPoint <- MCUpperCrossPoint
  Pitch <- MCPitch
  ForbidMargin <- MCForbidMargin
  PoorVia <- MCPoorVia
  NetChoices <- MCNetChoices
  GuideCounts = {1, 2}
  PinCounts = {1, 2}
  defaultGuideExpand = 0
  guideExpandIterLimit = 2
  diffLayerGuideVioThres = 2
  addDiffLayerGuides = TRUE
  VioCounts = {0, 2}
CHECK_DEADLOCK FALSE
INVARIANT DetachedGuideIsDetached
