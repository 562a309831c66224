SPECIFICATION MCSpec
CONSTANTS
  NumJobs = 3
  Layers <- MCLayers
  Margin <- MCMargin
  BoxChoices <- MCBoxChoices
  PreRouteStatus <- MCPreRouteStatus
  Estimates <- MCEstimates
  LayerNum = 2
  TrackIsX <- MCTrackIsX
  NumTracks <- Five
  NumCrossPoints <- Five
  TrackLoc <- Pitch2
  CrossPointLoc <- Pitch2
  UpperTrack <- Straight
  UpperCrossPoint <- Straight
  TopoChoices <- MCTopoChoices
INVARIANTS
  TypeOK
  SafeDistance
  OncePerJob
  Complete
  HandsOutRoutable
  NeighboursApart
PROPERTIES
  Terminates
