SPECIFICATION Spec
CONSTANTS
  LayerNum = 4
  TrackIsX <- MCTrackIsX
  NumTracks <- MCNumTracks
  NumCrossPoints <- MCNumCrossPoints
  TrackLoc <- MCTrackLoc
  CrossPointLoc <- MCCrossPointLoc
  UpperTrack <- MCUpperTrack
  UpperCrossPoint <- MCUpperCrossPoint
  Pitch <- MCPitch
  Width <- MCWidth
  Space <- MCSpace
  EolSpace <- MCEolSpace
  EolWidth <- MCEolWidth
  EolWithin <- MCEolWithin
  CutSpace <- MCCutSpace
  ViaTypes = {"default", "rotated"}
  DefaultType = "default"
  ViaMetal <- MCViaMetal
  wireRange <- MCWireRange
  viaBotWire <- MCViaBotWire
  viaTopWire <- MCViaTopWire
  wireTopReach <- MCWireTopReach
  wireBotReach <- MCWireBotReach
  allViaMetal <- MCAllViaMetal
  allViaBotVia <- MCAllViaBotVia
  Nets = {"a", "b"}
  PoorWire <- MCPoorWire
  FixedVio <- MCFixedVio
  PinHist <- MCPinHist
  Topologies <- MCTopologies
  PreferredType <- MCPreferredType
  MinLen <- MCMinLen
  MinLenOneVia <- MCOneVia
  MinLenTwoVia <- MCTwoVia
  ViaOvlpDist <- MCOvlpDist
  rrrIterLimit = 2
CHECK_DEADLOCK FALSE
INVARIANT
  ViolationsExact
PROPERTIES
  ExtensionFound
  ExtensionsClean
  HistoryRemembers
