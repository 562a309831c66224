SPECIFICATION FairSpec
CONSTANTS
  Nets = {"a", "b", "s"}
  MultiPin = {"a", "b"}
  Cells <- MCCells
  Blocked <- MCBlocked
  Vias <- MCVias
  ViaTypes = {"default", "rotated"}
  DefaultType = "default"
  Near <- MCNear
  Routes <- MCRoutes
  GuideClash <- MCGuideClash
  PreRouteFailures = {"FAIL_DETACHED_PIN"}
  IterLimit = 3
  SelectIters = 2
INVARIANTS
  DatabaseExact
  StatusMatchesTopo
  CleanStopStaysClean
  WrittenTypesRecorded
  EveryNetOnce
PROPERTIES
  BothRippedUp
  Terminates
