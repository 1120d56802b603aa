CONSTANTS
  Entry = {e1, e2}
  Context = {x1, x2}
  NULL = NULL
  HotUnplug = {1}
  OnAfterPark = TRUE
SPECIFICATION PsciFairSpec
INVARIANTS NotStranded EnteredAsAsked OffMeansLeft
PROPERTIES TurnedOnRuns ImplementsPower
