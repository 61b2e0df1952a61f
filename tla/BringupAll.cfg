SPECIFICATION BringupSpec
CONSTANTS
  Adapters <- MCAdapters
  Vehicles <- MCVehicles
  Datasets <- MCDatasets
  Trips <- MCTrips
  Block = {1, 2}
  PCM = 1
  MaxTrouble = 2
INVARIANTS NonCanTrue ToolRestored StrategyKnown FactsTrue
