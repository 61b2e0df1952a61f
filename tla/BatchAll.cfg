SPECIFICATION BatchSpec
CONSTANTS
  Mode01 <- M01
  Mode22 <- M22
  Ecus = {"7E0", "7E1"}
  Holds <- MCHolds
  Target <- MCTarget
  Width <- MCWidth
  NoEcu = "any"
  ChunkMax = 3
  PairMax = 2
  PipeMax = 2
  Cars <- MCCars
  MaxTrouble = 1
INVARIANTS BytesTrue
PROPERTIES NobodyStarves
