SPECIFICATION Spec
CONSTANTS
  p1 = p1  p2 = p2
  Sub = {s1, s2}
  Pid = {p1, p2}
  Controller = {k1}
  NoController = NoController
  Tier = {1, 3}
  DefaultTier <- TwoTiers
  MaxSubscriptions = 2
  MaxRuns = 2
  MaxPicks = 2
  MaxWires = 2
  MaxTick = 4
  MaxCalls = 3
  Ops <- AllOps
SYMMETRY Symmetry
INVARIANTS BooksKept HostPauseHolds TierSpread
CHECK_DEADLOCK FALSE
