SPECIFICATION FairSpec
CONSTANTS
  s1 = s1
  s2 = s2
  p1 = p1
  p2 = p2
  h1 = h1
  h2 = h2
  NoHeader = NoHeader
  Sub = {s1, s2}
  Pid = {p1, p2}
  Header = {h1, h2}
  PidsOf <- TwoEcus
  Caller = {c1}
  Scenarios <- Plans
INVARIANTS FlagHasChain HeaderTracked InFlightBacked
PROPERTIES LiveChainPolls
CHECK_DEADLOCK FALSE
