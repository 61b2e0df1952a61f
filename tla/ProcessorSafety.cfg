SPECIFICATION Spec
CONSTANTS
  Cmd = {c1, c2}
  MaxQueue = 1
  Ops <- SafetyOps
  MaxIssued = 2
  StatMod = 4
SYMMETRY Symmetry
INVARIANTS Serial HoldStopsDispatch
PROPERTIES IdleVerdictSound
