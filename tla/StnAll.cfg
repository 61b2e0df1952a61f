SPECIFICATION Spec
CONSTANTS
  Pids <- MCPids
  Signals <- MCSignals
  ChunkLimit <- MCChunkLimit
  Memory = 3
  Attempts = 3
  MaxTrouble = 3
  MaxFires = 2
INVARIANTS MonitorKnown NewestShown LeavesClean
