SPECIFICATION StreamSpec
CONSTANTS
  a = a
  b = b
  c = c
  Pids = {a, b, c}
  Width <- Widths
  Known = {a, b}
  SlotCount = 2
  SlotBytes = 3
  Subscribed <- Orders
  MaxChanges = 3
  MaxTrouble = 2
CHECK_DEADLOCK FALSE
INVARIANTS DecodesTrue BroadcastBack StopOwns
