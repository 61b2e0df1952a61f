SPECIFICATION FairSpec
CONSTANTS
  MaxBegins = 3
  MaxDisconnects = 1
  MaxDrops = 1
INVARIANTS FencedWriter GivenUpIsClosed
PROPERTIES NoResurrection DisconnectSettles AttemptAnswered
CHECK_DEADLOCK FALSE
