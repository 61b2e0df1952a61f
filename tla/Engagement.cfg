SPECIFICATION FairSpec
CONSTANTS
  s1 = s1
  s2 = s2
  Subs = {s1, s2}
  Cars <- AllCars
  MaxEvents = 2
CHECK_DEADLOCK FALSE
INVARIANTS OneRequest NobodyForgotten Exclusive Settled WindowTrue
PROPERTIES RequestsEnd StopsRestore
