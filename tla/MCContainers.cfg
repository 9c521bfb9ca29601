CONSTANTS
  List = {l1, l2}
  Node = {n1, n2, n3, n4}
  MaxConn = 4
  MaxDepth = 2
  Key = {0, 1, 2}
  Hash <- KeyItself
  PrimeList <- Primes
  Val = {1}
  Table = {1, 2}
  Main = 1
  MaxElems = 4
  MaxFaults = 1
SPECIFICATION MCSpec
INVARIANTS
  BackwardMirrors
  CalledOnceInOrder
  IterationsFindAll
PROPERTIES
  ImplementsLists
  NobodyMissed
  FireReturns
  ImplementsMultiMap
CHECK_DEADLOCK FALSE
