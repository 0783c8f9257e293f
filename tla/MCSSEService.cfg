SPECIFICATION MCSpec
CONSTANTS
  w1 = w1
  p1 = p1
  p2 = p2
  Keyword <- MCKeyword
  MaxIds = 2
  Conn <- MCConn3
  Keys <- MCKeys
  Gens <- MCGens
  MaxFaults = 1
  Proc = {p1, p2}
  MaxCommands = 3
  PlainDB <- MCPlainDB
  Searches <- MCSearches
  IndexLists <- MCIndexLists
  AddressLists <- MCAddressLists
SYMMETRY MCSymmetry
INVARIANTS
  TypeOK
  ReadyHasDatabase
  LoadableAgain
  NeverRefused
  SerialStateExact
  OneServing
  WaitsForServed
  DatabaseWithoutGap
PROPERTY DeletedAfterStored
CHECK_DEADLOCK FALSE
