SPECIFICATION FairSpec
CONSTANTS
  Piece = 2
  Lengths = {1, 2, 3, 5}
  StoreLengths = {1, 3}
  Capacity = 2
  MaxRequests = 2
  MaxExchanges = 2
INVARIANTS TypeOK RecordsIntact SocketIntact ExitJustified NothingLeftOver
PROPERTIES Answered ThreadEnds
CHECK_DEADLOCK FALSE
