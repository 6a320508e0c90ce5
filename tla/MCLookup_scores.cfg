SPECIFICATION Spec
CONSTANTS
  Words <- MCWords
  Postings <- MCPostings
  Queries <- TwoWords
  Backends = {"map", "cassandra", "redis"}
  NDocs = 3
  MaxQueryTokens = 2
  BatchAdd = 2
  BatchSearch = 2
  Crc32 <- MCCrc32
  Threshold = 2
INVARIANT ScoresComplete
CHECK_DEADLOCK FALSE
