SPECIFICATION Spec
CONSTANTS
  Words <- MCWords
  Postings <- MCPostings
  Queries <- MCQueries
  Backends = {"map", "cassandra", "redis"}
  NDocs = 3
  MaxQueryTokens = 2
  BatchAdd = 2
  BatchSearch = 2
  Crc32 <- MCCrc32
  Threshold = 2
INVARIANTS EachLabelOnce VectorsExact AnswerExact BestFirst
CHECK_DEADLOCK FALSE
