SPECIFICATION Spec
CONSTANTS
  Collections <- MCCollections
  Queries <- MCQueries
  Limits = {0, 1}
INVARIANTS CountsExact StemInPlace AsDocumented QueryWordsFound
CHECK_DEADLOCK FALSE
