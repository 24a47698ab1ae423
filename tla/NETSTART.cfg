SPECIFICATION NetSpec
CONSTANTS
  TableSize = 6
  BlockSize = 2
  Sizes <- MCSizes
  DescSize = 1
  BufSize = 2
INVARIANTS
  NetTypeOK
  NoOverlap
  TableMatches
  SearchFindsHighest
  AllOrNothing
PROPERTIES
  RefinesHeap
  StartsWithRoom
