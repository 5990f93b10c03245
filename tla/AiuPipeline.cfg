\* Three strips and five tiles: each buffer goes full and empty at least twice, the
\* last time for one buffer only.
CONSTANTS
  NumStrips = 3
  NumTiles = 5
SPECIFICATION Spec
INVARIANTS TypeOK StripHeldWhileRead OutputTransposed ParityUnambiguous NothingOutlivesBlock
PROPERTIES ImplementsPipeline Terminates
CHECK_DEADLOCK FALSE
