CONSTANTS
  Chunk = 3
  MaxEvents = 3
  MaxCommands = 2
  MaxConns = 3
  MaxDaemons = 2
SPECIFICATION FairSpec
INVARIANTS CommandsInOrder
PROPERTIES KeepsOrder Arrives
CHECK_DEADLOCK FALSE
