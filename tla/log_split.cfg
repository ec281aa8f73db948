SPECIFICATION Spec
CONSTANTS
  Messages <- MCParts
  MaxPrints = 3
INVARIANTS
  NotTrapped
