SPECIFICATION Spec
CONSTANTS
  Messages <- MCLines
  MaxPrints = 3
INVARIANTS
  TypeOK
  ReadsInOrder
PROPERTIES
  ChannelSpec
  StopEnds
  EntriesArrive
