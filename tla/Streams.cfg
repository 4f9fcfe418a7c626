SPECIFICATION Spec
CONSTANTS
  StreamOrder <- MCStreamOrder
  Consumers = {c1, c2}
  Callers = {c1}
  Millis = {1}
  ExplicitIDs <- MCExplicitIDs
  ReadArgs <- MCReadArgs
  XReadKeys <- MCXReadKeys
  Counts = {1}
  TrimLens = {1}
  MaxEntries = 2
  MaxLapses = 1
INVARIANTS
  Inv
  IDsRise
  OwnersKnow
PROPERTIES
  DeliveredOnce
  WokenReturn
CHECK_DEADLOCK FALSE
