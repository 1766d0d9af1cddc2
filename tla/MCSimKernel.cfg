SPECIFICATION FairSpec
CONSTANTS
  Delays <- MCDelays
  Horizons <- MCHorizons
  Caps <- MCCaps
  MaxEvents = 3
  Off = Off
  Drain = Drain
INVARIANTS
  TypeOK
PROPERTIES
  RunUntilComplete
  ImplementsCalendar
  LoopReturns
