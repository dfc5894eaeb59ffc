\* One of the two climates, the display or its drawing at a time.
CONSTANTS
  TempMin = 60
  TempMax = 61
  PowerOnTemp = 60
  Settle = 1
  Lag = 1
  Wrap = 4
  MaxCalls = 3
  MaxTroubles = 1
  KenmoreRequests <- MCKenmoreRequests
  FrigidaireRequests <- MCFrigidaireRequests
  FrigidaireCalls = 2
  Layouts <- MCLayouts
  Default <- MCDefault
  Shrinks = {5}
  MaxFlight = 1
  MaxChanges = 2
  MaxFaults = 1
  Figures <- MCFigures
  Labels <- MCLabels
  Rows <- MCRows
  Coords <- MCCoords
SPECIFICATION FairSpec
INVARIANT TypeOK
INVARIANT InStep
INVARIANT TempInStep
INVARIANT PowerKnown
PROPERTY FanReached
PROPERTY Learns
PROPERTY Converges
INVARIANT TornOnlyBetween
INVARIANT Legible
INVARIANT NearLine
CHECK_DEADLOCK FALSE
