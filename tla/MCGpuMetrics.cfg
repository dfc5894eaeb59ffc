\* Values from 0 to beyond a hundred in five buckets, two versions of the file.
CONSTANTS
  MaxSize = 5
  MaxScale = 2
  Wrap = 4
  None = None
  MaxBits = 7
  CoarsestScale <- MCCoarsest
  short = short
  long = long
  Values = {0, 1, 3, 4, 7, 100}
  Versions = {short, long}
  Longer <- MCLonger
  MaxStep = 1
  MaxSamples = 5
  MaxTroubles = 1
SPECIFICATION Spec
INVARIANT TypeOK
INVARIANT CumulativeExact
INVARIANT BestResolution
INVARIANT CountsTime
CHECK_DEADLOCK FALSE
