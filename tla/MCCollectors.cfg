\* Two GPUs, four reads and three lines in any order; or one of the others.
CONSTANTS
  NumGpus = 2
  Fields = {"temperature_gfx"}
  Ones = 2
  Files <- SomeFiles
  MaxSamples = 4
  MaxLines = 3
  Scenarios <- AllScenarios
  Ids = {1, 2, 3}
  MaxChanges = 2
  Half = 4
  Switches <- MCSwitches
  Window = 12
  Unwritable = {104}
  Installers <- MCInstallers
  MaxRequests = 2
SPECIFICATION AllSpec
INVARIANT TypeOK
INVARIANT MeansWithinReports
PROPERTY BufferImplemented
INVARIANT TypesKept
INVARIANT Survives
INVARIANT LinesTell
INVARIANT ExtractedWhole
CHECK_DEADLOCK FALSE
