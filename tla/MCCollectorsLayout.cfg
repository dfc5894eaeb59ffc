\* A file of every version, as long as the kernel makes it.
CONSTANTS
  NumGpus = 1
  Fields = {"temperature_gfx"}
  Ones = 1
  Files <- WholeFiles
  MaxSamples = 1
  MaxLines = 1
  Scenarios = {}
  Ids = {}
  MaxChanges = 0
  Half = 4
  Switches = {}
  Window = 12
  Unwritable = {104}
  Installers = {}
  MaxRequests = 0
SPECIFICATION AllSpec
INVARIANT NaturallyAligned
CHECK_DEADLOCK FALSE
