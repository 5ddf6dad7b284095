SPECIFICATION Spec
CONSTANTS
  a = a
  b = b
  NotDefined = undefined
  Broken = broken
  NotANumber = nan
  NoFile = nofile
  Client = client
  Inputs <- MCInputs
  Directory <- MCDirectory
  Contents <- MCContents
  Characters = {"%", "d", "{", "}", "m", "n", "x", "H"}
  Loggers = {"root", "system"}
  Timeouts = {6}
  DefaultTimeout = 5
  UintRange = 64
  SameSecond = FALSE
  MaxPattern = 5
  MaxWords = 3
CHECK_DEADLOCK FALSE
INVARIANTS TypeOK LoadedIsCurrent ListenersFollow FormattersMean ArgsMean
