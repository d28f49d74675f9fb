\* Two devices, a level of zero, one above it and a line that is no number.
SPECIFICATION FairSpec
CONSTANTS
  Macs = {headset, speaker}
  Lines = {0, 50, NaN}
  NaN = NaN
  Unknown = null
  MaxEvents = 5
  MaxProcs = 2
INVARIANTS TypeOK OneEngine NoEngineLeftBehind Registered 
PROPERTIES QuietAfterDisable LabelReturns
\* The environment's calls are bounded, and the extension then rests.
CHECK_DEADLOCK FALSE
