\* An engine that nobody tells to connect prints nothing.
SPECIFICATION AnsweredSpec
CONSTANTS
  Macs = {headset}
  Lines = {}
  NaN = NaN
  Unknown = null
  MaxEvents = 3
  MaxProcs = 1
PROPERTY LevelBecomesKnown
CHECK_DEADLOCK FALSE
