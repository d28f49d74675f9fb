\* Two messages: up to four characters in any order, or up to three pairs, of
\* which the last is cut off by the end of the buffer.
SPECIFICATION Spec
CONSTANTS
  Letters = {"1", "2", ",", " "}
  MaxNoise = 4
  Keys = {"1", "2"}
  Values = {"1", "9"}
  MaxPairs = 3
  BUFFER_SIZE = 13
  Patterns <- SmallPatterns
  MaxRecv = 2
INVARIANTS FindsInMessage SplitGivesRuns TrimsOnlyBlanks LevelOfFirstPair
\* The messages run out.
CHECK_DEADLOCK FALSE
