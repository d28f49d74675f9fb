\* Four nodes: a ring of three with a fourth on its way in.
SPECIFICATION Spec
CONSTANTS
  Nodes = {n1, n2, n3, n4}
  Null = null
  Garbage = garbage
INVARIANTS TypeOK RingMatches WalkMeetsAll MemoryIsSafe
\* Nodes run out, and nothing follows a clash or the deletion.
CHECK_DEADLOCK FALSE
