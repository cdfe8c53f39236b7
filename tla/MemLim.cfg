CONSTANTS
  r1 = r1
  r2 = r2
  r3 = r3
  Nobody = Nobody
  Requests <- MCRequests
  Size <- MCSize
  Allocs <- MCAllocs
  NumCallers = 2
  Shedders = {s1}
  Slots = 3
  Limit = 10
  Word = 16
SPECIFICATION Spec
INVARIANTS TypeOK QueueExact TrackExact LimitKept OnlyAdmittedKilled
PROPERTY Served
