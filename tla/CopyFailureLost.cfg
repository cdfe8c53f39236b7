SPECIFICATION Spec
CONSTANTS
  w1 = w1
  w2 = w2
  w3 = w3
  j1 = j1
  j2 = j2
  j3 = j3
  NoJob = NoJob
  Workers <- TwoWorkers
  Jobs <- ThreeJobs
  MaxCancels = 0
INVARIANTS
  FailuresReported
