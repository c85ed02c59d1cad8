\* Three jobs, two workers, two retries, workers that end twice, with fairness.
SPECIFICATION FairSpec
CONSTANTS
  j1 = j1
  j2 = j2
  j3 = j3
  w1 = w1
  w2 = w2
  Jobs = {j1, j2, j3}
  Workers = {w1, w2}
  MaxRetries = 2
  MaxFaults = 2
  NoJob = NoJob
INVARIANT LossBounded
PROPERTIES ImplementsJobLife EveryJobEnds
