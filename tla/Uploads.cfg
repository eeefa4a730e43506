SPECIFICATION FairSpec
CONSTANTS
  Uploads = {1}
  Workers = {w1, w2}
  Requests = {r1}
  Contents = {a, b}
  Bad = {b}
  MAX_ATTEMPTS = 2
  MaxMishaps = 1
  None = None
INVARIANTS
  TypeOK OneWorkerPerLease ApprovedImageWasJudged
PROPERTY
  WorkEnds
