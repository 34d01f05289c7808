\* Four threads and no symmetry: the run checks liveness.
SPECIFICATION FairSpec
CONSTANT Threads = {t1, t2, t3, t4}
INVARIANTS
  FlagCounts
  MutualExclusion
PROPERTIES
  ImplementsRWLock
  NoOvertaking
  Progress
  OwnerEnters
