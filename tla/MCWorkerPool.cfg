CONSTANTS
  Workers = {w1, w2}
  Clients = {c1, c2}
  Waiters = {c1}
  Tasks = {t1, t2, t3}
  Spawners = {t1}
  QueueSizes = {1, 2}
  NoTask = none
SPECIFICATION FairSpec
INVARIANTS
  PoolConsistent
  FreedUnused
PROPERTIES
  KeepsPromises
  AcceptedIsRun
  CallsReturn
