SPECIFICATION Spec
CONSTANTS
  r1 = r1
  r2 = r2
  r3 = r3
  none = none
  NoOne = none
  Replica = {r1, r2, r3}
  NumFiles = 2
  Releases = {1, 2}
  PoolSize = 2
  MaxFaults = 2
INVARIANTS SchemaIsPrefix ServesMigrated OneApplier
PROPERTY EveryReplicaServes
