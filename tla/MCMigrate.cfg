SPECIFICATION FairSpec
CONSTANTS
  Replicas = {p1, p2, p3}
  OldRows <- MCOldRows
  MaxCounter = 4
  MaxCrashes = 1
INVARIANTS
  TypeOK
  DefaultIsFresh
  SchemaBeforeService
PROPERTY EveryReplicaServes
