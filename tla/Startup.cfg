\* Two processes on one file and three faults.
SPECIFICATION FairSpec
CONSTANTS
  Procs = {a, b}
  MaxFaults = 3
INVARIANTS
  TypeOK
  SchemaIsPrefix
  FullSchemaBeforeNetwork
PROPERTY StartsInTheEnd
\* All processes run on.
CHECK_DEADLOCK FALSE
