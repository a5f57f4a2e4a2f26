\* Two transactions with three log positions each; every log may come again.
SPECIFICATION Spec
CONSTANTS
  Wide = 4
  Narrow = 4
  Base = 4
  Logs <- MCLogs
INVARIANTS
  TypeOK
  StoredOnce
  NetLiquidity
