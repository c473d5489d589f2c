SPECIFICATION Spec
CONSTANTS
  Intents = {i1, i2, i3}
  Records = {r1, r2}
  NoRecord = NoRecord
  NoFile = NoFile
  Torn = Torn
  MaxCrashes = 2
  MaxFaults = 3
  MaxDamage = 1
SYMMETRY Symmetry
INVARIANTS TypeOK SurvivingCopy
PROPERTIES ReadablePrimaryIsCurrent FallbackKeepsPriorSave StoreImplementsLedger
\* The agent is idle once every intent is recorded, and an agent whose files
\* are both unreadable refuses to start.
CHECK_DEADLOCK FALSE
