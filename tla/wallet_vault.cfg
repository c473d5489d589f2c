SPECIFICATION Spec
CONSTANTS
  Passwords = {"p", "q"}
  Typed <- SomeTyped
  Old <- OneOld
  NewIds <- TwoTimes
  Hashes <- SomeHashes
  None = None
  MaxChanges = 2
  MaxOverlaps = 1
  MaxFaults = 1
INVARIANTS TypeOK EnvelopeKeepsMnemonic UnlockReopens ListIsTheUsers
  RestartShowsTheSame SignatureBinds
\* the bounds on calls that make a wallet or damage one can be used up
CHECK_DEADLOCK FALSE
