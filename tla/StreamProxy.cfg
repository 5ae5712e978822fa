SPECIFICATION StreamFairSpec
CONSTANTS
  Modulus = 32
  RecordLengths <- OneLength
  Capacity = 1
  MaxCommands = 2
  MaxInjections = 2
  MaxHeard = 1
  MaxLosses = 1
  MaxEvents = 4
  LosesRecords = FALSE
  Retransmits = TRUE
  MayRaise = TRUE
  MayEnd = TRUE
INVARIANTS
  GameStreamIntact
  AckSound
  SerialsDense
PROPERTIES
  StreamMovesOn
CONSTRAINT StillPromised
CHECK_DEADLOCK FALSE
