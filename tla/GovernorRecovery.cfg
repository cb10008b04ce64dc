CONSTANTS
  Controllers = {"a", "b"}
  Displaces <- MCDisplaces
  Quantum <- MCQuantum
  MaxLeases = 2
  MaxEpochs = 3
  MaxLate = 1
SPECIFICATION QuantaSpec
CHECK_DEADLOCK FALSE
INVARIANTS RecoveryIsIdempotent
