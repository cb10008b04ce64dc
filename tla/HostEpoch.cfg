CONSTANTS
  Processes = {p1, p2}
  Roots = {production, canary}
  NoProcess = NoProcess
  MaxEpoch = 4
SPECIFICATION Spec
INVARIANTS OperatorsAreFenced UsedEpochIsDurable EpochIsAgreed
PROPERTIES Implements
SYMMETRY Interchangeable
