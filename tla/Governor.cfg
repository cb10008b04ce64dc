CONSTANTS
  Controllers = {"a", "b"}
  Displaces <- MCDisplaces
  Quantum <- MCQuantum
  MaxLeases = 3
  MaxEpochs = 3
  MaxLate = 1
SPECIFICATION FairQuantaSpec
CHECK_DEADLOCK FALSE
INVARIANTS ReleasedIsRestorable FirstIsThrottled TrainingAside JournalCovers TrainingIsOwed
PROPERTIES KeepsLedger TrainingReturns QuantumIsKept
