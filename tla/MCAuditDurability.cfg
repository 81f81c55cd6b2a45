SPECIFICATION LedgerSpec
CONSTANTS
  CheckpointInterval = 2
  MaxEvents = 3
INVARIANT AcknowledgedDurable
