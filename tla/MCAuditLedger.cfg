SPECIFICATION LedgerSpec
CONSTANTS
  CheckpointInterval = 2
  MaxEvents = 6
INVARIANTS LedgerTypeOK CleanHistoryVerifies BreaksOnlyAtFailures LossBounded CheckpointsCoverAll
