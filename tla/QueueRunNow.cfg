SPECIFICATION Spec
CONSTANTS
  Jobs = {"exit"}
  Config <- MCConfig
  MaxEvents = 50
  Daemon = "daemon"
  Manuals = {"manual"}
  Threads = {"cron", "poller", "manual"}
  Owner <- MCOwner
  Kind <- MCKind
  Watches <- MCWatches
  Plans <- MCPlans
  Grace = 2
  Horizon = 2
  MaxBoots = 3
  MaxRuns = 20
  WriteFaults = FALSE
  ReadFaults = FALSE
  Tears = FALSE
CHECK_DEADLOCK FALSE
INVARIANTS RunningIsRecorded
PROPERTIES NoLostRecord LedgerSpec
