SPECIFICATION Spec
CONSTANTS
  Jobs = {"weekly"}
  Config <- MCConfig
  MaxEvents = 3
  Daemon = "daemon"
  Manuals = {}
  Threads = {"cron", "poller"}
  Owner <- MCOwner
  Kind <- MCKind
  Watches <- MCWatches
  Plans <- MCPlans
  Grace = 1
  Horizon = 2
  MaxBoots = 2
  MaxRuns = 3
  WriteFaults = TRUE
  ReadFaults = TRUE
  Tears = TRUE
CHECK_DEADLOCK FALSE
INVARIANTS TypeOK OneRunPerProcess
PROPERTIES RecoveryStaysOff
