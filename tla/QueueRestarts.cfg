SPECIFICATION FairSpec
CONSTANTS
  Jobs = {"backup"}
  Config <- MCConfig
  MaxEvents = 50
  Daemon = "daemon"
  Manuals = {}
  Threads = {"cron", "poller"}
  Owner <- MCOwner
  Kind <- MCKind
  Watches <- MCWatches
  Plans <- MCPlans
  Grace = 1
  Horizon = 2
  MaxBoots = 3
  MaxRuns = 20
  WriteFaults = FALSE
  ReadFaults = FALSE
  Tears = FALSE
CHECK_DEADLOCK FALSE
INVARIANTS CapHolds InterruptedRunsAreDead
PROPERTIES RecoveryHappens
