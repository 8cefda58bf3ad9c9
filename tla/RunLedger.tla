------------------------------ MODULE RunLedger ------------------------------
(***************************************************************************)
(* What the scheduler's queue promises, without its processes, its file    *)
(* and its clock: one ledger of runs.  A run enters it before its body     *)
(* starts, leaves the open ones at most once, and an unforced run enters   *)
(* only while the runs of its period, less a bounded number of open ones   *)
(* that are forgiven, are fewer than the job's limit.                      *)
(***************************************************************************)
EXTENDS Integers, FiniteSets

CONSTANTS
  Jobs,
  Limit,    \* Limit[j]: executions of j in a period
  Pardon    \* Pardon[j]: open runs of a period that may be left uncounted

(* A run is a record [job, period, run, forced]; run tells runs apart.      *)
VARIABLES
  open,     \* runs that have begun and have no recorded end
  closed    \* runs with a recorded end

vars == <<open, closed>>

Of(S, j, k) == {r \in S : r.job = j /\ r.period = k}

(* Some number of open runs, at most Pardon, need not be counted.           *)
MayBegin(j, k) ==
  \E f \in 0 .. Pardon[j] :
    /\ f <= Cardinality(Of(open, j, k))
    /\ Cardinality(Of(open, j, k)) + Cardinality(Of(closed, j, k)) - f < Limit[j]

Begin(r) ==
  /\ \A s \in open \union closed : s.run # r.run
  /\ r.forced \/ MayBegin(r.job, r.period)
  /\ open' = open \union {r}
  /\ UNCHANGED closed

Close(r) ==
  /\ r \in open
  /\ open' = open \ {r}
  /\ closed' = closed \union {r}

Init == open = {} /\ closed = {}

(* A run that begins is the one that the step adds, whatever its number.    *)
Next ==
  \/ \E r \in open : Close(r)
  \/ \E r \in open' \ open : Begin(r)

Spec == Init /\ [][Next]_vars

-----------------------------------------------------------------------------

Unforced(j, k) == {r \in Of(open \union closed, j, k) : ~r.forced}

(* A period is never attempted more often on the job's own account than its *)
(* limit and the pardoned interruptions together allow.                     *)
LimitHolds ==
  \A j \in Jobs, k \in Nat :
    Cardinality(Unforced(j, k)) <= Limit[j] + Pardon[j]
=============================================================================
