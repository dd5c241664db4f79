---------------------------- MODULE Completions ----------------------------
(***************************************************************************)
(* Durable completions (completion.ts): the records and runs in the        *)
(* ledger, the daemon that admits them and watches the host                *)
(* (completion-pool.ts, daemon.ts, policy.ts), the independent host that   *)
(* claims and executes them (completion-execution.ts,                      *)
(* completion-host-runtime.ts), the receipts it keeps on disk              *)
(* (completion-receipts.ts) and the feedback window of the account         *)
(* (completion-feedback.ts). Every method of the service is a transaction. *)
(*                                                                         *)
(* The daemon and the host are two processes: each may die at any step and *)
(* both settle receipts. All requests are for one account.                 *)
(***************************************************************************)
EXTENDS Integers, FiniteSets, Functions

CONSTANTS
  Requests,
  MaxAttempts,  \* bound: attempts of a completion
  Refusable,    \* bound: completions the provider refuses, while an attempt is left
  Cancellable,  \* bound: completions callers cancel
  MaxCrashes    \* bound: deaths of the host

None == "none"

ASSUME CompletionAssumption ==
  /\ IsFiniteSet(Requests) /\ None \notin Requests /\ Refusable \subseteq Requests /\ Cancellable \subseteq Requests
  /\ MaxAttempts \in Nat \ {0} /\ MaxCrashes \in Nat

Attempts == 1..MaxAttempts

\* CompletionExecution: "rejected" is HTTP 429, "envelope" the exact refusal
\* that predates the status; both are outright refusals.
Outcomes == {"completed", "failed", "envelope", "rejected", "cancelled", "indeterminate"}
Refusals == {"envelope", "rejected"}

StateOf(outcome) == IF outcome \in Refusals THEN "failed" ELSE outcome

VARIABLES
  record,    \* completion:REQUEST: state, claimed attempt, receipt, attemptCount
  run,       \* run: state, and whether it is assigned to an account and unit
  lease,     \* run:RUN in the lease table
  evidence,  \* completion-receipt:RUN:ATTEMPT
  abort,     \* abort:RUN
  feedback,  \* completion-feedback:ACCOUNT; limit 0 stands for no row
  files,     \* the receipt files
  pool,      \* CompletionPool.active in the daemon
  starts,    \* start commands under way to the host
  host,      \* the host: mode, and the run whose work is at its receipt
  active,    \* CompletionExecutionPool.active: the attempt and whether it was sent
  recon,     \* reconcileCompletionReceipts, in the daemon and in the host
  sent,      \* history: attempts for which the provider was asked
  charged,   \* history: how often usage was recorded
  crashes    \* number of deaths of the host

ledger == <<record, run, lease, evidence, abort, feedback, charged>>
vars == <<record, run, lease, evidence, abort, feedback, files, pool, starts, host, active, recon, sent, charged, crashes>>

NoRecord == [state |-> "none", attempt |-> 0, receipt |-> None, count |-> 0]
NoFile == [attempt |-> 0, outcome |-> None]
Idle == [at |-> "idle", request |-> None, file |-> NoFile]
NoWork == [attempt |-> 0, sent |-> FALSE]

Init ==
  /\ record = [r \in Requests |-> NoRecord]
  /\ run = [r \in Requests |-> [state |-> "none", assigned |-> FALSE]]
  /\ lease = [r \in Requests |-> "none"]
  /\ evidence = [r \in Requests |-> [a \in Attempts |-> None]]
  /\ abort = [r \in Requests |-> FALSE]
  /\ feedback = [limit |-> 0, blocked |-> FALSE, successes |-> 0]
  /\ files = [r \in Requests |-> NoFile]
  /\ pool = {} /\ starts = {}
  /\ host = [mode |-> "down", busy |-> None]
  /\ active = [r \in Requests |-> NoWork]
  /\ recon = [p \in {"daemon", "host"} |-> Idle]
  /\ sent = [r \in Requests |-> {}]
  /\ charged = [r \in Requests |-> 0]
  /\ crashes = 0

-----------------------------------------------------------------------------
(* The ledger.                                                             *)

Terminal(state) == state \in {"completed", "failed", "cancelled", "indeterminate"}
RunEnded(state) == state \in {"done", "failed", "aborted"}

EndLease(l) == IF l = "open" THEN "ended" ELSE l

\* A run in a terminal state decides a record that is not.
Synchronized(r) ==
  IF Terminal(record[r].state) \/ ~RunEnded(run[r].state) THEN record[r]
  ELSE [record[r] EXCEPT !.state =
          IF run[r].state = "aborted" THEN "cancelled"
          ELSE IF @ # "none" /\ record[r].attempt # 0 THEN "indeterminate" ELSE "failed"]

Owned(r) == run[r].assigned

ActiveCompletions == Cardinality({r \in Requests : lease[r] = "open"})

\* The window is halved once for each wave of refusals.
Halved(observed) ==
  LET base == IF feedback.limit = 0 \/ observed < feedback.limit THEN observed ELSE feedback.limit
  IN IF feedback.blocked THEN feedback.limit ELSE IF base < 2 THEN 1 ELSE base \div 2

RecordRejection(observed) == feedback' = [limit |-> Halved(observed), blocked |-> TRUE, successes |-> 0]

\* A window of successes doubles it. Nothing is counted during the backoff.
Succeeded ==
  IF feedback.limit = 0 \/ feedback.blocked THEN feedback
  ELSE IF feedback.successes + 1 >= feedback.limit
       THEN [feedback EXCEPT !.limit = 2 * @, !.successes = 0]
       ELSE [feedback EXCEPT !.successes = @ + 1]

Requeue(r, rec) ==
  /\ record' = [record EXCEPT ![r] = [rec EXCEPT !.state = "queued", !.attempt = 0, !.receipt = None]]
  /\ run' = [run EXCEPT ![r] = [state |-> "queued", assigned |-> FALSE]]
  /\ lease' = [lease EXCEPT ![r] = EndLease(@)]

\* The provider's answer to a file that was settled before changes nothing.
Known(r, f) == evidence[r][f.attempt] = f.outcome

\* Mutant: only the record remembers what was settled.
AcceptableNow(r, f) == record[r].attempt = f.attempt /\ record[r].receipt \in {None, f.outcome}

\* What settle() does not refuse.
Acceptable(r, f) ==
  IF evidence[r][f.attempt] # None THEN Known(r, f)
  ELSE record[r].attempt = f.attempt /\ record[r].receipt = None

RunResult(outcome) ==
  IF outcome = "completed" THEN "done" ELSE IF outcome = "cancelled" THEN "aborted" ELSE "failed"

Settle(r, f) ==
  LET rec == Synchronized(r)
      cancelled == rec.state = "cancelled"
  IN
  IF Known(r, f) THEN UNCHANGED ledger
  ELSE /\ evidence' = [evidence EXCEPT ![r][f.attempt] = f.outcome]
       /\ UNCHANGED abort
       /\ IF f.outcome = "rejected" /\ ~cancelled
          THEN Requeue(r, rec) /\ RecordRejection(ActiveCompletions) /\ UNCHANGED charged
          ELSE /\ record' = [record EXCEPT ![r] =
                    [rec EXCEPT !.receipt = f.outcome, !.state = IF cancelled THEN @ ELSE StateOf(f.outcome)]]
               /\ run' = IF cancelled \/ run[r].state = "aborted" THEN run
                         ELSE [run EXCEPT ![r].state = RunResult(f.outcome)]
               /\ lease' = [lease EXCEPT ![r] = EndLease(@)]
               /\ IF f.outcome = "completed"
                  THEN feedback' = Succeeded /\ charged' = [charged EXCEPT ![r] = @ + 1]
                  ELSE UNCHANGED <<feedback, charged>>

-----------------------------------------------------------------------------
(* Receipts: read, settled and removed by either process, one at a time.   *)

Read(p, r) ==
  /\ recon[p].at = "idle" /\ files[r] # NoFile
  /\ recon' = [recon EXCEPT ![p] = [at |-> "read", request |-> r, file |-> files[r]]]
  /\ UNCHANGED <<files, pool, starts, host, active, sent, crashes>> /\ UNCHANGED ledger

SettleReceipt(p) ==
  /\ recon[p].at = "read"
  /\ Acceptable(recon[p].request, recon[p].file)
  /\ Settle(recon[p].request, recon[p].file)
  /\ recon' = [recon EXCEPT ![p].at = "settled"]
  /\ UNCHANGED <<files, pool, starts, host, active, sent, crashes>>

Remove(p) ==
  /\ recon[p].at = "settled"
  /\ files' = [files EXCEPT ![recon[p].request] = NoFile]
  /\ recon' = [recon EXCEPT ![p] = Idle]
  /\ UNCHANGED <<pool, starts, host, active, sent, crashes>> /\ UNCHANGED ledger

-----------------------------------------------------------------------------
(* The daemon: requests of callers, admission and observation. Nothing of  *)
(* this runs while it reconciles receipts.                                 *)

\* Mutant: other work of the daemon goes on between the steps.
DaemonTurns == TRUE

DaemonFree == recon["daemon"].at = "idle"

Submit(r) ==
  /\ DaemonFree /\ record[r].state = "none"
  /\ record' = [record EXCEPT ![r].state = "queued"]
  /\ run' = [run EXCEPT ![r].state = "queued"]
  /\ UNCHANGED <<lease, evidence, abort, feedback, charged, files, pool, starts, host, active, recon, sent, crashes>>

\* Mutant: a cancelled run holds no lease.
EndedByCancel(r) == EndLease(lease[r])

\* The lease of a claimed attempt is opened again: its request may be at the provider.
Reopened(r) == IF record[r].attempt # 0 THEN "open" ELSE EndLease(lease[r])

Cancel(r) ==
  /\ r \in Cancellable /\ DaemonFree /\ record[r].state \in {"queued", "running"}
  /\ record' = [record EXCEPT ![r].state = "cancelled"]
  /\ abort' = [abort EXCEPT ![r] = TRUE]
  /\ run' = [run EXCEPT ![r].state = "aborted"]
  /\ lease' = [lease EXCEPT ![r] = Reopened(r)]
  /\ UNCHANGED <<evidence, feedback, charged, files, pool, starts, host, active, recon, sent, crashes>>

\* Of the failures only the outright refusals may be tried again.
Retry(r) ==
  /\ DaemonFree /\ record[r].state = "failed" /\ record[r].receipt \in Refusals /\ record[r].attempt # 0
  /\ Requeue(r, record[r])
  /\ \E observed \in 1..Cardinality(Requests) : RecordRejection(observed)
  /\ UNCHANGED <<evidence, abort, charged, files, pool, starts, host, active, recon, sent, crashes>>

WindowOpen == ~feedback.blocked /\ (feedback.limit = 0 \/ ActiveCompletions < feedback.limit)

\* launch(): assignCompletion, assignRun and CompletionPool.start.
Launch(r) ==
  /\ DaemonFree /\ run[r].state = "queued" /\ ~run[r].assigned
  /\ WindowOpen
  /\ run' = [run EXCEPT ![r] = [state |-> "starting", assigned |-> TRUE]]
  /\ lease' = [lease EXCEPT ![r] = "open"]
  /\ pool' = pool \cup {r}
  /\ UNCHANGED <<record, evidence, abort, feedback, charged, files, starts, host, active, recon, sent, crashes>>

Observed(r) == r \in pool /\ Owned(r) /\ lease[r] = "open"

\* The host does not report the run: it is asked to start it.
Observe(r) ==
  /\ DaemonFree /\ Observed(r) /\ r \notin starts
  /\ host.mode = "up" /\ active[r] = NoWork
  /\ starts' = starts \cup {r}
  /\ UNCHANGED <<files, pool, host, active, recon, sent, crashes>> /\ UNCHANGED ledger

LaunchHost ==
  /\ DaemonFree /\ host.mode = "down" /\ \E r \in Requests : Observed(r)
  /\ host' = [mode |-> "starting", busy |-> None]
  /\ UNCHANGED <<files, pool, starts, active, recon, sent, crashes>> /\ UNCHANGED ledger

Forget(r) ==
  /\ DaemonFree /\ r \in pool /\ ~(Owned(r) /\ lease[r] = "open")
  /\ pool' = pool \ {r}
  /\ UNCHANGED <<files, starts, host, active, recon, sent, crashes>> /\ UNCHANGED ledger

\* Mutant: the next daemon observes only what it admits itself.
DaemonRestartsEmpty ==
  /\ pool' = {}
  /\ recon' = [recon EXCEPT !["daemon"] = Idle]
  /\ UNCHANGED <<files, starts, host, active, sent, crashes>> /\ UNCHANGED ledger

\* The next daemon takes over the admitted runs that have not ended.
DaemonRestarts ==
  /\ pool' = {r \in Requests : Owned(r) /\ ~RunEnded(run[r].state)}
  /\ recon' = [recon EXCEPT !["daemon"] = Idle]
  /\ UNCHANGED <<files, starts, host, active, sent, crashes>> /\ UNCHANGED ledger

\* The backoff and the retry times that end with it pass.
Elapse ==
  /\ feedback.blocked
  /\ feedback' = [feedback EXCEPT !.blocked = FALSE]
  /\ UNCHANGED <<record, run, lease, evidence, abort, charged, files, pool, starts, host, active, recon, sent, crashes>>

-----------------------------------------------------------------------------
(* The host. It does nothing else while it reconciles.                     *)

HostReconciling == host.mode = "starting" \/ host.busy # None
HostFree == host.mode \in {"up", "closing"} /\ host.busy = None

\* The files are all settled: the host listens, or the work is over.
HostReconciled ==
  /\ HostReconciling /\ recon["host"].at = "idle" /\ \A r \in Requests : files[r] = NoFile
  /\ host' = [mode |-> IF host.mode = "starting" THEN "up" ELSE host.mode, busy |-> None]
  /\ active' = IF host.busy = None THEN active ELSE [active EXCEPT ![host.busy] = NoWork]
  /\ UNCHANGED <<files, pool, starts, recon, sent, crashes>> /\ UNCHANGED ledger

Received(r) == host.mode = "up" /\ host.busy = None /\ r \in starts /\ starts' = starts \ {r}

\* Not an admitted run, at work already, or answered.
StartIgnored(r) ==
  /\ Received(r)
  /\ ~Owned(r) \/ active[r] # NoWork \/ Terminal(Synchronized(r).state)
  /\ UNCHANGED <<files, pool, host, active, recon, sent, crashes>> /\ UNCHANGED ledger

Startable(r) == Received(r) /\ Owned(r) /\ active[r] = NoWork /\ ~Terminal(Synchronized(r).state)

\* claim(): this attempt is the one.
Claim(r) ==
  /\ Startable(r) /\ record[r].attempt = 0
  /\ LET attempt == record[r].count + 1 IN
       /\ record' = [record EXCEPT ![r] = [@ EXCEPT !.state = "running", !.attempt = attempt, !.count = attempt]]
       /\ active' = [active EXCEPT ![r] = [attempt |-> attempt, sent |-> FALSE]]
  /\ run' = [run EXCEPT ![r].state = "running"]
  /\ UNCHANGED <<lease, evidence, abort, feedback, charged, files, pool, host, recon, sent, crashes>>

\* Mutant: the attempt that left no receipt is made again.
ClaimAgain(r) ==
  /\ Startable(r) /\ record[r].attempt # 0 /\ record[r].count < MaxAttempts
  /\ LET attempt == record[r].count + 1 IN
       /\ record' = [record EXCEPT ![r] = [@ EXCEPT !.attempt = attempt, !.count = attempt]]
       /\ active' = [active EXCEPT ![r] = [attempt |-> attempt, sent |-> FALSE]]
  /\ UNCHANGED <<run, lease, evidence, abort, feedback, charged, files, pool, host, recon, sent, crashes>>

\* claim(): an earlier attempt left no receipt.
ClaimLost(r) ==
  /\ Startable(r) /\ record[r].attempt # 0
  /\ record' = [record EXCEPT ![r].state = "indeterminate"]
  /\ run' = [run EXCEPT ![r].state = "failed"]
  /\ lease' = [lease EXCEPT ![r] = EndLease(@)]
  /\ UNCHANGED <<evidence, abort, feedback, charged, files, pool, host, active, recon, sent, crashes>>

Send(r) ==
  /\ HostFree /\ active[r] # NoWork /\ ~active[r].sent
  /\ active' = [active EXCEPT ![r].sent = TRUE]
  /\ sent' = [sent EXCEPT ![r] = @ \cup {active[r].attempt}]
  /\ UNCHANGED <<files, pool, starts, host, recon, crashes>> /\ UNCHANGED ledger

\* What executeCompletion may return. An interruption that no caller asked for
\* is the host stopping.
Interrupted(r) == IF abort[r] THEN "cancelled" ELSE "indeterminate"

Possible(r) ==
  (IF abort[r] \/ host.mode = "closing" THEN {Interrupted(r)} ELSE {})
  \cup (IF ~active[r].sent THEN {"failed"}
        ELSE {"completed", "failed", "indeterminate"} \cup (IF r \in Refusable /\ active[r].attempt < MaxAttempts THEN Refusals ELSE {}))

\* The result is on disk before anything is settled.
Return(r) ==
  /\ HostFree /\ active[r] # NoWork
  /\ \E outcome \in Possible(r) : files' = [files EXCEPT ![r] = [attempt |-> active[r].attempt, outcome |-> outcome]]
  /\ host' = [host EXCEPT !.busy = r]
  /\ UNCHANGED <<pool, starts, active, recon, sent, crashes>> /\ UNCHANGED ledger

NoneActive == \A r \in Requests : active[r] = NoWork

\* A signal or a close command.
HostStops ==
  /\ host.mode = "up" /\ crashes < MaxCrashes
  /\ host' = [host EXCEPT !.mode = "closing"] /\ crashes' = crashes + 1
  /\ UNCHANGED <<files, pool, starts, active, recon, sent>> /\ UNCHANGED ledger

\* The last execution settled, or the host was idle for five seconds, longer
\* than the daemon takes to ask it again.
HostExits ==
  /\ HostFree /\ NoneActive
  /\ host.mode = "closing" \/ (starts = {} /\ \A r \in Requests : ~Observed(r))
  /\ host' = [mode |-> "down", busy |-> None] /\ starts' = {}
  /\ UNCHANGED <<files, pool, active, recon, sent, crashes>> /\ UNCHANGED ledger

HostDies ==
  /\ host.mode # "down" /\ crashes < MaxCrashes
  /\ crashes' = crashes + 1
  /\ host' = [mode |-> "down", busy |-> None]
  /\ active' = [r \in Requests |-> NoWork] /\ starts' = {}
  /\ recon' = [recon EXCEPT !["host"] = Idle]
  /\ UNCHANGED <<files, pool, sent>> /\ UNCHANGED ledger

-----------------------------------------------------------------------------

Reconcile(p) == (\E r \in Requests : Read(p, r)) \/ SettleReceipt(p) \/ Remove(p)
HostReconciles == HostReconciling /\ Reconcile("host")
Start(r) == StartIgnored(r) \/ Claim(r) \/ ClaimLost(r)

Next ==
  \/ \E r \in Requests :
       Submit(r) \/ Cancel(r) \/ Retry(r) \/ Launch(r) \/ Observe(r) \/ Forget(r) \/ Start(r) \/ Send(r) \/ Return(r)
  \/ Reconcile("daemon") \/ HostReconciles \/ HostReconciled
  \/ LaunchHost \/ HostStops \/ HostExits \/ HostDies \/ DaemonRestarts \/ Elapse

Spec == Init /\ [][Next]_vars

\* The daemon's timers keep running, in one daemon or the next, the host does
\* what it was asked, and the provider answers before the deadline. Callers
\* need not come back.
Fairness ==
  /\ WF_vars(Elapse)
  /\ WF_vars(LaunchHost \/ HostReconciles \/ HostReconciled \/ HostExits)
  /\ SF_vars(SettleReceipt("daemon")) /\ SF_vars(Remove("daemon"))
  /\ \A r \in Requests : SF_vars(Launch(r) \/ Observe(r)) /\ WF_vars(Start(r) \/ Return(r))

FairSpec == Spec /\ Fairness

-----------------------------------------------------------------------------
(* Properties.                                                             *)

StateBar == [r \in Requests |-> record[r].state]
PendingBar == [r \in Requests |-> Cardinality({a \in sent[r] : evidence[r][a] \notin Refusals})]

\* Each completion keeps its contract: one request at the provider unless the
\* provider refused it outright, a final answer, one charge. Deaths of either
\* process, repeated settlement and late cancellation do not change that.
Contract == INSTANCE CompletionContract WITH state <- StateBar, pending <- PendingBar

KeepsContract == Contract!Spec

\* Reconciliation never throws: every receipt that either process has read is
\* one the service accepts, whatever the other settled in between.
ReceiptsAccepted ==
  \A p \in {"daemon", "host"} :
    recon[p].at = "read" => Acceptable(recon[p].request, recon[p].file)

\* A request that is at the provider counts against the account, cancelled or not.
LeaseCoversRequest ==
  \A r \in Requests : active[r].sent /\ files[r] = NoFile /\ host.busy # r => lease[r] = "open"

\* A result on disk is not lost: it stays until the ledger has it.
ReceiptKept ==
  [][\A r \in Requests :
       files[r] # NoFile /\ files'[r] # files[r] => evidence'[r][files[r].attempt] = files[r].outcome]_vars

\* What was admitted is answered or goes back to the queue; it is not held for
\* good by a host that died, a start that was lost or a daemon that was replaced.
AdmittedEnds ==
  \A r \in Requests : run[r].state \in {"starting", "running"} ~> run[r].state \notin {"starting", "running"}
=============================================================================
