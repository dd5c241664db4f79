# Verification of the pi stack

TLA+ models of the orchestrator of this repository (`src/packages/orchestrator`):
who may run an agent, how the owner of a thread keeps that right, how messages
become turns of a native session, how the events of a session reach the daemon,
how processes share one rotating credential, how an account moves between hosts, how
completions are paid for once, and how recurring jobs and watched items start threads. Every definition is
translated from the source; `PROJECT.json` names its lines. TLC checks small
instances, TLAPS proves eight modules for every instance.

Paths below are relative to `src/packages/orchestrator/` unless they start with
`src/`.

1. [The system](#1-the-system)
2. [Modules](#2-modules)
3. [Runs, bounds and fairness](#3-runs-bounds-and-fairness)
4. [Proofs](#4-proofs)
5. [Where the code and its documentation disagree](#5-where-the-code-and-its-documentation-disagree)
6. [What is abstracted, what is not modelled](#6-what-is-abstracted-what-is-not-modelled)
7. [Plan](#7-plan)

## 1. The system

One Unix person runs one orchestrator daemon. It owns a SQLite file of threads, starts native Pi
sessions (in its own process, in runners, or under other users), sends them
people's and agents' messages and reports their outcomes. Several daemons on
several hosts may share one *capacity authority*. Model credentials live in
one file per host that many processes use. Other applications (Pi Remote, Kenan)
are clients of the daemon.

### Components

| component | state | operations | hard behaviour | what makes it correct |
| --- | --- | --- | --- | --- |
| capacity authority (`src/agent-capacity-authority.ts`) | `capacity_request` rows, `initialized` | acquire, inspect, withdraw, release, one cutover that adopts a census | repeated, late and reordered requests of several owners; requests before the cutover | one execution per agent; one answer per execution, for good; released is final |
| capacity ledger and client (`src/threads/capacity-ledger.ts`, `src/agent-capacity.ts`) | `thread_capacity`, an outbox | retain, acquire, release of an execution or a thread, flush, timer | two callers of one thread interleave at every await; a request given up after 5 s may still be executed; crashes | the owner believes only in custody it has; nothing leaks; nothing released revives; releases end |
| capacity census (`src/agent-capacity-census.ts`) | none | collect from rows, runners, hosts | rows change between census and cutover | every running execution is counted |
| native session adapter (`src/threads/pi-session.ts`, `pi-execution.ts`, `pi-input-receipts.ts`) | receipts in the session file; run, queue and unacknowledged inputs in memory | input, acknowledge, reject, land, settle, abort, exit, reopen | crash between receipt and conversation; abort of a half-delivered run; a run that looks idle while an input is pending | each input enters the conversation at most once; only delivered input is settled |
| thread service (`src/threads/service.ts`) | `thread`, `thread_work`, `thread_execution`; attachments, halts and serial chains in memory | send, promote, cancel, control (stop, close, cancel, resume), drain, recover, deliver, settle, finish, park, halt, exit, suspend | halts run beside the serial chain; everything may change at each await; settlement jobs run late; successors decide from receipts | session, rows and custody agree; order of the queue; every input settles; archived is quiet |
| shared credentials (`src/auth/shared-oauth.ts`, `directory-lock.ts`) | the credential file, the lock directory | use, reported use, reject, refresh, set, remove, import and discard with an effect | several processes; crashes under the lock; a refresh token works once; answers are lost | a refused token is not served again; one refresh at a time; login is asked for only when it is needed |
| schedules (`src/schedule.ts`) | `recurring_schedule`, `schedule_occurrence` | create, pause, resume, remove, reconcile | the owner stops at an await or between two writes; spawn answers are lost | one run at a time; each due time once; bounded catch-up |
| account leases (`src/store.ts`, `src/fleet.ts`, `src/policy.ts`) | `lease` rows with heartbeats | admit, heartbeat, release, recover | leases expire while their work runs | concurrency per account |
| runner host, output, transport (`src/threads/runner-*.ts`) | the output spool of a session and its offsets; the client's cursor, partial line and unsent commands | publish, pump, drain, compact, attach, acknowledge, command, reconnect, replace the daemon | reconnection while output is pumped and truncated; chunks that end inside a line; sockets that fail with frames under way | every event once and in order to each daemon, none passed over by the next; commands in order |
| input status (`src/threads/pi-input-status.ts`) | what was answered to each input command, in the session file | begin, finish, query | an answer that is later than the 30 s the thread service waits; a command sent again | nothing is given up that may still run |
| command receipts (`src/threads/pi-command-receipts.ts`) | receipts in the session file | start, settle | crashes | at most one execution |
| watch list (`src/threads/watch-list.ts`) | items, wakes, delivery errors, the floor between batches | add, update, remove, check now, poll: reconcile, schedule, deliver | items change and checks begin and end during a pass; listings are not a snapshot; deliveries are repeated | one check per item; none forgotten; nothing due is left out |
| completions (`src/completion.ts`, `src/completion-feedback.ts`, `src/host/completion-*.ts`) | records, runs, leases and settlement evidence; receipt files; the host's executions; the feedback window | submit, cancel, retry, admit, observe, claim, send, return, reconcile receipts | daemon and host die at any step and both settle files; cancellation while the provider works | one request and one charge; results on disk are not lost; the account's window counts every request |
| account transfer (`src/auth/account-transfer.ts`) | per host: the entry of the account in the auth file, its rows and controls in the ledger | inspect, prepare, deliver, receive, finish | two files per host, two hosts, deaths between any two writes; packets and answers that come late or again; return and onward transfers | one host can use the account; no older credential comes back; usage is neither lost nor counted twice; a departure ends |
| model broker, message delivery, imports, meters, daemon, CLI | see `PROJECT.json` | | | |
| Kenan memory and root (`src/packages/kenan-*`) | an action journal; consents | | retries; expiry | a consent is used once |
| Pi Remote (`src/apps/remote`), phone apps, runtime patches, publication, tools | see `PROJECT.json` | | | |

### How they interact

- The thread service *calls* the ledger at each dispatch (`drain`), at each end of
  an execution (`finish`), and in each halt; the ledger *calls* the authority over
  HTTP. A thread's serial chain and its halt are two concurrent callers.
- The thread service *sends commands* to a native session over an ordered connection and
  *receives events* (acknowledgements, landings, settlements, exit). It turns a settlement event
  into a job at the end of the thread's serial chain.
- The session *writes receipts*, and the successor of a stopped controller reads them.
- A runner *writes* the events of its session to a spool and *sends* them over a
  socket to the daemon, which acknowledges each; commands go the other way.
- Schedules and the watch list *call* `ThreadService.spawn` in the same process, with a request id
  the thread database remembers.
- The daemon admits completions and *asks* an independent host to start them; the two *share* the
  ledger and a directory of receipts.
- Processes *share* the credential file; a directory next to it is their only lock.
- Hosts *send* an account as a packet over SSH, started by an operator's command that may be run again; the lock of
  the auth file covers the writes of each host, nothing covers both.

## 2. Modules

```
ExecutionCustody  <- implemented by -  CapacityAuthority  <- EXTENDS -  CapacityLedger
InputDelivery     <- implemented by -  NativeSession      <- INSTANCE -  ThreadExecution  - INSTANCE ->  InputStatus
EventStream       <- implemented by -  RunnerLink
CompletionContract <- implemented by - Completions
AccountCustody    <- implemented by -  AccountTransfer
SharedCredential        Schedules        WatchList
```

The `MC*` modules give TLC its instances, the `*_proofs` modules hold the theorems.

**CapacityAuthority.** `request` is the table `capacity_request`, `initialized` the
cutover flag, `receipts` (a history) everything any owner was ever answered.
Each route of the server is an action: `Acquire`, `Inspect`, `Withdraw`,
`Release`, `Initialize`; each runs in one SQLite transaction, so it is one
step. The actions are split by outcome as the code's early returns are
(`Granted`, `Queued`, `Reissued`, `AcquireRefused`, ...). `ExecutionCustody` is
its promise: exclusive grants, each once.

**CapacityLedger.** `row` is `thread_capacity`; `call` holds what each asynchronous caller awaits and does
next; `wire` the requests the authority has not executed. Each action is one
stretch between two awaits. `Execute` performs a request with the actions of
`CapacityAuthority`, which the module extends, and answers it, or loses the answer; `TimeOut` and `Crash`
abandon requests that may still be executed at any time. `CollectCensus` and
`Cutover` are the operator's.

**NativeSession.** `receipts` is what `pi-input-receipts.ts` derives from the
session file, the other variables the adapter's memory. `Exit` keeps the file.
`InputDelivery` is its promise: taken, delivered at most once, settled only
then, or given back. It runs inside `ThreadExecution`.

**ThreadExecution.** One thread. `work`, `thread` and `custody` are the durable
rows; `runtime`, `job` (the head of the serial chain), `halt` and `settlements` (its tail) the
controller's memory; `pipe` the connection; the rest is the instance of
`NativeSession`, and `status`, the instance of `InputStatus`. `job.at` and `halt.at` name the await an operation is at, so
each action is one stretch: `DrainSelect` chooses an input, `Prepared`,
`Acquired`, `Admitted` and `Opened` recheck what the code rechecks after each await;
`ServeSettlement`, `Settling` and `Finishing` are a settlement job; `HaltBegin`
to `HaltEnd` a halt; `Reacquired`, `Reopened`, `Renamed` the recovery of an open
execution by a successor. An answer that is later than the controller waits (`TimeOut`) leaves `thread.wait` behind, the
code's `acknowledgementWait`: nothing more is sent until the answer comes after all or a drain asks the session what became of
the command (`DrainProbe`, `Probed`), and `Prepared` needs a free connection, since it is ordered and holds one input. How long the code waits before it asks is not modelled, so the probe may come at any
time. `custody` is the ledger as the thread service sees it. A close of the session (`Retire`, `Discard`) takes the control socket and
drops a command that is still in the session's own.

**InputStatus.** `status` is the last command of each input as the session recorded it: in flight, accepted or rejected.
`Query` is the answer to a probe, for which a command without a record is judged by the receipts of its input.

**SharedCredential.** `lock` is the directory, `file` the credential of one
account, `process` the operation of each process, `provider` the grants it has issued and those
still usable. What an operation does under the lock before it asks the provider is
synchronous, hence one action; the answer is another.

**Schedules.** `schedule` and `occurrence` are the two tables, `threads` what the thread service
did with each request, `pass` the reconcile pass between its awaits.
`RecordAccepted` and `RecordRejected` each write two rows in two transactions; the
owner may die between them, and what it forgot then is in `orphans`.

**RunnerLink.** `output` is the object `RuntimeOutput` with its file, `client` the
closure of `connect()`, `up` and `down` the two directions of the socket. A line of the spool is
two units, so a chunk (`Chunk` units) may end inside it. `PublishLine`, `Drain`, `Attach` and `Acknowledge` each
run `pump()` and `compact()` as the code does, inside the step. `Disconnect` and
`Replaced` cut what is under way. `EventStream` is its promise.

**Completions.** `record`, `run`, `lease`, `evidence`, `abort` and `feedback` are rows of the ledger, each
action on them one method of the service, which is a transaction; `files` is the receipt directory;
`pool` and `starts` belong to the daemon, `host` and `active` to the host; `recon` is the reconciliation of receipts that
either process may be in, split between read, settlement and removal. `CompletionContract` is what callers are promised.

**WatchList.** `items`, `wakes`, `retry` and `floor` are its tables, `thread` the check threads as the service reports
them, `op` the operation under way: `Tick` and `CheckNow` begin one, `List` stands for the listings of the
scheduling pass, `Place` for its transaction, `Deliver` to `Finish` for the deliveries. Agents' requests (`Add`, `Update`, `Remove`) happen at any await.

**AccountTransfer.** `auth` and `ledger` are the two files of each host, `packet` the envelopes by transfer, `wire` those
that were sent, `op` what the command that holds a host's auth lock has written so far, `work` the hosts where
something uses the account. `Prepare`, `HandOff` and `RecordOutgoing` are the departure, `Stage`, `ImportFacts`, `Promote` and
`Admit` the arrival, one action for each write; `Continue` is a command that finds what a dead one left.
`ForgetEnvelope` and `RecordTransferred` take the answer. Whatever was sent can be received at any time later, and an answer can
be learnt at any time after the reception. `AccountCustody` is the promise of `src/packages/orchestrator/docs/account-transfer.md`: one host has the account, or it is
on its way to one.

## 3. Runs, bounds and fairness

| run | instance | shows |
| --- | --- | --- |
| `authority` | 2 agents, 2 owners, 3 executions, 3 leases, every census of two entries | exclusion, agreement and finality of custody over all requests of all owners before and after the cutover; implements `ExecutionCustody` |
| `ledger` | 1 thread, 1 logical execution with 2 identities, 2 callers, 1 late request, every census | rows and authority agree, whatever is late, lost or crossed by a halt, a crash or a cutover; a release asked for is settled |
| `thread_session` | 2 inputs, queue and hard steer, cancel, rejections, native exits, successions | the session that a thread drives delivers at most once; implements `InputDelivery` |
| `thread_steer` | 3 inputs, queue and steer, close and cancel | session, rows and custody agree at every await; the queue is served in order |
| `thread_hard_steer` | 2 inputs, queue and hard steer, rejections, late answers, cancel and close | every input settles |
| `thread_crash` | 2 inputs, queue and steer, close, rejections, late answers, native exits, successions | nothing seen is given back, nothing given up is in the session, nothing is called complete without having run, a close stays one |
| `credential` | 2 processes, 2 further grants | refused tokens stay marked, no refresh overwrites another, login is asked for only when it is needed |
| `schedule` | interval 2, times 0..4 | one thread at a time, only the latest missed time, every occurrence settles |
| `runner_link` | chunks of 3 units, 3 events, 2 commands, 3 connections, 2 daemons | events once and in order, none stuck, commands in order; implements `EventStream` |
| `completions` | 2 requests, 2 attempts, one request that is refused and cancelled, 1 death of the host, any of the daemon | one request and one charge, receipts on disk are settled, what is admitted ends; implements `CompletionContract` |
| `watch_list` | 2 items (one that agents change), 2 destinations, 2 wakes | one check per item, none forgotten, nothing due left out, no item waits for good |
| `account_transfer` | 3 hosts, 3 departures, 1 refresh, 2 units of usage, 2 deaths | one holder, the last credential, usage once, every departure ends; implements `AccountCustody` |

Why the bounds are enough:

- *Authority*: a third execution is the one that is refused while two owners
  contend for two agents; a census of two entries can be contradictory, which `CensusAccepted` refuses.
- *Ledger*: a second identity exists only after the first is released, which is what
  lets a late request of the first meet the second; two callers are all that one thread has
  (chain and halt), and one late request can cross any later one of either. The rows of different
  threads meet only in a flush, which either caller may do here.
- *Session*: one input lands while the other is deferred, refused or sent again; the session under any controller, and with any number of inputs,
  is proved and not run.
- *Thread*: an execution, a joiner, and one that waits. `Fronts` bounds how often an
  input is moved to the front and stands for `Date.now()`, which only grows. Controls are unbounded.
- *Credential*: one rotation and one more grant (a login or a second rotation). A dead process does not
  return, since a restarted one is another process: with two processes a waiter is
  never alone with a third's fresh lock. What a third does is said in section 5.
- *Schedules*: two intervals can be missed at once, and a third time lies beyond the clock.
- *Runner link*: three units are a line and a half, so reads end inside lines and between them; of three events
  one is acknowledged, one handed and one unread at once; the third connection follows a failed reconnection, and the
  second daemon starts without a cursor while the spool of the first is in any state.
- *Completions*: the second request lets the window close and open around the first; a second attempt exists only after a
  refusal; one death of the host can fall on every step, and the daemon is unbounded.
- *Watch list*: two items in one destination share a check, in two have one each, and an item that changed during a pass leaves the
  group of the other. Identities of checks that nothing knows any more are used again, so the run has no last check.
- *Account transfer*: the third departure is a return or goes on to the third host, while packets and answers of
  the first are still under way; one refresh makes the credential of an earlier envelope an older one; two units of usage fall to different
  owners; two deaths can hit both ends of one transfer, or one end twice.

Symmetry is used for processes (`credential`), in a run without liveness.

`CHECK_DEADLOCK FALSE` is said where the system may stop: identities and leases of the ledger are used up; all `N`
inputs of a thread are done; every process that uses a credential is dead; the clock of a schedule stands at its bound;
a session of a runner has ended; all transfers of an account are used up.

**Fairness.** *Ledger:* code between awaits runs and the abort signal fires (weak);
the reconcile timer queues in the serial chain, which is first come first served, so it
gets its turn although others take the chain (strong); a request repeated for ever is
answered, and the owner crashes finitely often. No
assumption is made on how often requests time out or withdrawals are refused.
*Thread:* promises resolve and the native session works (weak on the chain's,
the halt's and the session's steps); draining and settlement jobs wait in the chain behind
others (strong); the timer repeats a halt (`HaltAgain`, weak). *Schedules:* the timer starts passes (strong: the
owner may be stopped between them), a repeated request is answered, and not every
answer is lost to a stop. *Runner link:* the event loops of both sides run what is ready, a full socket drains, a daemon
reconnects (weak); nothing makes the session produce, end or be sent a command, and sockets may fail as often as there are connections.
*Completions:* the daemon's timers and the host's loops run (weak); what the daemon does between its own restarts it
gets to do if it may do it again and again (strong); the provider answers before its deadline; callers need not come back.
*Watch list:* the interval timer polls, calls are answered, delays and the floor pass and each check ends (weak);
failures and restarts end some time, since one delivery that fails for ever keeps its wake for ever.
*Account transfer:* work ends, and the operator runs the command again until the destination has answered (weak on each write, and on
the reception; nothing between a begun departure and its reception is ever disabled for good by others). Nothing makes an operator begin one.

**Mutants.** Each property is shown to depend on the code: `PROJECT.json` lists for
each a changed definition, a dropped guard, a wrong set, a missing recheck, under which TLC finds it violated.

## 4. Proofs

`CapacityLedger_proofs`, its first part, of the authority alone (for any sets of agents, owners, executions, leases
and censuses):

- `AuthorityTypeCorrect`, `AgentExclusion`, `ReceiptAgreement`: the inductive invariant is
  `AuthorityInv == AuthorityTypeOK /\ OneActivePerAgent /\ ReceiptsRecorded`.
  `OneActivePerAgent` is not inductive alone: `Initialize` must know that rows before the
  cutover are not active, which `AuthorityTypeOK` says. `ReceiptsAgree` relates answers to each
  other and says nothing of the table, so it is strengthened to `ReceiptsRecorded`:
  each answer is what the row still says, and the row never loses its owner, agent or lease.
- `ReleaseFinality`: an action property, from the invariant, action by action.
- `AuthorityRefinement`: `AuthoritySpec => Promise!Spec`; grants, reissues and settlements map to
  `Grant`, stuttering and `Settle`; the census maps to one `Grant` of several pairs.

Its second part, of the owner (for any threads, executions, callers and number of late requests): `TypeCorrect`, `HeldCustody`
(`HeldIsActive`), `ReleaseFences` (`ReleasedIsFenced`) and `CustodyKnown` (`CustodyRemembered`). The invariant `LedgerInv` carries what
each request on its way is for (`WireIsForRows`: only a row that was given up is released, inspected or withdrawn), that a
caller waits for the request it sent (`WireIsAwaited`), and that an answer is still true when its caller uses it
(`AnswersHold`), whatever other callers did meanwhile. Steps of the owner are proved once (`CallerStepInv`), for any change of rows
that `RowsMove` allows; each operation is then shown to be such a step. `Served` says what a request may change at the
authority. The cutover is where `None` leases matter: before it no answer carries custody.

The third part joins them: every step of the composition is one of the authority's or leaves it alone (`LedgerStep`; the census is
whatever the owner's rows said at the barrier, and a release without a lease does what a withdrawal does), so `OwnersExclusion` and `OwnersCustody`
prove `OneActivePerAgent` and `KeepsPromise` of `CapacityLedger`, with its crashes, timeouts and late requests.

`ThreadExecution_proofs` (for any number of inputs, with every kind of delivery and control, exits, rejections, late answers and successions):

- The session by itself, under any controller: `SessionTypeCorrect`, `DeliveryOnce`, `SettlementDelivered`, `DeferralFrees` from the inductive invariant
  `SessionInv`, which adds to them where the work of a run and accepted work can be; and `SessionRefinement`, `Native!Spec => Native!Delivery!Spec`.
- `ThreadDrivesSession`, `Spec => Native!Spec`: the controller moves the session in its own steps only, a command at a time. So `ThreadDeliveryOnce`
  (`LandsOnce`) and `ThreadKeepsDelivery` (`KeepsDelivery`) hold of the thread.
- `TypeCorrect`, `ArchivedQuiet` (`ArchivedIsQuiet`) and `CompletionLanded` (`CompleteWasLanded`). None is inductive: an execution is recorded as complete by a
  settlement job, a recovery, a halt, or `finish` after its own question, each several awaits after it was found out. `ThreadInv` says what each part
  knows meanwhile: an attachment names a live session (`Attached`) and the open execution (`Joined`); a halt that
  is past its beginning meets no recovery, and once the session said that it does nothing no command can still reach it (`Stopping`); recovery is of the open
  execution, and what was chosen without one goes on only while there is none (`Recovering`); the input that opened an execution
  never returns to the queue (`Opener`); an archived thread has no command on its way (`Archive`); and who may yet record a completion knows that the
  input landed (`Ran`). There is one lemma for each action; `FinishByStep` and `AnswerStep` are for the operators that several actions share.
- `GivenBack` (`GivenBackIsUnseen`), an action property. Each operation that ends an execution after asking the session reads the receipts in the step that finishes the
  rows (`GivesBack`), except a recovery that had the session renamed in between; `Tracked` says that its rows are current all the same.
- `QueuedUndelivered`, `NativeAccounted`, `NativeCustody`, `DispatchedOpen` and `OpenedInOrder`, the agreement of queue, rows, custody and session
  (`QueuedIsUndelivered`, `NativeIsAccounted`, `NativeHasCustody`, `DispatchedIsOpen`, `OpensInOrder`). They have the hypothesis `Undisturbed` on the constants: no
  hard steers, no refusals by Pi and no successor of the controller. It leaves in exits of the session, late answers and every control, for any
  number of inputs, which is more than `thread_steer` checks; and section 5 says, for each of them, in which instance the code breaks it with
  hard steers, refusals or successions. The invariant is `Regular`, six parts that hold each other up: `Soft`, every input has its place by the
  time it was sent; `Halted`, a thread is held just as long as a halt is under way or has failed and will be taken up again, and
  nothing is sent meanwhile; `Sent`, a command on its way is for a dispatched input of the open execution, and a prompt finds no run; `Meant`, an
  operation goes on for the execution or the queued input it began with, several awaits ago, unless a halt ended that; `Told`, the
  session's records name executions that were opened, and no refusal while the thread may send; `Accounted`, rows, custody and receipts agree with the
  session. Two lemmas about all actions, `MovesStep` and `ActsStep`, say what any step may do to the rows and to the session (`Moves`, `Acts`); each
  part is then kept because of what the others say of the rows that moved. For the order, `InTurn` adds that the input that is about
  to open an execution is still the first that waits.

`Schedules_proofs` (for any interval and any bound of the clock): `TypeCorrect`, `OneThread`
(`OneAtATime`) and `CatchUp` (`LatestIsRun`). The invariant `ScheduleInv` says that at most
one occurrence is pending, that a thread at work belongs to it, to the last accepted
one or is forgotten, and what the pass knows at each of its awaits. `LatestMissedIsLatest` proves the arithmetic of the
catch-up (`reconcile` divides by the interval) for every interval.

`WatchList_proofs` (for any items, destinations and wakes): `TypeCorrect`, `OneCheck` (`OneCheckPerItem`) and
`NoWakeLost` (`NoneLost`). `OneCheckPerItem` is not inductive: a pass puts an item in a new check because the item
waits for none, so the invariant adds `Claimed`, that an item of a live check waits for that check. `GivenUpIsRemoved` is why a wake
may be dropped after an await during which agents added items: the items it was for cannot come back.

`AccountTransfer_proofs` (for any hosts and any number of departures, refreshes, uses and deaths): `TypeCorrect`, `Exclusive` and
`Refinement`, `Spec => Custody!Spec`. That one host can use the account is not inductive. The invariant `TransferInv` adds that only
the last transfer can be open (`EarlierReceived`), so that no late packet of an earlier one is received again; what is staged is what the
last transfer carries, while nobody can use the account (`Staged`); that without a holder the envelope has the provider's
last credential and more usage than any host (`CarriesAll`), which is why taking the larger of two counters counts nothing twice; that a holder
with an open transfer has not sent it, or has arrived (`Held`); and what a command knows between two writes (`Operations`). For the
refinement `HandOff` maps to `Depart`, `Promote` to `Arrive` the first time, and all other writes to stuttering.

`SharedCredential_proofs` (for any processes and any number of grants): `TypeCorrect` and `LoginIsNeededAlways` (`LoginIsNeeded`) from
`CredentialInv`, which says of every credential in a file or in an operation's hand that it is of an issued grant and, when it asks for a
login, that its grant is spent or was refused, and that a grant just rotated is new. These hold even when two processes hold the lock. `OneRefresh`
and `RejectedIsMarked` do not: section 5 has the race in which a waiter removes a lock that was just taken. `NoTheft` says
of a state that nobody who found the lock stale is about to remove one that is held, and `OneRefreshWithoutTheft` proves both properties of every behaviour in which
that never happens, for any processes; the invariant `GuardInv` adds to one holder that the file, and what an operation will put back after a
failed effect, are safe to serve. Two processes meet the hypothesis by themselves (`TwoProcessesNeverSteal`: whoever finds the lock stale then is the only one alive,
`Abandoned`), so `TwoProcessesRefreshOnce` has none; three do not, which is the instance of section 5.

`Completions_proofs` (for any requests, any number of attempts and any deaths): `TypeCorrect`, `EveryReceiptAccepted` (`ReceiptsAccepted`),
`LeasesCover` (`LeaseCoversRequest`), `EveryReceiptKept` (`ReceiptKept`, an action property) and `Refinement`, `Spec => Contract!Spec`. None of them is inductive.
`CompletionInv` says which attempt each part speaks of: of the attempts sent only the claimed one may be anything but refused, and the
record has what became of it (`RecordOK`); a run that is assigned and not answered has a lease (`RunOK`); the host works at the claimed attempt,
which has no receipt yet (`WorkOK`); a file is of the last attempt and one the service accepts, and nothing runs for it (`FileOK`); and whoever has
read a file finds it as it was, or settled and removed by the other process, while no start is under way that could make a new attempt
(`ReaderOK`). The last is why two processes may settle the same receipts at any distance. For the refinement `Claim`, `Send` and the first settlement of a receipt
map to steps of the contract, a repeated settlement to stuttering; at most one attempt is pending because the others were refused (`AtMostOnePending`).

`RunnerLink_proofs` (for any chunk and any number of events, commands, connections and daemons): `TypeCorrect`, `EventsInOrder`, `Spec => Stream!Spec`
(`KeepsOrder`), and `CommandsKeepOrder` (`CommandsInOrder`). The stream is one sequence of units, of which `Unit(k)` is the k-th, and every
part of it, the spool, what is on the socket, what the client holds of a line, is known by where it begins and ends; so a truncation, which
moves all offsets of the file, moves no position of the stream (`CompactKeeps`). `LinkInv` says that the spool begins at or
before the last acknowledged event (`Spooled`), that a pump stops only when all was written, and that what is on its way to an attached client
continues what the client has. Commands are ordered by `Ordered`: what is executed comes before what is on the connection the
host accepted, and that before what waits for the attachment.

The assumptions are those the modules name with `ASSUME`; TLC evaluates them in the
runs. Only model-checked: of threads, `RetiredIsUnseen`, which needs a bound on the number of inputs (section 5); and for good, what the prover cannot do: liveness under fairness and `ENABLED`, and what a definition by
recursion over data computes.

## 5. Where the code and its documentation disagree

Met while modelling; those with an instance are reproduced by the modules with it, and each bounds what a passing run claims:

- *A steer sent just as the turn it was meant for ends* runs in a run of its own (`src/threads/service.ts:2962`). The settlement job of
  the first run finds the session busy and gives up; the settlement of the second does not name the main input, and gives up too. The
  execution stays open until something else (a control, an exit, a restart) touches the thread, although the session has settled
  everything. Instance: queue and steer, `EveryInputSettles`; `thread_hard_steer` is without soft steers.
- *Two deaths strand an account* (`src/auth/account-transfer.ts:182`, `:269`). A source that dies between the envelope and the phase
  `outgoing`, and again between the receipt and the phase `transferred`, keeps the receipt and the phase `preparing`. The transfer is complete,
  but `departedAccount` (`:74`) asks for a later phase, so the account can never return to this host, and running the command again prints the receipt and
  finishes nothing (`src/commands.ts:297`). `TransferEnds` therefore speaks of departures that were begun.
- *A lease whose heartbeats stopped does not hold back a departure* (`src/auth/account-transfer.ts:48`, `src/store.ts:468`), and its
  execution may still record usage at the source after the envelope was written. `Counted` speaks of work that counts.
- *An account can be enabled before its credential is promoted*: the trigger does not name the phase `receiving`
  (`src/auth/account-transfer.ts:146`). It is of no use then, since the entry is staged; `SetEnabled` includes it.
- *Removing a stale lock is not atomic with finding it stale* (`src/auth/directory-lock.ts:37`): a waiter can remove the lock
  another waiter has just taken, and both refresh one grant. Instance: `credential` with three processes, `OneRefresh`.
- *An acceptance is two writes* (`src/schedule.ts:292`): an owner that dies between them
  forgets which thread is the previous one, and starts the next beside it. `OneAtATime` therefore leaves out the threads in `orphans`.
- *A lease lost with its attempt* (`src/completion.ts:170`): a host that finds an earlier attempt without a receipt ends the lease, although
  the provider may still be at work for the request, and `docs/completions.md:37` counts it. `LeaseCoversRequest` speaks of the attempts a host still runs.
- *The listings of a scheduling pass are two* (`src/threads/watch-list.ts:339`): a check that goes from waiting to
  running between them is in neither, and its destination gets a second check for other items. `OneCheckPerItem`
  therefore speaks of items and not of destinations.
- *Cutover revives a withdrawal* (`src/agent-capacity-authority.ts:62`): a census
  entry overwrites a row that was released before the cutover, while
  `docs/agent-capacity.md:9` says a released execution cannot execute again. `ReleasedIsFinal`
  therefore speaks of the time after the cutover. Instance: `authority` without the conjunct `initialized`.
- *Cutover adopts a row that was settled meanwhile* (`src/agent-capacity-census.ts:78`):
  the flush goes on between census and cutover, and the cutover makes active again what the owner has released. `ReleasedIsFenced` and
  `CustodyRemembered` therefore leave out what a census counted (`Counted`).
- *A whole halt within one await of drain* (`src/threads/service.ts:3042`): the
  input is dispatched without custody. Instance: `ThreadExecution` with queue and hard
  steer, cancel, `NativeHasCustody`; `thread_steer` is without hard steers.
- *A message selected before a hard steer runs ahead of it* (`service.ts:3030`; `src/docs/threads.md:189` says the hard steer
  runs first). Instance: queue and hard steer, `OpensInOrder`.
- *A message selected to join is dispatched into an execution that has ended*
  (`service.ts:3086`). Instance: queue, steer and hard steer, `DispatchedIsOpen`; with late answers queue and hard steer,
  where a hard steer sent during a probe is selected to join what its own halt ends. `EveryInputSettles` therefore leaves
  out the inputs that are `Orphaned`.
- *An input that was accepted and then deferred is not run again* (`src/threads/pi-session.ts:379`, `pi-input-status.ts:28`). The halt of a
  hard steer that was promoted back to queue is cut by a stop of the controller. The session has deferred the main input; the
  successor sends the same command again, which is answered from its record and not obeyed, so the
  execution stays open over an idle session until the next restart, while `docs/pi-sessions.md` says a deferred input can be
  dispatched under the same work ids. Instance: queue and hard steer with `ControllerStops`, "an input is confirmed only while the session has it".
- *A redelivered command keeps its first answer* (`pi-input-status.ts:28`): if Pi rejects the input a second time and
  the controller has stopped waiting, the probe confirms it as accepted. The rejection, which is settled behind the probe, still fails the execution.
- *Recovery completes a steer the session never got* (`service.ts:2851`): `finish` settles
  all inputs of the execution. `CompleteWasLanded` therefore speaks of the input that opened it.
- *A rejected steer fails the execution whose turn goes on* (`service.ts:3099`).
  Instance: queue and steer with `NativeRejects`, `NativeIsAccounted`. With a late rejection after a succession,
  and a request to cancel that outlived a resume, an input the session still runs goes back to the queue:
  `thread_crash` violates `QueuedIsUndelivered`, and checks `GivenBackIsUnseen` instead, which leaves out what a refusal gives back: a refusal
  ends the execution without asking, and with three inputs one that comes late gives back an input that had landed. `RetiredIsUnseen` depends on
  the same: dispatched again, such an input can be refused by a session that a stop of the controller left blocked, and be given up by the probe. With two
  inputs there is no such behaviour.
- *A late refusal is settled after its probe* (`service.ts:3099`). A succession during a cancellation leaves the session blocked; the refusal of a steer
  comes late and queues its settlement; the probe gives the input up, and the same drain begins the next execution, which the settlement
  then fails while it runs. Instance: 3 inputs, steer, close, `ControllerStops`, late answers, `QueuedIsUndelivered` (28 steps).
- *A settlement between the two questions of a recovery is dropped* (`service.ts:2958`), so a
  successor may leave a turn open. Instance: queue, `ControllerStops`, `EveryInputSettles` under
  finitely many stops.
- *Stop archives* (`service.ts:2293`, `2423`): `docs/thread-service.md:72` says a stop leaves the
  thread idle and held with its inputs retained; the code records it as `close`, which cancels them. The model follows the code.
- *A cancellation that failed outlives a resume* (`service.ts:2274`): later turns
  are recorded as cancelled. Instance: cancel with `NativeExits`, "a request implies a hold".
- *A failed import puts back a refused credential*, and with the lock race unmarks it. Instance: three processes, `RejectedIsMarked`.

## 6. What is abstracted, what is not modelled

*Capacity*: bearer tokens, parsing and listings; the census of several hosts and its
file formats. *Session*: the content of messages, tools, dialogs, compaction, commands that
replace the session; Pi's own queueing is "an input waits in `inbox` and later lands".
*Thread*: one thread without parent; failures of
startup, provider and admission waits, the 20 s failure of a native cancellation, commands, forks,
dependencies, questions, results to parents, managers and priorities, adapters without landing receipts or without input status. The
connection is ordered and its loss is an exit, noticed at once. `thread.state`
is represented by `HeldRunning`, the one test of it that control depends on. The
ledger releases at once (its delays are `CapacityLedger`'s subject); admission of a recovered execution is part
of its reacquisition. Sending to a held thread whose turn still runs waits for the halt. *Credentials*: one
account, so the snapshot of the file an operation holds is that account's entry; identity checks across accounts
and entries held by a transfer are left out; a live holder's heartbeat keeps its lock fresh. *Schedules*: one schedule, since
others touch none of its rows; validation and HTTP; a thread is at its first turn, finished, or resumed later.
*Runner link*: one session; an event is its number; the runner's own frames other than attachment and exit, control sockets, starting and finding
runners, residency and reclaim. A socket that fails loses the end of what is under way. *Completions*: one account and no choice among units; meters, prompts, results and
their files' contents; backoff times are a flag. *Watch list*: time is the predicate "due", texts and cadences, request ids of agents (each request
happens once), the migrations of stored items; a check thread is absent, open or ended.

*Account transfer*: one account that starts on one host and a provider that always answers; meters, the quota that must remain, aliases and
identity collisions; credentials the operator imports or removes meanwhile; peers, SSH and version checks. Inspection and preparation are one
step, since only a transfer of this account can change what the inspection said. The receipts of sent transfers decide only which
of two refusals an old answer gets.

Components that are not modelled, and why, are listed in `PROJECT.json`. Most are wiring, data
conversion or user interface; those with a protocol of their own are in the plan.

## 7. Plan

Done: the modules above, in the order authority, ledger, session, thread, credentials, schedules, runner link, completions, watch
list, input status, account transfer; the proofs of section 4.

Remaining, in order of importance:

1. *Provider and admission waits* of a thread (`src/threads/service.ts:3155`).
2. *A second thread*: result delivery to a parent, dependencies, managers.
3. *Residency*: reclaim of idle sessions of a shared runner while commands are under way (`src/threads/runner-host.ts:39`).
4. *Account leases*: admission, heartbeats, expiry while work runs (`src/store.ts:468`).
5. *Command receipts*: at most one execution of a command over crashes (`src/threads/pi-command-receipts.ts:50`).
6. The journals of Kenan memory and of publication; consents of Kenan root.

Proof to come: `RetiredIsUnseen` for two inputs.
