----------------------------- MODULE Schedules -----------------------------
(***************************************************************************)
(* A recurring schedule (schedule.ts): its row, its occurrences, and the   *)
(* reconcile pass that spawns a thread for each of them through the thread *)
(* service. Everything the service does is serialised; a pass awaits the   *)
(* thread service twice. The owner may be suspended at any of these awaits *)
(* and may die there or between two writes.                                *)
(*                                                                         *)
(* An occurrence and its thread are named by the time they were due, as    *)
(* their request and thread ids are. Schedules of other names touch none   *)
(* of this, so one is modelled; it may be removed and created again.       *)
(***************************************************************************)
EXTENDS Integers, FiniteSets

CONSTANTS
  Interval,  \* intervalMs
  MaxTime    \* bound: the clock stops here

ASSUME ScheduleAssumption == Interval \in Nat \ {0} /\ MaxTime \in Nat

Times == 0..MaxTime
None == -1

VARIABLES
  now,         \* the clock
  schedule,    \* recurring_schedule: presence, state, next_run_at, last_thread_id
  occurrence,  \* schedule_occurrence: the status of each
  threads,     \* what the thread service did with each request
  orphans,     \* threads that no row names as the last of this schedule
  pass         \* the reconcile pass

vars == <<now, schedule, occurrence, threads, orphans, pass>>

NoSchedule == [present |-> FALSE, state |-> "paused", next |-> 0, last |-> None]

\* "spawning" awaits the answer to the request of "occurrence".
Idle == [at |-> "idle", occurrence |-> None, answer |-> "none"]

Init ==
  /\ now = 0
  /\ schedule = NoSchedule
  /\ occurrence = [t \in Times |-> "none"]
  /\ threads = [t \in Times |-> "absent"]
  /\ orphans = {}
  /\ pass = Idle

-----------------------------------------------------------------------------
(* The operator's requests.                                                *)

Create(start) ==
  /\ pass.at = "idle" /\ ~schedule.present
  /\ schedule' = [present |-> TRUE, state |-> "active", next |-> start, last |-> None]
  /\ UNCHANGED <<now, occurrence, threads, orphans, pass>>

SetState(state) ==
  /\ pass.at = "idle" /\ schedule.present
  /\ schedule' = [schedule EXCEPT !.state = state]
  /\ UNCHANGED <<now, occurrence, threads, orphans, pass>>

\* The occurrences go with the row; the threads stay.
Remove ==
  /\ pass.at = "idle" /\ schedule.present
  /\ schedule' = NoSchedule
  /\ occurrence' = [t \in Times |-> "none"]
  /\ orphans' = orphans \cup {t \in Times : threads[t] # "absent"}
  /\ UNCHANGED <<now, threads, pass>>

-----------------------------------------------------------------------------
(* The reconcile pass.                                                     *)

NoPending == {}
Pending == {t \in Times : occurrence[t] = "pending"}

Earliest(ts) == CHOOSE t \in ts : \A u \in ts : t <= u

Ready == pass.at = "idle" /\ schedule.present /\ schedule.state = "active"

Spawn(t) == pass' = [at |-> "spawning", occurrence |-> t, answer |-> "none"]

\* A pending occurrence is tried again before anything else is considered.
RetryPending ==
  /\ Ready /\ Pending # {}
  /\ Spawn(Earliest(Pending))
  /\ UNCHANGED <<now, schedule, occurrence, threads, orphans>>

AskPrevious ==
  /\ Ready /\ Pending = {}
  /\ pass' = [Idle EXCEPT !.at = "asking"]
  /\ UNCHANGED <<now, schedule, occurrence, threads, orphans>>

\* Work is outstanding while a turn runs, an input waits or a question is open.
Outstanding(t) == t # None /\ threads[t] \in {"working", "resumed"}

EarliestMissed == schedule.next

\* Of the times missed only the latest is run.
LatestMissed == schedule.next + ((now - schedule.next) \div Interval) * Interval

NextRun(t) == t + Interval

\* Not due yet, or the previous thread is not finished.
NothingToRun ==
  /\ pass.at = "asking"
  /\ Outstanding(schedule.last) \/ schedule.next > now
  /\ pass' = Idle
  /\ UNCHANGED <<now, schedule, occurrence, threads, orphans>>

\* The thread service cannot be asked.
PreviousUnknown ==
  /\ pass.at = "asking" /\ schedule.last # None
  /\ pass' = Idle
  /\ UNCHANGED <<now, schedule, occurrence, threads, orphans>>

\* The occurrence and the next time are written in one transaction.
InsertOccurrence ==
  LET t == LatestMissed IN
  /\ pass.at = "asking"
  /\ ~Outstanding(schedule.last) /\ schedule.next <= now
  /\ occurrence[t] = "none"
  /\ occurrence' = [occurrence EXCEPT ![t] = "pending"]
  /\ schedule' = [schedule EXCEPT !.next = NextRun(t)]
  /\ Spawn(t)
  /\ UNCHANGED <<now, threads, orphans>>

\* ThreadService.spawn creates a thread once for each request id. A failure
\* after that is "unavailable". The request of a removed schedule is refused
\* if the schedule was created anew with another prompt.
Requested(t) == [threads EXCEPT ![t] = IF @ = "absent" THEN "working" ELSE @]

SpawnAccepted ==
  /\ pass.at = "spawning" /\ pass.answer = "none"
  /\ threads' = Requested(pass.occurrence)
  /\ pass' = [pass EXCEPT !.answer = "accepted"]
  /\ UNCHANGED <<now, schedule, occurrence, orphans>>

SpawnRejected ==
  /\ pass.at = "spawning" /\ pass.answer = "none"
  /\ threads[pass.occurrence] = "absent" \/ pass.occurrence \in orphans
  /\ pass' = [pass EXCEPT !.answer = "rejected"]
  /\ UNCHANGED <<now, schedule, occurrence, threads, orphans>>

SpawnUnavailable ==
  /\ pass.at = "spawning" /\ pass.answer = "none"
  /\ threads' \in {threads, Requested(pass.occurrence)}
  /\ pass' = [pass EXCEPT !.answer = "unavailable"]
  /\ UNCHANGED <<now, schedule, occurrence, orphans>>

Accepted(t) == [occurrence EXCEPT ![t] = "accepted"]

Records(answer) == answer = "accepted"

\* dispatch, after its await: the occurrence is written, then the schedule.
\* These are two transactions, and the owner may die between them.
RecordAccepted(t) ==
  /\ Records(pass.answer)
  /\ occurrence' = Accepted(t)
  /\ \/ /\ schedule' = [schedule EXCEPT !.last = t]
        /\ orphans' = orphans \ {t}
     \/ /\ orphans' = orphans \cup {t}
        /\ UNCHANGED schedule

RecordRejected(t) ==
  /\ pass.answer = "rejected"
  /\ occurrence' = [occurrence EXCEPT ![t] = "failed"]
  /\ schedule' \in {schedule, [schedule EXCEPT !.state = "paused"]}
  /\ UNCHANGED orphans

\* An unavailable answer leaves the occurrence for another pass.
LeavePending ==
  /\ ~Records(pass.answer) /\ pass.answer # "rejected"
  /\ UNCHANGED <<occurrence, schedule, orphans>>

RecordAnswer ==
  /\ pass.at = "spawning" /\ pass.answer # "none"
  /\ pass' = Idle
  /\ RecordAccepted(pass.occurrence) \/ RecordRejected(pass.occurrence) \/ LeavePending
  /\ UNCHANGED <<now, threads>>

\* The owner is suspended or dies at an await: nothing more is recorded, and
\* its successor starts a pass of its own.
Stop ==
  /\ pass.at # "idle"
  /\ pass' = Idle
  /\ UNCHANGED <<now, schedule, occurrence, threads, orphans>>

-----------------------------------------------------------------------------
(* The threads and the clock.                                              *)

Finish(t) ==
  /\ Outstanding(t)
  /\ threads' = [threads EXCEPT ![t] = "finished"]
  /\ UNCHANGED <<now, schedule, occurrence, orphans, pass>>

\* Somebody writes to a thread that had finished.
Resume(t) ==
  /\ threads[t] = "finished"
  /\ threads' = [threads EXCEPT ![t] = "resumed"]
  /\ UNCHANGED <<now, schedule, occurrence, orphans, pass>>

Tick ==
  /\ now < MaxTime
  /\ now' = now + 1
  /\ UNCHANGED <<schedule, occurrence, threads, orphans, pass>>

-----------------------------------------------------------------------------
PassStep ==
  \/ RetryPending \/ AskPrevious \/ NothingToRun \/ InsertOccurrence \/ RecordAnswer

Next ==
  \/ \E t \in Times : Create(t) \/ Finish(t) \/ Resume(t)
  \/ \E state \in {"active", "paused"} : SetState(state)
  \/ Remove \/ PassStep \/ PreviousUnknown
  \/ SpawnAccepted \/ SpawnRejected \/ SpawnUnavailable \/ Stop \/ Tick

Spec == Init /\ [][Next]_vars

RecordSettled == pass.answer # "unavailable" /\ RecordAnswer

\* The timer starts passes; a request that is repeated for ever is answered, and
\* the owner is not stopped before every such answer is recorded.
FairSpec ==
  /\ Spec
  /\ SF_vars(PassStep) /\ SF_vars(SpawnAccepted \/ SpawnRejected) /\ SF_vars(RecordSettled)

-----------------------------------------------------------------------------
(* Properties.                                                             *)

\* The rows have the shapes their tables give them, and what a schedule calls
\* its last thread is one of its accepted occurrences.
TypeOK ==
  /\ now \in Times
  /\ schedule \in [present : BOOLEAN, state : {"active", "paused"},
                   next : 0..(MaxTime + Interval), last : Times \cup {None}]
  /\ occurrence \in [Times -> {"none", "pending", "accepted", "failed"}]
  /\ threads \in [Times -> {"absent", "working", "finished", "resumed"}]
  /\ orphans \subseteq Times
  /\ pass \in [at : {"idle", "asking", "spawning"}, occurrence : Times \cup {None},
               answer : {"none", "accepted", "unavailable", "rejected"}]
  /\ schedule.last # None => occurrence[schedule.last] = "accepted"

\* A schedule starts one thread at a time: across stops of the owner and lost
\* answers, two threads are in their first turn only if the schedule was
\* removed, or its owner died before it wrote which thread is the last.
OneAtATime ==
  Cardinality({t \in Times \ orphans : threads[t] = "working"}) <= 1

\* Catch-up is bounded to one run (docs/schedules.md:39): what is inserted is
\* the latest time that is due.
LatestIsRun ==
  [][\A t \in Times : occurrence[t] = "none" /\ occurrence'[t] = "pending" =>
       t <= now /\ now < t + Interval]_vars

\* A stored occurrence is accepted or refused in the end, across stops of the
\* owner and lost answers, unless the schedule is paused or removed.
PendingSettles ==
  \A t \in Times :
    occurrence[t] = "pending" ~>
      occurrence[t] # "pending" \/ ~schedule.present \/ schedule.state = "paused"
=============================================================================
