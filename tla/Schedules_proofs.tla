-------------------------- MODULE Schedules_proofs --------------------------
(***************************************************************************)
(* Schedules for every interval and every bound of the clock: the rows     *)
(* keep their shape, a schedule starts one thread at a time, and what it   *)
(* runs of the times it missed is the latest.                              *)
(***************************************************************************)
EXTENDS Schedules, FiniteSetTheorems, TLAPS

\* A thread in its first turn that no death of the owner and no removal hides.
Working(t) == t \in Times \ orphans /\ threads[t] = "working"

\* What makes OneAtATime inductive. An occurrence is inserted only when none is
\* pending and the last thread is not at work, so whatever works is the last
\* thread or the one pending occurrence, and never both.
OnePending == \A t, u \in Pending : t = u
WorkingIsKnown == \A t \in Times : Working(t) => t = schedule.last \/ t \in Pending
LastIsDone == Pending # {} => \A t \in Times : Working(t) => t # schedule.last
RemovedIsEmpty == ~schedule.present => schedule.last = None /\ Pending = {}

\* What the pass knows after its awaits still holds when it acts on it.
AskedWithoutPending == pass.at = "asking" => schedule.present /\ Pending = {}
SpawningIsPending == pass.at = "spawning" => pass.occurrence \in Pending
RejectedIsIdle == pass.at = "spawning" /\ pass.answer = "rejected" => ~Working(pass.occurrence)

ScheduleInv ==
  /\ TypeOK /\ OnePending /\ WorkingIsKnown /\ LastIsDone /\ RemovedIsEmpty
  /\ AskedWithoutPending /\ SpawningIsPending /\ RejectedIsIdle

-----------------------------------------------------------------------------
(* The latest missed time.                                                 *)

LEMMA Division ==
  ASSUME NEW a \in Nat, NEW b \in Nat \ {0}
  PROVE  (a \div b) \in Nat /\ (a \div b) * b <= a /\ a < (a \div b) * b + b
<1>1. (a \div b) \in Int
  OBVIOUS
<1>2. a = b * (a \div b) + (a % b) /\ a % b \in 0..(b - 1)
  OBVIOUS
<1>3. (a \div b) \in Nat
  BY <1>1, <1>2
<1> QED BY <1>1, <1>2, <1>3

\* The time LatestMissed computes is due, and the one after it is not.
LEMMA LatestMissedIsLatest ==
  ASSUME TypeOK, schedule.next <= now
  PROVE  /\ LatestMissed \in Times
         /\ LatestMissed <= now /\ now < LatestMissed + Interval
<1> DEFINE late == now - schedule.next
<1>1. schedule.next \in Nat /\ now \in Nat /\ now <= MaxTime /\ MaxTime \in Nat
  BY ScheduleAssumption DEF TypeOK, Times
<1>2. late \in Nat /\ Interval \in Nat \ {0}
  BY <1>1, ScheduleAssumption
<1> DEFINE whole == (late \div Interval) * Interval
<1>3. whole \in Nat /\ whole <= late /\ late < whole + Interval
  <2>1. (late \div Interval) \in Nat
    BY <1>2, Division
  <2>2. whole \in Nat
    BY <2>1, <1>2
  <2> QED BY <2>2, <1>2, Division
<1>4. LatestMissed = schedule.next + whole
  BY DEF LatestMissed
<1> HIDE DEF whole
<1> QED BY <1>1, <1>2, <1>3, <1>4 DEF Times

-----------------------------------------------------------------------------
(* The invariant.                                                          *)

LEMMA InitInv == Init => ScheduleInv
BY ScheduleAssumption DEF Init, ScheduleInv, TypeOK, OnePending, WorkingIsKnown, LastIsDone,
   RemovedIsEmpty,
       AskedWithoutPending, SpawningIsPending, RejectedIsIdle, Pending, Working, NoSchedule, Idle, Times, None

\* The parts of the invariant that speak of rows and threads.
RowsInv == OnePending /\ WorkingIsKnown /\ LastIsDone /\ RemovedIsEmpty
PassInv == AskedWithoutPending /\ SpawningIsPending /\ RejectedIsIdle

LEMMA OperatorInv ==
  ASSUME ScheduleInv,
         (\E t \in Times : Create(t)) \/ (\E st \in {"active", "paused"} : SetState(st)) \/ Remove
  PROVE  ScheduleInv'
<1> USE DEF ScheduleInv
<1>1. pass.at = "idle" /\ pass' = pass
  BY DEF Create, SetState, Remove
<1>2. AskedWithoutPending' /\ SpawningIsPending' /\ RejectedIsIdle'
  BY <1>1 DEF AskedWithoutPending, SpawningIsPending, RejectedIsIdle
<1>3. CASE \E t \in Times : Create(t)
  <2>1. TypeOK'
    BY <1>3, ScheduleAssumption DEF Create, TypeOK, Times, None
  <2>2. schedule.last = None /\ schedule'.last = None /\ schedule'.present
    BY <1>3 DEF Create, RemovedIsEmpty
  <2>3. Pending' = Pending /\ \A t \in Times : Working(t)' <=> Working(t)
    BY <1>3 DEF Create, Pending, Working
  <2> QED
    BY <1>2, <2>1, <2>2, <2>3 DEF OnePending, WorkingIsKnown, LastIsDone, RemovedIsEmpty
<1>4. CASE \E st \in {"active", "paused"} : SetState(st)
  <2>1. TypeOK' /\ schedule'.last = schedule.last /\ schedule'.present = schedule.present
    <3>1. PICK st \in {"active", "paused"} : SetState(st)
      BY <1>4
    <3>2. schedule' = [schedule EXCEPT !.state = st] /\ UNCHANGED <<now, occurrence, threads, orphans, pass>>
      BY <3>1 DEF SetState
    <3> QED BY <3>2 DEF TypeOK
  <2>2. Pending' = Pending /\ \A t \in Times : Working(t)' <=> Working(t)
    BY <1>4 DEF SetState, Pending, Working
  <2> QED
    BY <1>2, <2>1, <2>2 DEF OnePending, WorkingIsKnown, LastIsDone, RemovedIsEmpty
<1>5. CASE Remove
  <2>1. schedule' = NoSchedule /\ occurrence' = [t \in Times |-> "none"]
        /\ orphans' = orphans \cup {t \in Times : threads[t] # "absent"}
        /\ UNCHANGED <<now, threads, pass>>
    BY <1>5 DEF Remove
  <2>2. NoSchedule \in [present : BOOLEAN, state : {"active", "paused"},
                        next : 0..(MaxTime + Interval), last : Times \cup {None}]
        /\ NoSchedule.last = None
    BY ScheduleAssumption DEF NoSchedule
  <2>3. TypeOK'
    BY <2>1, <2>2 DEF TypeOK
  <2>4. Pending' = {}
    BY <2>1 DEF Pending
  <2>5. \A t \in Times : ~Working(t)'
    BY <2>1 DEF Working, TypeOK
  <2> QED
    BY <1>2, <2>1, <2>2, <2>3, <2>4, <2>5 DEF OnePending, WorkingIsKnown, LastIsDone, RemovedIsEmpty
<1> QED BY <1>3, <1>4, <1>5

\* A pass that asks, gives up, stops or starts a request writes no row.
LEMMA PassOnlyInv ==
  ASSUME ScheduleInv,
         RetryPending \/ AskPrevious \/ NothingToRun \/ PreviousUnknown \/ Stop
  PROVE  ScheduleInv'
<1> USE DEF ScheduleInv
<1>1. UNCHANGED <<now, schedule, occurrence, threads, orphans>>
  BY DEF RetryPending, AskPrevious, NothingToRun, PreviousUnknown, Stop
<1>2. OnePending' /\ WorkingIsKnown' /\ LastIsDone' /\ RemovedIsEmpty' /\ Pending' = Pending
  BY <1>1 DEF OnePending, WorkingIsKnown, LastIsDone, RemovedIsEmpty, Pending, Working
<1>3. TypeOK' /\ AskedWithoutPending' /\ SpawningIsPending' /\ RejectedIsIdle'
  <2>1. CASE RetryPending
    <3>1. Earliest(Pending) \in Pending
      <4>1. PICK t \in Pending : TRUE
        BY <2>1 DEF RetryPending
      <4>2. \A u \in Pending : t <= u
        BY <4>1 DEF OnePending, Pending, Times
      <4> QED BY <4>1, <4>2 DEF Earliest
    <3>2. Pending \subseteq Times
      BY DEF Pending
    <3>3. pass' = [at |-> "spawning", occurrence |-> Earliest(Pending), answer |-> "none"]
      BY <2>1 DEF RetryPending, Spawn
    <3> QED BY <1>1, <1>2, <3>1, <3>2, <3>3
         DEF TypeOK, AskedWithoutPending, SpawningIsPending, RejectedIsIdle
  <2>2. CASE AskPrevious
    BY <1>1, <1>2, <2>2 DEF AskPrevious, Ready, Idle, TypeOK, AskedWithoutPending, SpawningIsPending, RejectedIsIdle
  <2>3. CASE NothingToRun \/ PreviousUnknown \/ Stop
    BY <1>1, <2>3 DEF NothingToRun, PreviousUnknown, Stop, Idle, TypeOK,
       AskedWithoutPending, SpawningIsPending, RejectedIsIdle
  <2> QED BY <2>1, <2>2, <2>3
<1> QED BY <1>2, <1>3

LEMMA InsertInv ==
  ASSUME ScheduleInv, InsertOccurrence
  PROVE  ScheduleInv'
<1> USE DEF ScheduleInv
<1> DEFINE t == LatestMissed
<1>1. t \in Times /\ t <= now /\ now < t + Interval
  BY LatestMissedIsLatest DEF InsertOccurrence
<1>2. /\ pass.at = "asking" /\ ~Outstanding(schedule.last) /\ occurrence[t] = "none"
      /\ occurrence' = [occurrence EXCEPT ![t] = "pending"]
      /\ schedule' = [schedule EXCEPT !.next = t + Interval]
      /\ pass' = [at |-> "spawning", occurrence |-> t, answer |-> "none"]
      /\ UNCHANGED <<now, threads, orphans>>
  BY DEF InsertOccurrence, NextRun, Spawn
<1> HIDE DEF t
<1>3. t + Interval \in 0..(MaxTime + Interval)
  BY <1>1, ScheduleAssumption DEF Times, TypeOK
<1>4. TypeOK'
  <2>1. schedule' \in [present : BOOLEAN, state : {"active", "paused"},
                       next : 0..(MaxTime + Interval), last : Times \cup {None}]
        /\ schedule'.last = schedule.last
    BY <1>2, <1>3 DEF TypeOK
  <2> QED BY <1>1, <1>2, <2>1 DEF TypeOK
<1>5. Pending = {} /\ Pending' = {t}
  BY <1>1, <1>2 DEF AskedWithoutPending, Pending, TypeOK
<1>6. schedule'.last = schedule.last /\ schedule'.present = schedule.present
      /\ \A u \in Times : Working(u)' <=> Working(u)
  BY <1>2 DEF Working, TypeOK
<1>7. \A u \in Times : ~Working(u)
  BY <1>2, <1>5 DEF WorkingIsKnown, Outstanding, Working, Times, None
<1> QED BY <1>2, <1>4, <1>5, <1>6, <1>7 DEF OnePending, WorkingIsKnown, LastIsDone, RemovedIsEmpty,
     AskedWithoutPending, SpawningIsPending, RejectedIsIdle

LEMMA SpawnInv ==
  ASSUME ScheduleInv, SpawnAccepted \/ SpawnRejected \/ SpawnUnavailable
  PROVE  ScheduleInv'
<1> USE DEF ScheduleInv
<1> DEFINE t == pass.occurrence
<1>1. pass.at = "spawning" /\ t \in Pending /\ t \in Times
  BY DEF SpawnAccepted, SpawnRejected, SpawnUnavailable, SpawningIsPending, Pending
<1>2. /\ pass'.at = "spawning" /\ pass'.occurrence = t
      /\ UNCHANGED <<now, schedule, occurrence, orphans>>
      /\ threads' \in {threads, Requested(t)}
  BY DEF SpawnAccepted, SpawnRejected, SpawnUnavailable, TypeOK
<1>3. TypeOK'
  <2>1. threads' \in [Times -> {"absent", "working", "finished", "resumed"}]
    BY <1>1, <1>2 DEF TypeOK, Requested
  <2>2. pass' \in [at : {"idle", "asking", "spawning"}, occurrence : Times \cup {None},
                   answer : {"none", "accepted", "unavailable", "rejected"}]
    BY DEF SpawnAccepted, SpawnRejected, SpawnUnavailable, TypeOK
  <2> QED BY <1>2, <2>1, <2>2 DEF TypeOK
<1>4. Pending' = Pending /\ \A u \in Times : Working(u)' => Working(u) \/ u = t
  BY <1>1, <1>2 DEF Pending, Working, Requested, TypeOK
<1>5. schedule.last # t
  BY <1>1 DEF TypeOK, Pending, Times, None
<1>6. RejectedIsIdle'
  BY <1>1 DEF SpawnAccepted, SpawnRejected, SpawnUnavailable, RejectedIsIdle, Working, TypeOK
<1> HIDE DEF t
<1> QED BY <1>1, <1>2, <1>3, <1>4, <1>5, <1>6 DEF OnePending, WorkingIsKnown, LastIsDone,
     RemovedIsEmpty, AskedWithoutPending, SpawningIsPending

LEMMA RecordInv ==
  ASSUME ScheduleInv, RecordAnswer
  PROVE  ScheduleInv'
<1> USE DEF ScheduleInv
<1> DEFINE t == pass.occurrence
<1>1. /\ pass.at = "spawning" /\ t \in Pending /\ t \in Times /\ Pending = {t}
      /\ pass' = Idle /\ UNCHANGED <<now, threads>>
  BY DEF RecordAnswer, SpawningIsPending, Pending, OnePending
<1>2. \A u \in Times : Working(u) => u = t
  BY <1>1 DEF WorkingIsKnown, LastIsDone
<1>3. AskedWithoutPending' /\ SpawningIsPending' /\ RejectedIsIdle'
  BY <1>1 DEF Idle, AskedWithoutPending, SpawningIsPending, RejectedIsIdle
<1>4. Idle \in [at : {"idle", "asking", "spawning"}, occurrence : Times \cup {None},
                answer : {"none", "accepted", "unavailable", "rejected"}]
  BY DEF Idle
<1>5. CASE RecordAccepted(t)
  <2>1. occurrence' = [occurrence EXCEPT ![t] = "accepted"]
    BY <1>5 DEF RecordAccepted, Accepted
  <2>2. Pending' = {}
    BY <1>1, <2>1 DEF Pending, TypeOK
  <2>3. CASE schedule' = [schedule EXCEPT !.last = t] /\ orphans' = orphans \ {t}
    <3>1. TypeOK'
      BY <1>1, <1>4, <2>1, <2>3 DEF TypeOK
    <3>2. schedule'.last = t /\ schedule'.present = schedule.present
      BY <2>3 DEF TypeOK
    <3>3. \A u \in Times : Working(u)' => u = t
      BY <1>1, <1>2, <2>3 DEF Working
    <3>4. schedule.present
      <4> QED BY <1>1 DEF RemovedIsEmpty
    <3> QED BY <1>3, <2>2, <3>1, <3>2, <3>3, <3>4 DEF OnePending, WorkingIsKnown, LastIsDone, RemovedIsEmpty
  <2>4. CASE orphans' = orphans \cup {t} /\ UNCHANGED schedule
    <3>1. TypeOK'
      BY <1>1, <1>4, <2>1, <2>4 DEF TypeOK
    <3>2. \A u \in Times : ~Working(u)'
      BY <1>1, <1>2, <2>4 DEF Working
    <3> QED BY <1>3, <2>2, <2>4, <3>1, <3>2 DEF OnePending, WorkingIsKnown, LastIsDone, RemovedIsEmpty
  <2> QED BY <1>5, <2>3, <2>4 DEF RecordAccepted
<1>6. CASE RecordRejected(t)
  <2>1. /\ pass.answer = "rejected" /\ occurrence' = [occurrence EXCEPT ![t] = "failed"]
        /\ orphans' = orphans
        /\ schedule' \in {schedule, [schedule EXCEPT !.state = "paused"]}
    BY <1>6 DEF RecordRejected
  <2>2. schedule'.last = schedule.last /\ schedule'.present = schedule.present
    BY <2>1 DEF TypeOK
  <2>3. TypeOK'
    <3>1. schedule' \in [present : BOOLEAN, state : {"active", "paused"},
                         next : 0..(MaxTime + Interval), last : Times \cup {None}]
      BY <2>1 DEF TypeOK
    <3>2. schedule.last # t
      BY <1>1 DEF TypeOK, Pending, Times, None
    <3> QED BY <1>1, <1>4, <2>1, <2>2, <3>1, <3>2 DEF TypeOK
  <2>4. Pending' = {}
    BY <1>1, <2>1 DEF Pending, TypeOK
  <2>5. \A u \in Times : ~Working(u)'
    BY <1>1, <1>2, <2>1 DEF RejectedIsIdle, Working
  <2> QED BY <1>3, <2>2, <2>3, <2>4, <2>5 DEF OnePending, WorkingIsKnown, LastIsDone, RemovedIsEmpty
<1>7. CASE LeavePending
  <2>1. UNCHANGED <<occurrence, schedule, orphans>>
    BY <1>7 DEF LeavePending
  <2> QED BY <1>1, <1>3, <1>4, <2>1 DEF TypeOK, OnePending, WorkingIsKnown, LastIsDone, RemovedIsEmpty,
       Pending, Working
<1> QED BY <1>5, <1>6, <1>7 DEF RecordAnswer

LEMMA ThreadInv ==
  ASSUME ScheduleInv, (\E t \in Times : Finish(t) \/ Resume(t)) \/ Tick
  PROVE  ScheduleInv'
<1> USE DEF ScheduleInv
<1>1. UNCHANGED <<schedule, occurrence, orphans, pass>> /\ Pending' = Pending
  BY DEF Finish, Resume, Tick, Pending
<1>2. \A u \in Times : Working(u)' => Working(u)
  BY DEF Finish, Resume, Tick, Working, TypeOK
<1>3. TypeOK'
  <2>1. CASE \E t \in Times : Finish(t) \/ Resume(t)
    BY <2>1 DEF Finish, Resume, TypeOK
  <2>2. CASE Tick
    BY <2>2, ScheduleAssumption DEF Tick, TypeOK, Times
  <2> QED BY <2>1, <2>2
<1>4. RejectedIsIdle'
  BY <1>1, <1>2 DEF RejectedIsIdle, Working
<1> QED BY <1>1, <1>2, <1>3, <1>4 DEF OnePending, WorkingIsKnown, LastIsDone, RemovedIsEmpty,
     AskedWithoutPending, SpawningIsPending

LEMMA NextInv == ScheduleInv /\ [Next]_vars => ScheduleInv'
<1> SUFFICES ASSUME ScheduleInv, [Next]_vars PROVE ScheduleInv'
  OBVIOUS
<1>1. CASE Next
  BY <1>1, OperatorInv, PassOnlyInv, InsertInv, SpawnInv, RecordInv, ThreadInv DEF Next, PassStep
<1>2. CASE UNCHANGED vars
  BY <1>2 DEF vars, ScheduleInv, TypeOK, OnePending, WorkingIsKnown, LastIsDone, RemovedIsEmpty,
     AskedWithoutPending, SpawningIsPending, RejectedIsIdle, Pending, Working
<1> QED BY <1>1, <1>2

LEMMA Invariance == Spec => []ScheduleInv
BY InitInv, NextInv, PTL DEF Spec

-----------------------------------------------------------------------------

\* The rows of a schedule and of its occurrences keep the shape of their tables.
THEOREM TypeCorrect == Spec => []TypeOK
<1>1. ScheduleInv => TypeOK
  BY DEF ScheduleInv
<1> QED BY <1>1, Invariance, PTL

\* No two threads of a schedule are in their first turn, whatever stops,
\* repeats or is answered late (dispatch in schedule.ts).
THEOREM OneThread == Spec => []OneAtATime
<1>1. ScheduleInv => OneAtATime
  <2> SUFFICES ASSUME ScheduleInv PROVE OneAtATime
    OBVIOUS
  <2> DEFINE W == {t \in Times \ orphans : threads[t] = "working"}
  <2>1. \A t, u \in W : t = u
    BY DEF ScheduleInv, Working, WorkingIsKnown, LastIsDone, OnePending
  <2>2. CASE W = {}
    BY <2>2, FS_EmptySet DEF OneAtATime
  <2>3. CASE W # {}
    <3>1. PICK t \in W : W = {t}
      BY <2>1, <2>3
    <3>2. Cardinality(W) = 1
      BY <3>1, FS_Singleton
    <3> QED BY <3>2 DEF OneAtATime
  <2> QED BY <2>2, <2>3
<1> QED BY <1>1, Invariance, PTL

\* Only InsertOccurrence makes an occurrence pending, and what it inserts is the
\* latest time that is due: reconcile skips the times missed before.
THEOREM CatchUp == Spec => LatestIsRun
<1> DEFINE Latest == \A t \in Times : occurrence[t] = "none" /\ occurrence'[t] = "pending" =>
                       t <= now /\ now < t + Interval
<1>1. ScheduleInv /\ [Next]_vars => [Latest]_vars
  <2> SUFFICES ASSUME ScheduleInv, Next, NEW t \in Times,
                      occurrence[t] = "none", occurrence'[t] = "pending"
               PROVE  t <= now /\ now < t + Interval
    OBVIOUS
  <2>1. CASE InsertOccurrence
    <3>1. t = LatestMissed /\ schedule.next <= now
      BY <2>1 DEF InsertOccurrence, ScheduleInv, TypeOK
    <3> QED BY <3>1, LatestMissedIsLatest DEF ScheduleInv
  <2>2. CASE RecordAnswer
    BY <2>2 DEF RecordAnswer, RecordAccepted, RecordRejected, LeavePending, Accepted, ScheduleInv, TypeOK
  <2>3. CASE Remove
    BY <2>3 DEF Remove
  <2>4. CASE UNCHANGED occurrence
    BY <2>4
  <2> QED BY <2>1, <2>2, <2>3, <2>4 DEF Next, PassStep, Create, Finish, Resume, SetState, RetryPending,
       AskPrevious, NothingToRun, PreviousUnknown, SpawnAccepted, SpawnRejected, SpawnUnavailable, Stop, Tick
<1> QED BY <1>1, Invariance, PTL DEF Spec, LatestIsRun
=============================================================================
