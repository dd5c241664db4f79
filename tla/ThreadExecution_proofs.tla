----------------------- MODULE ThreadExecution_proofs -----------------------
(***************************************************************************)
(* The native session and the thread that drives it, for any number of     *)
(* inputs and whatever stops, exits, rejects or answers late. First what   *)
(* the session owes to its receipts, then what the controller knows of the *)
(* session at each of its awaits, one lemma for each of its actions.       *)
(***************************************************************************)
EXTENDS ThreadExecution, TLAPS, WellFoundedInduction

-----------------------------------------------------------------------------
(* The native session.                                                     *)

\* What every queue owes to the receipts: an input is taken before it is
\* queued, an unlanded input of the run is still queued, and a deferred one
\* has no other receipt. A session that is gone runs nothing.
SessionInv ==
  /\ Native!TypeOK
  /\ active \subseteq receipts.accepted
  /\ receipts.landed \subseteq receipts.accepted
  /\ active \ receipts.landed \subseteq inbox
  /\ receipts.deferred \cap receipts.accepted = {}
  /\ Native!LandsOnce
  /\ Native!SettledLanded
  /\ ~alive => active = {} /\ ~blocked

USE DEF Native!Receipts, Native!LandsOnce, Native!SettledLanded

LEMMA InitSession == Native!Init => SessionInv
  <1> SUFFICES ASSUME Native!Init PROVE SessionInv
    OBVIOUS
  <1>1. receipts \in Native!Receipts
    BY DEF Native!Init
  <1>2. /\ receipts.accepted = {} /\ receipts.landed = {}
        /\ receipts.completed = {} /\ receipts.deferred = {}
    BY DEF Native!Init
  <1> QED
    BY <1>1, <1>2 DEF Native!Init, SessionInv, Native!TypeOK

\* A fresh input, or one that is redelivered, is nowhere in the conversation.
LEMMA TakenIsNew ==
  ASSUME SessionInv, NEW w \in Works, ~Native!Known(w)
  PROVE  w \notin receipts.landed /\ w \notin receipts.completed
  BY DEF SessionInv, Native!TypeOK, Native!Known, Native!Redelivery

\* A continued input entered the conversation before.
LEMMA ResumedLanded ==
  ASSUME SessionInv, NEW w \in Works, Native!Known(w), w \notin receipts.completed, ~Native!Busy
  PROVE  w \in receipts.landed
  BY DEF SessionInv, Native!TypeOK, Native!Known, Native!Redelivery, Native!Busy

LEMMA InputCases ==
  ASSUME NEW w \in Works, NEW kind, NEW resume \in BOOLEAN, Native!Input(w, kind, resume)
  PROVE  \/ ~Native!Known(w) /\ Native!Taken(w)
         \/ Native!Known(w) /\ w \notin receipts.completed /\ ~Native!Busy /\ Native!Resumed(w)
         \/ UNCHANGED Native!nativeVars
  <1>1. CASE Native!Reply(w, kind, resume) = "pending"
    <2>1. Native!Taken(w)
      BY <1>1 DEF Native!Input
    <2>2. ~Native!Known(w)
      BY <1>1 DEF Native!Reply
    <2> QED
      BY <2>1, <2>2
  <1>2. CASE Native!Reply(w, kind, resume) # "pending" /\ Native!Reply(w, kind, resume) = "accepted"
             /\ Native!Continues(w, resume)
    <2>1. Native!Resumed(w)
      BY <1>2 DEF Native!Input
    <2>2. ~Native!Busy
      BY <1>2 DEF Native!Reply, Native!Continues, Native!Busy
    <2> QED
      BY <1>2, <2>1, <2>2 DEF Native!Continues
  <1>3. CASE ~(Native!Reply(w, kind, resume) = "pending")
             /\ ~(Native!Reply(w, kind, resume) = "accepted" /\ Native!Continues(w, resume))
    BY <1>3 DEF Native!Input
  <1> QED
    BY <1>1, <1>2, <1>3

LEMMA StepSession == SessionInv /\ [Native!Next]_(Native!nativeVars) => SessionInv'
  <1> SUFFICES ASSUME SessionInv, [Native!Next]_(Native!nativeVars) PROVE SessionInv'
    OBVIOUS
  <1> USE DEF SessionInv, Native!TypeOK
  <1>1. ASSUME NEW w \in Works, NEW kind \in {"prompt", "steer"}, NEW resume \in BOOLEAN,
               Native!Input(w, kind, resume)
        PROVE  SessionInv'
    <2>1. alive
      BY <1>1 DEF Native!Input
    <2>2. CASE ~Native!Known(w) /\ Native!Taken(w)
      <3>1. w \notin receipts.landed /\ w \notin receipts.completed
        BY <2>2, TakenIsNew
      <3> QED
        BY <2>1, <2>2, <3>1 DEF Native!Taken
    <2>3. CASE Native!Known(w) /\ w \notin receipts.completed /\ ~Native!Busy /\ Native!Resumed(w)
      <3>1. w \in receipts.landed
        BY <2>3, ResumedLanded
      <3> QED
        BY <2>1, <2>3, <3>1 DEF Native!Resumed
    <2>4. CASE UNCHANGED Native!nativeVars
      BY <2>4 DEF Native!nativeVars
    <2> QED
      BY <1>1, <2>2, <2>3, <2>4, InputCases
  <1>2. ASSUME NEW w \in Works, Native!Acknowledge(w) PROVE SessionInv'
    BY <1>2 DEF Native!Acknowledge
  <1>3. ASSUME NEW w \in Works, Native!Reject(w) PROVE SessionInv'
    BY <1>3 DEF Native!Reject
  <1>4. ASSUME NEW w \in Works, Native!Land(w) PROVE SessionInv'
    BY <1>4 DEF Native!Land
  <1>5. CASE Native!Settle
    BY <1>5 DEF Native!Settle, Native!Settleable
  <1>6. CASE Native!BeginAbort
    BY <1>6 DEF Native!BeginAbort
  <1>7. CASE Native!EndAbort
    BY <1>7 DEF Native!EndAbort, Native!DeferredByAbort
  <1>8. CASE Native!Exit
    BY <1>8 DEF Native!Exit
  <1>9. CASE Native!Open
    BY <1>9 DEF Native!Open
  <1>10. CASE UNCHANGED Native!nativeVars
    BY <1>10 DEF Native!nativeVars
  <1> QED
    BY <1>1, <1>2, <1>3, <1>4, <1>5, <1>6, <1>7, <1>8, <1>9, <1>10 DEF Native!Next

LEMMA Session == Native!Spec => []SessionInv
  BY InitSession, StepSession, PTL DEF Native!Spec

\* The queues nest and the receipts are sets of inputs, in every state.
THEOREM SessionTypeCorrect == Native!Spec => []Native!TypeOK
  BY Session, PTL DEF SessionInv

\* No input enters the conversation twice, whatever crashed or was cancelled.
THEOREM DeliveryOnce == Native!Spec => []Native!LandsOnce
  BY Session, PTL DEF SessionInv

\* Nothing is settled that the model was not shown.
THEOREM SettlementDelivered == Native!Spec => []Native!SettledLanded
  BY Session, PTL DEF SessionInv

\* A deferred input has no receipt and no queue that still claims it.
THEOREM DeferralFrees == Native!Spec => []Native!DeferredIsFree
  <1>1. SessionInv => Native!DeferredIsFree
    BY DEF SessionInv, Native!TypeOK, Native!DeferredIsFree
  <1> QED
    BY <1>1, Session, PTL

-----------------------------------------------------------------------------
(* The session implements InputDelivery.                                   *)

phases == [w \in Works |-> Native!Phase(w)]

LEMMA PhaseOf ==
  ASSUME NEW w \in Works
  PROVE  phases[w] = Native!Phase(w) /\ phases'[w] = Native!Phase(w)'
  BY DEF phases

LEMMA InitDelivery == Native!Init => Native!Delivery!Init
  BY DEF Native!Init, Native!Delivery!Init, Native!Phase

\* One input moves from one phase to the next.
LEMMA TakeStep ==
  ASSUME SessionInv, NEW w \in Works, ~Native!Known(w), Native!Taken(w)
  PROVE  Native!Delivery!Take(w) \/ UNCHANGED phases
  <1>1. w \notin receipts.landed /\ w \notin receipts.completed
    BY TakenIsNew
  <1>2. CASE w \in receipts.accepted
    BY <1>1, <1>2 DEF Native!Taken, phases, Native!Phase, SessionInv, Native!TypeOK
  <1>3. CASE w \notin receipts.accepted
    BY <1>1, <1>3 DEF Native!Taken, phases, Native!Phase, SessionInv, Native!TypeOK, Native!Delivery!Take, Native!Delivery!Moved
  <1> QED
    BY <1>2, <1>3

LEMMA LandStep ==
  ASSUME SessionInv, NEW w \in Works, Native!Land(w)
  PROVE  Native!Delivery!Deliver(w)
  BY DEF Native!Land, Native!Phase, SessionInv, Native!TypeOK, Native!Delivery!Deliver, Native!Delivery!Moved

LEMMA RejectStep ==
  ASSUME SessionInv, NEW w \in Works, Native!Reject(w)
  PROVE  Native!Delivery!Next
  <1> DEFINE back == {w}
  <1>1. back \subseteq Native!Delivery!InPhase("taken")
    BY DEF Native!Reject, Native!Phase, SessionInv, Native!TypeOK, Native!Delivery!InPhase
  <1>2. \A v \in Works : Native!Phase(v)' = IF v \in back THEN "outside" ELSE Native!Phase(v)
    BY DEF Native!Reject, Native!Phase, SessionInv, Native!TypeOK
  <1>3. Native!Delivery!End({}, back)
    BY <1>1, <1>2 DEF Native!Delivery!End
  <1> QED
    BY <1>3 DEF Native!Delivery!Next

\* A run ends: its landed inputs are settled and the others given back.
LEMMA EndStep ==
  ASSUME NEW done \in SUBSET Works, NEW back \in SUBSET Works,
         \A w \in done : Native!Phase(w) \in {"delivered", "settled"},
         \A w \in back : Native!Phase(w) = "taken",
         \A w \in Works : Native!Phase(w)' = IF w \in done THEN "settled"
                                      ELSE IF w \in back THEN "outside" ELSE Native!Phase(w)
  PROVE  Native!Delivery!Next
  <1>1. Native!Delivery!End(done, back)
    BY DEF Native!Delivery!End, Native!Delivery!InPhase
  <1> QED
    BY <1>1 DEF Native!Delivery!Next

LEMMA SettleStep ==
  ASSUME SessionInv, Native!Settle
  PROVE  Native!Delivery!Next
  <1>1. PICK done \in SUBSET Works : done = active
    BY DEF SessionInv, Native!TypeOK
  <1>2. \A w \in done : Native!Phase(w) \in {"delivered", "settled"}
    BY <1>1 DEF Native!Settle, Native!Settleable, Native!Phase, SessionInv, Native!TypeOK
  <1>3. \A w \in Works : Native!Phase(w)' = IF w \in done THEN "settled" ELSE Native!Phase(w)
    BY <1>1 DEF Native!Settle, Native!Phase, SessionInv, Native!TypeOK
  <1>4. PICK back \in SUBSET Works : back = {}
    OBVIOUS
  <1> QED
    BY <1>2, <1>3, <1>4, EndStep

LEMMA AbortStep ==
  ASSUME SessionInv, Native!EndAbort
  PROVE  Native!Delivery!Next
  <1>1. PICK done \in SUBSET Works : done = active \cap receipts.landed
    BY DEF SessionInv, Native!TypeOK
  <1>2. PICK back \in SUBSET Works : back = active \ receipts.landed
    BY DEF SessionInv, Native!TypeOK
  <1>3. \A w \in done : Native!Phase(w) \in {"delivered", "settled"}
    BY <1>1 DEF Native!Phase
  <1>4. \A w \in back : Native!Phase(w) = "taken"
    BY <1>2 DEF Native!Phase, SessionInv, Native!TypeOK
  <1>5. \A w \in Works : Native!Phase(w)' = IF w \in done THEN "settled"
                                     ELSE IF w \in back THEN "outside" ELSE Native!Phase(w)
    BY <1>1, <1>2 DEF Native!EndAbort, Native!DeferredByAbort, Native!Phase, SessionInv, Native!TypeOK
  <1> QED
    BY <1>3, <1>4, <1>5, EndStep

LEMMA StepDelivery == SessionInv /\ [Native!Next]_(Native!nativeVars) => [Native!Delivery!Next]_phases
  <1> SUFFICES ASSUME SessionInv, [Native!Next]_(Native!nativeVars) PROVE Native!Delivery!Next \/ UNCHANGED phases
    OBVIOUS
  <1>1. ASSUME NEW w \in Works, NEW kind \in {"prompt", "steer"}, NEW resume \in BOOLEAN,
               Native!Input(w, kind, resume)
        PROVE  Native!Delivery!Next \/ UNCHANGED phases
    <2>1. CASE ~Native!Known(w) /\ Native!Taken(w)
      BY <2>1, TakeStep DEF Native!Delivery!Next
    <2>2. CASE Native!Resumed(w)
      BY <2>2 DEF Native!Resumed, phases, Native!Phase
    <2>3. CASE UNCHANGED Native!nativeVars
      BY <2>3 DEF Native!nativeVars, phases, Native!Phase
    <2> QED
      BY <1>1, <2>1, <2>2, <2>3, InputCases
  <1>2. ASSUME NEW w \in Works, Native!Land(w) PROVE Native!Delivery!Next
    BY <1>2, LandStep DEF Native!Delivery!Next
  <1>3. CASE receipts' = receipts
    BY <1>3 DEF phases, Native!Phase
  <1>4. ASSUME NEW w \in Works, Native!Acknowledge(w) PROVE receipts' = receipts
    BY <1>4 DEF Native!Acknowledge
  <1>5. CASE Native!BeginAbort \/ Native!Exit \/ Native!Open \/ UNCHANGED Native!nativeVars
    BY <1>3, <1>5 DEF Native!BeginAbort, Native!Exit, Native!Open, Native!nativeVars
  <1> QED
    BY <1>1, <1>2, <1>3, <1>4, <1>5, RejectStep, SettleStep, AbortStep DEF Native!Next

\* The session keeps what InputDelivery promises: delivered at most once,
\* settled only when delivered, and never given back after delivery.
THEOREM SessionRefinement == Native!Spec => Native!KeepsDelivery
  <1>1. Native!Init => Native!Delivery!Init
    BY InitDelivery
  <1>2. SessionInv /\ [Native!Next]_(Native!nativeVars) => [Native!Delivery!Next]_phases
    BY StepDelivery
  <1> QED
    BY <1>1, <1>2, Session, PTL DEF Native!Spec, Native!KeepsDelivery, Native!Delivery!Spec, phases

HIDE DEF Native!Receipts, Native!LandsOnce, Native!SettledLanded

-----------------------------------------------------------------------------
(* What the controller's statements make of its rows and operations.       *)

Ranks == 0..Fronts

Rows == [status : {"absent", "queued", "dispatched", "done"},
         delivery : {"queue", "steer", "hardSteer"}, front : Ranks,
         execution : Works \cup {None}, inserted : BOOLEAN, landed : BOOLEAN,
         outcome : Outcomes]

Threads == [held : {"no", "pending", "failed", "confirmed"}, request : {"none", "close", "cancel"},
            archived : BOOLEAN, execution : Works \cup {None}, fronts : Ranks,
            wait : Works \cup {None}]

Custodies == [Works -> {"none", "requested", "held", "entered"}]

Commands == [work : Works, execution : Works, kind : {"prompt", "steer"}, resume : BOOLEAN]

Attachments == [up : BOOLEAN, execution : Works \cup {None}, busy : BOOLEAN, outcome : Outcomes]

Awaited == {"idle", "unassigned", "awaitHalt", "halted", "reacquire", "reopen", "rename",
            "redeliver", "discard", "prepare", "acquire", "admit", "replaced", "open",
            "deliver", "probe", "settling", "finishing", "park"}

Operations == [at : Awaited, work : Works \cup {None}, execution : Works \cup {None},
               runtime : {"none", "live", "stale"}, outcome : Outcomes,
               opening : BOOLEAN, prompt : BOOLEAN,
               accepted : SUBSET Works, completed : SUBSET Works]

Stops == {"abort", "aborting", "state", "finish", "release"}

Interruptions == [at : Stops \cup {"idle", "begin"}, runtime : {"none", "live", "stale"}]

Settlements == [kind : {"settled", "rejected"}, works : SUBSET Works,
                outcome : {"complete", "failed", "cancelled"}, execution : Works \cup {None}]

\* The operations that are about one input.
Concerns == {"redeliver", "prepare", "acquire", "admit", "replaced", "open", "deliver", "probe"}

Typed ==
  /\ work \in [Works -> Rows] /\ thread \in Threads /\ custody \in Custodies
  /\ runtime \in Attachments /\ job \in Operations /\ halt \in Interruptions
  /\ settlements \in Seq(Settlements)
  /\ pipe \in Commands \cup {NoInput}
  /\ Status!TypeOK
  /\ job.at \in Concerns => job.work \in Works


-----------------------------------------------------------------------------
(* The rows.                                                               *)

\* Two tables that differ in receipts only.
Alike(table, other) ==
  \A w \in Works : /\ table[w].status = other[w].status
                   /\ table[w].execution = other[w].execution
                   /\ table[w].outcome = other[w].outcome

LEMMA AdoptedRows ==
  ASSUME work \in [Works -> Rows]
  PROVE  Adopted \in [Works -> Rows] /\ Alike(Adopted, work)
  BY DEF Rows, Adopted, Alike

LEMMA AdoptedReferenceRows ==
  ASSUME work \in [Works -> Rows]
  PROVE  AdoptedReference \in [Works -> Rows] /\ Alike(AdoptedReference, work)
  <1>1. Adopted \in [Works -> Rows] /\ Alike(Adopted, work)
    BY AdoptedRows
  <1>2. ASSUME NEW w \in Works
        PROVE  /\ AdoptedReference[w] \in Rows
               /\ AdoptedReference[w].status = Adopted[w].status
               /\ AdoptedReference[w].execution = Adopted[w].execution
               /\ AdoptedReference[w].outcome = Adopted[w].outcome
    <2>1. Adopted[w] \in Rows
      BY <1>1
    <2>2. AdoptedReference[w] \in {Adopted[w], [Adopted[w] EXCEPT !.inserted = TRUE]}
      BY DEF AdoptedReference
    <2> QED
      BY <2>1, <2>2 DEF Rows
  <1> QED
    BY <1>1, <1>2 DEF AdoptedReference, Alike

LEMMA InsertedRows ==
  ASSUME work \in [Works -> Rows], NEW w \in Works, NEW landed \in BOOLEAN
  PROVE  Inserted(w, landed) \in [Works -> Rows] /\ Alike(Inserted(w, landed), work)
  BY DEF Rows, Inserted, Alike

LEMMA LandedRows ==
  ASSUME work \in [Works -> Rows], NEW w \in Works
  PROVE  /\ [work EXCEPT ![w].landed = TRUE] \in [Works -> Rows]
         /\ Alike([work EXCEPT ![w].landed = TRUE], work)
  BY DEF Rows, Alike

LEMMA MovedRows ==
  ASSUME work \in [Works -> Rows], NEW w \in Works,
         NEW d \in {"queue", "steer", "hardSteer"}, NEW f \in Ranks
  PROVE  [work EXCEPT ![w].delivery = d, ![w].front = f] \in [Works -> Rows]
  BY DEF Rows

LEMMA WithdrawnRows ==
  ASSUME work \in [Works -> Rows], NEW w \in Works
  PROVE  [work EXCEPT ![w].status = "done", ![w].outcome = "cancelled"] \in [Works -> Rows]
  BY DEF Rows, Outcomes

LEMMA DispatchedRows ==
  ASSUME work \in [Works -> Rows], NEW w \in Works, NEW e \in Works \cup {None},
         work' = [work EXCEPT ![w].status = "dispatched", ![w].execution = e]
  PROVE  /\ work' \in [Works -> Rows]
         /\ work'[w].status = "dispatched" /\ work'[w].execution = e
         /\ work'[w].outcome = work[w].outcome
         /\ \A v \in Works \ {w} : work'[v] = work[v]
  BY DEF Rows

\* The end of an execution settles its rows, or gives one back that is not
\* the one it is named for.
LEMMA FinishedRows ==
  ASSUME NEW table \in [Works -> Rows], NEW e \in Works, NEW o \in Outcomes
  PROVE  /\ Finished(table, e, o) \in [Works -> Rows]
         /\ \A w \in Works :
              \/ Finished(table, e, o)[w] = table[w]
              \/ /\ table[w].status # "done" /\ table[w].execution = e
                 /\ Finished(table, e, o)[w].status = "done"
                 /\ Finished(table, e, o)[w].outcome = o
                 /\ Finished(table, e, o)[w].execution = e
              \/ /\ table[w].status # "done" /\ w # e
                 /\ Finished(table, e, o)[w].status = "queued"
                 /\ Finished(table, e, o)[w].outcome = table[w].outcome
                 /\ Finished(table, e, o)[w].execution = None
  BY DEF Rows, Finished, None

LEMMA CancelledRows ==
  ASSUME NEW table \in [Works -> Rows]
  PROVE  /\ Cancelled(table) \in [Works -> Rows]
         /\ \A w \in Works :
              \/ Cancelled(table)[w] = table[w] /\ table[w].status \in {"absent", "done"}
              \/ /\ table[w].status \in {"queued", "dispatched"}
                 /\ Cancelled(table)[w].status = "done"
                 /\ Cancelled(table)[w].outcome = "cancelled"
                 /\ Cancelled(table)[w].execution = table[w].execution
  BY DEF Rows, Cancelled, Outcomes

LEMMA RetiredRows ==
  ASSUME work \in [Works -> Rows], NEW w \in Works
  PROVE  /\ Retired(w) \in [Works -> Rows]
         /\ \A v \in Works :
              \/ Retired(w)[v] = work[v]
              \/ /\ work[v].status = "dispatched"
                 /\ Retired(w)[v].status = "done"
                 /\ Retired(w)[v].outcome = "failed"
                 /\ Retired(w)[v].execution = work[v].execution
  BY DEF Rows, Retired, Correlated, Outcomes

LEMMA EndWaitThread ==
  ASSUME thread \in Threads, NEW ws
  PROVE  /\ EndWait(ws) \in Threads
         /\ EndWait(ws).execution = thread.execution /\ EndWait(ws).archived = thread.archived
         /\ EndWait(ws).held = thread.held /\ EndWait(ws).request = thread.request
  BY DEF Threads, EndWait, None

LEMMA EndedThread ==
  ASSUME thread \in Threads
  PROVE  /\ Ended \in Threads
         /\ Ended.execution = None /\ Ended.archived = thread.archived
         /\ Ended.held = thread.held /\ Ended.request = thread.request
  BY DEF Threads, Ended, None

-----------------------------------------------------------------------------
(* The invariant.                                                          *)

\* An attachment names a live session, and so does a command on its way.
Attached ==
  /\ runtime.up => alive
  /\ ~runtime.up => runtime = NoRuntime /\ settlements = <<>>
  /\ pipe # NoInput => alive
  /\ job.runtime = "live" => runtime.up
  /\ halt.at \in Stops /\ halt.runtime = "live" => runtime.up
  /\ halt.at = "begin" => halt.runtime # "live"
  /\ job.at = "rename" /\ job.runtime # "live" => ~runtime.up
  /\ job.at = "discard" => job.opening /\ ~runtime.up

\* The attachment is for the open execution, once the session is renamed.
Joined ==
  runtime.up /\ thread.execution # None /\ job.at # "rename"
    => runtime.execution = thread.execution

Reopening == {"reacquire", "reopen", "rename", "redeliver"}

\* A halt that has got past its beginning meets no recovery; once the session
\* said that it does nothing, nothing reaches it.
Stopping ==
  /\ halt.at \in Stops => job.at \notin Reopening \cup {"discard"} /\ ~job.opening
  /\ halt.at \in {"finish", "release"} => active = {} /\ ~blocked /\ pipe = NoInput
  /\ halt.at = "release" => thread.execution = None

\* The operations that go on only because no execution is open.
Unopened == {"unassigned", "halted", "acquire", "admit", "replaced", "open"}

\* Recovery is of the open execution. What is chosen for an open execution goes
\* to an attachment; otherwise none is opened until the choice is dispatched.
Recovering ==
  /\ job.at \in Reopening => thread.execution # None /\ job.execution = thread.execution
  /\ job.at \in Unopened => thread.execution = None
  /\ job.at \in {"prepare", "probe"} /\ job.execution = None => thread.execution = None
  /\ job.at = "prepare" /\ job.execution # None => job.runtime # "none"

\* The input that opened an execution does not go back to the queue.
Opener ==
  thread.execution # None => work[thread.execution].status \in {"dispatched", "done"}

Archive == ArchivedIsQuiet /\ (thread.archived => pipe = NoInput)

\* Whoever may yet record an execution as complete knows that its input was in
\* the conversation.
Ran ==
  /\ \A w \in Works : work[w].status # "done" => work[w].outcome = "none"
  /\ job.at = "finishing" => job.execution \in receipts.landed /\ job.outcome = "complete"
  /\ job.at = "settling" => thread.execution \in {None, job.execution} /\ job.outcome # "none"
  /\ job.completed \subseteq receipts.landed
  /\ runtime.outcome = "complete" /\ thread.execution # None
       => thread.execution \in receipts.landed
  /\ halt.at = "finish" /\ thread.execution # None => thread.execution \in receipts.landed
  /\ CompleteWasLanded

Linked ==
  /\ Attached /\ Joined /\ Stopping /\ Recovering /\ Opener /\ Archive /\ Ran

ThreadInv == Typed /\ SessionInv /\ Linked

USE DEF ThreadInv, Linked, Attached, Joined, Stopping, Recovering, Opener, Archive, Ran,
        ArchivedIsQuiet, CompleteWasLanded

-----------------------------------------------------------------------------
(* Requests change rows and the thread's wishes, and begin a halt.         *)

LEMMA SendStep ==
  ASSUME ThreadInv, NEW w \in Works, NEW d \in Deliveries, Send(w, d)
  PROVE  Typed' /\ Linked'
  <1>1. d \in {"queue", "steer", "hardSteer"}
    BY ExecutionAssumption
  <1>2. thread.fronts \in Nat /\ Fronts \in Nat /\ NewFront \in Nat
    BY ExecutionAssumption DEF Typed, Threads, Ranks, NewFront
  <1>3. PICK g \in Nat : thread' = [thread EXCEPT !.held = "no", !.fronts = g]
    BY <1>2 DEF Send
  <1>4. thread'.fronts = g /\ thread'.fronts <= Fronts
    BY <1>3 DEF Send, Typed, Threads
  <1>5. g \in Ranks /\ 0 \in Ranks
    BY <1>2, <1>4 DEF Ranks
  <1>6. PICK f \in Ranks : work' = [work EXCEPT ![w] = [NoWork EXCEPT !.status = "queued",
                                         !.delivery = d, !.front = f]]
    BY <1>3, <1>4, <1>5 DEF Send, Typed, Threads
  <1>7. Typed'
    <2>1. work' \in [Works -> Rows]
      BY <1>1, <1>6 DEF Typed, Rows, NoWork, Outcomes, None
    <2>2. thread' \in Threads
      BY <1>3, <1>5 DEF Typed, Threads
    <2>3. halt' \in Interruptions
      BY DEF Typed, Send, Interrupt, Halting, Interruptions
    <2> QED
      BY <2>1, <2>2, <2>3 DEF Typed, Send, Status!TypeOK, nativeVars
  <1>8. Linked'
    BY <1>3, <1>6 DEF Typed, Send, Threads, Rows, NoWork, Interrupt, Halting, None, Stops, nativeVars
  <1> QED
    BY <1>7, <1>8

LEMMA PromoteMessageStep ==
  ASSUME ThreadInv, NEW w \in Works, NEW d \in Deliveries, PromoteMessage(w, d)
  PROVE  Typed' /\ Linked'
  <1>1. d \in {"queue", "steer", "hardSteer"}
    BY ExecutionAssumption
  <1>2. thread.fronts \in Nat /\ Fronts \in Nat /\ NewFront \in Nat
    BY ExecutionAssumption DEF Typed, Threads, Ranks, NewFront
  <1>3. PICK g \in Nat : thread' \in {thread, [thread EXCEPT !.held = "no", !.fronts = g]}
                         /\ (d = "hardSteer" => g = NewFront /\ thread' # thread)
    <2>1. CASE d = "hardSteer"
      <3>1. thread' = [thread EXCEPT !.held = "no", !.fronts = NewFront]
        BY <2>1 DEF PromoteMessage
      <3>2. thread'.fronts = NewFront /\ NewFront # thread.fronts
        BY <1>2, <3>1 DEF Typed, Threads, NewFront
      <3> QED
        BY <1>2, <2>1, <3>1, <3>2
    <2>2. CASE d # "hardSteer"
      BY <1>2, <2>2 DEF PromoteMessage
    <2> QED
      BY <2>1, <2>2
  <1>4. thread' # thread => thread'.fronts = g /\ thread'.fronts <= Fronts
    BY <1>3 DEF PromoteMessage, Typed, Threads
  <1>5. thread' # thread => g \in Ranks
    BY <1>2, <1>4 DEF Ranks
  <1>6. PICK f \in Ranks : work' = [work EXCEPT ![w].delivery = d, ![w].front = f]
    <2>1. 0 \in Ranks
      BY <1>2 DEF Ranks
    <2> QED
      BY <2>1, <1>3, <1>5 DEF PromoteMessage
  <1>7. Typed'
    <2>1. work' \in [Works -> Rows]
      BY <1>1, <1>6, MovedRows DEF Typed
    <2>2. thread' \in Threads
      BY <1>3, <1>5 DEF Typed, Threads
    <2>3. halt' \in Interruptions
      BY DEF Typed, PromoteMessage, Interrupt, Halting, Interruptions
    <2> QED
      BY <2>1, <2>2, <2>3 DEF Typed, PromoteMessage, Status!TypeOK, nativeVars
  <1>8. Linked'
    BY <1>3, <1>6 DEF Typed, PromoteMessage, Threads, Rows, IsQueued, Interrupt, Halting, None,
       Stops, nativeVars
  <1> QED
    BY <1>7, <1>8

LEMMA CancelMessageStep ==
  ASSUME ThreadInv, NEW w \in Works, CancelMessage(w)
  PROVE  Typed' /\ Linked'
  <1>1. Typed'
    <2>1. work' \in [Works -> Rows]
      BY WithdrawnRows DEF Typed, CancelMessage
    <2> QED
      BY <2>1 DEF Typed, CancelMessage, Status!TypeOK, nativeVars, memory
  <1>2. Linked'
    BY DEF Typed, CancelMessage, IsQueued, Rows, nativeVars, memory
  <1> QED
    BY <1>1, <1>2

LEMMA ControlStep ==
  ASSUME ThreadInv, NEW action \in Controls, Control(action)
  PROVE  Typed' /\ Linked'
  <1>1. Typed'
    BY DEF Typed, Control, Threads, Interrupt, Halting, Interruptions, Status!TypeOK, nativeVars
  <1>2. Linked'
    BY DEF Typed, Control, Threads, Interrupt, Halting, Stops, nativeVars
  <1> QED
    BY <1>1, <1>2

LEMMA ReopenStep ==
  ASSUME ThreadInv, Reopen
  PROVE  Typed' /\ Linked'
  <1>1. /\ work' \in [Works -> Rows]
        /\ \A w \in Works :
             \/ work'[w] = work[w] /\ work[w].status \in {"absent", "done"}
             \/ /\ work[w].status \in {"queued", "dispatched"}
                /\ work'[w].status = "done" /\ work'[w].outcome = "cancelled"
                /\ work'[w].execution = work[w].execution
    BY CancelledRows DEF Typed, Reopen
  <1>2. Typed'
    BY <1>1 DEF Typed, Reopen, Threads, Custodies, Unclaimed, Status!TypeOK, nativeVars, memory
  <1>3. Linked'
    BY <1>1 DEF Typed, Reopen, Threads, nativeVars, memory
  <1> QED
    BY <1>2, <1>3

-----------------------------------------------------------------------------
(* Drain begins an operation.                                              *)

LEMMA Least ==
  ASSUME NEW S \in SUBSET Nat, S # {}
  PROVE  \E n \in S : \A m \in S : n <= m
  <1>1. PICK n \in S : \A m \in S : <<m, n>> \notin OpToRel(<, Nat)
    BY NatLessThanWellFounded, WFMin
  <1>2. ASSUME NEW m \in S PROVE n <= m
    <2>1. m \in Nat /\ n \in Nat
      OBVIOUS
    <2>2. ~(m < n)
      BY <1>1, <2>1 DEF OpToRel
    <2> QED
      BY <2>1, <2>2
  <1> QED
    BY <1>2

LEMMA WorksAreNat == Works \in SUBSET Nat /\ None \notin Works
  BY ExecutionAssumption DEF Works, None

\* ORDER BY picks the row that is ahead of the others.
LEMMA FirstIsOne ==
  ASSUME work \in [Works -> Rows], NEW ws \in SUBSET Works, ws # {}
  PROVE  First(ws) \in ws /\ \A v \in ws \ {First(ws)} : Ahead(First(ws), v)
  <1>1. \A w \in ws : /\ w \in Nat /\ work[w].front \in Nat
                      /\ Fronts - work[w].front \in Nat
    BY WorksAreNat, ExecutionAssumption DEF Rows, Ranks
  <1>2. PICK ks \in SUBSET Nat : ks = {Fronts - work[w].front : w \in ws}
    BY <1>1
  <1>3. ks # {}
    BY <1>2
  <1>4. PICK k \in ks : \A m \in ks : k <= m
    BY <1>3, Least
  <1>5. PICK us \in SUBSET Nat : us = {w \in ws : Fronts - work[w].front = k}
    BY <1>1
  <1>6. us # {}
    BY <1>2, <1>4, <1>5
  <1>7. PICK u \in us : \A w \in us : u <= w
    BY <1>6, Least
  <1>8. ASSUME NEW v \in ws \ {u} PROVE Ahead(u, v)
    <2>1. k <= Fronts - work[v].front /\ k = Fronts - work[u].front
      BY <1>2, <1>4, <1>5
    <2>2. CASE work[v].front = work[u].front
      <3>1. v \in us
        BY <1>5, <2>1, <2>2
      <3>2. u < v
        BY <1>1, <1>5, <1>7, <3>1
      <3> QED
        BY <2>2, <3>2 DEF Ahead
    <2>3. CASE work[v].front # work[u].front
      <3>1. u \in ws
        BY <1>5
      <3>2. Fronts \in Nat
        BY ExecutionAssumption
      <3>3. work[u].front > work[v].front
        BY <1>1, <2>1, <2>3, <3>1, <3>2
      <3> QED
        BY <3>3 DEF Ahead
    <2> QED
      BY <2>2, <2>3
  <1> QED
    BY <1>5, <1>8 DEF First

LEMMA IdleOperation ==
  /\ Idle \in Operations
  /\ Idle.at = "idle" /\ ~Idle.opening /\ Idle.completed = {} /\ Idle.runtime = "none"
  BY DEF Idle, Operations, Awaited, Outcomes

\* Drain goes on with the first input it may, or with nothing.
LEMMA ChosenOperation ==
  ASSUME work \in [Works -> Rows], NEW open \in Works \cup {None}, NEW a \in {"none", "live"}
  PROVE  \/ Chosen(open, a) = Idle
         \/ /\ Chosen(open, a) \in Operations
            /\ Chosen(open, a).at = "prepare" /\ Chosen(open, a).work \in Works
            /\ Chosen(open, a).execution = open /\ Chosen(open, a).runtime = a
            /\ ~Chosen(open, a).opening /\ Chosen(open, a).completed = {}
  <1>1. CASE Selectable(open) = {} \/ (open = None /\ a = "live" /\ runtime.busy)
    BY <1>1 DEF Chosen
  <1>2. CASE ~(Selectable(open) = {} \/ (open = None /\ a = "live" /\ runtime.busy))
    <2>1. Selectable(open) \in SUBSET Works
      BY DEF Selectable, Queued
    <2>2. PICK w \in Works : w = First(Selectable(open))
      BY <1>2, <2>1, FirstIsOne
    <2>3. Chosen(open, a) = [Idle EXCEPT !.at = "prepare", !.work = w, !.execution = open,
                                         !.runtime = a]
      BY <1>2, <2>2 DEF Chosen
    <2> QED
      BY <2>3 DEF Idle, Operations, Awaited, Outcomes
  <1> QED
    BY <1>1, <1>2

LEMMA DrainStep ==
  ASSUME ThreadInv, Drain
  PROVE  Typed' /\ Linked'
  <1> USE DEF DrainReady, MayDispatch
  <1>1. CASE DrainUnassigned
    <2>1. Typed'
      BY <1>1 DEF DrainUnassigned, Typed, Idle, Operations, Awaited, Outcomes, Concerns,
         Status!TypeOK, nativeVars, durable
    <2>2. Linked'
      BY <1>1 DEF DrainUnassigned, Unassigned, Idle, Reopening, Unopened, Stops, nativeVars, durable
    <2> QED
      BY <2>1, <2>2
  <1>2. CASE DrainHardSteer
    <2>1. Typed'
      BY <1>2 DEF DrainHardSteer, Typed, Idle, Operations, Awaited, Outcomes, Concerns, Halting,
         Interruptions, Status!TypeOK, nativeVars, durable
    <2>2. Linked'
      BY <1>2 DEF DrainHardSteer, Idle, Reopening, Unopened, Halting, Stops, nativeVars, durable
    <2> QED
      BY <2>1, <2>2
  <1>3. CASE DrainRecover
    <2>1. Typed'
      BY <1>3 DEF DrainRecover, Typed, Threads, Idle, Operations, Awaited, Outcomes, Concerns, Custodies,
         Status!TypeOK, nativeVars
    <2>2. Linked'
      BY <1>3 DEF DrainRecover, Idle, Reopening, Unopened, Stops, nativeVars
    <2> QED
      BY <2>1, <2>2
  <1>4. CASE DrainSelect
    <2>1. thread.execution \in Works \cup {None}
      BY DEF Typed, Threads
    <2>2. job' \in Operations /\ job'.at = "prepare" /\ job'.work \in Works
          /\ ~job'.opening /\ job'.completed = {} /\ (job'.runtime = "live" => runtime.up)
          /\ job'.execution = thread.execution
          /\ (job'.execution # None => job'.runtime # "none")
      BY <1>4, <2>1, ChosenOperation DEF DrainSelect, Typed
    <2>3. Typed'
      BY <1>4, <2>2 DEF DrainSelect, Typed, Status!TypeOK, nativeVars, durable
    <2>4. Linked'
      BY <1>4, <2>2 DEF DrainSelect, Reopening, Unopened, Stops, nativeVars, durable
    <2> QED
      BY <2>3, <2>4
  <1>5. CASE DrainProbe
    <2>1. Typed'
      BY <1>5 DEF DrainProbe, Typed, Threads, Idle, Operations, Awaited, Outcomes, Concerns,
         Status!TypeOK, nativeVars, durable
    <2>2. Linked'
      BY <1>5 DEF DrainProbe, Idle, Reopening, Unopened, Stops, nativeVars, durable
    <2> QED
      BY <2>1, <2>2
  <1> QED
    BY <1>1, <1>2, <1>3, <1>4, <1>5 DEF Drain

-----------------------------------------------------------------------------
(* The end of an execution.                                                *)

\* What the session may do in a step of the controller that is neither an
\* opening nor a closing: it takes up a command only if there is one.
SessionMoves ==
  /\ halt' = halt /\ pipe' \in {pipe, NoInput}
  /\ alive' = alive /\ blocked' = blocked
  /\ active' \subseteq active \/ pipe # NoInput
  /\ receipts.landed \subseteq receipts'.landed
  /\ Status!TypeOK'

LEMMA SessionRests ==
  ASSUME Typed, UNCHANGED <<halt, pipe, nativeVars>>
  PROVE  SessionMoves
  BY DEF Typed, Status!TypeOK, nativeVars, SessionMoves

\* What FinishBy may rely on wherever it is called.
LEMMA FinishByStep ==
  ASSUME ThreadInv, job.at \notin Reopening \/ halt.at \notin Stops,
         NEW outcome \in {"complete", "failed", "cancelled"},
         NEW attached \in Attachments, attached.up, runtime.up,
         attached.outcome = runtime.outcome,
         thread.execution # None => attached.execution = thread.execution,
         outcome = "complete" /\ thread.execution # None
           => thread.execution \in receipts.landed,
         NEW table \in [Works -> Rows], Alike(table, work),
         NEW row \in Threads, row.execution = thread.execution, row.archived = thread.archived,
         NEW opening \in BOOLEAN, opening => halt.at \notin Stops,
         FinishBy(outcome, attached, table, row, opening),
         SessionMoves,
         settlements' \in Seq(Settlements)
  PROVE  Typed' /\ Linked'
  <1> DEFINE e == thread.execution
  <1>1. CASE e = None
    <2>1. job' = Idle /\ runtime' = attached /\ work' = table /\ thread' = row /\ custody' = custody
      BY <1>1 DEF FinishBy
    <2>2. Typed'
      BY <2>1, IdleOperation DEF Typed, Concerns, SessionMoves
    <2>3. Linked'
      BY <1>1, <2>1, IdleOperation DEF Alike, Reopening, Unopened, Stops, SessionMoves
    <2> QED
      BY <2>2, <2>3
  <1>2. CASE e # None /\ outcome = "complete" /\ thread.request = "none"
    <2>1. /\ job' = [Idle EXCEPT !.at = "finishing", !.execution = e, !.runtime = "live",
                                 !.outcome = "complete", !.opening = opening]
          /\ runtime' = attached /\ work' = table /\ thread' = row /\ custody' = custody
      BY <1>2 DEF FinishBy
    <2>2. /\ job' \in Operations /\ job'.at = "finishing" /\ job'.execution = e
          /\ job'.outcome = "complete" /\ job'.completed = {} /\ job'.opening = opening
          /\ job'.runtime = "live"
      BY <2>1 DEF Typed, Threads, Idle, Operations, Awaited, Outcomes
    <2>3. Typed'
      BY <2>1, <2>2 DEF Typed, Concerns, SessionMoves
    <2>4. e \in Works
      BY <1>2 DEF Typed, Threads
    <2>5. Linked'
      BY <1>2, <2>1, <2>2, <2>4 DEF Alike, Reopening, Unopened, Stops, SessionMoves
    <2> QED
      BY <2>3, <2>5
  <1>3. CASE e # None /\ ~(outcome = "complete" /\ thread.request = "none")
    <2>1. PICK o \in {"failed", "cancelled"} :
            /\ job' = [Idle EXCEPT !.at = "park", !.runtime = "live", !.opening = opening]
            /\ work' = Finished(table, e, o)
            /\ thread' = Ended
            /\ custody' = [custody EXCEPT ![e] = "none"]
            /\ runtime' = [attached EXCEPT !.execution = None, !.busy = FALSE]
      BY <1>3 DEF FinishBy
    <2>2. /\ job' \in Operations /\ job'.at = "park" /\ job'.completed = {}
          /\ job'.opening = opening /\ job'.runtime = "live"
      BY <2>1 DEF Idle, Operations, Awaited, Outcomes
    <2>3. e \in Works /\ o \in Outcomes
      BY <1>3 DEF Typed, Threads, Outcomes
    <2>4. /\ work' \in [Works -> Rows]
          /\ \A w \in Works :
               \/ work'[w] = table[w]
               \/ /\ table[w].status # "done" /\ table[w].execution = e
                  /\ work'[w].status = "done" /\ work'[w].outcome = o
                  /\ work'[w].execution = e
               \/ /\ table[w].status # "done" /\ w # e
                  /\ work'[w].status = "queued" /\ work'[w].outcome = table[w].outcome
                  /\ work'[w].execution = None
      BY <2>1, <2>3, FinishedRows
    <2>5. /\ thread' \in Threads /\ thread'.execution = None
          /\ thread'.archived = thread.archived
      BY <2>1, EndedThread DEF Typed
    <2>6. runtime' \in Attachments /\ runtime'.up /\ runtime'.outcome = attached.outcome
      BY <2>1 DEF Attachments, None
    <2>7. Typed'
      BY <2>1, <2>2, <2>4, <2>5, <2>6 DEF Typed, Custodies, Concerns, SessionMoves
    <2>8. Linked'
      BY <1>3, <2>2, <2>4, <2>5, <2>6 DEF Alike, Reopening, Unopened, Stops, SessionMoves
    <2> QED
      BY <2>7, <2>8
  <1> QED
    BY <1>1, <1>2, <1>3

-----------------------------------------------------------------------------
(* Recovery.                                                               *)

LEMMA ReceiptsKnown ==
  ASSUME SessionInv
  PROVE  /\ receipts.accepted \in SUBSET Works /\ receipts.landed \in SUBSET Works
         /\ receipts.completed \in SUBSET Works /\ active \in SUBSET Works
         /\ receipts.completed \subseteq receipts.landed
         /\ ~alive => active = {} /\ ~blocked
  BY DEF SessionInv, Native!TypeOK, Native!Receipts, Native!SettledLanded

LEMMA RecoverUnassignedStep ==
  ASSUME ThreadInv, RecoverUnassigned
  PROVE  Typed' /\ Linked'
  <1>1. Adopted \in [Works -> Rows] /\ Alike(Adopted, work)
    BY AdoptedRows DEF Typed
  <1>2. job' = Idle /\ work' = Adopted /\ thread.execution = None
    BY DEF RecoverUnassigned, Unopened
  <1>3. /\ runtime' \in Attachments /\ runtime'.outcome = runtime.outcome
        /\ runtime.up => runtime'.up
        /\ runtime'.up => alive
        /\ ~runtime'.up => runtime' = runtime
    <2>1. CASE alive
      <3>1. runtime' = [runtime EXCEPT !.up = TRUE, !.busy = Native!Busy]
        BY <2>1 DEF RecoverUnassigned, Unopened
      <3>2. Native!Busy \in BOOLEAN
        BY DEF Native!Busy
      <3> QED
        BY <2>1, <3>1, <3>2 DEF Typed, Attachments
    <2>2. CASE ~alive
      BY <2>2 DEF RecoverUnassigned, Typed
    <2> QED
      BY <2>1, <2>2
  <1>4. Typed'
    BY <1>1, <1>2, <1>3, IdleOperation DEF RecoverUnassigned, Typed, Custodies, NoCustody, Concerns,
       Status!TypeOK, nativeVars
  <1>5. Linked'
    BY <1>1, <1>2, <1>3, IdleOperation DEF RecoverUnassigned, Alike, Reopening, Unopened, nativeVars
  <1> QED
    BY <1>4, <1>5

LEMMA DrainAfterHaltStep ==
  ASSUME ThreadInv, DrainAfterHalt
  PROVE  Typed' /\ Linked'
  <1>1. thread.execution \in Works \cup {None}
    BY DEF Typed, Threads
  <1>2. \/ job' = Idle
        \/ /\ job' \in Operations /\ job'.at = "prepare" /\ job'.work \in Works
           /\ ~job'.opening /\ job'.completed = {} /\ job'.runtime = "none"
           /\ job'.execution = None
    BY <1>1, ChosenOperation DEF DrainAfterHalt, Typed, Unopened
  <1>3. Typed'
    BY <1>2, IdleOperation DEF DrainAfterHalt, Typed, Concerns, Status!TypeOK, nativeVars, durable
  <1>4. Linked'
    BY <1>2, IdleOperation DEF DrainAfterHalt, Reopening, Unopened, nativeVars, durable
  <1> QED
    BY <1>3, <1>4

LEMMA ReacquiredStep ==
  ASSUME ThreadInv, Reacquired
  PROVE  Typed' /\ Linked'
  <1>1. /\ job' \in Operations /\ (job'.opening => job.opening) /\ job'.completed \subseteq job.completed
        /\ \/ job' = Idle
           \/ job'.at = "reopen" /\ job'.execution = job.execution /\ job'.runtime = job.runtime
    BY IdleOperation DEF Reacquired, Typed, Operations, Awaited
  <1>2. Typed'
    BY <1>1, IdleOperation DEF Reacquired, Typed, Custodies, Concerns, Status!TypeOK, nativeVars
  <1>3. Linked'
    BY <1>1, IdleOperation DEF Reacquired, Reopening, Unopened, nativeVars
  <1> QED
    BY <1>2, <1>3

LEMMA ReopenedStep ==
  ASSUME ThreadInv, Reopened
  PROVE  Typed' /\ Linked'
  <1>1. AdoptedReference \in [Works -> Rows] /\ Alike(AdoptedReference, work)
    BY AdoptedReferenceRows DEF Typed
  <1>2. /\ thread' \in Threads /\ thread'.execution = thread.execution
        /\ thread'.archived = thread.archived
    BY EndWaitThread DEF Reopened, Typed
  <1>3. /\ runtime' \in Attachments /\ runtime'.up /\ runtime'.outcome = "none"
    BY DEF Reopened, NoRuntime, Attachments, Outcomes, Native!Busy, None
  <1>4. /\ job' \in Operations /\ job'.at = "rename" /\ job'.runtime = "live"
        /\ job'.execution = job.execution /\ job'.completed = receipts.completed
        /\ job'.opening = job.opening
    BY ReceiptsKnown DEF Reopened, Typed, Operations, Awaited
  <1>5. alive' /\ UNCHANGED <<receipts, active, blocked>>
    BY DEF Reopened, Native!Open
  <1>6. thread.execution \in Works
    BY DEF Reopened, Reopening, Unopened, Typed, Threads
  <1>7. Typed'
    BY <1>1, <1>2, <1>3, <1>4 DEF Reopened, Typed, Concerns, Status!TypeOK
  <1>8. Linked'
    BY <1>1, <1>2, <1>3, <1>4, <1>5, <1>6, ReceiptsKnown DEF Reopened, Alike, Reopening, Unopened
  <1> QED
    BY <1>7, <1>8

LEMMA RenamedStep ==
  ASSUME ThreadInv, Renamed
  PROVE  Typed' /\ Linked'
  <1> DEFINE e == thread.execution
             attached == [runtime EXCEPT !.execution = e]
  <1>1. /\ e \in Works /\ e # None /\ halt.at \notin Stops
    BY DEF Renamed, Typed, Threads, Reopening
  <1>2. /\ attached \in Attachments /\ attached.up /\ attached.execution = e
        /\ attached.outcome = runtime.outcome /\ runtime.up
    BY <1>1 DEF Renamed, Typed, Attachments
  <1>3. CASE RecoveredDone(e)
    <2>1. PICK o \in {"complete", "failed"} : FinishBy(o, attached, work, thread, TRUE)
      BY <1>3 DEF Renamed
    <2>2. e \in receipts.landed
      BY <1>3 DEF RecoveredDone
    <2>3. Alike(work, work)
      BY DEF Alike
    <2>4. settlements' \in Seq(Settlements) /\ UNCHANGED <<halt, pipe, nativeVars>>
      BY <1>3 DEF Renamed, Typed
    <2>5. SessionMoves
      BY <2>4, SessionRests
    <2> HIDE DEF attached
    <2> QED
      BY <1>1, <1>2, <2>1, <2>2, <2>3, <2>4, <2>5, FinishByStep DEF Typed
  <1>4. CASE ~RecoveredDone(e) /\ ~runtime.busy /\ Unfinished(e) # {} /\ MayDispatch
    <2>1. PICK us \in SUBSET Nat : us = Unfinished(e)
      BY WorksAreNat DEF Unfinished
    <2>2. \E v \in us : \A u \in us : v <= u
      BY <1>4, <2>1, Least
    <2>3. PICK w \in Works : w = CHOOSE v \in Unfinished(e) : \A u \in Unfinished(e) : v <= u
      BY <2>1, <2>2 DEF Unfinished
    <2>4. /\ pipe' = [work |-> w, execution |-> e, kind |-> "prompt",
                      resume |-> w \in job.accepted \/ work[w].inserted]
          /\ job' = [job EXCEPT !.at = "redeliver", !.work = w]
      BY <1>4, <2>3 DEF Renamed
    <2>5. /\ job' \in Operations /\ job'.at = "redeliver" /\ job'.work = w
          /\ job'.runtime = job.runtime /\ job'.execution = job.execution
          /\ job'.completed = job.completed /\ job'.opening = job.opening
      BY <2>4 DEF Typed, Operations, Awaited
    <2>6. work[w].inserted \in BOOLEAN
      BY DEF Typed, Rows
    <2>7. pipe' \in Commands
      BY <1>1, <2>4, <2>6 DEF Commands
    <2>8. runtime' = attached
      BY <1>4 DEF Renamed
    <2>9. UNCHANGED <<work, thread, custody, halt, settlements, nativeVars>>
      BY <1>4 DEF Renamed, durable
    <2> HIDE DEF attached
    <2>10. Typed'
      BY <1>2, <2>5, <2>7, <2>8, <2>9 DEF Typed, Status!TypeOK, nativeVars
    <2>11. Linked'
      BY <1>1, <1>2, <2>5, <2>8, <2>9 DEF Renamed, Reopening, Unopened, Stops, nativeVars
    <2> QED
      BY <2>10, <2>11
  <1>5. CASE ~RecoveredDone(e) /\ ~(~runtime.busy /\ Unfinished(e) # {} /\ MayDispatch)
    <2>1. /\ runtime' = attached /\ job' = Idle
          /\ UNCHANGED <<work, thread, custody, halt, settlements, pipe, nativeVars>>
      BY <1>5 DEF Renamed, durable
    <2> HIDE DEF attached
    <2>2. Typed'
      BY <1>2, <2>1, IdleOperation DEF Typed, Concerns, Status!TypeOK, nativeVars
    <2>3. Linked'
      BY <1>1, <1>2, <2>1, IdleOperation DEF Reopening, Unopened, nativeVars
    <2> QED
      BY <2>2, <2>3
  <1> QED
    BY <1>3, <1>4, <1>5

-----------------------------------------------------------------------------
(* Dispatch.                                                               *)

\* A recheck that succeeds was made without a halt and of a queued input.
LEMMA WantedFacts ==
  ASSUME Typed, StillWanted
  PROVE  halt.at = "idle" /\ work[job.work].status = "queued"
  BY DEF StillWanted, MayDispatch, IsQueued

LEMMA NotArchived ==
  ASSUME ThreadInv, NEW w \in Works, work[w].status = "queued"
  PROVE  ~thread.archived /\ thread.execution # w
  BY WorksAreNat

LEMMA PreparedStep ==
  ASSUME ThreadInv, Prepared
  PROVE  Typed' /\ Linked'
  <1> DEFINE w == job.work
  <1>1. w \in Works /\ job.at = "prepare"
    BY DEF Prepared, Typed, Concerns
  <1>2. UNCHANGED <<thread, runtime, halt, settlements, nativeVars>>
    BY DEF Prepared
  <1>3. CASE ~StillWanted
    <2>1. job' = Idle /\ UNCHANGED <<work, custody, pipe>>
      BY <1>3 DEF Prepared
    <2>2. Typed'
      BY <1>2, <2>1, IdleOperation DEF Typed, Concerns, Status!TypeOK, nativeVars
    <2>3. Linked'
      BY <1>1, <1>2, <2>1, IdleOperation DEF Reopening, Unopened, nativeVars
    <2> QED
      BY <2>2, <2>3
  <1>4. CASE StillWanted /\ job.execution = None
    <2>1. /\ job' = [job EXCEPT !.at = "acquire"]
          /\ custody' = [custody EXCEPT ![w] = IF @ = "none" THEN "requested" ELSE @]
          /\ UNCHANGED <<work, pipe>>
      BY <1>4 DEF Prepared
    <2>2. /\ job' \in Operations /\ job'.at = "acquire" /\ job'.work = w
          /\ job'.runtime = job.runtime /\ job'.opening = job.opening
          /\ job'.completed = job.completed
      BY <2>1 DEF Typed, Operations, Awaited
    <2>3. Typed'
      BY <1>1, <1>2, <2>1, <2>2 DEF Typed, Custodies, Concerns, Status!TypeOK, nativeVars
    <2>4. Linked'
      BY <1>1, <1>2, <1>4, <2>1, <2>2 DEF Reopening, Unopened, nativeVars
    <2> QED
      BY <2>3, <2>4
  <1>5. CASE StillWanted /\ job.execution # None
    <2>1. Dispatched(w, job.execution, thread.execution, job.runtime) /\ custody' = custody
      BY <1>5 DEF Prepared
    <2>2. job.execution \in Works \cup {None} /\ thread.execution \in Works \cup {None}
      BY DEF Typed, Operations, Threads
    <2>3. halt.at = "idle" /\ work[w].status = "queued" /\ ~thread.archived /\ thread.execution # w
      BY <1>1, <1>5, WantedFacts, NotArchived
    <2>4. /\ work' \in [Works -> Rows]
          /\ work'[w].status = "dispatched" /\ work'[w].outcome = work[w].outcome
          /\ \A v \in Works \ {w} : work'[v] = work[v]
      <3>1. work' = [work EXCEPT ![w].status = "dispatched", ![w].execution = job.execution]
        BY <2>1 DEF Dispatched
      <3>2. work \in [Works -> Rows]
        BY DEF Typed
      <3> QED
        BY <1>1, <2>2, <3>1, <3>2, DispatchedRows
    <2>5. CASE thread.execution = None \/ job.runtime = "stale"
      <3>1. job' = Idle /\ pipe' = pipe
        BY <2>1, <2>5 DEF Dispatched
      <3>2. Typed'
        BY <1>2, <2>1, <2>4, <3>1, IdleOperation DEF Typed, Concerns, Status!TypeOK, nativeVars
      <3>3. Linked'
        BY <1>1, <1>2, <2>2, <2>3, <2>4, <3>1, IdleOperation DEF Reopening, Unopened, Stops, nativeVars
      <3> QED
        BY <3>2, <3>3
    <2>6. CASE ~(thread.execution = None \/ job.runtime = "stale")
      <3>1. /\ job' = [job EXCEPT !.at = "deliver", !.runtime = job.runtime,
                                  !.prompt = ~runtime.busy]
            /\ pipe' = [work |-> w, execution |-> thread.execution, resume |-> FALSE,
                        kind |-> IF runtime.busy THEN "steer" ELSE "prompt"]
        BY <2>1, <2>6 DEF Dispatched
      <3>2. /\ job' \in Operations /\ job'.at = "deliver" /\ job'.work = w
            /\ job'.runtime = job.runtime /\ job'.opening = job.opening
            /\ job'.completed = job.completed
        BY <3>1 DEF Typed, Operations, Awaited
      <3>3. pipe' \in Commands
        BY <1>1, <2>2, <2>6, <3>1 DEF Commands
      <3>4. Typed'
        BY <1>1, <1>2, <2>1, <2>4, <3>2, <3>3 DEF Typed, Status!TypeOK, nativeVars
      <3>5. alive
        BY <1>1, <1>5, <2>6 DEF Typed, Operations
      <3>6. Linked'
        BY <1>1, <1>2, <2>2, <2>3, <2>4, <3>2, <3>5 DEF Reopening, Unopened, Stops, nativeVars
      <3> QED
        BY <3>4, <3>6
    <2> QED
      BY <2>5, <2>6
  <1> QED
    BY <1>3, <1>4, <1>5

LEMMA NothingAttached ==
  /\ NoRuntime \in Attachments /\ ~NoRuntime.up /\ NoRuntime.outcome = "none"
  /\ <<>> \in Seq(Settlements)
  BY DEF NoRuntime, Attachments, Outcomes

LEMMA RetireFacts ==
  ASSUME Retire
  PROVE  /\ runtime' = NoRuntime /\ settlements' = <<>> /\ pipe' = NoInput
         /\ ~alive' /\ active' = {} /\ ~blocked'
         /\ receipts' = receipts /\ status' = status
  BY DEF Retire, Native!Exit

LEMMA AcquiredStep ==
  ASSUME ThreadInv, Acquired
  PROVE  Typed' /\ Linked'
  <1>1. job.at = "acquire" /\ job.work \in Works
    BY DEF Acquired, Typed, Concerns
  <1>2. \/ job' = Idle
        \/ job' = [job EXCEPT !.at = "admit"]
    BY DEF Acquired, GiveUp
  <1>3. \/ job' = Idle
        \/ /\ job' \in Operations /\ job'.at = "admit" /\ job'.work = job.work
           /\ job'.runtime = job.runtime /\ job'.opening = job.opening
           /\ job'.completed = job.completed
    BY <1>2 DEF Typed, Operations, Awaited
  <1>4. custody' \in Custodies
    BY DEF Acquired, GiveUp, Typed, Custodies
  <1>5. UNCHANGED <<work, thread, runtime, halt, settlements, pipe, nativeVars>>
    BY DEF Acquired
  <1>6. Typed'
    BY <1>1, <1>3, <1>4, <1>5, IdleOperation DEF Typed, Concerns, Status!TypeOK, nativeVars
  <1>7. Linked'
    BY <1>1, <1>3, <1>5, IdleOperation DEF Reopening, Unopened, nativeVars
  <1> QED
    BY <1>6, <1>7

LEMMA ReplacedStep ==
  ASSUME ThreadInv, Replaced
  PROVE  Typed' /\ Linked'
  <1>1. /\ job.at = "admit" /\ job.work \in Works /\ halt.at = "idle"
        /\ UNCHANGED <<work, thread, custody, halt>>
    BY WantedFacts DEF Replaced, Typed, Concerns, durable
  <1>2. /\ job' \in Operations /\ job'.at = "replaced" /\ job'.work = job.work
        /\ job'.runtime = "stale" /\ job'.opening = job.opening
        /\ job'.completed = job.completed
    BY DEF Replaced, Typed, Operations, Awaited
  <1>3. Retire
    BY DEF Replaced
  <1>4. Typed'
    BY <1>1, <1>2, <1>3, RetireFacts, NothingAttached DEF Typed, Status!TypeOK
  <1>5. Linked'
    BY <1>1, <1>2, <1>3, RetireFacts, NothingAttached DEF Reopening, Unopened, Stops
  <1> QED
    BY <1>4, <1>5

LEMMA AdmittedStep ==
  ASSUME ThreadInv, Admitted
  PROVE  Typed' /\ Linked'
  <1>1. job.at \in {"admit", "replaced"} /\ job.work \in Works
    BY DEF Admitted, Typed, Concerns
  <1>2. \/ job' = Idle
        \/ job' = [job EXCEPT !.at = "open"]
    BY DEF Admitted, GiveUp
  <1>3. \/ job' = Idle
        \/ /\ job' \in Operations /\ job'.at = "open" /\ job'.work = job.work
           /\ job'.runtime = job.runtime /\ job'.opening = job.opening
           /\ job'.completed = job.completed
    BY <1>2 DEF Typed, Operations, Awaited
  <1>4. custody' \in Custodies
    BY DEF Admitted, GiveUp, Typed, Custodies
  <1>5. UNCHANGED <<work, thread, runtime, halt, settlements, pipe, nativeVars>>
    BY DEF Admitted
  <1>6. Typed'
    BY <1>1, <1>3, <1>4, <1>5, IdleOperation DEF Typed, Concerns, Status!TypeOK, nativeVars
  <1>7. Linked'
    BY <1>1, <1>3, <1>5, IdleOperation DEF Reopening, Unopened, nativeVars
  <1> QED
    BY <1>6, <1>7

LEMMA OpenedStep ==
  ASSUME ThreadInv, Opened
  PROVE  Typed' /\ Linked'
  <1> DEFINE w == job.work
  <1>1. job.at = "open" /\ w \in Works /\ UNCHANGED <<halt, settlements>>
    BY DEF Opened, Typed, Concerns
  <1>2. alive' /\ UNCHANGED <<receipts, active, blocked, status>>
    BY DEF Opened, Native!Open, nativeVars
  <1>3. PICK attached \in Attachments :
          /\ attached = IF runtime.up THEN runtime
                        ELSE [NoRuntime EXCEPT !.up = TRUE, !.busy = Native!Busy]
          /\ attached.up
          /\ attached.outcome = runtime.outcome
          /\ runtime.up => attached = runtime
    <2>1. CASE runtime.up
      BY <2>1 DEF Typed
    <2>2. CASE ~runtime.up
      <3>1. Native!Busy \in BOOLEAN
        BY DEF Native!Busy
      <3>2. runtime.outcome = "none"
        BY <2>2, NothingAttached
      <3>3. [NoRuntime EXCEPT !.up = TRUE, !.busy = Native!Busy] \in Attachments
        BY <3>1 DEF NoRuntime, Attachments, Outcomes
      <3> QED
        BY <2>2, <3>1, <3>2, <3>3 DEF NoRuntime
    <2> QED
      BY <2>1, <2>2
  <1>4. CASE ~StillWanted
    <2>1. /\ job' = [Idle EXCEPT !.at = "park", !.runtime = "live"]
          /\ custody' \in {custody, [custody EXCEPT ![w] = "none"]}
          /\ runtime' = attached
          /\ UNCHANGED <<work, thread, pipe>>
      BY <1>3, <1>4 DEF Opened
    <2>2. /\ job' \in Operations /\ job'.at = "park" /\ job'.completed = {}
          /\ ~job'.opening /\ job'.runtime = "live"
      BY <2>1 DEF Idle, Operations, Awaited, Outcomes
    <2>3. Typed'
      BY <1>1, <1>2, <1>3, <2>1, <2>2 DEF Typed, Custodies, Concerns, Status!TypeOK
    <2>4. Linked'
      BY <1>1, <1>2, <1>3, <2>1, <2>2 DEF Reopening, Unopened
    <2> QED
      BY <2>3, <2>4
  <1>5. CASE StillWanted
    <2>1. /\ thread' = [thread EXCEPT !.execution = w]
          /\ runtime' = [attached EXCEPT !.execution = w, !.outcome = "none"]
          /\ work' = [work EXCEPT ![w].status = "dispatched", ![w].execution = w]
          /\ job' = [job EXCEPT !.at = "deliver", !.runtime = "live",
                                !.execution = w, !.prompt = ~attached.busy]
          /\ pipe' = [work |-> w, execution |-> w, resume |-> FALSE,
                      kind |-> IF attached.busy THEN "steer" ELSE "prompt"]
          /\ custody' = custody
      BY <1>3, <1>5 DEF Opened
    <2>2. halt.at = "idle" /\ work[w].status = "queued" /\ ~thread.archived
      BY <1>1, <1>5, WantedFacts, NotArchived
    <2>3. /\ work' \in [Works -> Rows]
          /\ work'[w].status = "dispatched" /\ work'[w].outcome = work[w].outcome
          /\ \A v \in Works \ {w} : work'[v] = work[v]
      BY <1>1, <2>1, DispatchedRows DEF Typed
    <2>4. /\ thread' \in Threads /\ thread'.execution = w /\ thread'.archived = thread.archived
      BY <1>1, <2>1 DEF Typed, Threads
    <2>5. /\ runtime' \in Attachments /\ runtime'.up /\ runtime'.execution = w
          /\ runtime'.outcome = "none"
      BY <1>1, <1>3, <2>1 DEF Attachments, Outcomes
    <2>6. /\ job' \in Operations /\ job'.at = "deliver" /\ job'.work = w
          /\ job'.runtime = "live" /\ job'.opening = job.opening
          /\ job'.completed = job.completed
      BY <1>1, <2>1 DEF Typed, Operations, Awaited
    <2>7. pipe' \in Commands
      BY <1>1, <2>1 DEF Commands
    <2>8. Typed'
      BY <1>1, <1>2, <2>1, <2>3, <2>4, <2>5, <2>6, <2>7 DEF Typed, Status!TypeOK
    <2>9. Linked'
      BY <1>1, <1>2, <2>2, <2>3, <2>4, <2>5, <2>6 DEF Reopening, Unopened, Stops
    <2> QED
      BY <2>8, <2>9
  <1> QED
    BY <1>4, <1>5

-----------------------------------------------------------------------------
(* Answers to inputs.                                                      *)

\* agent_start changes what is known of the session, not whose it is.
LEMMA RunningFacts ==
  ASSUME Typed, Attached
  PROVE  /\ Running(runtime) \in Attachments
         /\ Running(runtime).up = runtime.up
         /\ Running(runtime).execution = runtime.execution
         /\ Running(runtime).outcome = runtime.outcome
         /\ ~runtime.up => Running(runtime) = NoRuntime
  <1>1. CASE runtime.up
    <2>1. (Native!Busy)' \in BOOLEAN
      BY DEF Native!Busy
    <2> QED
      BY <1>1, <2>1 DEF Running, Typed, Attachments
  <1>2. CASE ~runtime.up
    <2>1. runtime = NoRuntime /\ NoRuntime.busy = FALSE
      BY <1>2 DEF NoRuntime
    <2>2. Running(runtime) = [NoRuntime EXCEPT !.busy = FALSE]
      BY <1>2, <2>1 DEF Running
    <2> QED
      BY <1>2, <2>2, NothingAttached DEF NoRuntime
  <1> QED
    BY <1>1, <1>2

LEMMA MarkedBusy ==
  ASSUME Typed, runtime.up
  PROVE  /\ [runtime EXCEPT !.busy = TRUE] \in Attachments
         /\ [runtime EXCEPT !.busy = TRUE].up
         /\ [runtime EXCEPT !.busy = TRUE].execution = runtime.execution
         /\ [runtime EXCEPT !.busy = TRUE].outcome = runtime.outcome
  BY DEF Typed, Attachments

\* An answer that changes receipts, the wait and what is known of the session.
LEMMA AnswerStep ==
  ASSUME ThreadInv, SessionMoves,
         work' \in [Works -> Rows], Alike(work', work),
         thread' \in Threads, thread'.execution = thread.execution,
         thread'.archived = thread.archived,
         runtime' \in Attachments, runtime'.up = runtime.up,
         runtime'.execution = runtime.execution, runtime'.outcome = runtime.outcome,
         ~runtime.up => runtime' = NoRuntime,
         (job' = Idle /\ job.at # "rename") \/ job' = job,
         settlements' \in Seq(Settlements), ~runtime.up => settlements' = <<>>,
         custody' = custody
  PROVE  Typed' /\ Linked'
  <1>1. Typed'
    BY IdleOperation DEF Typed, SessionMoves, Concerns
  <1>2. thread.execution \in Works \cup {None}
    BY DEF Typed, Threads
  <1>3. Linked'
    BY <1>2, IdleOperation DEF SessionMoves, Alike, Reopening, Unopened, Stops
  <1> QED
    BY <1>1, <1>3

LEMMA LateAnswerStep ==
  ASSUME ThreadInv, SessionMoves, NEW w \in Works, NEW ok \in BOOLEAN, LateAnswer(w, ok)
  PROVE  Typed' /\ Linked'
  <1>1. Alike(work, work)
    BY DEF Alike
  <1>2. work' \in [Works -> Rows] /\ Alike(work', work)
    BY <1>1, InsertedRows DEF LateAnswer, Typed
  <1>3. /\ thread' \in Threads /\ thread'.execution = thread.execution
        /\ thread'.archived = thread.archived
    BY EndWaitThread DEF LateAnswer, Typed
  <1>4. settlements' \in Seq(Settlements) /\ (~runtime.up => settlements' = <<>>)
    <2>1. CASE settlements' = settlements
      BY <2>1 DEF Typed
    <2>2. CASE settlements' # settlements
      <3>1. /\ runtime.up
            /\ settlements' = Append(settlements,
                 [kind |-> "rejected", works |-> {w}, outcome |-> "failed",
                  execution |-> thread.execution])
        BY <2>2 DEF LateAnswer
      <3>2. [kind |-> "rejected", works |-> {w}, outcome |-> "failed",
             execution |-> thread.execution] \in Settlements
        BY DEF Settlements, Typed, Threads
      <3> QED
        BY <3>1, <3>2 DEF Typed
    <2> QED
      BY <2>1, <2>2
  <1>5. runtime' = Running(runtime) /\ job' = job /\ custody' = custody
    BY DEF LateAnswer
  <1> QED
    BY <1>2, <1>3, <1>4, <1>5, RunningFacts, AnswerStep

LEMMA AcceptedStep ==
  ASSUME ThreadInv, SessionMoves, NEW w \in Works, Accepted(w)
  PROVE  Typed' /\ Linked'
  <1>1. CASE AwaitsAnswer("deliver", w) \/ AwaitsAnswer("redeliver", w)
    <2>1. runtime.up /\ job.at # "rename"
      BY <1>1 DEF AwaitsAnswer
    <2>2. work' \in {work, Inserted(w, job.prompt), Inserted(w, TRUE),
                     [work EXCEPT ![w].landed = TRUE]}
      BY <1>1 DEF Accepted, AwaitsAnswer
    <2>3. job.prompt \in BOOLEAN /\ work \in [Works -> Rows] /\ Alike(work, work)
      BY DEF Typed, Operations, Alike
    <2>4. work' \in [Works -> Rows] /\ Alike(work', work)
      BY <2>2, <2>3, InsertedRows, LandedRows
    <2>5. thread' \in {thread, EndWait({w})}
      BY <1>1 DEF Accepted, AwaitsAnswer
    <2>6. /\ thread' \in Threads /\ thread'.execution = thread.execution
          /\ thread'.archived = thread.archived
      BY <2>5, EndWaitThread DEF Typed
    <2>7. runtime' \in {[runtime EXCEPT !.busy = TRUE], Running(runtime)}
      BY <1>1 DEF Accepted, AwaitsAnswer
    <2>8. job' = Idle /\ UNCHANGED <<custody, settlements>>
      BY <1>1 DEF Accepted, AwaitsAnswer
    <2> QED
      BY <2>1, <2>4, <2>6, <2>7, <2>8, RunningFacts, MarkedBusy, AnswerStep DEF Typed
  <1>2. CASE ~(AwaitsAnswer("deliver", w) \/ AwaitsAnswer("redeliver", w))
    <2>1. LateAnswer(w, TRUE)
      BY <1>2 DEF Accepted
    <2> QED
      BY <2>1, LateAnswerStep
  <1> QED
    BY <1>1, <1>2

LEMMA RefusedStep ==
  ASSUME ThreadInv, SessionMoves, NEW w \in Works, Refused(w)
  PROVE  Typed' /\ Linked'
  <1>1. CASE AwaitsAnswer("deliver", w) /\ halt.at = "idle"
    <2>1. FinishBy("failed", runtime, work, thread, FALSE) /\ UNCHANGED settlements
      BY <1>1 DEF Refused, AwaitsAnswer
    <2>2. /\ runtime.up /\ halt.at \notin Stops
          /\ thread.execution # None => runtime.execution = thread.execution
      BY <1>1 DEF AwaitsAnswer, Stops
    <2>3. Alike(work, work)
      BY DEF Alike
    <2> QED
      BY <2>1, <2>2, <2>3, FinishByStep DEF Typed
  <1>2. CASE AwaitsAnswer("deliver", w) /\ halt.at # "idle"
    <2>1. job' = Idle /\ UNCHANGED <<work, thread, custody, runtime, settlements>>
      BY <1>2 DEF Refused, AwaitsAnswer, durable
    <2>2. Alike(work', work) /\ job.at # "rename"
      BY <1>2, <2>1 DEF Alike, AwaitsAnswer
    <2> QED
      BY <2>1, <2>2, AnswerStep DEF Typed
  <1>3. CASE ~AwaitsAnswer("deliver", w) /\ AwaitsAnswer("redeliver", w)
    <2>1. /\ job' = [Idle EXCEPT !.at = "discard", !.opening = TRUE]
          /\ runtime' = NoRuntime /\ settlements' = <<>>
          /\ UNCHANGED <<work, thread, custody>>
      BY <1>3 DEF Refused, durable
    <2>2. /\ job' \in Operations /\ job'.at = "discard" /\ job'.opening
          /\ job'.completed = {} /\ job'.runtime = "none"
      BY <2>1 DEF Idle, Operations, Awaited, Outcomes
    <2>3. halt.at \notin Stops
      BY <1>3 DEF AwaitsAnswer, Reopening
    <2>4. Typed'
      BY <2>1, <2>2, NothingAttached DEF Typed, SessionMoves, Concerns
    <2>5. Linked'
      BY <2>1, <2>2, <2>3, NothingAttached DEF SessionMoves, Reopening, Unopened, Stops
    <2> QED
      BY <2>4, <2>5
  <1>4. CASE ~AwaitsAnswer("deliver", w) /\ ~AwaitsAnswer("redeliver", w)
    <2>1. LateAnswer(w, FALSE)
      BY <1>4 DEF Refused
    <2> QED
      BY <2>1, LateAnswerStep
  <1> QED
    BY <1>1, <1>2, <1>3, <1>4

LEMMA UnacknowledgedStep ==
  ASSUME ThreadInv, SessionMoves, Unacknowledged,
         job.at \in {"deliver", "redeliver"}, job.runtime = "live"
  PROVE  Typed' /\ Linked'
  <1>1. job.work \in Works /\ runtime.up /\ job.at # "rename"
    BY DEF Typed, Concerns
  <1>2. CASE job' = Idle /\ UNCHANGED <<durable, runtime, settlements>>
    <2>1. Alike(work', work)
      BY <1>2 DEF durable, Alike
    <2> QED
      BY <1>1, <1>2, <2>1, AnswerStep DEF Typed, durable
  <1>3. CASE Accepted(job.work)
    BY <1>1, <1>3, AcceptedStep
  <1>4. CASE /\ job' = Idle
             /\ thread' = [thread EXCEPT !.wait = job.work]
             /\ runtime' = [runtime EXCEPT !.busy = TRUE]
             /\ UNCHANGED <<work, custody, settlements>>
    <2>1. /\ thread' \in Threads /\ thread'.execution = thread.execution
          /\ thread'.archived = thread.archived
      BY <1>1, <1>4 DEF Typed, Threads
    <2>2. Alike(work', work)
      BY <1>4 DEF Alike
    <2> QED
      BY <1>1, <1>4, <2>1, <2>2, MarkedBusy, AnswerStep DEF Typed
  <1> QED
    BY <1>2, <1>3, <1>4 DEF Unacknowledged

LEMMA UnconfirmedStep ==
  ASSUME ThreadInv, SessionMoves, NEW w \in Works, Unconfirmed(w)
  PROVE  Typed' /\ Linked'
  <1>1. CASE AwaitsAnswer("deliver", w) \/ AwaitsAnswer("redeliver", w)
    <2>1. Unacknowledged /\ job.at \in {"deliver", "redeliver"} /\ job.runtime = "live"
      BY <1>1 DEF Unconfirmed, AwaitsAnswer
    <2> QED
      BY <2>1, UnacknowledgedStep
  <1>2. CASE ~(AwaitsAnswer("deliver", w) \/ AwaitsAnswer("redeliver", w))
    <2>1. UNCHANGED <<durable, runtime, job, settlements>>
      BY <1>2 DEF Unconfirmed
    <2>2. Alike(work', work)
      BY <2>1 DEF durable, Alike
    <2> QED
      BY <2>1, <2>2, AnswerStep DEF Typed, durable
  <1> QED
    BY <1>1, <1>2

LEMMA TimeOutStep ==
  ASSUME ThreadInv, TimeOut
  PROVE  Typed' /\ Linked'
  <1>1. SessionMoves
    BY SessionRests DEF TimeOut
  <1> QED
    BY <1>1, UnacknowledgedStep DEF TimeOut

LEMMA DiscardStep ==
  ASSUME ThreadInv, Discard
  PROVE  Typed' /\ Linked'
  <1>1. /\ job.at = "discard" /\ ~runtime.up /\ job' = Idle
        /\ UNCHANGED <<work, thread, custody, runtime, halt, settlements>>
    BY DEF Discard, durable
  <1>2. halt.at \notin Stops
    BY <1>1
  <1>3. CASE alive /\ ~Native!Busy
    <2>1. /\ ~alive' /\ active' = {} /\ ~blocked' /\ pipe' = NoInput
          /\ receipts' = receipts /\ status' = status
      BY <1>3 DEF Discard, Native!Exit
    <2>2. Typed'
      BY <1>1, <2>1, IdleOperation DEF Typed, Concerns, Status!TypeOK
    <2>3. Linked'
      BY <1>1, <1>2, <2>1, IdleOperation DEF Reopening, Unopened, Stops
    <2> QED
      BY <2>2, <2>3
  <1>4. CASE ~(alive /\ ~Native!Busy)
    <2>1. UNCHANGED <<pipe, nativeVars>>
      BY <1>4 DEF Discard
    <2>2. Typed'
      BY <1>1, <2>1, IdleOperation DEF Typed, Concerns, Status!TypeOK, nativeVars
    <2>3. Linked'
      BY <1>1, <2>1, IdleOperation DEF Reopening, Unopened, nativeVars
    <2> QED
      BY <2>2, <2>3
  <1> QED
    BY <1>3, <1>4

LEMMA ProbedStep ==
  ASSUME ThreadInv, Probed
  PROVE  Typed' /\ Linked'
  <1> DEFINE w == job.work
  <1>1. /\ job.at = "probe" /\ w \in Works /\ job.runtime = "live" /\ runtime.up
        /\ UNCHANGED <<custody, runtime, halt, settlements, pipe, nativeVars>>
    BY DEF Probed, Typed, Concerns
  <1>2. work' \in {work, Inserted(w, FALSE), Retired(w)}
    BY DEF Probed
  <1>3. work' \in [Works -> Rows]
    <2>1. work \in [Works -> Rows]
      BY DEF Typed
    <2>2. Inserted(w, FALSE) \in [Works -> Rows]
      BY <1>1, <2>1, InsertedRows
    <2>3. Retired(w) \in [Works -> Rows]
      BY <1>1, <2>1, RetiredRows
    <2> QED
      BY <1>2, <2>1, <2>2, <2>3
  <1>4. \A v \in Works :
          \/ /\ work'[v].status = work[v].status /\ work'[v].outcome = work[v].outcome
             /\ work'[v].execution = work[v].execution
          \/ /\ work[v].status = "dispatched" /\ work'[v].status = "done"
             /\ work'[v].outcome = "failed" /\ work'[v].execution = work[v].execution
    <2>1. CASE work' = work
      BY <2>1
    <2>2. CASE work' = Inserted(w, FALSE)
      BY <1>1, <2>2, InsertedRows DEF Typed, Alike
    <2>3. CASE work' = Retired(w)
      BY <1>1, <2>3, RetiredRows DEF Typed
    <2> QED
      BY <1>2, <2>1, <2>2, <2>3
  <1>5. /\ thread' \in Threads /\ thread'.execution = thread.execution
        /\ thread'.archived = thread.archived
    BY EndWaitThread DEF Probed, Typed
  <1>6. \/ job' = Idle
        \/ /\ job' \in Operations /\ job'.at = "prepare" /\ job'.work \in Works
           /\ job'.execution = job.execution /\ job'.runtime = "live"
           /\ ~job'.opening /\ job'.completed = {}
    <2>1. job' = Idle \/ job' = Chosen(job.execution, "live")
      BY DEF Probed
    <2>2. job.execution \in Works \cup {None} /\ work \in [Works -> Rows]
      BY DEF Typed, Operations
    <2> QED
      BY <2>1, <2>2, ChosenOperation
  <1>7. Typed'
    BY <1>1, <1>3, <1>5, <1>6, IdleOperation DEF Typed, Concerns, Status!TypeOK, nativeVars
  <1>8. Linked'
    BY <1>1, <1>4, <1>5, <1>6, IdleOperation DEF Typed, Threads, Reopening, Unopened, nativeVars
  <1> QED
    BY <1>7, <1>8

LEMMA AbandonedStep ==
  ASSUME ThreadInv, Abandoned
  PROVE  Typed' /\ Linked'
  <1>1. /\ job.at # "open" /\ job' = Idle /\ job.runtime # "live"
        /\ UNCHANGED <<work, thread, custody, runtime, halt, settlements, pipe, nativeVars>>
    BY DEF Abandoned, durable
  <1>2. Typed'
    BY <1>1, IdleOperation DEF Typed, Concerns, Status!TypeOK, nativeVars
  <1>3. Linked'
    BY <1>1, IdleOperation DEF Reopening, Unopened, nativeVars
  <1> QED
    BY <1>2, <1>3

-----------------------------------------------------------------------------
(* Settlement jobs and parking.                                            *)

LEMMA ServeSettlementStep ==
  ASSUME ThreadInv, ServeSettlement
  PROVE  Typed' /\ Linked'
  <1> DEFINE s == Head(settlements)
  <1>1. /\ job.at = "idle" /\ settlements # <<>>
        /\ settlements' = Tail(settlements)
        /\ UNCHANGED <<halt, pipe, nativeVars>>
    BY DEF ServeSettlement
  <1>2. s \in Settlements /\ settlements' \in Seq(Settlements)
    BY <1>1 DEF Typed
  <1>3. runtime.up /\ thread.execution \in Works \cup {None}
    BY <1>1 DEF Typed, Threads
  <1>4. SessionMoves /\ Alike(work, work)
    BY <1>1, SessionRests DEF Alike
  <1>5. CASE s.kind = "rejected" /\ thread.execution = s.execution /\ thread.held = "no"
    <2>1. FinishBy("failed", runtime, work, thread, FALSE)
      BY <1>5 DEF ServeSettlement
    <2>2. job.at \notin Reopening
      BY <1>1 DEF Reopening
    <2> QED
      BY <1>1, <1>2, <1>3, <1>4, <2>1, <2>2, FinishByStep DEF Typed
  <1>6. CASE /\ s.kind = "settled" /\ runtime.execution = s.execution
             /\ thread.execution # None => thread.execution \in s.works
    <2>1. /\ job' = [Idle EXCEPT !.at = "settling", !.execution = thread.execution,
                                 !.runtime = "live", !.outcome = s.outcome]
          /\ UNCHANGED <<work, thread, custody, runtime>>
      BY <1>6 DEF ServeSettlement, durable
    <2>2. /\ job' \in Operations /\ job'.at = "settling" /\ job'.execution = thread.execution
          /\ job'.runtime = "live" /\ ~job'.opening /\ job'.completed = {}
          /\ job'.outcome # "none"
      BY <1>2, <1>3, <2>1 DEF Idle, Operations, Awaited, Outcomes, Settlements
    <2>3. Typed'
      BY <1>1, <1>2, <2>1, <2>2 DEF Typed, Concerns, Status!TypeOK, nativeVars
    <2>4. Linked'
      BY <1>1, <1>3, <2>1, <2>2 DEF Reopening, Unopened, nativeVars
    <2> QED
      BY <2>3, <2>4
  <1>7. CASE /\ ~(s.kind = "rejected" /\ thread.execution = s.execution /\ thread.held = "no")
             /\ ~(/\ s.kind = "settled" /\ runtime.execution = s.execution
                  /\ thread.execution # None => thread.execution \in s.works)
    <2>1. UNCHANGED <<work, thread, custody, runtime, job>>
      BY <1>7 DEF ServeSettlement, durable
    <2>2. Typed'
      BY <1>1, <1>2, <2>1 DEF Typed, Status!TypeOK, nativeVars
    <2>3. Linked'
      BY <1>1, <1>3, <2>1 DEF nativeVars
    <2> QED
      BY <2>2, <2>3
  <1> QED
    BY <1>5, <1>6, <1>7

LEMMA SettlingStep ==
  ASSUME ThreadInv, Settling
  PROVE  Typed' /\ Linked'
  <1>1. /\ job.at = "settling" /\ job.runtime = "live" /\ runtime.up
        /\ UNCHANGED <<halt, settlements, pipe, nativeVars>>
    BY DEF Settling
  <1>2. AdoptedReference \in [Works -> Rows] /\ Alike(AdoptedReference, work)
    BY AdoptedReferenceRows DEF Typed
  <1>3. /\ EndWait(Confirmed) \in Threads
        /\ EndWait(Confirmed).execution = thread.execution
        /\ EndWait(Confirmed).archived = thread.archived
    BY EndWaitThread DEF Typed
  <1>4. SessionMoves
    BY <1>1, SessionRests
  <1>5. CASE Unsettled(job.execution)
    <2>1. /\ job' = Idle /\ work' = AdoptedReference /\ thread' = EndWait(Confirmed)
          /\ UNCHANGED <<custody, runtime>>
      BY <1>5 DEF Settling
    <2> QED
      BY <1>1, <1>2, <1>3, <1>4, <2>1, AnswerStep DEF Typed
  <1>6. CASE ~Unsettled(job.execution) /\ runtime.execution = None
    <2>1. /\ job' = [Idle EXCEPT !.at = "park", !.runtime = "live"]
          /\ runtime' = [runtime EXCEPT !.busy = FALSE]
          /\ custody' = NoCustody
          /\ work' = AdoptedReference /\ thread' = EndWait(Confirmed)
      BY <1>6 DEF Settling
    <2>2. /\ job' \in Operations /\ job'.at = "park" /\ job'.completed = {}
          /\ ~job'.opening /\ job'.runtime = "live"
      BY <2>1 DEF Idle, Operations, Awaited, Outcomes
    <2>3. /\ runtime' \in Attachments /\ runtime'.up /\ runtime'.outcome = runtime.outcome
          /\ runtime'.execution = runtime.execution
      BY <1>1, <2>1 DEF Typed, Attachments
    <2>4. Typed'
      BY <1>1, <1>2, <1>3, <2>1, <2>2, <2>3
         DEF Typed, Custodies, NoCustody, Concerns, Status!TypeOK, nativeVars
    <2>5. thread.execution \in Works \cup {None}
      BY DEF Typed, Threads
    <2>6. Linked'
      BY <1>1, <1>2, <1>3, <2>1, <2>2, <2>3, <2>5
         DEF Alike, Reopening, Unopened, nativeVars
    <2> QED
      BY <2>4, <2>6
  <1>7. CASE ~Unsettled(job.execution) /\ runtime.execution # None
    <2>1. FinishBy(IF thread.held = "no" THEN job.outcome ELSE "cancelled",
                   runtime, AdoptedReference, EndWait(Confirmed), FALSE)
      BY <1>7 DEF Settling
    <2>2. thread.execution # None => job.execution \in receipts.landed
      BY <1>1, <1>7, ReceiptsKnown DEF Unsettled
    <2>3. thread.execution # None => thread.execution \in receipts.landed
      BY <1>1, <2>2
    <2>4. PICK o : o = IF thread.held = "no" THEN job.outcome ELSE "cancelled"
      OBVIOUS
    <2>5. o \in {"complete", "failed", "cancelled"}
      BY <1>1, <2>4 DEF Typed, Operations, Outcomes
    <2>6. job.at \notin Reopening /\ job.at # "rename"
      BY <1>1 DEF Reopening
    <2> QED
      BY <1>1, <1>2, <1>3, <1>4, <2>1, <2>3, <2>4, <2>5, <2>6, FinishByStep DEF Typed
  <1> QED
    BY <1>5, <1>6, <1>7

LEMMA FinishingStep ==
  ASSUME ThreadInv, Finishing
  PROVE  Typed' /\ Linked'
  <1>1. /\ job.at = "finishing" /\ job.runtime = "live" /\ runtime.up
        /\ UNCHANGED <<halt, settlements, pipe, nativeVars>>
    BY DEF Finishing
  <1>2. CASE Native!Busy \/ thread.execution # job.execution
    <2>1. job' = Idle /\ UNCHANGED <<work, thread, custody, runtime>>
      BY <1>2 DEF Finishing, durable
    <2>2. Alike(work', work) /\ SessionMoves
      BY <1>1, <2>1, SessionRests DEF Alike
    <2> QED
      BY <1>1, <2>1, <2>2, AnswerStep DEF Typed
  <1>3. CASE ~(Native!Busy \/ thread.execution # job.execution)
    <2> DEFINE e == job.execution
    <2>1. /\ job' = [job EXCEPT !.at = "park"]
          /\ work' = Finished(work, e, job.outcome)
          /\ thread' = Ended
          /\ custody' = [custody EXCEPT ![e] = "none"]
          /\ runtime' = [runtime EXCEPT !.execution = None, !.busy = FALSE]
      BY <1>3 DEF Finishing
    <2>2. e \in Works /\ e \in receipts.landed /\ job.outcome = "complete" /\ job.outcome \in Outcomes
      BY <1>1, ReceiptsKnown DEF Outcomes
    <2>3. /\ work' \in [Works -> Rows]
          /\ \A w \in Works :
               \/ work'[w] = work[w]
               \/ /\ work[w].status # "done" /\ work[w].execution = e
                  /\ work'[w].status = "done" /\ work'[w].execution = e
               \/ /\ work[w].status # "done" /\ w # e
                  /\ work'[w].status = "queued" /\ work'[w].outcome = work[w].outcome
                  /\ work'[w].execution = None
      BY <2>1, <2>2, FinishedRows DEF Typed
    <2>4. thread' \in Threads /\ thread'.execution = None /\ thread'.archived = thread.archived
      BY <2>1, EndedThread DEF Typed
    <2>5. runtime' \in Attachments /\ runtime'.up /\ runtime'.outcome = runtime.outcome
      BY <1>1, <2>1 DEF Typed, Attachments, None
    <2>6. /\ job' \in Operations /\ job'.at = "park" /\ job'.completed = job.completed
          /\ job'.opening = job.opening /\ job'.runtime = "live"
      BY <1>1, <2>1 DEF Typed, Operations, Awaited
    <2>7. Typed'
      BY <1>1, <2>1, <2>3, <2>4, <2>5, <2>6 DEF Typed, Custodies, Concerns, Status!TypeOK, nativeVars
    <2>8. Linked'
      BY <1>1, <1>3, <2>2, <2>3, <2>4, <2>5, <2>6, WorksAreNat
         DEF Reopening, Unopened, nativeVars
    <2> QED
      BY <2>7, <2>8
  <1> QED
    BY <1>2, <1>3

LEMMA ParkStep ==
  ASSUME ThreadInv, Park
  PROVE  Typed' /\ Linked'
  <1>1. job.at = "park" /\ job' = Idle /\ UNCHANGED <<work, thread, custody, halt>>
    BY DEF Park, durable
  <1>2. CASE Keep
    <2>1. UNCHANGED <<runtime, settlements, pipe, nativeVars>>
      BY <1>2 DEF Keep
    <2>2. Alike(work', work) /\ SessionMoves
      BY <1>1, <2>1, SessionRests DEF Alike
    <2> QED
      BY <1>1, <2>1, <2>2, AnswerStep DEF Typed
  <1>3. CASE Retire /\ halt.at = "idle"
    <2>1. Typed'
      BY <1>1, <1>3, RetireFacts, NothingAttached, IdleOperation DEF Typed, Concerns, Status!TypeOK
    <2>2. Linked'
      BY <1>1, <1>3, RetireFacts, NothingAttached, IdleOperation
         DEF Reopening, Unopened, Stops
    <2> QED
      BY <2>1, <2>2
  <1> QED
    BY <1>2, <1>3 DEF Park

-----------------------------------------------------------------------------
(* The halt.                                                               *)

LEMMA HaltDecidesStep ==
  ASSUME ThreadInv, NEW attachment \in {"none", "live"}, HaltDecides(attachment, Adopted),
         attachment = "live" <=> runtime.up,
         halt.runtime = "live" => runtime.up,
         job.at \notin Reopening \cup {"discard"}, ~job.opening,
         active = {}, ~blocked, pipe = NoInput,
         UNCHANGED <<job, settlements, pipe, nativeVars>>
  PROVE  Typed' /\ Linked'
  <1> DEFINE e == thread.execution
  <1>1. Adopted \in [Works -> Rows] /\ Alike(Adopted, work)
    BY AdoptedRows DEF Typed
  <1>2. NoCustody \in Custodies
    BY DEF NoCustody, Custodies
  <1>3. e \in Works \cup {None}
    BY DEF Typed, Threads
  <1>4. \A at \in Stops : /\ [halt EXCEPT !.at = at] \in Interruptions
                          /\ [halt EXCEPT !.at = at].at = at
                          /\ [halt EXCEPT !.at = at].runtime = halt.runtime
    BY DEF Typed, Interruptions
  <1>5. receipts' = receipts /\ alive' = alive /\ active' = active /\ blocked' = blocked
        /\ status' = status
    BY DEF nativeVars
  <1>6. CASE e = None
    <2>1. /\ halt' = [halt EXCEPT !.at = "release"] /\ custody' = NoCustody /\ work' = Adopted
          /\ thread' = thread /\ runtime' = runtime
      BY <1>6 DEF HaltDecides, Halts
    <2>2. halt' \in Interruptions /\ halt'.at = "release" /\ halt'.runtime = halt.runtime
      BY <1>4, <2>1 DEF Stops
    <2>3. Typed'
      BY <1>1, <1>2, <1>5, <2>1, <2>2 DEF Typed, Status!TypeOK
    <2>4. Linked'
      BY <1>1, <1>5, <1>6, <2>1, <2>2 DEF Alike, Reopening, Stops, Unopened
    <2> QED
      BY <2>3, <2>4
  <1>7. ASSUME e # None
        PROVE  attachment = "live" => runtime.execution = e
    BY <1>7 DEF Reopening
  <1>8. CASE /\ e # None /\ attachment = "live" /\ thread.request = "none"
             /\ runtime.outcome = "complete"
    <2>1. /\ halt' = [halt EXCEPT !.at = "finish"] /\ custody' = custody /\ work' = Adopted
          /\ thread' = thread /\ runtime' = runtime
      BY <1>7, <1>8 DEF HaltDecides, Halts
    <2>2. halt' \in Interruptions /\ halt'.at = "finish" /\ halt'.runtime = halt.runtime
      BY <1>4, <2>1 DEF Stops
    <2>3. Typed'
      BY <1>1, <1>5, <2>1, <2>2 DEF Typed, Status!TypeOK
    <2>4. Linked'
      BY <1>1, <1>3, <1>5, <1>8, <2>1, <2>2 DEF Alike, Reopening, Stops, Unopened
    <2> QED
      BY <2>3, <2>4
  <1>9. CASE e # None /\ ~(/\ attachment = "live" /\ thread.request = "none"
                           /\ runtime.outcome = "complete")
    <2>1. PICK o \in {"failed", "cancelled"} :
            /\ halt' = [halt EXCEPT !.at = "release"] /\ custody' = NoCustody
            /\ work' = Finished(Adopted, e, o) /\ thread' = Ended
            /\ runtime' = IF attachment = "live"
                          THEN [runtime EXCEPT !.execution = None, !.busy = FALSE] ELSE runtime
      <3> DEFINE o == IF thread.request = "none" /\ attachment = "live" /\ runtime.outcome # "none"
                      THEN runtime.outcome ELSE "cancelled"
      <3>1. o \in {"failed", "cancelled"}
        BY <1>9 DEF Typed, Attachments, Outcomes
      <3>2. /\ halt' = [halt EXCEPT !.at = "release"] /\ custody' = NoCustody
            /\ work' = Finished(Adopted, e, o) /\ thread' = Ended
            /\ runtime' = IF attachment = "live"
                          THEN [runtime EXCEPT !.execution = None, !.busy = FALSE] ELSE runtime
        BY <1>7, <1>9, <3>1 DEF HaltDecides, Halts
      <3> HIDE DEF o
      <3> QED
        BY <3>1, <3>2
    <2>2. halt' \in Interruptions /\ halt'.at = "release" /\ halt'.runtime = halt.runtime
      BY <1>4, <2>1 DEF Stops
    <2>3. e \in Works /\ o \in Outcomes
      BY <1>3, <1>9 DEF Outcomes
    <2>4. /\ work' \in [Works -> Rows]
          /\ \A w \in Works :
               \/ work'[w] = Adopted[w]
               \/ /\ Adopted[w].status # "done" /\ Adopted[w].execution = e
                  /\ work'[w].status = "done" /\ work'[w].outcome = o
                  /\ work'[w].execution = e
               \/ /\ Adopted[w].status # "done" /\ w # e
                  /\ work'[w].status = "queued" /\ work'[w].outcome = Adopted[w].outcome
                  /\ work'[w].execution = None
      BY <1>1, <2>1, <2>3, FinishedRows
    <2>5. /\ thread' \in Threads /\ thread'.execution = None /\ thread'.archived = thread.archived
      BY <2>1, EndedThread DEF Typed
    <2>6. /\ runtime' \in Attachments /\ runtime'.up = runtime.up
          /\ runtime'.outcome = runtime.outcome
          /\ ~runtime.up => runtime' = runtime
      BY <2>1 DEF Typed, Attachments, None
    <2>7. Typed'
      BY <1>2, <1>5, <2>1, <2>2, <2>4, <2>5, <2>6 DEF Typed, Status!TypeOK
    <2>8. Linked'
      BY <1>1, <1>5, <1>9, <2>2, <2>4, <2>5, <2>6 DEF Alike, Reopening, Stops, Unopened
    <2> QED
      BY <2>7, <2>8
  <1> QED
    BY <1>6, <1>8, <1>9

LEMMA HaltBeginStep ==
  ASSUME ThreadInv, HaltBegin
  PROVE  Typed' /\ Linked'
  <1>1. /\ halt.at = "begin" /\ UNCHANGED <<job, settlements, pipe, nativeVars>>
        /\ job.at \notin Reopening \cup {"discard"} /\ ~job.opening
    BY DEF HaltBegin, Opening, Reopening
  <1>2. CASE alive
    <2>1. /\ halt' = [at |-> "abort", runtime |-> "live"]
          /\ UNCHANGED <<thread, custody>>
      BY <1>2 DEF HaltBegin
    <2>2. work' \in [Works -> Rows] /\ Alike(work', work)
      <3>1. work' \in {work, Adopted} /\ Alike(work, work)
        BY <1>2 DEF HaltBegin, Alike
      <3> QED
        BY <3>1, AdoptedRows DEF Typed
    <2>3. /\ runtime' \in Attachments /\ runtime'.up /\ runtime'.outcome \in {runtime.outcome, "none"}
          /\ thread.execution # None => runtime'.execution = thread.execution
      <3>1. CASE runtime.up
        BY <1>1, <1>2, <3>1 DEF HaltBegin, Typed, Reopening
      <3>2. CASE ~runtime.up
        <4>1. Native!Busy \in BOOLEAN /\ thread.execution \in Works \cup {None}
          BY DEF Native!Busy, Typed, Threads
        <4>2. runtime' = [NoRuntime EXCEPT !.up = TRUE, !.execution = thread.execution,
                                           !.busy = Native!Busy]
          BY <1>2, <3>2 DEF HaltBegin
        <4> QED
          BY <4>1, <4>2 DEF NoRuntime, Attachments, Outcomes
      <3> QED
        BY <3>1, <3>2
    <2>4. Typed'
      BY <1>1, <2>1, <2>2, <2>3 DEF Typed, Interruptions, Stops, Status!TypeOK, nativeVars
    <2>5. thread.execution \in Works \cup {None}
      BY DEF Typed, Threads
    <2>6. Linked'
      BY <1>1, <1>2, <2>1, <2>2, <2>3, <2>5 DEF Alike, Reopening, Stops, Unopened, nativeVars
    <2> QED
      BY <2>4, <2>6
  <1>3. CASE ~alive
    <2>1. HaltDecides("none", Adopted)
      BY <1>3 DEF HaltBegin
    <2>2. pipe = NoInput /\ ~runtime.up /\ active = {} /\ ~blocked /\ halt.runtime # "live"
      BY <1>1, <1>3, ReceiptsKnown
    <2> QED
      BY <1>1, <2>1, <2>2, HaltDecidesStep
  <1> QED
    BY <1>2, <1>3

LEMMA HaltFailsStep ==
  ASSUME ThreadInv, HaltFails, UNCHANGED <<work, custody, runtime, settlements, pipe, nativeVars>>
  PROVE  Typed' /\ Linked'
  <1>1. halt' \in Interruptions /\ halt'.at = "idle" /\ job' \in {job, Idle}
        /\ (job.at # "awaitHalt" => job' = job)
    BY DEF HaltFails, Halting, Interruptions
  <1>2. /\ thread' \in Threads /\ thread'.execution = thread.execution
        /\ thread'.archived = thread.archived
    BY DEF HaltFails, Typed, Threads
  <1>3. Typed'
    BY <1>1, <1>2, IdleOperation DEF Typed, Status!TypeOK, nativeVars, Concerns
  <1>4. Linked'
    BY <1>1, <1>2, IdleOperation DEF Reopening, Stops, Unopened, nativeVars
  <1> QED
    BY <1>3, <1>4

LEMMA HaltLostStep ==
  ASSUME ThreadInv, HaltLost
  PROVE  Typed' /\ Linked'
  BY HaltFailsStep DEF HaltLost

LEMMA HaltStateStep ==
  ASSUME ThreadInv, HaltState
  PROVE  Typed' /\ Linked'
  <1>1. /\ halt.at = "state" /\ halt.runtime = "live" /\ pipe = NoInput /\ runtime.up
        /\ UNCHANGED <<settlements, pipe, nativeVars>>
    BY DEF HaltState, Stops
  <1>2. CASE Native!Busy
    BY <1>1, <1>2, HaltFailsStep DEF HaltState
  <1>3. CASE ~Native!Busy
    <2>1. HaltDecides("live", Adopted) /\ job' = job
      BY <1>3 DEF HaltState
    <2>2. active = {} /\ ~blocked
      BY <1>3 DEF Native!Busy
    <2>3. job.at \notin Reopening \cup {"discard"} /\ ~job.opening
      BY <1>1 DEF Stops
    <2> QED
      BY <1>1, <2>1, <2>2, <2>3, HaltDecidesStep
  <1> QED
    BY <1>2, <1>3

LEMMA HaltAbortStep ==
  ASSUME ThreadInv, HaltAbort
  PROVE  Typed' /\ Linked'
  <1>1. /\ halt.at = "abort" /\ halt.runtime = "live" /\ alive
        /\ halt' = [halt EXCEPT !.at = "aborting"]
        /\ UNCHANGED <<work, thread, custody, runtime, job, settlements, pipe, status>>
        /\ UNCHANGED <<receipts, alive, active>>
    BY DEF HaltAbort, Halts, Native!BeginAbort, durable
  <1>2. halt' \in Interruptions /\ halt'.at = "aborting" /\ halt'.runtime = halt.runtime
    BY <1>1 DEF Typed, Interruptions, Stops
  <1>3. Typed'
    BY <1>1, <1>2 DEF Typed, Status!TypeOK
  <1>4. Linked'
    BY <1>1, <1>2 DEF Stops
  <1> QED
    BY <1>3, <1>4

LEMMA HaltFinishStep ==
  ASSUME ThreadInv, HaltFinish
  PROVE  Typed' /\ Linked'
  <1> DEFINE e == thread.execution
  <1>1. /\ halt.at = "finish" /\ halt.runtime = "live" /\ pipe = NoInput /\ runtime.up
        /\ halt' = [halt EXCEPT !.at = "release"] /\ custody' = NoCustody
        /\ UNCHANGED <<job, settlements, pipe, nativeVars>>
    BY DEF HaltFinish, Halts, Stops
  <1>2. halt' \in Interruptions /\ halt'.at = "release" /\ halt'.runtime = halt.runtime
    BY <1>1 DEF Typed, Interruptions, Stops
  <1>3. NoCustody \in Custodies
    BY DEF NoCustody, Custodies
  <1>4. ~Native!Busy
    BY <1>1 DEF Native!Busy
  <1>5. CASE e = None
    <2>1. UNCHANGED <<work, thread, runtime>>
      BY <1>5 DEF HaltFinish
    <2>2. Typed'
      BY <1>1, <1>2, <1>3, <2>1 DEF Typed, Status!TypeOK, nativeVars
    <2>3. Linked'
      BY <1>1, <1>2, <1>5, <2>1 DEF Stops, Unopened, Reopening, nativeVars
    <2> QED
      BY <2>2, <2>3
  <1>6. CASE e # None
    <2>1. /\ work' = Finished(work, e, "complete") /\ thread' = Ended
          /\ runtime' = [runtime EXCEPT !.execution = None, !.busy = FALSE]
      BY <1>4, <1>6 DEF HaltFinish
    <2>2. e \in Works /\ e \in receipts.landed /\ "complete" \in Outcomes
      BY <1>1, <1>6 DEF Typed, Threads, Outcomes
    <2>3. /\ work' \in [Works -> Rows]
          /\ \A w \in Works :
               \/ work'[w] = work[w]
               \/ /\ work[w].status # "done" /\ work[w].execution = e
                  /\ work'[w].status = "done" /\ work'[w].execution = e
               \/ /\ work[w].status # "done" /\ w # e
                  /\ work'[w].status = "queued" /\ work'[w].outcome = work[w].outcome
                  /\ work'[w].execution = None
      BY <2>1, <2>2, FinishedRows DEF Typed
    <2>4. /\ thread' \in Threads /\ thread'.execution = None /\ thread'.archived = thread.archived
      BY <2>1, EndedThread DEF Typed
    <2>5. runtime' \in Attachments /\ runtime'.up /\ runtime'.outcome = runtime.outcome
      BY <1>1, <2>1 DEF Typed, Attachments, None
    <2>6. Typed'
      BY <1>1, <1>2, <1>3, <2>3, <2>4, <2>5 DEF Typed, Status!TypeOK, nativeVars
    <2>7. Linked'
      BY <1>1, <1>2, <1>6, <2>2, <2>3, <2>4, <2>5, WorksAreNat
         DEF Reopening, Stops, Unopened, nativeVars
    <2> QED
      BY <2>6, <2>7
  <1> QED
    BY <1>5, <1>6

\* An operation whose attachment is dropped goes on to find that out.
LEMMA LostOperation ==
  ASSUME job \in Operations
  PROVE  /\ Lost(job) \in Operations /\ Lost(job).runtime # "live"
         /\ Lost(job).runtime = "none" => job.runtime = "none"
         /\ Lost(job).at = job.at /\ Lost(job).work = job.work
         /\ Lost(job).execution = job.execution /\ Lost(job).outcome = job.outcome
         /\ Lost(job).opening = job.opening /\ Lost(job).completed = job.completed
  BY DEF Lost, Operations

LEMMA HaltEndStep ==
  ASSUME ThreadInv, HaltEnd
  PROVE  Typed' /\ Linked'
  <1> DEFINE retires == halt.runtime = "live" /\ Unused
             after == IF retires THEN Lost(job) ELSE job
  <1>1. /\ halt.at = "release" /\ thread.execution = None
        /\ active = {} /\ ~blocked /\ pipe = NoInput
        /\ job.at \notin Reopening \cup {"discard"} /\ ~job.opening
    BY DEF HaltEnd, Stops
  <1>2. halt' = Halting("idle") /\ custody' = custody
    BY DEF HaltEnd
  <1>3. halt' \in Interruptions /\ halt'.at = "idle" /\ halt'.runtime = "none"
    BY <1>2 DEF Halting, Interruptions
  <1>4. /\ runtime' \in Attachments /\ (~runtime'.up => runtime' = NoRuntime /\ settlements' = <<>>)
        /\ settlements' \in Seq(Settlements) /\ pipe' = NoInput
        /\ receipts' = receipts /\ active' = {} /\ ~blocked' /\ status' = status
        /\ runtime'.up => alive'
        /\ runtime' = IF retires THEN NoRuntime ELSE runtime
    <2>1. CASE retires
      BY <2>1, RetireFacts, NothingAttached DEF HaltEnd
    <2>2. CASE ~retires
      BY <1>1, <2>2 DEF HaltEnd, Keep, nativeVars, Typed
    <2> QED
      BY <2>1, <2>2
  <1>5. /\ job' \in Operations
        /\ \/ job' = job /\ runtime' = runtime
           \/ /\ job'.runtime # "live" /\ ~job'.opening
              /\ job'.runtime = "none" => job.runtime = "none" \/ job'.at = "halted"
              /\ job'.at = "halted" /\ job'.completed = {}
           \/ job' = Lost(job)
    <2>1. CASE job.at = "awaitHalt"
      BY <2>1 DEF HaltEnd, Idle, Operations, Awaited, Outcomes
    <2>2. CASE job.at # "awaitHalt" /\ retires
      BY <2>2, LostOperation DEF HaltEnd, Typed
    <2>3. CASE job.at # "awaitHalt" /\ ~retires
      BY <1>4, <2>3 DEF HaltEnd, Typed
    <2> QED
      BY <2>1, <2>2, <2>3
  <1>6. /\ work' \in [Works -> Rows] /\ thread' \in Threads
        /\ thread'.execution = None
        /\ \/ work' = work /\ thread'.archived = thread.archived
           \/ work' = Cancelled(work)
    <2>1. CASE thread.request = "none"
      <3>1. /\ thread' = [thread EXCEPT !.held = IF @ = "no" THEN "no" ELSE "confirmed"]
            /\ work' = work
        BY <2>1 DEF HaltEnd
      <3> QED
        BY <1>1, <3>1 DEF Typed, Threads
    <2>2. CASE thread.request # "none"
      <3>1. /\ thread' = [thread EXCEPT !.held = "no", !.request = "none",
                             !.archived = @ \/ thread.request = "close"]
            /\ work' = Cancelled(work)
        BY <2>2 DEF HaltEnd
      <3>2. thread' \in Threads /\ thread'.execution = None
        BY <1>1, <3>1 DEF Typed, Threads
      <3> QED
        BY <3>1, <3>2, CancelledRows DEF Typed
    <2> QED
      BY <2>1, <2>2
  <1>7. Typed'
    BY <1>2, <1>3, <1>4, <1>5, <1>6, LostOperation DEF Typed, Concerns, Status!TypeOK
  <1>8. Attached' /\ Joined' /\ Stopping' /\ Recovering' /\ Opener'
    BY <1>1, <1>3, <1>4, <1>5, <1>6, LostOperation DEF Typed, Reopening, Stops, Unopened
  <1>9. \A w \in Works :
          \/ work' = work
          \/ work'[w] = work[w] /\ work[w].status \in {"absent", "done"}
          \/ work'[w].status = "done" /\ work'[w].outcome = "cancelled"
    BY <1>6, CancelledRows DEF Typed
  <1>10. Archive'
    <2>1. CASE work' = work /\ thread'.archived = thread.archived
      BY <1>4, <1>6, <2>1
    <2>2. CASE work' = Cancelled(work)
      <3>1. \A w \in Works : work'[w].status \in {"absent", "done"}
        BY <2>2, CancelledRows DEF Typed
      <3> QED
        BY <1>4, <1>6, <3>1
    <2> QED
      BY <1>6, <2>1, <2>2
  <1>11. Ran'
    BY <1>1, <1>3, <1>4, <1>5, <1>6, <1>9, LostOperation DEF Typed
  <1> QED
    BY <1>7, <1>8, <1>10, <1>11

LEMMA HaltAgainStep ==
  ASSUME ThreadInv, HaltAgain
  PROVE  Typed' /\ Linked'
  <1>1. /\ halt'.at = "begin" /\ halt'.runtime = "none" /\ halt' \in Interruptions
        /\ UNCHANGED <<work, thread, custody, runtime, job, settlements, pipe, nativeVars>>
    BY DEF HaltAgain, Halting, Interruptions, durable
  <1>2. Typed'
    BY <1>1 DEF Typed, Status!TypeOK, nativeVars
  <1>3. Linked'
    BY <1>1 DEF Stops, nativeVars
  <1> QED
    BY <1>2, <1>3

-----------------------------------------------------------------------------
(* The native session.                                                     *)

\* What an answer records of a command.
LEMMA AnsweredStatus ==
  ASSUME NEW table \in [Works -> [execution : Works \cup {None}, state : Status!States]],
         NEW w \in Works, NEW ok \in BOOLEAN
  PROVE  Status!Answered(table, w, ok) \in [Works -> [execution : Works \cup {None}, state : Status!States]]
  BY DEF Status!Answered, Status!States

LEMMA BegunStatus ==
  ASSUME Status!TypeOK, NEW w \in Works, NEW e \in Works \cup {None}
  PROVE  Status!Begun(e, w) \in [Works -> [execution : Works \cup {None}, state : Status!States]]
  BY DEF Status!Begun, Status!TypeOK, Status!States

LEMMA RecordedStates ==
  ASSUME Status!TypeOK, NEW w \in Works, NEW e
  PROVE  Status!Recorded(e, w) \in {"never_accepted", "in_flight", "accepted", "rejected"}
  BY DEF Status!Recorded, Status!TypeOK, Status!States

\* The answers of the session to an input command.
LEMMA InputEffect ==
  ASSUME SessionInv, NEW w \in Works, NEW kind, NEW resume \in BOOLEAN,
         Native!Input(w, kind, resume)
  PROVE  /\ alive' = alive /\ blocked' = blocked /\ receipts.landed' = receipts.landed
         /\ Native!Reply(w, kind, resume) \in {"pending", "accepted", "refused"}
  <1>1. Native!Reply(w, kind, resume) \in {"pending", "accepted", "refused"}
    BY DEF Native!Reply
  <1>2. CASE Native!Taken(w)
    BY <1>1, <1>2 DEF Native!Taken, SessionInv, Native!TypeOK, Native!Receipts
  <1>3. CASE Native!Resumed(w)
    BY <1>1, <1>3 DEF Native!Resumed
  <1>4. CASE UNCHANGED Native!nativeVars
    BY <1>1, <1>4 DEF Native!nativeVars
  <1> QED
    BY <1>2, <1>3, <1>4, InputCases

LEMMA NativeTakesStep ==
  ASSUME ThreadInv, NativeTakes
  PROVE  Typed' /\ Linked'
  <1> DEFINE w == pipe.work
             recorded == Status!Recorded(pipe.execution, w)
             begun == IF pipe.resume THEN status ELSE Status!Begun(pipe.execution, w)
             reply == Native!Reply(w, pipe.kind, pipe.resume)
             table == [Works -> [execution : Works \cup {None}, state : Status!States]]
  <1>1. /\ pipe # NoInput /\ pipe' = NoInput /\ halt' = halt
        /\ w \in Works /\ pipe.execution \in Works /\ pipe.resume \in BOOLEAN
        /\ Status!TypeOK
    BY DEF NativeTakes, Typed, Commands
  <1>2. begun \in table
    BY <1>1, BegunStatus DEF Status!TypeOK
  <1>3. CASE recorded # "never_accepted" /\ ~pipe.resume
    <2>1. UNCHANGED nativeVars
      BY <1>3 DEF NativeTakes
    <2>2. SessionMoves
      BY <1>1, <2>1 DEF SessionMoves, nativeVars, Status!TypeOK
    <2>3. Accepted(w) \/ Refused(w) \/ Unconfirmed(w)
      <3>1. recorded \in {"in_flight", "accepted", "rejected"}
        BY <1>1, <1>3, RecordedStates
      <3> QED
        BY <1>3, <3>1 DEF NativeTakes
    <2> QED
      BY <1>1, <2>2, <2>3, AcceptedStep, RefusedStep, UnconfirmedStep
  <1>4. CASE ~(recorded # "never_accepted" /\ ~pipe.resume)
    <2>1. Native!Input(w, pipe.kind, pipe.resume)
      BY <1>4 DEF NativeTakes
    <2>2. /\ alive' = alive /\ blocked' = blocked /\ receipts'.landed = receipts.landed
          /\ reply \in {"pending", "accepted", "refused"}
      BY <1>1, <2>1, InputEffect
    <2>3. \/ /\ status' = begun /\ UNCHANGED <<durable, runtime, job, settlements>>
          \/ status' = Status!Answered(begun, w, TRUE) /\ Accepted(w)
          \/ status' = Status!Answered(begun, w, FALSE) /\ Refused(w)
      BY <1>4, <2>2 DEF NativeTakes
    <2>4. status' \in table
      <3> HIDE DEF begun, table
      <3>1. Status!Answered(begun, w, TRUE) \in table /\ Status!Answered(begun, w, FALSE) \in table
        BY <1>1, <1>2, AnsweredStatus DEF table
      <3> QED
        BY <1>2, <2>3, <3>1
    <2>5. SessionMoves
      BY <1>1, <2>2, <2>4 DEF SessionMoves, Status!TypeOK
    <2>6. CASE UNCHANGED <<durable, runtime, job, settlements>>
      <3>1. Alike(work', work)
        BY <2>6 DEF durable, Alike
      <3> QED
        BY <2>5, <2>6, <3>1, AnswerStep DEF Typed, durable
    <2> QED
      BY <1>1, <2>3, <2>5, <2>6, AcceptedStep, RefusedStep
  <1> QED
    BY <1>3, <1>4

LEMMA NativeAcknowledgesStep ==
  ASSUME ThreadInv, NEW w \in Works, NativeAcknowledges(w)
  PROVE  Typed' /\ Linked'
  <1>1. /\ status' = Status!Answered(status, w, TRUE) /\ Accepted(w)
        /\ UNCHANGED <<halt, pipe, receipts, alive, active, blocked>>
    BY DEF NativeAcknowledges, Native!Acknowledge
  <1>2. Status!TypeOK'
    BY <1>1, AnsweredStatus DEF Typed, Status!TypeOK
  <1>3. SessionMoves
    BY <1>1, <1>2 DEF SessionMoves
  <1> QED
    BY <1>1, <1>3, AcceptedStep

LEMMA NativeRefusesStep ==
  ASSUME ThreadInv, NEW w \in Works, NativeRefuses(w)
  PROVE  Typed' /\ Linked'
  <1>1. /\ status' = Status!Answered(status, w, FALSE) /\ Refused(w)
        /\ UNCHANGED <<halt, pipe, alive, blocked>> /\ active' \subseteq active
    BY DEF NativeRefuses, Native!Reject
  <1>2. Status!TypeOK'
    BY <1>1, AnsweredStatus DEF Typed, Status!TypeOK
  <1>3. receipts'.landed = receipts.landed
    BY DEF NativeRefuses, Native!Reject, SessionInv, Native!TypeOK, Native!Receipts
  <1>4. SessionMoves
    BY <1>1, <1>2, <1>3 DEF SessionMoves
  <1> QED
    BY <1>1, <1>4, RefusedStep

LEMMA NativeLandsStep ==
  ASSUME ThreadInv, NEW w \in Works, NativeLands(w)
  PROVE  Typed' /\ Linked'
  <1>1. /\ work' \in {work, [work EXCEPT ![w].landed = TRUE]}
        /\ UNCHANGED <<thread, custody, runtime, job, halt, settlements, pipe, status>>
        /\ UNCHANGED <<alive, active, blocked>>
    BY DEF NativeLands, Native!Land, memory
  <1>2. receipts.landed \subseteq receipts'.landed
    BY DEF NativeLands, Native!Land, SessionInv, Native!TypeOK, Native!Receipts
  <1>3. work' \in [Works -> Rows] /\ Alike(work', work)
    <2>1. Alike(work, work)
      BY DEF Alike
    <2> QED
      BY <1>1, <2>1, LandedRows DEF Typed
  <1>4. SessionMoves
    BY <1>1, <1>2 DEF SessionMoves, Typed, Status!TypeOK
  <1> QED
    BY <1>1, <1>3, <1>4, AnswerStep DEF Typed

LEMMA SettlesQueue ==
  ASSUME ThreadInv, NEW works \in SUBSET Works,
         NEW outcome \in {"complete", "failed", "cancelled"}, Settles(works, outcome)
  PROVE  settlements' \in Seq(Settlements)
  <1>1. [kind |-> "settled", works |-> works, outcome |-> outcome,
         execution |-> runtime.execution] \in Settlements
    BY DEF Settlements, Typed, Attachments
  <1> QED
    BY <1>1 DEF Settles, Typed

\* What a settlement makes of the attachment and of the queue of jobs.
LEMMA SettlesFacts ==
  ASSUME ThreadInv, NEW works \in SUBSET Works,
         NEW outcome \in {"complete", "failed", "cancelled"}, Settles(works, outcome)
  PROVE  /\ runtime' \in Attachments /\ runtime'.up = runtime.up
         /\ runtime'.execution = runtime.execution
         /\ ~runtime.up => runtime' = runtime /\ settlements' = settlements
         /\ \/ runtime'.outcome = runtime.outcome
            \/ runtime'.outcome = outcome /\ thread.execution \in works
         /\ settlements' \in Seq(Settlements)
  <1>1. CASE runtime.up /\ thread.execution \in works
    BY <1>1, SettlesQueue DEF Settles, Typed, Attachments, Outcomes
  <1>2. CASE ~(runtime.up /\ thread.execution \in works)
    BY <1>2, SettlesQueue DEF Settles, Typed
  <1> QED
    BY <1>1, <1>2

LEMMA NativeSettlesStep ==
  ASSUME ThreadInv, NEW outcome \in {"complete", "failed"}, NativeSettles(outcome)
  PROVE  Typed' /\ Linked'
  <1>1. /\ Settles(active, outcome) /\ active' = {}
        /\ UNCHANGED <<work, thread, custody, job, halt, pipe, status, alive, blocked>>
        /\ inbox = {}
    BY DEF NativeSettles, Native!Settle, Native!Settleable, durable
  <1>2. receipts'.landed = receipts.landed /\ active \in SUBSET Works
    BY DEF NativeSettles, Native!Settle, SessionInv, Native!TypeOK, Native!Receipts
  <1>3. active \subseteq receipts.landed
    BY <1>1 DEF SessionInv
  <1>4. /\ runtime' \in Attachments /\ runtime'.up = runtime.up
        /\ runtime'.execution = runtime.execution
        /\ ~runtime.up => runtime' = runtime /\ settlements' = settlements
        /\ \/ runtime'.outcome = runtime.outcome
           \/ runtime'.outcome = outcome /\ thread.execution \in active
        /\ settlements' \in Seq(Settlements)
    BY <1>1, <1>2, SettlesFacts
  <1>5. Typed'
    BY <1>1, <1>4 DEF Typed, Status!TypeOK
  <1>6. Linked'
    BY <1>1, <1>2, <1>3, <1>4 DEF Stops
  <1> QED
    BY <1>5, <1>6

LEMMA NativeHaltsStep ==
  ASSUME ThreadInv, NativeHalts
  PROVE  Typed' /\ Linked'
  <1>1. /\ active' = {} /\ ~blocked' /\ blocked
        /\ UNCHANGED <<work, thread, custody, job, pipe, status, alive>>
    BY DEF NativeHalts, Native!EndAbort, durable
  <1>2. receipts'.landed = receipts.landed /\ active \in SUBSET Works
    BY DEF NativeHalts, Native!EndAbort, SessionInv, Native!TypeOK, Native!Receipts
  <1>3. /\ runtime' \in Attachments /\ runtime'.up = runtime.up
        /\ runtime'.execution = runtime.execution
        /\ ~runtime.up => runtime' = runtime /\ settlements' = settlements
        /\ runtime'.outcome \in {runtime.outcome, "cancelled"}
        /\ settlements' \in Seq(Settlements)
    <2>1. CASE active = {}
      BY <2>1 DEF NativeHalts, Typed
    <2>2. CASE active # {}
      <3>1. Settles(active \ Native!DeferredByAbort, "cancelled")
        BY <2>2 DEF NativeHalts
      <3>2. active \ Native!DeferredByAbort \in SUBSET Works
        BY <1>2
      <3> HIDE DEF Native!DeferredByAbort
      <3> QED
        BY <3>1, <3>2, SettlesFacts
    <2> QED
      BY <2>1, <2>2
  <1>4. \/ halt' = halt
        \/ /\ halt.at = "aborting" /\ halt'.at = "state" /\ halt'.runtime = halt.runtime
           /\ halt' \in Interruptions
    BY DEF NativeHalts, Halts, Typed, Interruptions, Stops
  <1>5. Typed'
    BY <1>1, <1>3, <1>4 DEF Typed, Status!TypeOK
  <1>6. Linked'
    BY <1>1, <1>2, <1>3, <1>4 DEF Stops
  <1> QED
    BY <1>5, <1>6

LEMMA NativeExitStep ==
  ASSUME ThreadInv, NativeExit
  PROVE  Typed' /\ Linked'
  <1>1. /\ runtime' = NoRuntime /\ settlements' = <<>> /\ pipe' = NoInput
        /\ job' = Lost(job) /\ halt' = Lost(halt)
        /\ UNCHANGED <<work, thread, custody, receipts>>
        /\ ~alive' /\ ~blocked' /\ active' = {}
    BY DEF NativeExit, Native!Exit, durable
  <1>2. Status!TypeOK'
    <2>1. CASE status' = status
      BY <2>1 DEF Typed, Status!TypeOK
    <2>2. CASE /\ pipe # NoInput
               /\ status' = Status!Begun(pipe.execution, pipe.work)
      <3>1. pipe.work \in Works /\ pipe.execution \in Works
        BY <2>2 DEF Typed, Commands
      <3> QED
        BY <2>2, <3>1, BegunStatus DEF Typed, Status!TypeOK
    <2> QED
      BY <2>1, <2>2 DEF NativeExit
  <1>3. halt' \in Interruptions /\ halt'.at = halt.at /\ halt'.runtime # "live"
    BY <1>1 DEF Lost, Typed, Interruptions
  <1>4. Typed'
    BY <1>1, <1>2, <1>3, LostOperation, NothingAttached DEF Typed, Concerns
  <1>5. Linked'
    BY <1>1, <1>3, LostOperation, NothingAttached DEF Typed, Stops
  <1> QED
    BY <1>4, <1>5

LEMMA ControllerStopStep ==
  ASSUME ThreadInv, ControllerStop
  PROVE  Typed' /\ Linked'
  <1>1. /\ runtime' = NoRuntime /\ job' = Idle /\ halt' = Halting("idle")
        /\ settlements' = <<>> /\ pipe' \in {pipe, NoInput}
        /\ UNCHANGED <<work, thread, custody, nativeVars>>
    BY DEF ControllerStop, durable
  <1>2. halt' \in Interruptions /\ halt'.at = "idle"
    BY <1>1 DEF Halting, Interruptions
  <1>3. Typed'
    BY <1>1, <1>2, NothingAttached, IdleOperation DEF Typed, Concerns, Status!TypeOK, nativeVars
  <1>4. Linked'
    BY <1>1, <1>2, NothingAttached, IdleOperation DEF Reopening, Stops, Unopened, nativeVars
  <1> QED
    BY <1>3, <1>4

-----------------------------------------------------------------------------
(* The controller only ever drives the session in the session's own steps. *)

LEMMA StepNative ==
  ASSUME Typed, Next
  PROVE  [Native!Next]_(Native!nativeVars)
  <1>1. \/ UNCHANGED nativeVars
        \/ Native!Open \/ Native!Exit \/ Native!BeginAbort \/ Native!EndAbort \/ Native!Settle
        \/ \E w \in Works : Native!Acknowledge(w) \/ Native!Land(w) \/ Native!Reject(w)
        \/ pipe # NoInput /\ Native!Input(pipe.work, pipe.kind, pipe.resume)
    <2>1. CASE Requested
      BY <2>1 DEF Requested, Send, PromoteMessage, CancelMessage, Control, Reopen
    <2>2. CASE Drain
      BY <2>2 DEF Drain, DrainUnassigned, DrainHardSteer, DrainRecover, DrainSelect, DrainProbe
    <2>3. CASE JobStep
      <3>1. CASE RecoverUnassigned \/ DrainAfterHalt \/ Reacquired \/ Renamed \/ Prepared
                 \/ Acquired \/ Admitted \/ Abandoned \/ Probed \/ Settling \/ Finishing
        BY <3>1 DEF RecoverUnassigned, DrainAfterHalt, Reacquired, Renamed, Prepared, Acquired,
             Admitted, Abandoned, Probed, Settling, Finishing
      <3>2. CASE Reopened
        BY <3>2 DEF Reopened
      <3>3. CASE Opened
        BY <3>3 DEF Opened
      <3>4. CASE Discard
        BY <3>4 DEF Discard
      <3>5. CASE Park
        BY <3>5 DEF Park, Keep, Retire
      <3> QED
        BY <2>3, <3>1, <3>2, <3>3, <3>4, <3>5 DEF JobStep
    <2>4. CASE ServeSettlement \/ HaltAgain \/ TimeOut \/ ControllerStop
      BY <2>4 DEF ServeSettlement, HaltAgain, TimeOut, ControllerStop
    <2>5. CASE HaltStep
      BY <2>5 DEF HaltStep, HaltBegin, HaltAbort, HaltState, HaltFinish, HaltEnd, HaltLost,
           Keep, Retire
    <2>6. CASE NativeStep
      BY <2>6 DEF NativeStep, NativeTakes, NativeHalts, NativeAcknowledges, NativeLands,
           NativeSettles
    <2>7. CASE \E w \in Works : NativeRefuses(w)
      BY <2>7 DEF NativeRefuses
    <2>8. CASE Replaced \/ NativeExit
      BY <2>8 DEF Replaced, Retire, NativeExit
    <2> QED
      BY <2>1, <2>2, <2>3, <2>4, <2>5, <2>6, <2>7, <2>8 DEF Next
  <1>2. pipe # NoInput => /\ pipe.work \in Works /\ pipe.kind \in {"prompt", "steer"}
                          /\ pipe.resume \in BOOLEAN
    BY DEF Typed, Commands
  <1>3. UNCHANGED nativeVars => UNCHANGED Native!nativeVars
    BY DEF nativeVars, Native!nativeVars
  <1> QED
    BY <1>1, <1>2, <1>3 DEF Native!Next

LEMMA Driven ==
  ASSUME ThreadInv, Next, Typed', Linked'
  PROVE  ThreadInv'
  BY StepNative, StepSession

-----------------------------------------------------------------------------
(* The specification.                                                      *)

LEMMA InitThread == Init => ThreadInv
  <1> SUFFICES ASSUME Init PROVE ThreadInv
    OBVIOUS
  <1>1. SessionInv
    BY InitSession DEF Init
  <1>2. work \in [Works -> Rows]
    BY ExecutionAssumption DEF Init, NoWork, Rows, Ranks, Outcomes
  <1>3. thread \in Threads
    BY ExecutionAssumption DEF Init, Threads, Ranks
  <1>4. custody \in Custodies /\ halt \in Interruptions /\ halt.at = "idle"
    BY DEF Init, Custodies, Halting, Interruptions
  <1>5. Status!TypeOK
    BY DEF Init, Status!Init, Status!TypeOK, Status!States
  <1>6. runtime = NoRuntime /\ job = Idle /\ settlements = <<>> /\ pipe = NoInput
    BY DEF Init
  <1>7. Typed
    BY <1>2, <1>3, <1>4, <1>5, <1>6, NothingAttached, IdleOperation DEF Typed, Concerns
  <1>8. /\ thread.execution = None /\ ~thread.archived
        /\ \A w \in Works : work[w].status = "absent" /\ work[w].outcome = "none"
    BY DEF Init, NoWork
  <1>9. Linked
    BY <1>4, <1>6, <1>8, NothingAttached, IdleOperation DEF Reopening, Stops, Unopened
  <1> QED
    BY <1>1, <1>7, <1>9

LEMMA StepThread == ThreadInv /\ [Next]_vars => ThreadInv'
  <1> SUFFICES ASSUME ThreadInv, [Next]_vars PROVE ThreadInv'
    OBVIOUS
  <1>1. CASE Requested
    <2>1. Typed' /\ Linked'
      BY <1>1, SendStep, PromoteMessageStep, CancelMessageStep, ControlStep, ReopenStep
         DEF Requested
    <2> QED
      BY <1>1, <2>1, Driven DEF Next
  <1>2. CASE Drain
    BY <1>2, DrainStep, Driven DEF Next
  <1>3. CASE JobStep
    <2>1. Typed' /\ Linked'
      BY <1>3, RecoverUnassignedStep, DrainAfterHaltStep, ReacquiredStep, ReopenedStep, RenamedStep,
         PreparedStep, AcquiredStep, AdmittedStep, OpenedStep, AbandonedStep, DiscardStep,
         ProbedStep, SettlingStep, FinishingStep, ParkStep DEF JobStep
    <2> QED
      BY <1>3, <2>1, Driven DEF Next
  <1>4. CASE HaltStep
    <2>1. Typed' /\ Linked'
      BY <1>4, HaltBeginStep, HaltAbortStep, HaltStateStep, HaltFinishStep, HaltEndStep,
         HaltLostStep DEF HaltStep
    <2> QED
      BY <1>4, <2>1, Driven DEF Next
  <1>5. CASE NativeStep
    <2>1. Typed' /\ Linked'
      BY <1>5, NativeTakesStep, NativeHaltsStep, NativeAcknowledgesStep, NativeLandsStep,
         NativeSettlesStep DEF NativeStep
    <2> QED
      BY <1>5, <2>1, Driven DEF Next
  <1>6. CASE ServeSettlement \/ HaltAgain \/ Replaced \/ TimeOut \/ NativeExit \/ ControllerStop
    <2>1. Typed' /\ Linked'
      BY <1>6, ServeSettlementStep, HaltAgainStep, ReplacedStep, TimeOutStep, NativeExitStep,
         ControllerStopStep
    <2> QED
      BY <1>6, <2>1, Driven DEF Next
  <1>7. CASE \E w \in Works : NativeRefuses(w)
    <2>1. Typed' /\ Linked'
      BY <1>7, NativeRefusesStep
    <2> QED
      BY <1>7, <2>1, Driven DEF Next
  <1>8. CASE UNCHANGED vars
    <2>1. /\ UNCHANGED <<work, thread, custody, runtime, job, halt, settlements, pipe>>
          /\ UNCHANGED <<receipts, alive, active, inbox, unacked, blocked, status>>
      BY <1>8 DEF vars, durable, memory, nativeVars
    <2>2. Typed'
      BY <2>1 DEF Typed, Status!TypeOK
    <2>3. Linked'
      BY <2>1
    <2>4. SessionInv'
      BY <2>1, StepSession DEF Native!nativeVars
    <2> QED
      BY <2>2, <2>3, <2>4
  <1> QED
    BY <1>1, <1>2, <1>3, <1>4, <1>5, <1>6, <1>7, <1>8 DEF Next

HIDE DEF ThreadInv, Linked, Attached, Joined, Stopping, Recovering, Opener, Archive, Ran,
         ArchivedIsQuiet, CompleteWasLanded

LEMMA Thread == Spec => []ThreadInv
  BY InitThread, StepThread, PTL DEF Spec

\* The rows, the attachment and the session keep their shapes, an attachment
\* names a live session, and an open execution was opened by an input.
THEOREM TypeCorrect == Spec => []TypeOK
  <1>1. ThreadInv => TypeOK
    <2> SUFFICES ASSUME ThreadInv PROVE TypeOK
      OBVIOUS
    <2>1. Native!TypeOK /\ Status!TypeOK
      BY DEF ThreadInv, SessionInv, Typed
    <2>2. thread.execution \in Works \cup {None}
      BY DEF ThreadInv, Typed, Threads
    <2>3. thread.execution # None => work[thread.execution].status # "queued"
      BY DEF ThreadInv, Linked, Opener
    <2>4. runtime.up => alive
      BY DEF ThreadInv, Linked, Attached
    <2>5. ~runtime.up => runtime = NoRuntime
      BY DEF ThreadInv, Linked, Attached
    <2> QED
      BY <2>1, <2>2, <2>3, <2>4, <2>5 DEF ThreadInv, TypeOK, Typed, Rows, Threads, Custodies, Ranks
  <1> QED
    BY <1>1, Thread, PTL

\* A closed thread stays closed: no halt, exit, succession or late answer
\* leaves an execution, a run or an input of it behind.
THEOREM ArchivedQuiet == Spec => []ArchivedIsQuiet
  <1>1. ThreadInv => ArchivedIsQuiet
    BY DEF ThreadInv, Linked, Archive
  <1> QED
    BY <1>1, Thread, PTL

\* No execution is recorded as complete whose input the model never saw,
\* whoever decides it: a settlement, a recovery or a halt.
THEOREM CompletionLanded == Spec => []CompleteWasLanded
  <1>1. ThreadInv => CompleteWasLanded
    BY DEF ThreadInv, Linked, Ran
  <1> QED
    BY <1>1, Thread, PTL

\* The controller drives the session in the session's own steps only, one
\* command at a time, so what is proved of the session holds in the thread.
THEOREM ThreadDrivesSession == Spec => Native!Spec
  <1>1. Init => Native!Init
    BY DEF Init
  <1>2. ThreadInv /\ [Next]_vars => [Native!Next]_(Native!nativeVars)
    <2> SUFFICES ASSUME ThreadInv, [Next]_vars PROVE [Native!Next]_(Native!nativeVars)
      OBVIOUS
    <2>1. CASE Next
      BY <2>1, StepNative DEF ThreadInv
    <2>2. CASE UNCHANGED vars
      BY <2>2 DEF vars, nativeVars, Native!nativeVars
    <2> QED
      BY <2>1, <2>2
  <1> QED
    BY <1>1, <1>2, Thread, PTL DEF Spec, Native!Spec

\* Whatever the controller does, no input enters the conversation twice.
THEOREM ThreadDeliveryOnce == Spec => []LandsOnce
  BY ThreadDrivesSession, DeliveryOnce, PTL DEF LandsOnce

\* The session a thread drives keeps what InputDelivery promises.
THEOREM ThreadKeepsDelivery == Spec => KeepsDelivery
  BY ThreadDrivesSession, SessionRefinement, PTL DEF KeepsDelivery

-----------------------------------------------------------------------------
(* What an ending execution gives back to the queue.                       *)

\* A recovery that has its session renamed knows what has landed: it asked
\* when it opened the session, and it has heard of every landing since.
Tracked ==
  job.at = "rename" /\ job.runtime = "live" =>
    \A w \in Works : work[w].status = "dispatched" /\ w \in receipts.landed => work[w].landed

\* Rows that keep their place and what is known of them.
Keeps ==
  \A w \in Works : /\ work'[w].status = work[w].status
                   /\ work'[w].execution = work[w].execution
                   /\ work[w].landed => work'[w].landed

\* An answer moves no row, unless it is a refusal that ends the execution.
LEMMA AnswersKeep ==
  ASSUME Typed, NEW v \in Works,
         Accepted(v) \/ LateAnswer(v, FALSE) \/ Unconfirmed(v)
  PROVE  Keeps /\ job' \in {job, Idle}
  <1>1. job.at \in Concerns => job.work \in Works
    BY DEF Typed
  <1>2. work' = work => Keeps
    BY DEF Keeps
  <1>3. ASSUME NEW u \in Works, NEW landed \in BOOLEAN, work' = Inserted(u, landed)
        PROVE  Keeps
    BY <1>3 DEF Typed, Rows, Inserted, Keeps
  <1>4. ASSUME NEW u \in Works, work' = [work EXCEPT ![u].landed = TRUE]
        PROVE  Keeps
    BY <1>4 DEF Typed, Rows, Keeps
  <1>5. ASSUME NEW u \in Works, NEW ok \in BOOLEAN, LateAnswer(u, ok)
        PROVE  Keeps /\ job' = job
    BY <1>2, <1>3, <1>5 DEF LateAnswer
  <1>6. job.prompt \in BOOLEAN
    BY DEF Typed, Operations
  <1>7. ASSUME NEW u \in Works, Accepted(u)
        PROVE  Keeps /\ job' \in {job, Idle}
    <2>1. \/ /\ \/ work' \in {work, Inserted(u, job.prompt), Inserted(u, TRUE)}
                \/ work' = [work EXCEPT ![u].landed = TRUE]
             /\ job' = Idle
          \/ LateAnswer(u, TRUE)
      BY <1>7 DEF Accepted
    <2> QED
      BY <2>1, <1>2, <1>3, <1>4, <1>5, <1>6
  <1>8. CASE Unconfirmed(v)
    <2>1. CASE AwaitsAnswer("deliver", v) \/ AwaitsAnswer("redeliver", v)
      <3>1. Unacknowledged /\ job.work \in Works
        BY <1>8, <2>1 DEF Unconfirmed, AwaitsAnswer
      <3>2. (work' = work /\ job' = Idle) \/ Accepted(job.work)
        BY <3>1 DEF Unacknowledged, durable
      <3> QED
        BY <3>1, <3>2, <1>2, <1>7
    <2>2. CASE ~(AwaitsAnswer("deliver", v) \/ AwaitsAnswer("redeliver", v))
      BY <1>2, <1>8, <2>2 DEF Unconfirmed, durable
    <2> QED
      BY <2>1, <2>2
  <1> QED
    BY <1>5, <1>7, <1>8

LEMMA TimeOutKeeps ==
  ASSUME Typed, TimeOut
  PROVE  Keeps
  <1>1. job.work \in Works /\ Unacknowledged
    BY DEF Typed, TimeOut, Concerns
  <1>2. CASE work' = work
    BY <1>2 DEF Keeps
  <1>3. work' = work \/ Accepted(job.work)
    BY <1>1 DEF Unacknowledged, durable
  <1> QED
    BY <1>1, <1>2, <1>3, AnswersKeep

Ends == job.at = "deliver" /\ FinishBy("failed", runtime, work, thread, FALSE)

LEMMA RefusedKeeps ==
  ASSUME Typed, NEW v \in Works, Refused(v)
  PROVE  \/ Keeps /\ (job' = job \/ job'.at \in {"idle", "discard"})
         \/ Ends
  <1>1. work' = work => Keeps
    BY DEF Keeps
  <1>2. \/ Ends
        \/ work' = work /\ job' \in {Idle, [Idle EXCEPT !.at = "discard", !.opening = TRUE]}
        \/ LateAnswer(v, FALSE)
    BY DEF Refused, AwaitsAnswer, Ends, durable
  <1>3. [Idle EXCEPT !.at = "discard", !.opening = TRUE].at = "discard"
    BY DEF Idle
  <1> QED
    BY <1>1, <1>2, <1>3, AnswersKeep, IdleOperation

LEMMA TakenKeeps ==
  ASSUME ThreadInv, NativeTakes
  PROVE  /\ receipts'.landed = receipts.landed
         /\ \/ Keeps /\ (job' = job \/ job'.at \in {"idle", "discard"})
            \/ Ends
  <1> DEFINE w == pipe.work
  <1> USE DEF ThreadInv
  <1>1. w \in Works /\ pipe.execution \in Works /\ pipe.resume \in BOOLEAN /\ Status!TypeOK
    BY DEF NativeTakes, Typed, Commands
  <1>2. Status!Recorded(pipe.execution, w) \in {"never_accepted", "in_flight", "accepted", "rejected"}
    BY <1>1, RecordedStates
  <1>3. \/ UNCHANGED nativeVars
        \/ Native!Input(w, pipe.kind, pipe.resume)
    BY DEF NativeTakes
  <1>4. receipts'.landed = receipts.landed
    BY <1>1, <1>3, InputEffect DEF nativeVars
  <1>5. Native!Input(w, pipe.kind, pipe.resume)
          => Native!Reply(w, pipe.kind, pipe.resume) \in {"pending", "accepted", "refused"}
    BY <1>1, InputEffect
  <1>6. (work' = work /\ job' = job) \/ Accepted(w) \/ Refused(w) \/ Unconfirmed(w)
    BY <1>2, <1>5 DEF NativeTakes, durable
  <1>7. CASE work' = work /\ job' = job
    BY <1>4, <1>7 DEF Keeps
  <1> QED
    BY <1>1, <1>4, <1>6, <1>7, AnswersKeep, RefusedKeeps, IdleOperation

\* What an operation is after its execution has ended.
LEMMA FinishByAt ==
  ASSUME NEW outcome, NEW attached, NEW table, NEW row, NEW opening \in BOOLEAN,
         FinishBy(outcome, attached, table, row, opening)
  PROVE  \/ job'.at \in {"idle", "finishing"} /\ work' = table
         \/ /\ job'.at = "park"
            /\ \E o : work' = Finished(table, thread.execution, o)
  <1> DEFINE e == thread.execution
             o == IF thread.request # "none" THEN "cancelled" ELSE outcome
  <1>1. CASE e = None \/ attached.execution # e
    <2>1. job' = Idle /\ work' = table
      BY <1>1 DEF FinishBy
    <2> QED
      BY <2>1, IdleOperation
  <1>2. CASE ~(e = None \/ attached.execution # e) /\ o = "complete"
    <2>1. /\ job' = [Idle EXCEPT !.at = "finishing", !.execution = e, !.runtime = "live",
                                 !.outcome = o, !.opening = opening]
          /\ work' = table
      BY <1>2 DEF FinishBy
    <2>2. job'.at = "finishing"
      BY <2>1 DEF Idle
    <2> QED
      BY <2>1, <2>2
  <1>3. CASE ~(e = None \/ attached.execution # e) /\ o # "complete"
    <2>1. /\ job' = [Idle EXCEPT !.at = "park", !.runtime = "live", !.opening = opening]
          /\ work' = Finished(table, e, o)
      BY <1>3 DEF FinishBy
    <2>2. job'.at = "park"
      BY <2>1 DEF Idle
    <2> QED
      BY <2>1, <2>2
  <1> QED
    BY <1>1, <1>2, <1>3

LEMMA ServedAt ==
  ASSUME Typed, ServeSettlement
  PROVE  job'.at # "rename"
  <1>1. CASE \E o : FinishBy(o, runtime, work, thread, FALSE)
    BY <1>1, FinishByAt
  <1>2. CASE job' = [Idle EXCEPT !.at = "settling", !.execution = thread.execution,
                                 !.runtime = "live", !.outcome = Head(settlements).outcome]
    BY <1>2 DEF Idle
  <1>3. CASE job' = job
    BY <1>3 DEF ServeSettlement
  <1> QED
    BY <1>1, <1>2, <1>3 DEF ServeSettlement

\* Only a session that was just opened is renamed.
LEMMA OnlyReopenedRenames ==
  ASSUME Typed, JobStep, ~Reopened
  PROVE  job'.at # "rename"
  <1>1. job \in Operations
    BY DEF Typed
  <1>2. \A at \in Awaited : [job EXCEPT !.at = at].at = at
    BY <1>1 DEF Operations
  <1>3. ASSUME NEW open \in Works \cup {None}, NEW attachment \in {"none", "live"},
               job' = Chosen(open, attachment)
        PROVE  job'.at # "rename"
    BY <1>3, ChosenOperation, IdleOperation DEF Typed
  <1>4. CASE RecoverUnassigned \/ DrainAfterHalt \/ Reacquired
    <2>1. \/ job' = Idle \/ job' = [job EXCEPT !.at = "reopen"]
          \/ job' = Chosen(thread.execution, "none")
      BY <1>4 DEF RecoverUnassigned, DrainAfterHalt, Reacquired
    <2> QED
      BY <1>1, <1>3, <2>1, IdleOperation DEF Typed, Threads, Operations
  <1>5. CASE Renamed
    <2>1. \/ \E o \in {"complete", "failed"} :
               FinishBy(o, [runtime EXCEPT !.execution = thread.execution], work, thread, TRUE)
          \/ \E v : job' = [job EXCEPT !.at = "redeliver", !.work = v]
          \/ job' = Idle
      BY <1>5 DEF Renamed
    <2>2. ASSUME NEW v, job' = [job EXCEPT !.at = "redeliver", !.work = v]
          PROVE  job'.at # "rename"
      BY <1>1, <2>2 DEF Operations
    <2> QED
      BY <2>1, <2>2, FinishByAt, IdleOperation
  <1>6. CASE Prepared
    <2>1. \/ job' = Idle \/ job' = [job EXCEPT !.at = "acquire"]
          \/ \E a, p : job' = [job EXCEPT !.at = "deliver", !.runtime = a, !.prompt = p]
      BY <1>6 DEF Prepared, Dispatched
    <2>2. ASSUME NEW a, NEW p, job' = [job EXCEPT !.at = "deliver", !.runtime = a, !.prompt = p]
          PROVE  job'.at # "rename"
      BY <1>1, <2>2 DEF Operations
    <2> QED
      BY <1>1, <2>1, <2>2, IdleOperation DEF Operations
  <1>7. CASE Acquired \/ Admitted
    <2>1. \/ job' = Idle \/ job' = [job EXCEPT !.at = "admit"] \/ job' = [job EXCEPT !.at = "open"]
      BY <1>7 DEF Acquired, Admitted, GiveUp
    <2> QED
      BY <1>1, <2>1, IdleOperation DEF Operations
  <1>8. CASE Opened
    <2>1. \/ job' = [Idle EXCEPT !.at = "park", !.runtime = "live"]
          \/ \E e, p : job' = [job EXCEPT !.at = "deliver", !.runtime = "live",
                                          !.execution = e, !.prompt = p]
      BY <1>8 DEF Opened
    <2>2. ASSUME NEW e, NEW p,
                 job' = [job EXCEPT !.at = "deliver", !.runtime = "live",
                                    !.execution = e, !.prompt = p]
          PROVE  job'.at # "rename"
      BY <1>1, <2>2 DEF Operations
    <2> QED
      BY <2>1, <2>2 DEF Idle
  <1>9. CASE Abandoned \/ Discard \/ Park
    BY <1>9, IdleOperation DEF Abandoned, Discard, Park
  <1>10. CASE Finishing
    <2>1. job' = Idle \/ job' = [job EXCEPT !.at = "park"]
      BY <1>10 DEF Finishing
    <2> QED
      BY <1>1, <2>1, IdleOperation DEF Operations
  <1>11. CASE Probed
    <2>1. \/ job' = Idle \/ job' = Chosen(job.execution, "live")
      BY <1>11 DEF Probed
    <2> QED
      BY <1>1, <1>3, <2>1, IdleOperation DEF Operations
  <1>12. CASE Settling
    <2>1. \/ job' = Idle \/ job' = [Idle EXCEPT !.at = "park", !.runtime = "live"]
          \/ \E o : FinishBy(o, runtime, AdoptedReference, EndWait(Confirmed), FALSE)
      BY <1>12 DEF Settling
    <2>2. CASE job' = [Idle EXCEPT !.at = "park", !.runtime = "live"]
      BY <2>2 DEF Idle
    <2> QED
      BY <2>1, <2>2, FinishByAt, IdleOperation
  <1> QED
    BY <1>4, <1>5, <1>6, <1>7, <1>8, <1>9, <1>10, <1>11, <1>12 DEF JobStep

\* Recovery is awaited alone: no halt is past its beginning.
LEMMA TrackedStep ==
  ASSUME ThreadInv, Tracked, Next
  PROVE  Tracked'
  <1> USE DEF ThreadInv
  <1> SUFFICES ASSUME job'.at = "rename", job'.runtime = "live", NEW w \in Works,
                      work'[w].status = "dispatched", w \in receipts'.landed
               PROVE  work'[w].landed
    BY DEF Tracked
  <1>1. CASE Reopened
    <2>1. work' = AdoptedReference /\ w \in receipts.landed
      BY <1>1 DEF Reopened, Native!Open
    <2>2. Adopted[w].status = work[w].status /\ Adopted[w] \in Rows
      BY AdoptedRows DEF Typed, Alike
    <2>3. AdoptedReference[w].status = work[w].status
      BY AdoptedReferenceRows DEF Typed, Alike
    <2>4. Adopted[w].landed
      BY <2>1, <2>2, <2>3 DEF Adopted, Typed, Rows
    <2> QED
      BY <2>1, <2>2, <2>4 DEF AdoptedReference, Rows
  <1>2. ASSUME job' = job, receipts'.landed = receipts.landed,
               work'[w].status = "dispatched" => work[w].status = "dispatched",
               work[w].landed => work'[w].landed
        PROVE  work'[w].landed
    BY <1>2 DEF Tracked
  <1>3. ASSUME job' = job, receipts'.landed = receipts.landed, Keeps
        PROVE  work'[w].landed
    BY <1>2, <1>3 DEF Keeps
  <1>4. CASE Requested
    <2>1. job' = job /\ receipts' = receipts
      BY <1>4 DEF Requested, Send, PromoteMessage, CancelMessage, Control, Reopen, nativeVars, memory
    <2>2. /\ work'[w].status = "dispatched" => work[w].status = "dispatched"
          /\ work[w].landed => work'[w].landed
      <3>1. ASSUME NEW v \in Works, NEW d \in Deliveries, Send(v, d)
            PROVE  w # v /\ work'[w] = work[w]
        BY <3>1 DEF Send, Typed, NoWork
      <3>2. ASSUME NEW v \in Works, NEW d \in Deliveries, PromoteMessage(v, d)
            PROVE  work'[w].status = work[w].status /\ work'[w].landed = work[w].landed
        BY <3>2 DEF PromoteMessage, Typed, Rows
      <3>3. ASSUME NEW v \in Works, CancelMessage(v)
            PROVE  FALSE
        BY <2>1, <3>3 DEF CancelMessage
      <3>4. CASE Reopen
        BY <3>4, CancelledRows DEF Reopen, Typed
      <3>5. ASSUME NEW action \in Controls, Control(action)
            PROVE  work' = work
        BY <3>5 DEF Control
      <3> QED
        BY <1>4, <3>1, <3>2, <3>3, <3>4, <3>5 DEF Requested
    <2> QED
      BY <1>2, <2>1, <2>2
  <1>5. job \in Operations
    BY DEF Typed
  <1>6. ASSUME NEW open \in Works \cup {None}, NEW attachment \in {"none", "live", "stale"},
               job' = Chosen(open, attachment)
        PROVE  FALSE
    BY <1>6 DEF Chosen, Idle
  <1>7. CASE Drain
    BY <1>7, <1>6 DEF Drain, DrainUnassigned, DrainHardSteer, DrainRecover, DrainSelect, DrainProbe,
         Typed, Threads, Idle
  <1>8. CASE JobStep /\ ~Reopened
    BY <1>8, OnlyReopenedRenames
  <1>9. CASE HaltStep
    <2>1. job' = job => halt.at \notin Stops
      BY DEF Linked, Stopping, Reopening
    <2>2. HaltEnd => halt.at \in Stops
      BY DEF HaltEnd, Stops
    <2>3. HaltEnd => job' = job
      BY DEF HaltEnd, Idle, Lost, Typed, Operations
    <2>4. HaltBegin => job' = job /\ ~Opening
      BY DEF HaltBegin
    <2>5. HaltAbort \/ HaltState \/ HaltFinish \/ HaltLost => halt.at \in Stops
      BY DEF HaltAbort, HaltState, HaltFinish, HaltLost, Stops
    <2>6. HaltAbort \/ HaltState \/ HaltFinish \/ HaltLost => job' = job
      BY DEF HaltAbort, HaltState, HaltFinish, HaltLost, HaltFails, Idle
    <2>7. job' = job => Opening
      BY DEF Opening
    <2> QED
      BY <1>9, <2>1, <2>2, <2>3, <2>4, <2>5, <2>6, <2>7 DEF HaltStep
  <1>10. CASE ServeSettlement \/ HaltAgain \/ Replaced \/ TimeOut \/ NativeExit \/ ControllerStop
    <2>1. ServeSettlement => FALSE
      BY ServedAt
    <2>2. Replaced \/ NativeExit \/ ControllerStop => FALSE
      <3>1. Replaced => job'.at = "replaced"
        BY <1>5 DEF Replaced, Operations
      <3>2. CASE NativeExit
        <4>1. CASE job.runtime = "live"
          <5>1. job' = [job EXCEPT !.runtime = "stale"]
            BY <3>2, <4>1 DEF NativeExit, Lost
          <5> QED
            BY <1>5, <5>1 DEF Operations
        <4>2. CASE job.runtime # "live"
          BY <3>2, <4>2 DEF NativeExit, Lost
        <4> QED
          BY <4>1, <4>2
      <3>3. ControllerStop => job'.at = "idle"
        BY IdleOperation DEF ControllerStop
      <3> QED
        BY <3>1, <3>2, <3>3
    <2>3. CASE HaltAgain
      BY <1>2, <2>3 DEF HaltAgain, durable, nativeVars
    <2>4. TimeOut => FALSE
      <3>1. SUFFICES ASSUME TimeOut PROVE FALSE
        OBVIOUS
      <3>2. job' = job \/ job' = Idle
        BY <3>1 DEF TimeOut, Unacknowledged, Accepted, LateAnswer
      <3> QED
        BY <3>1, <3>2 DEF TimeOut, Idle
    <2> QED
      BY <1>10, <2>1, <2>2, <2>3, <2>4
  <1>11. ~Ends
    <2>1. SUFFICES ASSUME Ends PROVE FALSE
      OBVIOUS
    <2> QED
      BY <2>1, FinishByAt DEF Ends
  <1>12. CASE NativeStep
    <2>1. CASE NativeTakes
      BY <1>3, <1>11, <2>1, TakenKeeps
    <2>2. ASSUME NEW v \in Works, NativeAcknowledges(v)
          PROVE  work'[w].landed
      <3>1. Accepted(v) /\ receipts' = receipts
        BY <2>2 DEF NativeAcknowledges, Native!Acknowledge
      <3> QED
        BY <1>3, <3>1, AnswersKeep, IdleOperation
    <2>3. ASSUME NEW v \in Works, NativeLands(v)
          PROVE  work'[w].landed
      <3>1. /\ receipts'.landed = receipts.landed \cup {v}
            /\ UNCHANGED <<job, runtime>>
        BY <2>3 DEF NativeLands, memory, Native!Land, SessionInv, Native!TypeOK, Native!Receipts
      <3>2. runtime.up
        BY <3>1 DEF Linked, Attached
      <3>3. work' = IF work[v].status = "dispatched" THEN [work EXCEPT ![v].landed = TRUE] ELSE work
        BY <2>3, <3>2 DEF NativeLands
      <3>4. work[w].status = "dispatched" /\ (w = v => work'[w].landed)
            /\ (w # v => work'[w].landed = work[w].landed)
        BY <3>3 DEF Typed, Rows
      <3> QED
        BY <3>1, <3>4 DEF Tracked
    <2>4. CASE NativeHalts
      <3>1. receipts'.landed = receipts.landed
        BY <2>4 DEF NativeHalts, Native!EndAbort, SessionInv, Native!TypeOK, Native!Receipts
      <3> QED
        BY <1>2, <2>4, <3>1 DEF NativeHalts, durable
    <2>5. ASSUME NEW o \in {"complete", "failed"}, NativeSettles(o)
          PROVE  work'[w].landed
      <3>1. receipts'.landed = receipts.landed
        BY <2>5 DEF NativeSettles, Native!Settle, SessionInv, Native!TypeOK, Native!Receipts
      <3> QED
        BY <1>2, <2>5, <3>1 DEF NativeSettles, durable
    <2> QED
      BY <1>12, <2>1, <2>2, <2>3, <2>4, <2>5 DEF NativeStep
  <1>13. ASSUME NEW v \in Works, NativeRefuses(v)
         PROVE  work'[w].landed
    <2>1. Refused(v) /\ receipts'.landed = receipts.landed
      BY <1>13 DEF NativeRefuses, Native!Reject, SessionInv, Native!TypeOK, Native!Receipts
    <2> QED
      BY <1>3, <1>11, <2>1, RefusedKeeps
  <1> QED
    BY <1>1, <1>4, <1>7, <1>8, <1>9, <1>10, <1>12, <1>13 DEF Next

\* A row that an execution gives back as it ends had not been seen to land.
LEMMA GivenBackRow ==
  ASSUME NEW table \in [Works -> Rows], NEW e, NEW o, NEW w \in Works,
         table[w].status = "dispatched", Finished(table, e, o)[w].status = "queued"
  PROVE  ~table[w].landed /\ o = "cancelled"
  BY DEF Finished, Rows

LEMMA AdoptedLanded ==
  ASSUME Typed, NEW w \in Works, work[w].status = "dispatched"
  PROVE  /\ Adopted[w].status = "dispatched" /\ AdoptedReference[w].status = "dispatched"
         /\ w \in receipts.landed => Adopted[w].landed /\ AdoptedReference[w].landed
  <1>1. Adopted[w] \in Rows /\ Adopted[w].status = "dispatched"
    BY AdoptedRows DEF Typed, Alike
  <1>2. AdoptedReference[w].status = "dispatched"
    BY AdoptedReferenceRows DEF Typed, Alike
  <1>3. w \in receipts.landed => Adopted[w].landed
    BY DEF Typed, Rows, Adopted
  <1>4. AdoptedReference[w] \in {Adopted[w], [Adopted[w] EXCEPT !.inserted = TRUE]}
    BY DEF AdoptedReference
  <1> QED
    BY <1>1, <1>2, <1>3, <1>4 DEF Rows

LEMMA GivesBack ==
  ASSUME ThreadInv, Tracked, Next, NEW w \in Works,
         work[w].status = "dispatched", work'[w].status = "queued", ~EndsByRefusal
  PROVE  w \notin receipts.landed
  <1> USE DEF ThreadInv
  <1>1. work \in [Works -> Rows]
    BY DEF Typed
  <1>2. ~Keeps
    BY DEF Keeps
  <1>3. Adopted \in [Works -> Rows] /\ AdoptedReference \in [Works -> Rows]
    BY AdoptedRows, AdoptedReferenceRows DEF Typed
  <1>4. ~Ends
    <2>1. SUFFICES ASSUME Ends PROVE FALSE
      OBVIOUS
    <2>2. job'.at = "park"
      BY <2>1, FinishByAt DEF Ends
    <2> QED
      BY <2>1, <2>2 DEF Ends, EndsByRefusal
  <1>5. work' # work
    OBVIOUS
  <1>6. ASSUME NEW table \in [Works -> Rows], NEW e, NEW o, work' = Finished(table, e, o),
               table[w].status = "dispatched", w \in receipts.landed => table[w].landed
        PROVE  w \notin receipts.landed
    BY <1>6, GivenBackRow
  <1>7. CASE Requested
    <2>1. ASSUME NEW v \in Works, NEW d \in Deliveries, Send(v, d)
          PROVE  FALSE
      BY <1>1, <2>1 DEF Send, NoWork
    <2>2. ASSUME NEW v \in Works, NEW d \in Deliveries, PromoteMessage(v, d)
          PROVE  FALSE
      BY <1>1, <2>2 DEF PromoteMessage, Rows
    <2>3. ASSUME NEW v \in Works, CancelMessage(v)
          PROVE  FALSE
      BY <1>1, <2>3 DEF CancelMessage, Rows
    <2>4. ~Reopen
      BY <1>1, CancelledRows DEF Reopen
    <2>5. ASSUME NEW action \in Controls, Control(action)
          PROVE  FALSE
      BY <1>5, <2>5 DEF Control
    <2> QED
      BY <1>7, <2>1, <2>2, <2>3, <2>4, <2>5 DEF Requested
  <1>8. CASE Drain
    BY <1>5, <1>8 DEF Drain, DrainUnassigned, DrainHardSteer, DrainRecover, DrainSelect, DrainProbe,
       durable
  <1>9. CASE JobStep
    <2>1. CASE RecoverUnassigned \/ Reopened
      <3>1. work' \in {Adopted, AdoptedReference}
        BY <2>1 DEF RecoverUnassigned, Reopened
      <3> QED
        BY <3>1, AdoptedLanded
    <2>2. CASE Renamed
      <3>1. PICK o \in {"complete", "failed"} :
              FinishBy(o, [runtime EXCEPT !.execution = thread.execution], work, thread, TRUE)
        BY <1>5, <2>2 DEF Renamed, durable
      <3>2. PICK q : work' = Finished(work, thread.execution, q)
        BY <1>5, <3>1, FinishByAt
      <3>3. w \in receipts.landed => work[w].landed
        BY <2>2 DEF Tracked, Renamed
      <3> QED
        BY <1>1, <1>6, <3>2, <3>3
    <2>3. CASE Prepared \/ Opened
      BY <1>1, <2>3 DEF Prepared, Dispatched, Opened, Rows
    <2>4. CASE DrainAfterHalt \/ Reacquired \/ Acquired \/ Admitted \/ Abandoned \/ Discard \/ Park
      BY <1>5, <2>4 DEF DrainAfterHalt, Reacquired, Acquired, Admitted, Abandoned, Discard, Park,
         durable
    <2>5. CASE Probed
      <3>1. ASSUME NEW v \in Works, work' = Inserted(v, FALSE)
            PROVE  FALSE
        BY <1>1, <3>1 DEF Inserted, Rows
      <3>2. ASSUME NEW v \in Works, work' = Retired(v)
            PROVE  FALSE
        BY <1>1, <3>2, RetiredRows
      <3>3. job.work \in Works
        BY <2>5 DEF Probed, Typed, Concerns
      <3> QED
        BY <1>5, <2>5, <3>1, <3>2, <3>3 DEF Probed
    <2>6. CASE Settling
      <3>1. AdoptedReference[w].status = "dispatched"
            /\ (w \in receipts.landed => AdoptedReference[w].landed)
        BY AdoptedLanded
      <3>2. PICK o : FinishBy(o, runtime, AdoptedReference, EndWait(Confirmed), FALSE)
        BY <2>6, <3>1 DEF Settling
      <3>3. PICK q : work' = Finished(AdoptedReference, thread.execution, q)
        BY <3>1, <3>2, FinishByAt
      <3> QED
        BY <1>3, <1>6, <3>1, <3>3
    <2>7. CASE Finishing
      <3>1. work' = Finished(work, job.execution, "complete")
        BY <1>5, <2>7 DEF Finishing, durable, Linked, Ran
      <3> QED
        BY <1>1, <3>1, GivenBackRow
    <2> QED
      BY <1>9, <2>1, <2>2, <2>3, <2>4, <2>5, <2>6, <2>7 DEF JobStep
  <1>10. CASE HaltStep
    <2>1. Adopted[w].status = "dispatched" /\ (w \in receipts.landed => Adopted[w].landed)
      BY AdoptedLanded
    <2>2. ASSUME NEW attachment, HaltDecides(attachment, Adopted)
          PROVE  w \notin receipts.landed
      <3>1. PICK e, o : work' = Finished(Adopted, e, o)
        BY <2>1, <2>2 DEF HaltDecides
      <3> QED
        BY <1>3, <1>6, <2>1, <3>1
    <2>3. CASE HaltBegin
      BY <1>5, <2>1, <2>2, <2>3 DEF HaltBegin
    <2>4. CASE HaltState
      BY <1>5, <2>2, <2>4 DEF HaltState
    <2>5. CASE HaltFinish
      <3>1. work' = Finished(work, thread.execution, "complete")
        BY <1>5, <2>5 DEF HaltFinish
      <3> QED
        BY <1>1, <3>1, GivenBackRow
    <2>6. CASE HaltEnd
      BY <1>1, <1>5, <2>6, CancelledRows DEF HaltEnd
    <2>7. CASE HaltAbort \/ HaltLost
      BY <1>5, <2>7 DEF HaltAbort, HaltLost, durable
    <2> QED
      BY <1>10, <2>3, <2>4, <2>5, <2>6, <2>7 DEF HaltStep
  <1>11. CASE ServeSettlement
    <2>1. FinishBy("failed", runtime, work, thread, FALSE) /\ job.at = "idle"
      BY <1>5, <1>11 DEF ServeSettlement, durable
    <2>2. work' = work \/ job'.at = "park"
      BY <2>1, FinishByAt
    <2> QED
      BY <1>5, <2>1, <2>2 DEF EndsByRefusal
  <1>12. CASE HaltAgain \/ Replaced \/ NativeExit \/ ControllerStop
    BY <1>5, <1>12 DEF HaltAgain, Replaced, NativeExit, ControllerStop, durable
  <1>13. CASE TimeOut
    BY <1>2, <1>13, TimeOutKeeps
  <1>14. CASE NativeStep
    <2>1. ~NativeTakes
      BY <1>2, <1>4, TakenKeeps
    <2>2. ASSUME NEW v \in Works, NativeAcknowledges(v)
          PROVE  FALSE
      BY <1>2, <2>2, AnswersKeep DEF NativeAcknowledges
    <2>3. ASSUME NEW v \in Works, NativeLands(v)
          PROVE  FALSE
      BY <1>1, <1>5, <2>3 DEF NativeLands, Rows
    <2>4. ~NativeHalts
      BY <1>5 DEF NativeHalts, durable
    <2>5. ASSUME NEW o \in {"complete", "failed"}, NativeSettles(o)
          PROVE  FALSE
      BY <1>5, <2>5 DEF NativeSettles, durable
    <2> QED
      BY <1>14, <2>1, <2>2, <2>3, <2>4, <2>5 DEF NativeStep
  <1>15. ASSUME NEW v \in Works, NativeRefuses(v)
         PROVE  w \notin receipts.landed
    BY <1>2, <1>4, <1>15, RefusedKeeps DEF NativeRefuses
  <1> QED
    BY <1>7, <1>8, <1>9, <1>10, <1>11, <1>12, <1>13, <1>14, <1>15 DEF Next

\* Whatever a halt, a settlement or a recovery gives back to the queue has
\* not been in the conversation, so the next dispatch of it repeats nothing:
\* receipts are read before the rows are finished, or were and are current.
THEOREM GivenBack == Spec => GivenBackIsUnseen
  <1>1. Init => Tracked
    BY IdleOperation DEF Init, Tracked
  <1>2. ThreadInv /\ Tracked /\ [Next]_vars => Tracked'
    <2>1. CASE UNCHANGED vars
      BY <2>1 DEF vars, durable, memory, nativeVars, Tracked
    <2> QED
      BY <2>1, TrackedStep
  <1>3. ThreadInv /\ Tracked /\ [Next]_vars
          => [\A w \in Works :
                work[w].status = "dispatched" /\ work'[w].status = "queued" /\ ~EndsByRefusal
                => w \notin receipts.landed]_vars
    BY GivesBack
  <1> QED
    BY <1>1, <1>2, <1>3, Thread, PTL DEF Spec, GivenBackIsUnseen

-----------------------------------------------------------------------------
(* An undisturbed controller: nobody interrupts by a hard steer, Pi refuses *)
(* nothing and no successor starts. The process may still exit at any time. *)

Undisturbed == "hardSteer" \notin Deliveries /\ ~NativeRejects /\ ~ControllerStops

\* No input interrupts, or is put ahead of the others.
Soft ==
  /\ \A w \in Works : work[w].delivery # "hardSteer"
  /\ \A w \in Works : work[w].front = 0

\* A halt is under way, or has failed and will be taken up again, as long as
\* the thread is held; nothing is sent meanwhile, and only a halt blocks the
\* session.
Halted ==
  /\ halt.at # "idle" => thread.held # "no"
  /\ halt.at = "idle" => halt.runtime = "none"
  /\ thread.held # "no" => thread.request # "none"
  /\ thread.held # "confirmed"
  /\ thread.held = "pending" => halt.at # "idle"
  /\ blocked => halt.at = "aborting" /\ halt.runtime = "live"
  /\ halt.runtime = "stale" => pipe = NoInput
  /\ pipe # NoInput => thread.held = "no" \/ halt.at # "idle"

\* What leaves the hold alone.
HoldRests == thread'.held = thread.held /\ thread'.request = thread.request

LEMMA EndWaitHold ==
  ASSUME Typed, NEW ws, thread' = EndWait(ws)
  PROVE  HoldRests
  BY EndWaitThread DEF Typed, HoldRests

LEMMA FinishByHold ==
  ASSUME Typed, NEW outcome, NEW attached, NEW table, NEW row \in Threads, NEW opening,
         row.held = thread.held, row.request = thread.request,
         FinishBy(outcome, attached, table, row, opening)
  PROVE  HoldRests
  <1>1. thread' \in {row, Ended}
    BY DEF FinishBy
  <1> QED
    BY <1>1, EndedThread DEF Typed, HoldRests

LEMMA AnswersHold ==
  ASSUME Typed, NEW v \in Works,
         Accepted(v) \/ Refused(v) \/ Unacknowledged \/ Unconfirmed(v)
  PROVE  HoldRests
  <1>1. thread' = thread => HoldRests
    BY DEF HoldRests
  <1>2. ASSUME NEW u, NEW ok \in BOOLEAN, LateAnswer(u, ok)
        PROVE  HoldRests
    <2>1. thread' = thread \/ thread' = EndWait({u})
      BY <1>2 DEF LateAnswer
    <2> QED
      BY <1>1, <2>1, EndWaitHold
  <1>3. ASSUME NEW u, Accepted(u)
        PROVE  HoldRests
    <2>1. thread' = thread \/ thread' = EndWait({u}) \/ LateAnswer(u, TRUE)
      BY <1>3 DEF Accepted
    <2> QED
      BY <1>1, <1>2, <2>1, EndWaitHold
  <1>4. ASSUME Unacknowledged
        PROVE  HoldRests
    <2>1. \/ thread' = thread \/ Accepted(job.work)
          \/ thread' = [thread EXCEPT !.wait = job.work]
      BY <1>4 DEF Unacknowledged, durable
    <2>2. thread' = [thread EXCEPT !.wait = job.work] => HoldRests
      BY DEF Typed, Threads, HoldRests
    <2> QED
      BY <1>1, <1>3, <2>1, <2>2
  <1>5. CASE Unconfirmed(v)
    <2>1. Unacknowledged \/ thread' = thread
      BY <1>5 DEF Unconfirmed, durable
    <2> QED
      BY <1>1, <1>4, <2>1
  <1>6. CASE Refused(v)
    <2>1. \/ FinishBy("failed", runtime, work, thread, FALSE)
          \/ thread' = thread \/ LateAnswer(v, FALSE)
      BY <1>6 DEF Refused, durable
    <2> QED
      BY <1>1, <1>2, <2>1, FinishByHold DEF Typed
  <1> QED
    BY <1>3, <1>4, <1>5, <1>6

\* Operations of the chain send only what they may, and never touch the hold.
LEMMA JobHold ==
  ASSUME ThreadInv, JobStep \/ Drain \/ ServeSettlement \/ TimeOut \/ Replaced
  PROVE  HoldRests
  <1> USE DEF ThreadInv
  <1>1. thread' = thread => HoldRests
    BY DEF HoldRests
  <1>2. CASE Drain
    BY <1>1, <1>2 DEF Drain, DrainUnassigned, DrainHardSteer, DrainRecover, DrainSelect, DrainProbe,
       durable
  <1>3. CASE TimeOut
    <2>1. Unacknowledged /\ job.work \in Works
      BY <1>3 DEF TimeOut, Typed, Concerns
    <2> QED
      BY <2>1, AnswersHold
  <1>4. CASE ServeSettlement
    <2>1. thread' = thread \/ FinishBy("failed", runtime, work, thread, FALSE)
      BY <1>4 DEF ServeSettlement, durable
    <2> QED
      BY <1>1, <2>1, FinishByHold DEF Typed
  <1>5. CASE Replaced
    BY <1>1, <1>5 DEF Replaced, durable
  <1>6. CASE JobStep
    <2>1. CASE Renamed
      <3>1. \/ thread' = thread
            \/ \E o : FinishBy(o, [runtime EXCEPT !.execution = thread.execution], work, thread, TRUE)
        BY <2>1 DEF Renamed, durable
      <3> QED
        BY <1>1, <3>1, FinishByHold DEF Typed
    <2>2. CASE Opened
      <3>1. thread' = thread \/ thread' = [thread EXCEPT !.execution = job.work]
        BY <2>2 DEF Opened
      <3> QED
        BY <1>1, <3>1 DEF Typed, Threads, HoldRests
    <2>3. CASE Reopened \/ Probed
      <3>1. thread' = thread \/ \E ws : thread' = EndWait(ws)
        BY <2>3 DEF Reopened, Probed
      <3> QED
        BY <1>1, <3>1, EndWaitHold
    <2>4. CASE Settling
      <3>1. \/ thread' = EndWait(Confirmed)
            \/ \E o : FinishBy(o, runtime, AdoptedReference, EndWait(Confirmed), FALSE)
        BY <2>4 DEF Settling
      <3> QED
        BY <3>1, FinishByHold, EndWaitHold, EndWaitThread DEF Typed
    <2>5. CASE Finishing
      <3>1. thread' = thread \/ thread' = Ended
        BY <2>5 DEF Finishing, durable
      <3> QED
        BY <1>1, <3>1, EndedThread DEF Typed, HoldRests
    <2>6. CASE \/ RecoverUnassigned \/ DrainAfterHalt \/ Reacquired \/ Prepared
               \/ Acquired \/ Admitted \/ Abandoned \/ Discard \/ Park
      BY <1>1, <2>6 DEF RecoverUnassigned, DrainAfterHalt, Reacquired, Prepared, Acquired, Admitted,
         Abandoned, Discard, Park, durable
    <2> QED
      BY <1>6, <2>1, <2>2, <2>3, <2>4, <2>5, <2>6 DEF JobStep
  <1> QED
    BY <1>2, <1>3, <1>4, <1>5, <1>6

LEMMA JobSends ==
  ASSUME ThreadInv, JobStep \/ Drain \/ ServeSettlement \/ TimeOut \/ Replaced
  PROVE  /\ pipe' \in {pipe, NoInput} \/ MayDispatch
         /\ blocked' \in {blocked, FALSE}
  <1> USE DEF ThreadInv
  <1>1. CASE Drain \/ ServeSettlement \/ TimeOut
    BY <1>1 DEF Drain, DrainUnassigned, DrainHardSteer, DrainRecover, DrainSelect, DrainProbe,
       ServeSettlement, TimeOut, nativeVars
  <1>2. CASE Replaced
    BY <1>2 DEF Replaced, Retire, Native!Exit
  <1>3. CASE JobStep
    <2>1. CASE Prepared \/ Opened \/ Renamed
      BY <2>1 DEF Prepared, Dispatched, Opened, Renamed, StillWanted, nativeVars, Native!Open
    <2>2. CASE Park
      BY <2>2 DEF Park, Keep, nativeVars, Retire, Native!Exit
    <2>3. CASE Discard
      BY <2>3 DEF Discard, nativeVars, Native!Exit
    <2>4. CASE \/ RecoverUnassigned \/ DrainAfterHalt \/ Reacquired \/ Reopened \/ Probed
               \/ Acquired \/ Admitted \/ Abandoned \/ Settling \/ Finishing
      BY <2>4 DEF RecoverUnassigned, DrainAfterHalt, Reacquired, Reopened, Probed, Acquired, Admitted,
         Abandoned, Settling, Finishing, nativeVars, Native!Open
    <2> QED
      BY <1>3, <2>1, <2>2, <2>3, <2>4 DEF JobStep
  <1> QED
    BY <1>1, <1>2, <1>3

\* Rows that keep their place in the queue.
Places(table) ==
  \A w \in Works : table[w].delivery = work[w].delivery /\ table[w].front = work[w].front

LEMMA FinishedPlaces ==
  ASSUME NEW table \in [Works -> Rows], Places(table), NEW e, NEW o
  PROVE  Places(Finished(table, e, o))
  BY DEF Places, Finished, Rows

LEMMA TablePlaces ==
  ASSUME work \in [Works -> Rows]
  PROVE  /\ Places(work) /\ Places(Adopted) /\ Places(AdoptedReference) /\ Places(Cancelled(work))
         /\ \A v \in Works : Places(Retired(v))
         /\ \A v \in Works, landed \in BOOLEAN : Places(Inserted(v, landed))
         /\ \A v \in Works : Places([work EXCEPT ![v].landed = TRUE])
         /\ \A v \in Works : Places([work EXCEPT ![v].status = "done", ![v].outcome = "cancelled"])
         /\ \A v \in Works, e \in Works \cup {None} :
              Places([work EXCEPT ![v].status = "dispatched", ![v].execution = e])
  <1>1. Places(work) /\ Places(Adopted) /\ Places(Cancelled(work))
    BY DEF Places, Adopted, Cancelled, Rows
  <1>2. Places(AdoptedReference)
    <2>1. ASSUME NEW w \in Works
          PROVE  AdoptedReference[w].delivery = work[w].delivery
                 /\ AdoptedReference[w].front = work[w].front
      <3>1. Adopted[w] \in Rows
        BY AdoptedRows
      <3>2. AdoptedReference[w] \in {Adopted[w], [Adopted[w] EXCEPT !.inserted = TRUE]}
        BY DEF AdoptedReference
      <3> QED
        BY <1>1, <3>1, <3>2 DEF Places, Rows
    <2> QED
      BY <2>1 DEF Places
  <1>3. ASSUME NEW v \in Works
        PROVE  Places(Retired(v)) /\ Places([work EXCEPT ![v].landed = TRUE])
    BY DEF Places, Retired, Rows
  <1>4. ASSUME NEW v \in Works, NEW landed \in BOOLEAN
        PROVE  Places(Inserted(v, landed))
    BY DEF Places, Inserted, Rows
  <1>5. ASSUME NEW v \in Works, NEW e \in Works \cup {None}
        PROVE  /\ Places([work EXCEPT ![v].status = "done", ![v].outcome = "cancelled"])
               /\ Places([work EXCEPT ![v].status = "dispatched", ![v].execution = e])
    BY DEF Places, Rows
  <1> QED
    BY <1>1, <1>2, <1>3, <1>4, <1>5

LEMMA AnswersPlaces ==
  ASSUME Typed, NEW v \in Works,
         \/ Accepted(v) \/ Refused(v) \/ Unconfirmed(v)
         \/ Unacknowledged /\ job.work \in Works
  PROVE  Places(work')
  <1>1. work \in [Works -> Rows] /\ job.prompt \in BOOLEAN /\ (job.at \in Concerns => job.work \in Works)
    BY DEF Typed, Operations
  <1>2. ASSUME NEW u \in Works, NEW ok \in BOOLEAN, LateAnswer(u, ok)
        PROVE  Places(work')
    BY <1>1, <1>2, TablePlaces DEF LateAnswer
  <1>3. ASSUME NEW u \in Works, Accepted(u)
        PROVE  Places(work')
    <2>1. \/ work' \in {work, Inserted(u, job.prompt), Inserted(u, TRUE)}
          \/ work' = [work EXCEPT ![u].landed = TRUE]
          \/ LateAnswer(u, TRUE)
      BY <1>3 DEF Accepted
    <2> QED
      BY <1>1, <1>2, <2>1, TablePlaces
  <1>4. ASSUME Unacknowledged, job.work \in Works
        PROVE  Places(work')
    <2>1. work' = work \/ Accepted(job.work)
      BY <1>4 DEF Unacknowledged, durable
    <2> QED
      BY <1>1, <1>3, <1>4, <2>1, TablePlaces
  <1>5. CASE Unconfirmed(v)
    <2>1. (Unacknowledged /\ job.work \in Works) \/ work' = work
      BY <1>1, <1>5 DEF Unconfirmed, AwaitsAnswer, durable
    <2> QED
      BY <1>1, <1>4, <2>1, TablePlaces
  <1>6. CASE Refused(v)
    <2>1. \/ FinishBy("failed", runtime, work, thread, FALSE)
          \/ work' = work \/ LateAnswer(v, FALSE)
      BY <1>6 DEF Refused, durable
    <2>2. \/ \E e, o : work' = Finished(work, e, o)
          \/ work' = work \/ LateAnswer(v, FALSE)
      BY <2>1, FinishByAt
    <2>3. Places(work)
      BY <1>1, TablePlaces
    <2>4. ASSUME NEW e, NEW o, work' = Finished(work, e, o)
          PROVE  Places(work')
      BY <1>1, <2>3, <2>4, FinishedPlaces
    <2> QED
      BY <1>2, <2>2, <2>3, <2>4
  <1> QED
    BY <1>3, <1>4, <1>5, <1>6

\* Only a request changes the place of an input.
LEMMA StepPlaces ==
  ASSUME ThreadInv, Next
  PROVE  \/ \E w \in Works, d \in Deliveries : Send(w, d) \/ PromoteMessage(w, d)
         \/ Places(work')
  <1> USE DEF ThreadInv
  <1>1. work \in [Works -> Rows]
    BY DEF Typed
  <1>2. Adopted \in [Works -> Rows] /\ AdoptedReference \in [Works -> Rows]
    BY <1>1, AdoptedRows, AdoptedReferenceRows
  <1>3. Places(work) /\ Places(Adopted) /\ Places(AdoptedReference) /\ Places(Cancelled(work))
    BY <1>1, TablePlaces
  <1>4. ASSUME NEW table \in {work, Adopted, AdoptedReference}, NEW e, NEW o,
               work' = Finished(table, e, o)
        PROVE  Places(work')
    BY <1>1, <1>2, <1>3, <1>4, FinishedPlaces
  <1>5. CASE Requested
    <2>1. \/ \E w \in Works, d \in Deliveries : Send(w, d) \/ PromoteMessage(w, d)
          \/ \E v \in Works : work' = [work EXCEPT ![v].status = "done", ![v].outcome = "cancelled"]
          \/ work' \in {work, Cancelled(work)}
      BY <1>5 DEF Requested, CancelMessage, Control, Reopen
    <2> QED
      BY <1>1, <1>3, <2>1, TablePlaces
  <1>6. CASE Drain \/ HaltAgain \/ Replaced \/ NativeExit \/ ControllerStop
    BY <1>3, <1>6 DEF Drain, DrainUnassigned, DrainHardSteer, DrainRecover, DrainSelect, DrainProbe,
       HaltAgain, Replaced, NativeExit, ControllerStop, durable
  <1>7. CASE TimeOut
    BY <1>7, AnswersPlaces DEF TimeOut, Typed, Concerns
  <1>8. ASSUME NEW table \in {work, Adopted, AdoptedReference}, NEW o, NEW attached, NEW row,
               NEW opening \in BOOLEAN, FinishBy(o, attached, table, row, opening)
        PROVE  Places(work')
    <2>1. work' = table \/ \E e, q : work' = Finished(table, e, q)
      BY <1>8, FinishByAt
    <2> QED
      BY <1>3, <1>4, <2>1
  <1>9. CASE ServeSettlement
    <2>1. work' = work \/ FinishBy("failed", runtime, work, thread, FALSE)
      BY <1>9 DEF ServeSettlement, durable
    <2> QED
      BY <1>3, <1>8, <2>1
  <1>10. CASE JobStep
    <2>1. CASE Renamed
      <3>1. \/ work' = work
            \/ \E o : FinishBy(o, [runtime EXCEPT !.execution = thread.execution], work, thread, TRUE)
        BY <2>1 DEF Renamed, durable
      <3> QED
        BY <1>3, <1>8, <3>1
    <2>2. CASE Prepared \/ Opened
      <3>1. /\ job.work \in Works
            /\ job.execution \in Works \cup {None}
        BY <2>2 DEF Prepared, Opened, Typed, Concerns, Operations
      <3>2. \/ work' = work
            \/ \E e \in Works \cup {None} :
                 work' = [work EXCEPT ![job.work].status = "dispatched", ![job.work].execution = e]
        BY <2>2, <3>1 DEF Prepared, Dispatched, Opened
      <3> QED
        BY <1>1, <1>3, <3>1, <3>2, TablePlaces
    <2>3. CASE Probed
      <3>1. job.work \in Works
        BY <2>3 DEF Probed, Typed, Concerns
      <3>2. work' \in {work, Inserted(job.work, FALSE), Retired(job.work)}
        BY <2>3 DEF Probed
      <3> QED
        BY <1>1, <1>3, <3>1, <3>2, TablePlaces
    <2>4. CASE Settling
      <3>1. \/ work' = AdoptedReference
            \/ \E o : FinishBy(o, runtime, AdoptedReference, EndWait(Confirmed), FALSE)
        BY <2>4 DEF Settling
      <3> QED
        BY <1>3, <1>8, <3>1
    <2>5. CASE Finishing
      <3>1. work' = work \/ \E e, o : work' = Finished(work, e, o)
        BY <2>5 DEF Finishing, durable
      <3> QED
        BY <1>3, <1>4, <3>1
    <2>6. CASE RecoverUnassigned \/ Reopened
      BY <1>3, <2>6 DEF RecoverUnassigned, Reopened
    <2>7. CASE DrainAfterHalt \/ Reacquired \/ Acquired \/ Admitted \/ Abandoned \/ Discard \/ Park
      BY <1>3, <2>7 DEF DrainAfterHalt, Reacquired, Acquired, Admitted, Abandoned, Discard, Park,
         durable
    <2> QED
      BY <1>10, <2>1, <2>2, <2>3, <2>4, <2>5, <2>6, <2>7 DEF JobStep
  <1>11. CASE HaltStep
    <2>1. \/ work' \in {work, Adopted, Cancelled(work)}
          \/ \E e, o : work' = Finished(Adopted, e, o) \/ work' = Finished(work, e, o)
      BY <1>11 DEF HaltStep, HaltBegin, HaltAbort, HaltState, HaltFinish, HaltEnd, HaltLost,
         HaltDecides, durable
    <2> QED
      BY <1>3, <1>4, <2>1
  <1>12. CASE NativeStep
    <2>1. CASE NativeTakes
      <3>1. pipe.work \in Works /\ pipe.execution \in Works /\ pipe.resume \in BOOLEAN
            /\ Status!TypeOK
        BY <2>1 DEF NativeTakes, Typed, Commands
      <3>2. \/ work' = work \/ Accepted(pipe.work) \/ Refused(pipe.work) \/ Unconfirmed(pipe.work)
        BY <2>1, <3>1, RecordedStates, InputEffect DEF NativeTakes, durable
      <3> QED
        BY <1>3, <3>1, <3>2, AnswersPlaces
    <2>2. ASSUME NEW v \in Works, NativeAcknowledges(v)
          PROVE  Places(work')
      BY <2>2, AnswersPlaces DEF NativeAcknowledges
    <2>3. ASSUME NEW v \in Works, NativeLands(v)
          PROVE  Places(work')
      <3>1. work' \in {work, [work EXCEPT ![v].landed = TRUE]}
        BY <2>3 DEF NativeLands
      <3> QED
        BY <1>1, <1>3, <3>1, TablePlaces
    <2>4. CASE NativeHalts
      BY <1>3, <2>4 DEF NativeHalts, durable
    <2>5. ASSUME NEW o \in {"complete", "failed"}, NativeSettles(o)
          PROVE  Places(work')
      BY <1>3, <2>5 DEF NativeSettles, durable
    <2> QED
      BY <1>12, <2>1, <2>2, <2>3, <2>4, <2>5 DEF NativeStep
  <1>13. ASSUME NEW v \in Works, NativeRefuses(v)
         PROVE  Places(work')
    BY <1>13, AnswersPlaces DEF NativeRefuses
  <1> QED
    BY <1>5, <1>6, <1>7, <1>9, <1>10, <1>11, <1>12, <1>13 DEF Next

LEMMA SoftStep ==
  ASSUME Undisturbed, ThreadInv, Soft, Halted, Next
  PROVE  Soft'
  <1> USE DEF ThreadInv
  <1>1. work \in [Works -> Rows]
    BY DEF Typed
  <1>2. CASE Places(work')
    BY <1>2 DEF Soft, Places
  <1>3. ASSUME NEW w \in Works, NEW d \in Deliveries, Send(w, d)
        PROVE  Soft'
    <2>1. d # "hardSteer" /\ halt.at = "idle" /\ ~HeldRunning
      BY <1>3 DEF Send, Undisturbed
    <2>2. thread.held = "no"
      BY <2>1 DEF Halted, HeldRunning, Threads, Typed
    <2>3. work' = [work EXCEPT ![w] = [NoWork EXCEPT !.status = "queued", !.delivery = d, !.front = 0]]
      BY <1>3, <2>1, <2>2 DEF Send
    <2>4. [NoWork EXCEPT !.status = "queued", !.delivery = d, !.front = 0].delivery = d
          /\ [NoWork EXCEPT !.status = "queued", !.delivery = d, !.front = 0].front = 0
      BY DEF NoWork
    <2> QED
      BY <1>1, <2>1, <2>3, <2>4 DEF Soft
  <1>4. ASSUME NEW w \in Works, NEW d \in Deliveries, PromoteMessage(w, d)
        PROVE  Soft'
    <2>1. d # "hardSteer"
      BY DEF Undisturbed
    <2>2. work' = [work EXCEPT ![w].delivery = d, ![w].front = 0]
      BY <1>4, <2>1 DEF PromoteMessage
    <2> QED
      BY <1>1, <2>1, <2>2 DEF Soft, Rows
  <1> QED
    BY <1>2, <1>3, <1>4, StepPlaces

LEMMA HaltedStep ==
  ASSUME Undisturbed, ThreadInv, Soft, Halted, Next
  PROVE  Halted'
  <1> USE DEF ThreadInv
  <1>1. thread \in Threads /\ halt \in Interruptions
    BY DEF Typed
  <1>2. blocked \in BOOLEAN
    BY DEF SessionInv, Native!TypeOK
  <1>3. ASSUME HoldRests, halt' = halt, blocked' \in {blocked, FALSE},
               pipe' \in {pipe, NoInput} \/ MayDispatch
        PROVE  Halted'
    <2>1. pipe' # NoInput => pipe # NoInput \/ MayDispatch
      BY <1>3
    <2>2. CASE blocked' = FALSE
      BY <1>3, <2>1, <2>2 DEF Halted, HoldRests, MayDispatch
    <2>3. CASE blocked' = blocked
      BY <1>3, <2>1, <2>3 DEF Halted, HoldRests, MayDispatch
    <2> QED
      BY <1>3, <2>2, <2>3
  <1>4. CASE Requested
    <2>1. ASSUME NEW w \in Works, NEW d \in Deliveries, Send(w, d)
          PROVE  Halted'
      <3>1. d # "hardSteer" /\ halt.at = "idle" /\ ~HeldRunning
        BY <2>1 DEF Send, Undisturbed
      <3>2. thread.held = "no"
        BY <1>1, <3>1 DEF Halted, HeldRunning, Threads
      <3>3. HoldRests /\ halt' = halt /\ pipe' = pipe /\ blocked' = blocked
        BY <1>1, <2>1, <3>1, <3>2 DEF Send, Interrupt, HoldRests, Threads, nativeVars
      <3> QED
        BY <1>3, <3>3
    <2>2. ASSUME NEW w \in Works, NEW d \in Deliveries, PromoteMessage(w, d)
          PROVE  Halted'
      <3>1. d # "hardSteer"
        BY DEF Undisturbed
      <3>2. HoldRests /\ halt' = halt /\ pipe' = pipe /\ blocked' = blocked
        BY <2>2, <3>1 DEF PromoteMessage, Interrupt, HoldRests, nativeVars
      <3> QED
        BY <1>3, <3>2
    <2>3. ASSUME NEW w \in Works, CancelMessage(w)
          PROVE  Halted'
      BY <1>3, <2>3 DEF CancelMessage, HoldRests, memory, nativeVars
    <2>4. ASSUME NEW action \in Controls, Control(action)
          PROVE  Halted'
      <3>1. /\ thread'.held = "pending" /\ thread'.request # "none"
            /\ halt' = IF halt.at = "idle" THEN Halting("begin") ELSE halt
            /\ pipe' = pipe /\ blocked' = blocked
        BY <1>1, <2>4 DEF Control, Interrupt, Threads, nativeVars
      <3>2. halt.at = "idle" => halt'.at = "begin" /\ halt'.runtime = "none" /\ ~blocked
        BY <3>1 DEF Halting, Halted
      <3> QED
        BY <3>1, <3>2 DEF Halted
    <2>5. CASE Reopen
      <3>1. /\ thread'.held = "no" /\ thread'.request = thread.request
            /\ halt' = halt /\ pipe' = pipe /\ blocked' = blocked /\ halt.at = "idle"
        BY <1>1, <2>5 DEF Reopen, Threads, memory, nativeVars
      <3> QED
        BY <3>1 DEF Halted
    <2> QED
      BY <1>4, <2>1, <2>2, <2>3, <2>4, <2>5 DEF Requested
  <1>5. CASE JobStep \/ Drain \/ ServeSettlement \/ TimeOut \/ Replaced
    <2>1. HoldRests /\ blocked' \in {blocked, FALSE} /\ (pipe' \in {pipe, NoInput} \/ MayDispatch)
      BY <1>5, JobHold, JobSends
    <2>2. ~DrainHardSteer
      BY DEF DrainHardSteer, MustHalt, Queued, Soft
    <2>3. halt' = halt
      BY <1>5, <2>2 DEF JobStep, Drain, ServeSettlement, TimeOut, Replaced,
         DrainUnassigned, DrainRecover, DrainSelect, DrainProbe,
         RecoverUnassigned, DrainAfterHalt, Reacquired, Reopened, Renamed,
         Prepared, Acquired, Admitted, Opened, Abandoned, Discard, Probed,
         Settling, Finishing, Park
    <2> QED
      BY <1>3, <2>1, <2>3
  <1>6. \A at \in Stops : /\ [halt EXCEPT !.at = at].at = at
                          /\ [halt EXCEPT !.at = at].runtime = halt.runtime
    BY <1>1 DEF Interruptions
  <1>7. Halting("idle").at = "idle" /\ Halting("idle").runtime = "none"
        /\ Halting("begin").at = "begin" /\ Halting("begin").runtime = "none"
    BY DEF Halting
  <1>8. CASE HaltStep
    <2>1. ASSUME HaltFails, pipe = NoInput, blocked = FALSE, UNCHANGED <<pipe, nativeVars>>
          PROVE  Halted'
      <3>1. /\ thread'.held = "failed" /\ thread'.request = thread.request
            /\ halt' = Halting("idle") /\ pipe' = NoInput /\ blocked' = FALSE
        BY <1>1, <2>1 DEF HaltFails, Threads, nativeVars
      <3>2. thread.held # "no"
        BY <1>8, <1>7 DEF Halted, HaltStep, HaltBegin, HaltAbort, HaltState, HaltFinish, HaltEnd, HaltLost
      <3> QED
        BY <1>7, <3>1, <3>2 DEF Halted
    <2>2. ASSUME HoldRests, blocked' = FALSE, pipe' = pipe, halt.at # "idle", halt'.at # "idle",
                 halt'.runtime = "stale" => pipe = NoInput
          PROVE  Halted'
      BY <2>2 DEF Halted, HoldRests
    <2>3. ASSUME NEW a, HaltDecides(a, Adopted), blocked = FALSE, halt.at # "idle",
                 UNCHANGED <<pipe, nativeVars>>
          PROVE  Halted'
      <3>1. \/ halt' = [halt EXCEPT !.at = "release"]
            \/ halt' = [halt EXCEPT !.at = "finish"]
        BY <2>3 DEF HaltDecides, Halts
      <3>2. halt'.at # "idle" /\ halt'.runtime = halt.runtime
        BY <1>6, <3>1 DEF Stops
      <3>3. thread' \in {thread, Ended}
        BY <2>3 DEF HaltDecides
      <3>4. HoldRests
        BY <1>1, <3>3, EndedThread DEF HoldRests
      <3> QED
        BY <2>2, <2>3, <3>2, <3>4 DEF Halted, nativeVars
    <2>4. CASE HaltBegin
      <3>1. blocked = FALSE /\ halt.at = "begin" /\ UNCHANGED <<pipe, nativeVars>>
        BY <1>2, <2>4 DEF HaltBegin, Halted
      <3>2. CASE alive
        <4>1. halt' = [at |-> "abort", runtime |-> "live"] /\ thread' = thread
          BY <2>4, <3>2 DEF HaltBegin
        <4> QED
          BY <2>2, <3>1, <4>1 DEF HoldRests, nativeVars
      <3>3. CASE ~alive
        BY <2>3, <2>4, <3>1, <3>3 DEF HaltBegin
      <3> QED
        BY <3>2, <3>3
    <2>5. CASE HaltAbort
      <3>1. /\ halt' = [halt EXCEPT !.at = "aborting"] /\ halt.runtime = "live" /\ thread' = thread
            /\ pipe = NoInput /\ pipe' = pipe /\ halt.at = "abort"
        BY <2>5 DEF HaltAbort, Halts, durable
      <3>2. halt'.at = "aborting" /\ halt'.runtime = "live"
        BY <1>6, <3>1 DEF Stops
      <3> QED
        BY <3>1, <3>2 DEF Halted
    <2>6. CASE HaltState
      <3>1. blocked = FALSE /\ halt.at = "state" /\ pipe = NoInput /\ UNCHANGED <<pipe, nativeVars>>
        BY <1>2, <2>6 DEF HaltState, Halted
      <3> QED
        BY <2>1, <2>3, <2>6, <3>1 DEF HaltState
    <2>7. CASE HaltFinish
      <3>1. /\ blocked = FALSE /\ halt.at = "finish" /\ pipe = NoInput /\ UNCHANGED <<pipe, nativeVars>>
            /\ halt' = [halt EXCEPT !.at = "release"] /\ thread' \in {thread, Ended}
        BY <1>2, <2>7 DEF HaltFinish, Halted, Halts
      <3>2. halt'.at # "idle" /\ HoldRests
        BY <1>1, <1>6, <3>1, EndedThread DEF Stops, HoldRests
      <3> QED
        BY <2>2, <3>1, <3>2 DEF nativeVars
    <2>8. CASE HaltEnd
      <3>1. /\ blocked = FALSE /\ halt.at = "release" /\ pipe = NoInput /\ halt' = Halting("idle")
            /\ thread.request # "none"
        BY <1>2, <2>8 DEF HaltEnd, Halted, Linked, Stopping
      <3>2. thread'.held = "no" /\ thread'.request = "none"
        BY <1>1, <2>8, <3>1 DEF HaltEnd, Threads
      <3>3. pipe' = NoInput /\ blocked' = FALSE
        BY <2>8, <3>1 DEF HaltEnd, Retire, Native!Exit, Keep, nativeVars
      <3> QED
        BY <1>7, <3>1, <3>2, <3>3 DEF Halted
    <2>9. CASE HaltLost
      <3>1. blocked = FALSE /\ pipe = NoInput /\ HaltFails /\ UNCHANGED <<pipe, nativeVars>>
        BY <1>2, <2>9 DEF HaltLost, Halted
      <3> QED
        BY <2>1, <3>1
    <2> QED
      BY <1>8, <2>4, <2>5, <2>6, <2>7, <2>8, <2>9 DEF HaltStep
  <1>9. CASE HaltAgain
    <2>1. /\ halt' = Halting("begin") /\ thread' = thread /\ thread.held # "no"
          /\ pipe' = pipe /\ blocked' = blocked /\ halt.at = "idle" /\ blocked = FALSE
      BY <1>9, <1>2 DEF HaltAgain, durable, nativeVars, Halted
    <2> QED
      BY <1>7, <2>1 DEF Halted
  <1>10. CASE NativeStep
    <2>1. CASE NativeTakes
      <3>1. pipe.work \in Works /\ pipe.execution \in Works /\ pipe.resume \in BOOLEAN
            /\ Status!TypeOK /\ pipe' = NoInput /\ halt' = halt
        BY <2>1 DEF NativeTakes, Typed, Commands
      <3>2. UNCHANGED nativeVars \/ Native!Input(pipe.work, pipe.kind, pipe.resume)
        BY <2>1 DEF NativeTakes
      <3>3. blocked' = blocked
        BY <3>1, <3>2, InputEffect DEF nativeVars
      <3>4. \/ thread' = thread \/ Accepted(pipe.work) \/ Refused(pipe.work) \/ Unconfirmed(pipe.work)
        BY <2>1, <3>1, RecordedStates, InputEffect DEF NativeTakes, durable
      <3>5. HoldRests
        BY <3>1, <3>4, AnswersHold DEF HoldRests
      <3> QED
        BY <1>3, <3>1, <3>3, <3>5
    <2>2. ASSUME NEW v \in Works, NativeAcknowledges(v)
          PROVE  Halted'
      BY <1>3, <2>2, AnswersHold DEF NativeAcknowledges, Native!Acknowledge
    <2>3. ASSUME NEW v \in Works, NativeLands(v)
          PROVE  Halted'
      BY <1>3, <2>3 DEF NativeLands, Native!Land, HoldRests, memory
    <2>4. CASE NativeHalts
      <3>1. /\ pipe' = pipe /\ thread' = thread /\ blocked' = FALSE
            /\ blocked = TRUE
        BY <1>2, <2>4 DEF NativeHalts, Native!EndAbort, durable
      <3>2. halt.at = "aborting" /\ halt.runtime = "live" /\ halt' = [halt EXCEPT !.at = "state"]
        BY <2>4, <3>1 DEF NativeHalts, Halted, Halts
      <3>3. halt'.at = "state" /\ halt'.runtime = "live"
        BY <1>6, <3>2 DEF Stops
      <3> QED
        BY <3>1, <3>2, <3>3 DEF Halted
    <2>5. ASSUME NEW o \in {"complete", "failed"}, NativeSettles(o)
          PROVE  Halted'
      BY <1>3, <2>5 DEF NativeSettles, Native!Settle, HoldRests, durable
    <2> QED
      BY <1>10, <2>1, <2>2, <2>3, <2>4, <2>5 DEF NativeStep
  <1>11. ASSUME NEW v \in Works, NativeRefuses(v)
         PROVE  Halted'
    BY <1>3, <1>11, AnswersHold DEF NativeRefuses, Native!Reject
  <1>12. CASE NativeExit
    <2>1. /\ pipe' = NoInput /\ thread' = thread /\ blocked' = FALSE
          /\ halt' = Lost(halt)
      BY <1>12 DEF NativeExit, Native!Exit, durable
    <2>2. halt' = halt \/ (halt' = [halt EXCEPT !.runtime = "stale"] /\ halt.runtime = "live")
      BY <2>1 DEF Lost
    <2>3. halt'.at = halt.at /\ (halt.at = "idle" => halt' = halt)
      BY <1>1, <2>2 DEF Interruptions, Halted
    <2> QED
      BY <2>1, <2>3 DEF Halted
  <1>13. ~ControllerStop
    BY DEF Undisturbed, ControllerStop
  <1> QED
    BY <1>4, <1>5, <1>8, <1>9, <1>10, <1>11, <1>12, <1>13 DEF Next

Answering == {"deliver", "redeliver"}

\* A command is for an input of the open execution; a prompt, as a resume is,
\* finds no run; and an attachment that does not know of a run awaits the
\* answer to the command that starts it.
Sent ==
  /\ pipe # NoInput => /\ work[pipe.work].status = "dispatched"
                       /\ pipe.execution = thread.execution
                       /\ pipe.resume => pipe.kind = "prompt"
                       /\ pipe.kind = "prompt" => active = {}
  /\ job.at = "rename" /\ job.runtime = "live"
       => pipe = NoInput /\ (~runtime.busy => active = {})
  /\ thread.held = "no" /\ runtime.up /\ ~runtime.busy /\ (active # {} \/ pipe # NoInput)
       => job.at \in Answering /\ job.runtime = "live"

\* The operations that are for the execution they found open, and those that
\* are for an input they chose from the queue.
ForOpen == job.at \in {"prepare", "deliver", "probe"} /\ job.execution # None

ForQueued == job.at \in {"prepare", "acquire", "admit", "replaced", "open"}

\* An operation goes on for the execution it began with: once a halt has ended
\* that, the attachment is closed with the halt and the input is no longer
\* wanted. The same holds of the custody an input was selected for.
Meant ==
  /\ job.at = "deliver" => job.execution # None
  /\ ForOpen /\ job.runtime = "live"
       => thread.execution = job.execution \/ halt.at = "release"
  /\ ForOpen /\ job.runtime = "live" /\ halt.at = "release"
       => halt.runtime = "live" /\ ~runtime.busy /\ runtime.execution = None
  /\ ForQueued => work[job.work].status \in {"queued", "done"}
  /\ job.at = "prepare" /\ job.execution # None /\ thread.held = "no" /\ IsQueued(job.work)
       => thread.execution = job.execution
  /\ job.at \in {"admit", "replaced", "open"} /\ thread.held = "no" /\ IsQueued(job.work)
       => custody[job.work] \in {"held", "entered"}

\* The session has records of executions that were opened, and no rejection
\* while the thread may send.
Told ==
  /\ \A w \in Works :
       LET e == status[w].execution IN
       e # None => \/ work[e].status = "done"
                   \/ work[e].status = "dispatched" /\ work[e].execution = e
  /\ thread.held = "no" /\ thread.execution # None
       => \A w \in Works : status[w].state = "rejected" => status[w].execution # thread.execution
  /\ \A i \in 1..Len(settlements) : settlements[i].kind = "settled"

Accounted ==
  /\ DispatchedIsOpen /\ NativeIsAccounted
  /\ \A w \in Works : work[w].status \in {"absent", "queued"} => work[w].execution = None
  /\ thread.execution # None => custody[thread.execution] \in {"held", "entered"}
  /\ \A w \in receipts.landed : work[w].status \in {"dispatched", "done"}
  /\ Tracked

Regular == Soft /\ Halted /\ Sent /\ Meant /\ Told /\ Accounted

LEMMA NothingOpen ==
  ASSUME ThreadInv, Sent, Accounted, thread.execution = None
  PROVE  active = {} /\ pipe = NoInput /\ \A w \in Works : work[w].status # "dispatched"
  <1> USE DEF ThreadInv
  <1>1. \A w \in Works : work[w].status # "dispatched"
    BY DEF Accounted, DispatchedIsOpen
  <1>2. active = {}
    BY <1>1 DEF Accounted, NativeIsAccounted, SessionInv, Native!TypeOK
  <1>3. pipe = NoInput
    BY <1>1 DEF Sent, Typed, Commands
  <1> QED
    BY <1>1, <1>2, <1>3

\* What an answer leaves of the rest, a refusal too.
Answers ==
  /\ Keeps /\ custody' = custody
  /\ thread'.execution = thread.execution
  /\ settlements' \in {settlements, <<>>}
  /\ job' \in {job, Idle} \/ job'.at = "discard"
  /\ runtime'.up => /\ runtime.up
                    /\ runtime.busy => runtime'.busy
  /\ thread.held = "no" /\ job.at \in Answering /\ job.runtime = "live" /\ job' # job /\ runtime'.up
       => runtime'.busy

LEMMA AcceptedAnswers ==
  ASSUME ThreadInv, Halted, NEW w \in Works, Accepted(w)
  PROVE  Answers
  <1> USE DEF ThreadInv
  <1>1. work \in [Works -> Rows] /\ runtime \in Attachments /\ thread \in Threads
        /\ job.prompt \in BOOLEAN
    BY DEF Typed, Operations
  <1>2. Keeps /\ job' \in {job, Idle}
    BY AnswersKeep
  <1>3. \A ws : EndWait(ws).execution = thread.execution
    BY <1>1, EndWaitThread
  <1>4. Running(runtime).up = runtime.up /\ (runtime.busy => Running(runtime).busy)
    BY <1>1 DEF Running, Attachments
  <1>5. [runtime EXCEPT !.busy = TRUE].up = runtime.up /\ [runtime EXCEPT !.busy = TRUE].busy
    BY <1>1 DEF Attachments
  <1>6. thread.held = "no" => MayDispatch
    BY DEF Halted, MayDispatch
  <1>7. CASE AwaitsAnswer("deliver", w)
    <2>1. /\ runtime' = IF MayDispatch THEN [runtime EXCEPT !.busy = TRUE] ELSE Running(runtime)
          /\ thread' \in {thread, EndWait({w})} /\ UNCHANGED <<custody, settlements>>
      BY <1>7 DEF Accepted, AwaitsAnswer
    <2>2. CASE MayDispatch
      BY <1>2, <1>3, <1>5, <2>1, <2>2 DEF Answers
    <2>3. CASE ~MayDispatch
      BY <1>2, <1>3, <1>4, <1>6, <2>1, <2>3 DEF Answers
    <2> QED
      BY <2>2, <2>3
  <1>8. CASE AwaitsAnswer("redeliver", w)
    <2>1. /\ runtime' = [runtime EXCEPT !.busy = TRUE]
          /\ thread' \in {thread, EndWait({w})} /\ UNCHANGED <<custody, settlements>>
      BY <1>8 DEF Accepted, AwaitsAnswer
    <2> QED
      BY <1>2, <1>3, <1>5, <2>1 DEF Answers
  <1>9. CASE ~AwaitsAnswer("deliver", w) /\ ~AwaitsAnswer("redeliver", w)
    <2>1. LateAnswer(w, TRUE)
      BY <1>9 DEF Accepted
    <2>2. /\ runtime' = Running(runtime) /\ thread' \in {thread, EndWait({w})}
          /\ UNCHANGED <<custody, settlements, job>>
      BY <2>1 DEF LateAnswer
    <2> QED
      BY <1>2, <1>3, <1>4, <2>2 DEF Answers
  <1> QED
    BY <1>7, <1>8, <1>9

LEMMA UnacknowledgedAnswers ==
  ASSUME ThreadInv, Halted, Meant, Unacknowledged, job.at \in Answering, job.runtime = "live"
  PROVE  Answers /\ job' = Idle
  <1> USE DEF ThreadInv
  <1>1. runtime \in Attachments /\ thread \in Threads /\ job.work \in Works
    BY DEF Typed, Concerns, Answering
  <1>2. work' = work => Keeps
    BY DEF Keeps
  <1>3. CASE thread.execution # job.execution \/ thread.held # "no"
    <2>1. job' = Idle /\ UNCHANGED <<work, thread, custody, runtime, settlements>>
      BY <1>3 DEF Unacknowledged, durable
    <2>2. thread.held # "no"
      <3>1. CASE job.at = "redeliver"
        BY <1>3, <3>1 DEF Linked, Recovering, Reopening
      <3>2. CASE job.at = "deliver"
        BY <1>3, <3>2 DEF Meant, ForOpen, Halted
      <3> QED
        BY <3>1, <3>2 DEF Answering
    <2> QED
      BY <1>2, <2>1, <2>2 DEF Answers
  <1>4. CASE ~(thread.execution # job.execution \/ thread.held # "no")
    <2>1. CASE work[job.work].inserted \/ work[job.work].landed
      <3>1. Accepted(job.work)
        BY <1>4, <2>1 DEF Unacknowledged
      <3>2. job' = Idle
        BY <3>1 DEF Accepted, AwaitsAnswer, Answering
      <3> QED
        BY <1>1, <3>1, <3>2, AcceptedAnswers
    <2>2. CASE ~(work[job.work].inserted \/ work[job.work].landed)
      <3>1. /\ job' = Idle /\ thread' = [thread EXCEPT !.wait = job.work]
            /\ runtime' = [runtime EXCEPT !.busy = TRUE]
            /\ UNCHANGED <<work, custody, settlements>>
        BY <1>4, <2>2 DEF Unacknowledged
      <3>2. thread'.execution = thread.execution /\ runtime'.up = runtime.up /\ runtime'.busy
        BY <1>1, <3>1 DEF Threads, Attachments
      <3> QED
        BY <1>2, <3>1, <3>2 DEF Answers
    <2> QED
      BY <2>1, <2>2
  <1> QED
    BY <1>3, <1>4

LEMMA UnconfirmedAnswers ==
  ASSUME ThreadInv, Halted, Meant, NEW w \in Works, Unconfirmed(w)
  PROVE  Answers
  <1>1. CASE AwaitsAnswer("deliver", w) \/ AwaitsAnswer("redeliver", w)
    BY <1>1, UnacknowledgedAnswers DEF Unconfirmed, AwaitsAnswer, Answering
  <1>2. CASE ~(AwaitsAnswer("deliver", w) \/ AwaitsAnswer("redeliver", w))
    BY <1>2 DEF Unconfirmed, durable, Answers, Keeps
  <1> QED
    BY <1>1, <1>2

\* A refusal that meets a halt moves nothing.
LEMMA RefusedAnswers ==
  ASSUME ThreadInv, Halted, NEW w \in Works, Refused(w), halt.at # "idle"
  PROVE  Answers
  <1> USE DEF ThreadInv
  <1>1. thread.held # "no"
    BY DEF Halted
  <1>2. work' = work => Keeps
    BY DEF Keeps
  <1>3. CASE AwaitsAnswer("deliver", w)
    <2>1. job' = Idle /\ UNCHANGED <<work, thread, custody, runtime, settlements>>
      BY <1>3 DEF Refused, AwaitsAnswer, durable
    <2> QED
      BY <1>1, <1>2, <2>1 DEF Answers
  <1>4. CASE AwaitsAnswer("redeliver", w)
    <2>1. /\ job' = [Idle EXCEPT !.at = "discard", !.opening = TRUE]
          /\ runtime' = NoRuntime /\ settlements' = <<>>
          /\ UNCHANGED <<work, thread, custody>>
      BY <1>4 DEF Refused, AwaitsAnswer, durable
    <2>2. job'.at = "discard" /\ ~runtime'.up
      BY <2>1 DEF Idle, NoRuntime
    <2> QED
      BY <1>2, <2>1, <2>2 DEF Answers
  <1>5. CASE ~AwaitsAnswer("deliver", w) /\ ~AwaitsAnswer("redeliver", w)
    <2>1. LateAnswer(w, FALSE)
      BY <1>5 DEF Refused
    <2>2. ~Correlated(w)
      BY DEF Correlated, MayDispatch
    <2>3. /\ runtime' = Running(runtime) /\ UNCHANGED <<work, thread, custody, settlements, job>>
      BY <2>1, <2>2 DEF LateAnswer
    <2>4. Running(runtime).up = runtime.up /\ (runtime.busy => Running(runtime).busy)
      BY DEF Running, Attachments, Typed
    <2> QED
      BY <1>2, <2>3, <2>4 DEF Answers
  <1> QED
    BY <1>3, <1>4, <1>5

\* Only a session that is being aborted refuses anything.
LEMMA NativeAnswers ==
  ASSUME ThreadInv, Regular,
         NativeTakes \/ TimeOut \/ \E v \in Works : NativeAcknowledges(v) \/ (~NativeRejects /\ NativeRefuses(v))
  PROVE  Answers
  <1> USE DEF ThreadInv, Regular
  <1>1. CASE TimeOut
    BY <1>1, UnacknowledgedAnswers DEF TimeOut, Answering
  <1>2. ASSUME NEW v \in Works, NativeAcknowledges(v)
        PROVE  Answers
    BY <1>2, AcceptedAnswers DEF NativeAcknowledges
  <1>3. ASSUME NEW v \in Works, ~NativeRejects, NativeRefuses(v)
        PROVE  Answers
    BY <1>3, RefusedAnswers DEF NativeRefuses, Halted
  <1>4. CASE NativeTakes
    <2> DEFINE w == pipe.work
    <2>1. /\ w \in Works /\ pipe.execution \in Works /\ pipe.resume \in BOOLEAN /\ Status!TypeOK
          /\ pipe # NoInput
      BY <1>4 DEF NativeTakes, Typed, Commands
    <2>2. \/ Accepted(w) \/ Unconfirmed(w)
          \/ UNCHANGED <<durable, runtime, job, settlements>>
          \/ /\ Refused(w)
             /\ \/ Status!Recorded(pipe.execution, w) = "rejected" /\ ~pipe.resume
                \/ Native!Reply(w, pipe.kind, pipe.resume) = "refused"
      <3>1. Status!Recorded(pipe.execution, w) \in {"never_accepted", "in_flight", "accepted", "rejected"}
        BY <2>1, RecordedStates
      <3>2. Native!Reply(w, pipe.kind, pipe.resume) \in {"pending", "accepted", "refused"}
        BY DEF Native!Reply
      <3> QED
        BY <1>4, <3>1, <3>2 DEF NativeTakes
    <2>3. CASE UNCHANGED <<durable, runtime, job, settlements>>
      BY <2>3 DEF durable, Answers, Keeps
    <2>4. ASSUME Status!Recorded(pipe.execution, w) = "rejected", ~pipe.resume
          PROVE  halt.at # "idle"
      <3>1. status[w].state = "rejected" /\ status[w].execution = thread.execution
        BY <2>1, <2>4 DEF Status!Recorded, Sent
      <3>2. pipe.execution # None
        BY <2>1, WorksAreNat
      <3>3. thread.held # "no"
        BY <2>1, <3>1, <3>2 DEF Told, Sent
      <3> QED
        BY <2>1, <3>3 DEF Halted
    <2>5. ASSUME Native!Reply(w, pipe.kind, pipe.resume) = "refused"
          PROVE  halt.at # "idle"
      <3>1. blocked
        BY <2>1, <2>5 DEF Native!Reply, Native!Continues, Native!Busy, Sent
      <3> QED
        BY <3>1 DEF Halted
    <2>6. Refused(w) /\ halt.at # "idle" => Answers
      BY <2>1, RefusedAnswers
    <2> QED
      BY <2>1, <2>2, <2>3, <2>4, <2>5, <2>6, AcceptedAnswers, UnconfirmedAnswers
  <1> QED
    BY <1>1, <1>2, <1>3, <1>4

\* What a step may do to the rows: nothing that the session runs, or is about
\* to take, leaves the open execution.
Moves ==
  /\ \A w \in Works :
       \/ work'[w].status = work[w].status /\ work'[w].execution = work[w].execution
       \/ /\ work[w].status = "absent" /\ work'[w].status = "queued" /\ work'[w].execution = None
          /\ \A v \in 1..(w - 1) : work[v].status # "absent"
       \/ /\ work[w].status = "queued" /\ work'[w].status = "done"
          /\ work'[w].execution = work[w].execution
       \/ /\ work[w].status = "queued" /\ work'[w].status = "dispatched"
          /\ thread'.execution # None /\ work'[w].execution = thread'.execution
       \/ /\ work[w].status = "dispatched" /\ w \notin active /\ pipe.work # w
          /\ \/ work'[w].status = "done" /\ work'[w].execution = work[w].execution
             \/ /\ work'[w].status = "queued" /\ work'[w].execution = None
                /\ w # work[w].execution /\ w \notin receipts.landed
  /\ \/ thread'.execution = thread.execution
     \/ /\ job.at = "open" /\ job'.at = "deliver" /\ thread.held = "no" /\ thread.execution = None
        /\ job.work \in Works /\ thread'.execution = job.work
        /\ work[job.work].status = "queued" /\ work'[job.work].status = "dispatched"
     \/ /\ thread'.execution = None /\ active = {} /\ pipe = NoInput
        /\ \A w \in Works : work'[w].status # "dispatched"

LEMMA RestMoves ==
  ASSUME thread'.execution = thread.execution,
         \/ work' = work \/ Keeps \/ Alike(work', work)
  PROVE  Moves
  BY DEF Moves, Keeps, Alike

\* An execution ends while the session does nothing; the receipts were read.
LEMMA EndMoves ==
  ASSUME ThreadInv, Accounted, active = {}, pipe = NoInput,
         NEW table \in [Works -> Rows], Alike(table, work),
         NEW o, thread.execution # None,
         o = "cancelled" => \A w \in Works :
           work[w].status = "dispatched" /\ w \in receipts.landed => table[w].landed,
         work' = Finished(table, thread.execution, o), thread'.execution = None
  PROVE  Moves
  <1> USE DEF ThreadInv
  <1>1. work \in [Works -> Rows] /\ pipe.work = None /\ None \notin Works
    BY WorksAreNat DEF Typed, NoInput
  <1>2. ASSUME NEW w \in Works
        PROVE  /\ work'[w].status # "dispatched"
               /\ \/ work'[w].status = work[w].status /\ work'[w].execution = work[w].execution
                  \/ /\ work[w].status = "dispatched"
                     /\ \/ work'[w].status = "done" /\ work'[w].execution = work[w].execution
                        \/ /\ work'[w].status = "queued" /\ work'[w].execution = None
                           /\ w # work[w].execution /\ w \notin receipts.landed
    <2>1. table[w].status = work[w].status /\ table[w].execution = work[w].execution
          /\ table[w] \in Rows
      BY DEF Alike
    <2>2. CASE work[w].execution # thread.execution \/ work[w].status = "done"
      <3>1. work'[w] = table[w]
        BY <2>1, <2>2 DEF Finished
      <3> QED
        BY <2>1, <2>2, <3>1 DEF Accounted, DispatchedIsOpen
    <2>3. CASE work[w].execution = thread.execution /\ work[w].status # "done"
      <3>1. work[w].status = "dispatched"
        BY <1>1, <2>3 DEF Accounted, Rows
      <3>2. \/ work'[w] = [table[w] EXCEPT !.status = "done", !.outcome = o]
            \/ /\ w # thread.execution /\ ~table[w].landed /\ o = "cancelled"
               /\ work'[w] = [table[w] EXCEPT !.status = "queued", !.execution = None,
                                              !.inserted = FALSE]
        BY <2>1, <2>3 DEF Finished
      <3> QED
        BY <2>1, <2>3, <3>1, <3>2 DEF Rows
    <2> QED
      BY <2>2, <2>3
  <1> QED
    BY <1>1, <1>2 DEF Moves

LEMMA CancelledMoves ==
  ASSUME ThreadInv, Sent, Accounted, thread.execution = None, thread'.execution = None,
         work' \in {work, Cancelled(work)}
  PROVE  Moves
  <1>1. \A w \in Works : work[w].status # "dispatched"
    BY NothingOpen
  <1>2. CASE work' = Cancelled(work)
    BY <1>1, <1>2, CancelledRows DEF ThreadInv, Typed, Moves
  <1> QED
    BY <1>2, RestMoves

\* finish ends the open execution, or asks the session once more.
LEMMA FinishByMoves ==
  ASSUME ThreadInv, Accounted, active = {}, pipe = NoInput,
         NEW table \in [Works -> Rows], Alike(table, work),
         \A w \in Works :
           work[w].status = "dispatched" /\ w \in receipts.landed => table[w].landed,
         NEW outcome, NEW attached, NEW row, row.execution = thread.execution, NEW opening,
         FinishBy(outcome, attached, table, row, opening)
  PROVE  Moves
  <1>1. CASE work' = table /\ thread' = row
    BY <1>1, RestMoves
  <1>2. ASSUME NEW o, work' = Finished(table, thread.execution, o), thread' = Ended,
               thread.execution # None
        PROVE  Moves
    BY <1>2, EndMoves, EndedThread DEF ThreadInv, Typed
  <1> QED
    BY <1>1, <1>2 DEF FinishBy

LEMMA HaltDecidesMoves ==
  ASSUME ThreadInv, Accounted, active = {}, pipe = NoInput,
         NEW attachment, HaltDecides(attachment, Adopted)
  PROVE  Moves
  <1> USE DEF ThreadInv
  <1>1. Adopted \in [Works -> Rows] /\ Alike(Adopted, work)
    BY AdoptedRows DEF Typed
  <1>2. \A w \in Works : work[w].status = "dispatched" /\ w \in receipts.landed => Adopted[w].landed
    BY AdoptedLanded
  <1>3. CASE work' = Adopted /\ thread' = thread
    BY <1>1, <1>3, RestMoves
  <1>4. ASSUME NEW o, work' = Finished(Adopted, thread.execution, o), thread' = Ended,
               thread.execution # None
        PROVE  Moves
    BY <1>1, <1>2, <1>4, EndMoves, EndedThread DEF Typed
  <1> QED
    BY <1>3, <1>4 DEF HaltDecides

\* A probe gives up an input of which the session has neither a record nor a
\* receipt.
LEMMA ProbedMoves ==
  ASSUME ThreadInv, Regular, Probed
  PROVE  Moves
  <1> USE DEF ThreadInv, Regular
  <1> DEFINE w == job.work
             state == Status!Query(job.execution, w, w \in receipts.accepted \cup receipts.deferred)
  <1>1. work \in [Works -> Rows] /\ w \in Works /\ pipe = NoInput /\ pipe.work = None
        /\ None \notin Works
    BY WorksAreNat DEF Probed, Typed, Concerns, NoInput
  <1>2. thread'.execution = thread.execution
    BY EndWaitThread DEF Probed, Typed
  <1>3. ASSUME work' = Inserted(w, FALSE)
        PROVE  Moves
    BY <1>1, <1>2, <1>3, InsertedRows, RestMoves
  <1>4. ASSUME MayDispatch, thread.execution = job.execution, IsRetired(state), work' = Retired(w)
        PROVE  Moves
    <2>1. CASE work' = work
      BY <1>2, <2>1, RestMoves
    <2>2. CASE work' # work
      <3>1. Correlated(w)
        BY <1>4, <2>2 DEF Retired
      <3>2. thread.held = "no" /\ thread.execution # None
        BY <3>1 DEF Correlated, MayDispatch
      <3>3. Status!Recorded(job.execution, w) # "rejected"
        BY <1>1, <1>4, <3>2 DEF Status!Recorded, Told
      <3>4. w \notin receipts.accepted
        BY <1>4, <3>3 DEF IsRetired, Status!Query
      <3>5. w \notin active
        BY <3>4 DEF SessionInv
      <3>6. \A v \in Works \ {w} : work'[v] = work[v]
        BY <1>1, <1>4 DEF Retired
      <3> QED
        BY <1>1, <1>2, <1>4, <3>5, <3>6, RetiredRows DEF Moves
    <2> QED
      BY <2>1, <2>2
  <1>5. \/ work' = work \/ work' = Inserted(w, FALSE)
        \/ MayDispatch /\ thread.execution = job.execution /\ IsRetired(state) /\ work' = Retired(w)
    BY DEF Probed
  <1> QED
    BY <1>2, <1>3, <1>4, <1>5, RestMoves

LEMMA MovesStep ==
  ASSUME Undisturbed, ThreadInv, Regular, Next
  PROVE  Moves
  <1> USE DEF ThreadInv, Regular
  <1>1. work \in [Works -> Rows] /\ thread \in Threads /\ job \in Operations
        /\ None \notin Works
    BY WorksAreNat DEF Typed
  <1>2. \A ws : EndWait(ws).execution = thread.execution
    BY <1>1, EndWaitThread
  <1>3. /\ Adopted \in [Works -> Rows] /\ Alike(Adopted, work)
        /\ AdoptedReference \in [Works -> Rows] /\ Alike(AdoptedReference, work)
    BY <1>1, AdoptedRows, AdoptedReferenceRows
  <1>4. ASSUME UNCHANGED <<work, thread>>
        PROVE  Moves
    BY <1>4, RestMoves
  <1>5. CASE Requested
    <2>1. ASSUME NEW w \in Works, NEW d \in Deliveries, Send(w, d)
          PROVE  Moves
      <3>1. thread'.execution = thread.execution
        BY <1>1, <2>1 DEF Send, Threads
      <3>2. /\ work[w].status = "absent" /\ work'[w].status = "queued" /\ work'[w].execution = None
            /\ \A v \in 1..(w - 1) : work[v].status # "absent"
            /\ \A v \in Works \ {w} : work'[v] = work[v]
        BY <1>1, <2>1 DEF Send, NoWork
      <3> QED
        BY <3>1, <3>2 DEF Moves
    <2>2. ASSUME NEW w \in Works, NEW d \in Deliveries, PromoteMessage(w, d)
          PROVE  Moves
      <3>1. thread'.execution = thread.execution
        BY <1>1, <2>2 DEF PromoteMessage, Threads
      <3>2. \A v \in Works : work'[v].status = work[v].status /\ work'[v].execution = work[v].execution
        BY <1>1, <2>2 DEF PromoteMessage, Rows
      <3> QED
        BY <3>1, <3>2 DEF Moves
    <2>3. ASSUME NEW w \in Works, CancelMessage(w)
          PROVE  Moves
      BY <1>1, <2>3 DEF CancelMessage, IsQueued, Rows, Moves
    <2>4. ASSUME NEW action \in Controls, Control(action)
          PROVE  Moves
      BY <1>1, <2>4, RestMoves DEF Control, Threads
    <2>5. CASE Reopen
      <3>1. thread.execution = None
        BY <2>5 DEF Reopen, Linked, Archive, ArchivedIsQuiet
      <3>2. thread'.execution = thread.execution /\ work' = Cancelled(work)
        BY <1>1, <2>5 DEF Reopen, Threads
      <3> QED
        BY <3>1, <3>2, CancelledMoves
    <2> QED
      BY <1>5, <2>1, <2>2, <2>3, <2>4, <2>5 DEF Requested
  <1>6. CASE Drain \/ HaltAgain \/ Replaced \/ NativeExit
    BY <1>4, <1>6 DEF Drain, DrainUnassigned, DrainHardSteer, DrainRecover, DrainSelect, DrainProbe,
       HaltAgain, Replaced, NativeExit, durable
  <1>7. CASE ServeSettlement
    <2>1. Head(settlements).kind = "settled"
      BY <1>7 DEF ServeSettlement, Typed, Told
    <2> QED
      BY <1>4, <1>7, <2>1 DEF ServeSettlement, durable
  <1>8. CASE JobStep
    <2>1. CASE RecoverUnassigned \/ Reopened
      BY <1>2, <1>3, <2>1, RestMoves DEF RecoverUnassigned, Reopened
    <2>2. CASE Renamed
      <3>1. CASE UNCHANGED durable
        BY <1>4, <3>1 DEF durable
      <3>2. CASE /\ RecoveredDone(thread.execution)
                 /\ \E o \in {"complete", "failed"} :
                      FinishBy(o, [runtime EXCEPT !.execution = thread.execution], work, thread, TRUE)
        <4>1. active = {} /\ pipe = NoInput /\ Alike(work, work)
              /\ \A w \in Works : work[w].status = "dispatched" /\ w \in receipts.landed => work[w].landed
          BY <2>2, <3>2 DEF Renamed, RecoveredDone, Sent, Accounted, Tracked, Alike
        <4> QED
          BY <1>1, <3>2, <4>1, FinishByMoves
      <3> QED
        BY <2>2, <3>1, <3>2 DEF Renamed
    <2>3. CASE Prepared
      <3>1. CASE work' = work
        BY <2>3, <3>1, RestMoves DEF Prepared
      <3>2. CASE /\ StillWanted /\ job.execution # None /\ thread' = thread
                 /\ work' = [work EXCEPT ![job.work].status = "dispatched",
                                         ![job.work].execution = job.execution]
        <4>1. thread.execution = job.execution /\ job.work \in Works /\ work[job.work].status = "queued"
          BY <2>3, <3>2 DEF Prepared, StillWanted, MayDispatch, IsQueued, Meant, Typed, Concerns
        <4>2. /\ work'[job.work].status = "dispatched" /\ work'[job.work].execution = job.execution
              /\ \A v \in Works \ {job.work} : work'[v] = work[v]
          BY <1>1, <3>2, <4>1, DispatchedRows DEF Operations
        <4> QED
          BY <3>2, <4>1, <4>2 DEF Moves
      <3> QED
        BY <2>3, <3>1, <3>2 DEF Prepared, Dispatched
    <2>4. CASE Opened
      <3>1. CASE work' = work /\ thread' = thread
        BY <3>1, RestMoves
      <3>2. CASE /\ StillWanted /\ thread' = [thread EXCEPT !.execution = job.work]
                 /\ work' = [work EXCEPT ![job.work].status = "dispatched",
                                         ![job.work].execution = job.work]
                 /\ \E p \in BOOLEAN : job' = [job EXCEPT !.at = "deliver", !.runtime = "live",
                                                  !.execution = job.work, !.prompt = p]
        <4>1. job.work \in Works /\ work[job.work].status = "queued" /\ job.at = "open"
              /\ thread.held = "no" /\ thread.execution = None
          BY <2>4, <3>2 DEF Opened, StillWanted, MayDispatch, IsQueued, Typed, Concerns, Linked,
             Recovering, Unopened
        <4>2. /\ work'[job.work].status = "dispatched" /\ work'[job.work].execution = job.work
              /\ \A v \in Works \ {job.work} : work'[v] = work[v]
          BY <1>1, <3>2, <4>1, DispatchedRows
        <4>3. thread'.execution = job.work
          BY <1>1, <3>2 DEF Threads
        <4>4. job'.at = "deliver"
          BY <1>1, <3>2 DEF Operations
        <4> QED
          BY <1>1, <4>1, <4>2, <4>3, <4>4 DEF Moves
      <3>3. runtime \in Attachments /\ Native!Busy \in BOOLEAN
        BY DEF Typed, Native!Busy
      <3> QED
        BY <2>4, <3>1, <3>2, <3>3 DEF Opened, Attachments, NoRuntime
    <2>5. CASE Probed
      BY <2>5, ProbedMoves
    <2>6. CASE Settling
      <3>1. CASE work' = AdoptedReference /\ thread' = EndWait(Confirmed)
        BY <1>2, <1>3, <3>1, RestMoves
      <3>2. CASE /\ ~Unsettled(job.execution)
                 /\ \E o : FinishBy(o, runtime, AdoptedReference, EndWait(Confirmed), FALSE)
        <4>1. active = {} /\ pipe = NoInput
          BY <2>6, <3>2 DEF Settling, Unsettled, Native!Busy
        <4>2. \A w \in Works :
                work[w].status = "dispatched" /\ w \in receipts.landed => AdoptedReference[w].landed
          BY AdoptedLanded
        <4> QED
          BY <1>2, <1>3, <3>2, <4>1, <4>2, FinishByMoves
      <3> QED
        BY <2>6, <3>1, <3>2 DEF Settling
    <2>7. CASE Finishing
      <3>1. CASE UNCHANGED durable
        BY <1>4, <3>1 DEF durable
      <3>2. CASE /\ ~Native!Busy /\ thread.execution = job.execution /\ thread' = Ended
                 /\ work' = Finished(work, job.execution, job.outcome)
        <4>1. active = {} /\ pipe = NoInput /\ job.outcome # "cancelled" /\ job.execution # None
              /\ Alike(work, work) /\ thread'.execution = None
          BY <1>1, <2>7, <3>2, EndedThread DEF Finishing, Native!Busy, Linked, Ran, Alike,
             SessionInv, Native!TypeOK, Native!Receipts
        <4> QED
          BY <1>1, <3>2, <4>1, EndMoves
      <3> QED
        BY <2>7, <3>1, <3>2 DEF Finishing
    <2>8. CASE DrainAfterHalt \/ Reacquired \/ Acquired \/ Admitted \/ Abandoned \/ Discard \/ Park
      BY <1>4, <2>8 DEF DrainAfterHalt, Reacquired, Acquired, Admitted, Abandoned, Discard, Park,
         durable
    <2> QED
      BY <1>8, <2>1, <2>2, <2>3, <2>4, <2>5, <2>6, <2>7, <2>8 DEF JobStep
  <1>9. CASE HaltStep
    <2>1. CASE HaltBegin
      <3>1. CASE alive
        BY <1>3, <2>1, <3>1, RestMoves DEF HaltBegin
      <3>2. CASE ~alive
        BY <2>1, <3>2, HaltDecidesMoves DEF HaltBegin, SessionInv, Linked, Attached
      <3> QED
        BY <3>1, <3>2
    <2>2. CASE HaltState
      <3>1. CASE HaltFails /\ work' = work
        BY <1>1, <3>1, RestMoves DEF HaltFails, Threads
      <3>2. CASE ~Native!Busy /\ HaltDecides("live", Adopted)
        BY <2>2, <3>2, HaltDecidesMoves DEF HaltState, Native!Busy
      <3> QED
        BY <2>2, <3>1, <3>2 DEF HaltState
    <2>3. CASE HaltFinish
      <3>1. CASE UNCHANGED <<work, thread>>
        BY <1>4, <3>1
      <3>2. CASE /\ thread.execution # None /\ thread' = Ended
                 /\ work' = Finished(work, thread.execution, "complete")
        <4>1. active = {} /\ pipe = NoInput /\ Alike(work, work) /\ thread'.execution = None
          BY <1>1, <2>3, <3>2, EndedThread DEF HaltFinish, Linked, Stopping, Alike
        <4> QED
          BY <1>1, <3>2, <4>1, EndMoves
      <3> QED
        BY <2>3, <3>1, <3>2 DEF HaltFinish
    <2>4. CASE HaltEnd
      <3>1. thread.execution = None
        BY <2>4 DEF HaltEnd, Linked, Stopping
      <3>2. thread'.execution = thread.execution /\ work' \in {work, Cancelled(work)}
        BY <1>1, <2>4 DEF HaltEnd, Threads
      <3> QED
        BY <3>1, <3>2, CancelledMoves
    <2>5. CASE HaltAbort \/ HaltLost
      BY <1>1, <2>5, RestMoves DEF HaltAbort, HaltLost, HaltFails, Threads, durable
    <2> QED
      BY <1>9, <2>1, <2>2, <2>3, <2>4, <2>5 DEF HaltStep
  <1>10. CASE Answers
    BY <1>10, RestMoves DEF Answers
  <1>11. CASE NativeStep
    <2>1. CASE NativeTakes \/ \E v \in Works : NativeAcknowledges(v)
      BY <1>10, <2>1, NativeAnswers
    <2>2. ASSUME NEW v \in Works, NativeLands(v)
          PROVE  Moves
      <3>1. work' \in {work, [work EXCEPT ![v].landed = TRUE]} /\ thread' = thread
        BY <2>2 DEF NativeLands
      <3> QED
        BY <1>1, <2>2, <3>1, LandedRows, RestMoves
    <2>3. CASE NativeHalts \/ \E o \in {"complete", "failed"} : NativeSettles(o)
      BY <1>4, <2>3 DEF NativeHalts, NativeSettles, durable
    <2> QED
      BY <1>11, <2>1, <2>2, <2>3 DEF NativeStep
  <1>12. CASE TimeOut \/ \E v \in Works : NativeRefuses(v)
    BY <1>10, <1>12, NativeAnswers DEF Undisturbed
  <1>13. ~ControllerStop
    BY DEF Undisturbed, ControllerStop
  <1> QED
    BY <1>5, <1>6, <1>7, <1>8, <1>9, <1>11, <1>12, <1>13 DEF Next

\* What a step may do in the session: it takes up no input but the one that
\* was on its way, and refuses one only while a halt aborts it.
Acts ==
  /\ \/ active' \subseteq active
     \/ pipe # NoInput /\ pipe' = NoInput /\ active' \subseteq active \cup {pipe.work}
  /\ receipts'.landed \subseteq receipts.landed \cup active
  /\ \A w \in Works :
       /\ \/ status'[w].execution = status[w].execution
          \/ pipe # NoInput /\ status'[w].execution = pipe.execution
       /\ status'[w].state = "rejected" => status'[w] = status[w] \/ thread.held # "no"

LEMMA RecordsBegun ==
  ASSUME Status!TypeOK, NEW e \in Works, NEW v \in Works, NEW w \in Works
  PROVE  /\ Status!Begun(e, v)[w].execution \in {status[w].execution, e}
         /\ Status!Begun(e, v)[w].state = "rejected" => Status!Begun(e, v)[w] = status[w]
  BY DEF Status!Begun, Status!TypeOK

LEMMA RecordsAnswered ==
  ASSUME NEW table \in [Works -> [execution : Works \cup {None}, state : Status!States]],
         NEW v \in Works, NEW w \in Works, NEW ok \in BOOLEAN
  PROVE  /\ Status!Answered(table, v, ok)[w].execution = table[w].execution
         /\ ok /\ Status!Answered(table, v, ok)[w].state = "rejected"
              => Status!Answered(table, v, ok)[w] = table[w]
  BY DEF Status!Answered, Status!States

LEMMA TakesActs ==
  ASSUME ThreadInv, Regular, NativeTakes
  PROVE  Acts
  <1> USE DEF ThreadInv, Regular
  <1> DEFINE w == pipe.work
             begun == IF pipe.resume THEN status ELSE Status!Begun(pipe.execution, w)
             table == [Works -> [execution : Works \cup {None}, state : Status!States]]
  <1>1. /\ pipe # NoInput /\ pipe' = NoInput
        /\ w \in Works /\ pipe.execution \in Works /\ pipe.resume \in BOOLEAN
        /\ Status!TypeOK
    BY DEF NativeTakes, Typed, Commands
  <1>2. CASE UNCHANGED nativeVars
    BY <1>2 DEF Acts, nativeVars
  <1>3. CASE /\ Native!Input(w, pipe.kind, pipe.resume)
             /\ \/ status' = begun
                \/ status' = Status!Answered(begun, w, TRUE)
                \/ /\ status' = Status!Answered(begun, w, FALSE)
                   /\ Native!Reply(w, pipe.kind, pipe.resume) = "refused"
    <2>1. active' \subseteq active \cup {w} /\ receipts'.landed = receipts.landed
      BY <1>1, <1>3, InputCases, InputEffect DEF Native!Taken, Native!Resumed, Native!nativeVars
    <2>2. begun \in table
      BY <1>1, BegunStatus DEF Status!TypeOK
    <2>3. \A v \in Works : /\ begun[v].execution \in {status[v].execution, pipe.execution}
                           /\ begun[v].state = "rejected" => begun[v] = status[v]
      BY <1>1, RecordsBegun
    <2>4. CASE status' = begun
      BY <1>1, <2>1, <2>3, <2>4 DEF Acts
    <2> HIDE DEF begun
    <2>5. CASE status' = Status!Answered(begun, w, TRUE)
      <3>1. \A v \in Works : /\ status'[v].execution = begun[v].execution
                             /\ status'[v].state = "rejected" => status'[v] = begun[v]
        BY <1>1, <2>2, <2>5, RecordsAnswered
      <3> QED
        BY <1>1, <2>1, <2>3, <3>1 DEF Acts
    <2>6. CASE /\ status' = Status!Answered(begun, w, FALSE)
               /\ Native!Reply(w, pipe.kind, pipe.resume) = "refused"
      <3>1. \A v \in Works : status'[v].execution = begun[v].execution
        BY <1>1, <2>2, <2>6, RecordsAnswered
      <3>2. blocked
        BY <1>1, <2>6 DEF Native!Reply, Native!Continues, Native!Busy, Sent
      <3>3. thread.held # "no"
        BY <3>2 DEF Halted
      <3> QED
        BY <1>1, <2>1, <2>3, <3>1, <3>3 DEF Acts
    <2> QED
      BY <1>3, <2>4, <2>5, <2>6
  <1>4. Native!Reply(w, pipe.kind, pipe.resume) \in {"pending", "accepted", "refused"}
    BY DEF Native!Reply
  <1> QED
    BY <1>2, <1>3, <1>4 DEF NativeTakes

LEMMA ActsStep ==
  ASSUME Undisturbed, ThreadInv, Regular, Next
  PROVE  Acts
  <1> USE DEF ThreadInv, Regular
  <1>1. ASSUME active' \subseteq active, receipts'.landed = receipts.landed, status' = status
        PROVE  Acts
    BY <1>1 DEF Acts
  <1>2. ASSUME UNCHANGED nativeVars
        PROVE  Acts
    BY <1>1, <1>2 DEF nativeVars
  <1>3. ASSUME Native!Exit, status' = status
        PROVE  Acts
    BY <1>1, <1>3 DEF Native!Exit
  <1>4. ASSUME Native!Open, status' = status
        PROVE  Acts
    BY <1>1, <1>4 DEF Native!Open
  <1>5. CASE Requested \/ Drain \/ ServeSettlement \/ HaltAgain \/ TimeOut
    BY <1>2, <1>5 DEF Requested, Send, PromoteMessage, CancelMessage, Control, Reopen,
       Drain, DrainUnassigned, DrainHardSteer, DrainRecover, DrainSelect, DrainProbe,
       ServeSettlement, HaltAgain, TimeOut
  <1>6. CASE JobStep
    <2>1. CASE Park
      BY <1>2, <1>3, <2>1 DEF Park, Keep, Retire
    <2>2. CASE Discard
      BY <1>2, <1>3, <2>2 DEF Discard
    <2>3. CASE Reopened \/ Opened
      BY <1>2, <1>4, <2>3 DEF Reopened, Opened
    <2>4. CASE \/ RecoverUnassigned \/ DrainAfterHalt \/ Reacquired \/ Renamed \/ Probed \/ Prepared
               \/ Acquired \/ Admitted \/ Abandoned \/ Settling \/ Finishing
      BY <1>2, <2>4 DEF RecoverUnassigned, DrainAfterHalt, Reacquired, Renamed, Probed, Prepared,
         Acquired, Admitted, Abandoned, Settling, Finishing
    <2> QED
      BY <1>6, <2>1, <2>2, <2>3, <2>4 DEF JobStep
  <1>7. CASE HaltStep
    <2>1. CASE HaltEnd
      BY <1>2, <1>3, <2>1 DEF HaltEnd, Keep, Retire
    <2>2. CASE HaltAbort
      BY <1>1, <2>2 DEF HaltAbort, Native!BeginAbort
    <2>3. CASE HaltBegin \/ HaltState \/ HaltFinish \/ HaltLost
      BY <1>2, <2>3 DEF HaltBegin, HaltState, HaltFinish, HaltLost
    <2> QED
      BY <1>7, <2>1, <2>2, <2>3 DEF HaltStep
  <1>8. receipts \in Native!Receipts /\ Status!TypeOK /\ inbox \subseteq active
    BY DEF SessionInv, Native!TypeOK, Typed
  <1>9. CASE NativeStep
    <2>1. ASSUME NEW v \in Works, NativeAcknowledges(v)
          PROVE  Acts
      <3>1. active' = active /\ receipts' = receipts /\ status' = Status!Answered(status, v, TRUE)
        BY <2>1 DEF NativeAcknowledges, Native!Acknowledge
      <3> QED
        BY <1>8, <3>1, RecordsAnswered DEF Acts, Status!TypeOK
    <2>2. ASSUME NEW v \in Works, NativeLands(v)
          PROVE  Acts
      BY <1>8, <2>2 DEF NativeLands, Native!Land, Native!Receipts, Acts
    <2>3. CASE NativeHalts
      BY <1>1, <1>8, <2>3 DEF NativeHalts, Native!EndAbort, Native!Receipts
    <2>4. ASSUME NEW o \in {"complete", "failed"}, NativeSettles(o)
          PROVE  Acts
      BY <1>1, <1>8, <2>4 DEF NativeSettles, Native!Settle, Native!Receipts
    <2> QED
      BY <1>9, <2>1, <2>2, <2>3, <2>4, TakesActs DEF NativeStep
  <1>10. ASSUME NEW v \in Works, NativeRefuses(v)
         PROVE  Acts
    <2>1. /\ active' \subseteq active /\ receipts'.landed = receipts.landed
          /\ status' = Status!Answered(status, v, FALSE) /\ blocked
      BY <1>8, <1>10 DEF NativeRefuses, Native!Reject, Native!Receipts, Undisturbed
    <2>2. thread.held # "no"
      BY <2>1 DEF Halted
    <2> QED
      BY <1>8, <2>1, <2>2, RecordsAnswered DEF Acts, Status!TypeOK
  <1>11. CASE Replaced
    BY <1>3, <1>11 DEF Replaced, Retire
  <1>12. CASE NativeExit
    <2>1. CASE status' = status
      BY <1>3, <1>12, <2>1 DEF NativeExit
    <2>2. CASE pipe # NoInput /\ status' = Status!Begun(pipe.execution, pipe.work)
      <3>1. pipe.work \in Works /\ pipe.execution \in Works
        BY <2>2 DEF Typed, Commands
      <3>2. active' \subseteq active /\ receipts' = receipts
        BY <1>12 DEF NativeExit, Native!Exit
      <3> QED
        BY <1>8, <2>2, <3>1, <3>2, RecordsBegun DEF Acts
    <2> QED
      BY <1>12, <2>1, <2>2 DEF NativeExit
  <1>13. ~ControllerStop
    BY DEF Undisturbed, ControllerStop
  <1> QED
    BY <1>5, <1>6, <1>7, <1>9, <1>10, <1>11, <1>12, <1>13 DEF Next

\* The operations that promise nothing of the open execution or of an input.
Elsewhere == {"idle", "unassigned", "awaitHalt", "halted", "reacquire", "reopen", "discard",
              "settling", "finishing", "park"}

\* Which steps leave the chain with an operation that does.
LEMMA OperationMoves ==
  ASSUME Undisturbed, ThreadInv, Regular, Next
  PROVE  \/ job' \in {job, Lost(job)} \/ job'.at \in Elsewhere
         \/ Reopened \/ Renamed \/ DrainSelect \/ DrainProbe \/ DrainAfterHalt \/ Probed
         \/ Prepared \/ Acquired \/ Replaced \/ Admitted \/ Opened
  <1> USE DEF ThreadInv, Regular
  <1>1. job \in Operations
    BY DEF Typed
  <1>2. CASE job' = Idle
    BY <1>2, IdleOperation DEF Elsewhere
  <1>3. ASSUME NEW o, NEW attached, NEW table, NEW row, NEW opening \in BOOLEAN,
               FinishBy(o, attached, table, row, opening)
        PROVE  job'.at \in Elsewhere
    BY <1>3, FinishByAt DEF Elsewhere
  <1>4. CASE Requested
    BY <1>4 DEF Requested, Send, PromoteMessage, CancelMessage, Control, Reopen, memory
  <1>5. CASE Drain
    BY <1>5 DEF Drain, DrainUnassigned, DrainHardSteer, DrainRecover, Idle, Elsewhere
  <1>6. CASE ServeSettlement
    <2>1. Head(settlements).kind = "settled"
      BY <1>6 DEF ServeSettlement, Typed, Told
    <2>2. CASE job' = [Idle EXCEPT !.at = "settling", !.execution = thread.execution,
                                   !.runtime = "live", !.outcome = Head(settlements).outcome]
      BY <2>2 DEF Idle, Elsewhere
    <2> QED
      BY <1>6, <2>1, <2>2 DEF ServeSettlement
  <1>7. CASE JobStep
    <2>1. CASE RecoverUnassigned \/ Abandoned \/ Discard \/ Park
      BY <1>2, <2>1 DEF RecoverUnassigned, Abandoned, Discard, Park
    <2>2. CASE Reacquired
      <3>1. job' = Idle \/ job' = [job EXCEPT !.at = "reopen"]
        BY <2>2 DEF Reacquired
      <3> QED
        BY <1>1, <1>2, <3>1 DEF Operations, Elsewhere
    <2>3. CASE Settling
      <3>1. \/ job' = Idle \/ job' = [Idle EXCEPT !.at = "park", !.runtime = "live"]
            \/ \E o : FinishBy(o, runtime, AdoptedReference, EndWait(Confirmed), FALSE)
        BY <2>3 DEF Settling
      <3>2. [Idle EXCEPT !.at = "park", !.runtime = "live"].at \in Elsewhere
        BY DEF Idle, Elsewhere
      <3> QED
        BY <1>2, <1>3, <3>1, <3>2
    <2>4. CASE Finishing
      <3>1. job' = Idle \/ job' = [job EXCEPT !.at = "park"]
        BY <2>4 DEF Finishing
      <3> QED
        BY <1>1, <1>2, <3>1 DEF Operations, Elsewhere
    <2> QED
      BY <1>7, <2>1, <2>2, <2>3, <2>4 DEF JobStep
  <1>8. CASE HaltStep
    <2>1. \/ job' \in {job, Idle, Lost(job)} \/ job' = [Idle EXCEPT !.at = "halted"]
      BY <1>8 DEF HaltStep, HaltBegin, HaltAbort, HaltState, HaltFinish, HaltEnd, HaltLost, HaltFails
    <2>2. [Idle EXCEPT !.at = "halted"].at \in Elsewhere
      BY DEF Idle, Elsewhere
    <2> QED
      BY <1>2, <2>1, <2>2
  <1>9. CASE Answers
    BY <1>2, <1>9 DEF Answers, Elsewhere
  <1>10. CASE NativeStep
    <2>1. CASE NativeTakes \/ \E v \in Works : NativeAcknowledges(v)
      BY <1>9, <2>1, NativeAnswers
    <2>2. CASE \E v \in Works : NativeLands(v)
      BY <2>2 DEF NativeLands, memory
    <2>3. CASE NativeHalts \/ \E o \in {"complete", "failed"} : NativeSettles(o)
      BY <2>3 DEF NativeHalts, NativeSettles
    <2> QED
      BY <1>10, <2>1, <2>2, <2>3 DEF NativeStep
  <1>11. CASE TimeOut \/ \E v \in Works : NativeRefuses(v)
    BY <1>9, <1>11, NativeAnswers DEF Undisturbed
  <1>12. CASE NativeExit \/ HaltAgain
    BY <1>12 DEF NativeExit, HaltAgain
  <1>13. ~ControllerStop
    BY DEF Undisturbed, ControllerStop
  <1> QED
    BY <1>4, <1>5, <1>6, <1>7, <1>8, <1>10, <1>11, <1>12, <1>13 DEF Next

\* A hold is lifted only over an empty queue and a session at rest.
LEMMA HoldLifts ==
  ASSUME Undisturbed, ThreadInv, Regular, Next, thread.held # "no", thread'.held = "no"
  PROVE  /\ HaltEnd \/ Reopen
         /\ thread.execution = None
         /\ \A w \in Works : work'[w].status # "queued"
         /\ active' = {} /\ pipe' = NoInput
  <1> USE DEF ThreadInv, Regular
  <1>1. thread \in Threads /\ work \in [Works -> Rows]
    BY DEF Typed
  <1>2. ~HoldRests
    BY DEF HoldRests
  <1>3. ~(JobStep \/ Drain \/ ServeSettlement \/ TimeOut \/ Replaced)
    BY <1>2, JobHold
  <1>4. CASE HaltEnd
    <2>1. thread.execution = None /\ thread.request # "none"
      BY <1>4 DEF HaltEnd, Linked, Stopping, Halted
    <2>2. work' = Cancelled(work)
      BY <1>4, <2>1 DEF HaltEnd
    <2>3. active = {} /\ pipe = NoInput
      BY <2>1, NothingOpen
    <2>4. active' = {} /\ pipe' = NoInput
      BY <1>4, <2>3 DEF HaltEnd, Keep, Retire, Native!Exit, nativeVars
    <2> QED
      BY <1>1, <1>4, <2>1, <2>2, <2>4, CancelledRows
  <1>5. CASE Reopen
    <2>1. thread.execution = None /\ work' = Cancelled(work) /\ active' = active /\ pipe' = pipe
      BY <1>5 DEF Reopen, nativeVars
    <2>2. active = {} /\ pipe = NoInput
      BY <2>1, NothingOpen
    <2> QED
      BY <1>1, <1>5, <2>1, <2>2, CancelledRows
  <1>6. CASE Requested /\ ~Reopen
    <2>1. ASSUME NEW w \in Works, NEW d \in Deliveries, Send(w, d)
          PROVE  FALSE
      BY <1>1, <2>1 DEF Send, HeldRunning, Halted, Threads
    <2>2. ASSUME NEW w \in Works, NEW d \in Deliveries, PromoteMessage(w, d)
          PROVE  FALSE
      BY <2>2 DEF PromoteMessage, Undisturbed
    <2>3. ASSUME NEW w \in Works, CancelMessage(w)
          PROVE  FALSE
      BY <2>3 DEF CancelMessage
    <2>4. ASSUME NEW action \in Controls, Control(action)
          PROVE  FALSE
      BY <1>1, <2>4 DEF Control, Threads
    <2> QED
      BY <1>6, <2>1, <2>2, <2>3, <2>4 DEF Requested
  <1>7. CASE HaltStep /\ ~HaltEnd
    <2>1. thread' \in {thread, Ended} \/ HaltFails
      BY <1>7 DEF HaltStep, HaltBegin, HaltAbort, HaltState, HaltFinish, HaltLost, HaltDecides, durable
    <2> QED
      BY <1>1, <2>1, EndedThread DEF HaltFails, Threads
  <1>8. ASSUME NEW v \in Works, Accepted(v) \/ Refused(v) \/ Unacknowledged \/ Unconfirmed(v)
        PROVE  FALSE
    BY <1>2, <1>8, AnswersHold
  <1>9. CASE NativeStep
    <2>1. CASE NativeTakes
      <3>1. pipe.work \in Works /\ Status!TypeOK
        BY <2>1 DEF NativeTakes, Typed, Commands
      <3>2. Native!Reply(pipe.work, pipe.kind, pipe.resume) \in {"pending", "accepted", "refused"}
        BY DEF Native!Reply
      <3>3. \/ thread' = thread
            \/ Accepted(pipe.work) \/ Refused(pipe.work) \/ Unconfirmed(pipe.work)
        BY <2>1, <3>1, <3>2, RecordedStates DEF NativeTakes, durable
      <3> QED
        BY <1>8, <3>1, <3>3
    <2>2. CASE \E v \in Works : NativeAcknowledges(v)
      BY <1>8, <2>2 DEF NativeAcknowledges
    <2>3. CASE NativeHalts \/ (\E v \in Works : NativeLands(v))
               \/ \E o \in {"complete", "failed"} : NativeSettles(o)
      BY <2>3 DEF NativeHalts, NativeLands, NativeSettles, durable
    <2> QED
      BY <1>9, <2>1, <2>2, <2>3 DEF NativeStep
  <1>10. CASE \E v \in Works : NativeRefuses(v)
    BY <1>8, <1>10 DEF NativeRefuses
  <1>11. CASE NativeExit \/ HaltAgain \/ ControllerStop
    BY <1>11 DEF NativeExit, HaltAgain, ControllerStop, Undisturbed, durable
  <1> QED
    BY <1>3, <1>4, <1>5, <1>6, <1>7, <1>9, <1>10, <1>11 DEF Next

\* An operation that goes on has made no step.
LEMMA ChainMoves ==
  ASSUME ThreadInv, JobStep \/ Drain \/ Replaced \/ TimeOut
  PROVE  job'.at # job.at
  <1> USE DEF ThreadInv
  <1>1. job \in Operations /\ work \in [Works -> Rows] /\ thread.execution \in Works \cup {None}
        /\ job.execution \in Works \cup {None}
    BY DEF Typed, Threads, Operations
  <1>2. \A at \in Awaited : [job EXCEPT !.at = at].at = at
    BY <1>1 DEF Operations
  <1>3. ASSUME NEW o, NEW attached, NEW table, NEW row, NEW opening \in BOOLEAN,
               FinishBy(o, attached, table, row, opening)
        PROVE  job'.at \in {"idle", "finishing", "park"}
    BY <1>3, FinishByAt
  <1>4. \A open \in Works \cup {None}, a \in {"none", "live"} :
          Chosen(open, a) = Idle \/ Chosen(open, a).at = "prepare"
    BY <1>1, ChosenOperation
  <1>5. CASE Drain
    <2>1. job.at = "idle"
      BY <1>5 DEF Drain, DrainUnassigned, DrainHardSteer, DrainRecover, DrainSelect, DrainProbe,
         DrainReady
    <2>2. CASE DrainSelect
      BY <1>1, <1>4, <2>1, <2>2 DEF DrainSelect
    <2>3. CASE DrainUnassigned \/ DrainHardSteer \/ DrainRecover \/ DrainProbe
      <3>1. /\ DrainUnassigned => job'.at = "unassigned"
            /\ DrainHardSteer => job'.at = "awaitHalt"
            /\ DrainRecover => job'.at = "reacquire"
        BY DEF DrainUnassigned, DrainHardSteer, DrainRecover, Idle
      <3>2. DrainProbe => job'.at = "probe"
        BY DEF DrainProbe, Idle
      <3> QED
        BY <2>1, <2>3, <3>1, <3>2
    <2> QED
      BY <1>5, <2>2, <2>3 DEF Drain
  <1>6. CASE Replaced
    BY <1>1, <1>6 DEF Replaced, Operations
  <1>7. CASE TimeOut
    <2>1. job' = Idle
      BY <1>7 DEF TimeOut, Unacknowledged, Accepted, AwaitsAnswer
    <2> QED
      BY <1>7, <2>1, IdleOperation DEF TimeOut
  <1>8. CASE JobStep
    <2>1. CASE RecoverUnassigned \/ Reacquired \/ Reopened \/ Abandoned \/ Discard \/ Park
      <3>1. RecoverUnassigned \/ Abandoned \/ Discard \/ Park => job'.at = "idle" /\ job.at # "idle"
        BY IdleOperation DEF RecoverUnassigned, Abandoned, Discard, Park
      <3>2. [job EXCEPT !.at = "reopen"].at = "reopen"
        BY <1>2 DEF Awaited
      <3>3. Reacquired => job'.at \in {"idle", "reopen"} /\ job.at = "reacquire"
        BY <3>2, IdleOperation DEF Reacquired
      <3>4. Reopened => job'.at = "rename" /\ job.at = "reopen"
        BY <1>1 DEF Reopened, Operations
      <3> QED
        BY <2>1, <3>1, <3>4, <3>3
    <2>2. CASE DrainAfterHalt \/ Probed
      <3>1. \/ job.at \in {"halted", "probe"} /\ job' = Idle
            \/ job.at = "halted" /\ job' = Chosen(thread.execution, "none")
            \/ job.at = "probe" /\ job' = Chosen(job.execution, "live")
        BY <2>2 DEF DrainAfterHalt, Probed
      <3> QED
        BY <1>1, <1>4, <3>1, IdleOperation
    <2>3. CASE Renamed
      <3>1. job.at = "rename"
        BY <2>3 DEF Renamed
      <3>2. \/ \E o : FinishBy(o, [runtime EXCEPT !.execution = thread.execution], work, thread, TRUE)
            \/ job' = Idle
            \/ \E w : job' = [job EXCEPT !.at = "redeliver", !.work = w]
        BY <2>3 DEF Renamed
      <3>3. \A w : [job EXCEPT !.at = "redeliver", !.work = w].at = "redeliver"
        BY <1>1 DEF Operations
      <3> QED
        BY <1>3, <3>1, <3>2, <3>3, IdleOperation
    <2>4. CASE Prepared
      <3>1. job.at = "prepare"
        BY <2>4 DEF Prepared
      <3>2. ASSUME NEW w, NEW e, NEW open, NEW a, Dispatched(w, e, open, a)
            PROVE  job'.at \in {"idle", "deliver"}
        <4>1. job' \in {Idle, [job EXCEPT !.at = "deliver", !.runtime = a, !.prompt = ~runtime.busy]}
          BY <3>2 DEF Dispatched
        <4>2. [job EXCEPT !.at = "deliver", !.runtime = a, !.prompt = ~runtime.busy].at = "deliver"
          BY <1>1 DEF Operations
        <4> QED
          BY <4>1, <4>2, IdleOperation
      <3>3. [job EXCEPT !.at = "acquire"].at = "acquire"
        BY <1>2 DEF Awaited
      <3> QED
        BY <2>4, <3>1, <3>2, <3>3, IdleOperation DEF Prepared
    <2>5. CASE Acquired \/ Admitted
      BY <1>2, <2>5, IdleOperation DEF Acquired, Admitted, GiveUp, Awaited
    <2>6. CASE Opened
      <3>1. job.at = "open"
        BY <2>6 DEF Opened
      <3>2. \/ job' = [Idle EXCEPT !.at = "park", !.runtime = "live"]
            \/ \E e, p : job' = [job EXCEPT !.at = "deliver", !.runtime = "live",
                                            !.execution = e, !.prompt = p]
        BY <2>6 DEF Opened
      <3>3. \A e, p : [job EXCEPT !.at = "deliver", !.runtime = "live",
                                  !.execution = e, !.prompt = p].at = "deliver"
        BY <1>1 DEF Operations
      <3>4. [Idle EXCEPT !.at = "park", !.runtime = "live"].at = "park"
        BY DEF Idle
      <3> QED
        BY <3>1, <3>2, <3>3, <3>4
    <2>7. CASE Settling \/ Finishing
      <3>1. \/ job' = Idle /\ job.at \in {"settling", "finishing"}
            \/ job' = [Idle EXCEPT !.at = "park", !.runtime = "live"] /\ job.at = "settling"
            \/ job' = [job EXCEPT !.at = "park"] /\ job.at = "finishing"
            \/ job.at = "settling"
               /\ \E o : FinishBy(o, runtime, AdoptedReference, EndWait(Confirmed), FALSE)
        BY <2>7 DEF Settling, Finishing
      <3>2. [Idle EXCEPT !.at = "park", !.runtime = "live"].at = "park"
        BY DEF Idle
      <3> QED
        BY <1>2, <1>3, <3>1, <3>2, IdleOperation DEF Awaited
    <2> QED
      BY <1>8, <2>1, <2>2, <2>3, <2>4, <2>5, <2>6, <2>7 DEF JobStep
  <1> QED
    BY <1>5, <1>6, <1>7, <1>8

\* What may happen beside an operation that is under way.
LEMMA BesideStep ==
  ASSUME Undisturbed, ThreadInv, Regular, Next, job' \in {job, Lost(job)}
  PROVE  /\ \/ thread'.execution = thread.execution
            \/ halt'.at = "release" /\ thread'.held # "no"
         /\ thread.held = "no" => custody' = custody \/ Reopen
         /\ \A w \in Works : work[w].status = "queued" => work'[w].status # "dispatched"
  <1> USE DEF ThreadInv, Regular
  <1>1. job \in Operations /\ thread \in Threads /\ work \in [Works -> Rows] /\ halt \in Interruptions
    BY DEF Typed
  <1>2. job'.at = job.at
    BY <1>1, LostOperation
  <1>3. ~(JobStep \/ Drain \/ Replaced \/ TimeOut)
    BY <1>2, ChainMoves
  <1>4. Moves
    BY MovesStep
  <1>5. CASE Requested
    <2>1. thread'.execution = thread.execution /\ (custody' = custody \/ Reopen)
      BY <1>1, <1>5 DEF Requested, Send, PromoteMessage, CancelMessage, Control, Reopen, Threads
    <2>2. \A w \in Works : work[w].status = "queued" => work'[w].status # "dispatched"
      <3>1. ASSUME NEW w \in Works, NEW d \in Deliveries, Send(w, d)
            PROVE  \A v \in Works : work'[v].status = "dispatched" => work'[v] = work[v]
        BY <1>1, <3>1 DEF Send, NoWork
      <3>2. ASSUME NEW w \in Works, NEW d \in Deliveries, PromoteMessage(w, d)
            PROVE  \A v \in Works : work'[v].status = work[v].status
        BY <1>1, <3>2 DEF PromoteMessage, Rows
      <3>3. ASSUME NEW w \in Works, CancelMessage(w)
            PROVE  \A v \in Works : work'[v].status \in {work[v].status, "done"}
        BY <1>1, <3>3 DEF CancelMessage, Rows
      <3>4. ASSUME NEW action \in Controls, Control(action)
            PROVE  work' = work
        BY <3>4 DEF Control
      <3>5. CASE Reopen
        BY <1>1, <3>5, CancelledRows DEF Reopen
      <3> QED
        BY <1>5, <3>1, <3>2, <3>3, <3>4, <3>5 DEF Requested
    <2> QED
      BY <2>1, <2>2
  <1>6. ASSUME UNCHANGED <<work, custody>>, thread'.execution = thread.execution
        PROVE  /\ thread'.execution = thread.execution /\ custody' = custody
               /\ \A w \in Works : work[w].status = "queued" => work'[w].status # "dispatched"
    BY <1>6
  <1>7. CASE HaltStep
    <2>1. halt.at # "idle" /\ thread.held # "no"
      BY <1>7 DEF HaltStep, HaltBegin, HaltAbort, HaltState, HaltFinish, HaltEnd, HaltLost, Halted
    <2>2. \/ thread'.execution = thread.execution
          \/ thread' = Ended /\ halt' = [halt EXCEPT !.at = "release"]
      BY <1>1, <1>7 DEF HaltStep, HaltBegin, HaltAbort, HaltState, HaltFinish, HaltEnd, HaltLost,
         HaltFails, HaltDecides, Halts, Threads, durable
    <2>3. \/ thread'.execution = thread.execution
          \/ halt'.at = "release" /\ thread'.held # "no"
      BY <1>1, <2>1, <2>2, EndedThread DEF Interruptions
    <2>4. work' \in {work, Adopted, Cancelled(work)} \/ thread' = Ended
      BY <1>7 DEF HaltStep, HaltBegin, HaltAbort, HaltState, HaltFinish, HaltEnd, HaltLost,
         HaltDecides, durable
    <2>5. \A w \in Works : work[w].status = "queued" => work'[w].status # "dispatched"
      BY <1>1, <1>4, <2>4, AdoptedRows, CancelledRows, EndedThread DEF Alike, Moves
    <2> QED
      BY <2>1, <2>3, <2>5
  <1>8. CASE ServeSettlement
    <2>1. Head(settlements).kind = "settled"
      BY <1>8 DEF ServeSettlement, Typed, Told
    <2> QED
      BY <1>6, <1>8, <2>1 DEF ServeSettlement, durable
  <1>9. CASE Answers
    BY <1>9 DEF Answers, Keeps
  <1>10. CASE NativeStep
    <2>1. CASE NativeTakes \/ \E v \in Works : NativeAcknowledges(v)
      BY <1>9, <2>1, NativeAnswers
    <2>2. ASSUME NEW v \in Works, NativeLands(v)
          PROVE  /\ thread' = thread /\ custody' = custody
                 /\ \A w \in Works : work'[w].status = work[w].status
      BY <1>1, <2>2, LandedRows DEF NativeLands, Alike
    <2>3. CASE NativeHalts \/ \E o \in {"complete", "failed"} : NativeSettles(o)
      BY <1>6, <2>3 DEF NativeHalts, NativeSettles, durable
    <2> QED
      BY <1>10, <2>1, <2>2, <2>3 DEF NativeStep
  <1>11. CASE \E v \in Works : NativeRefuses(v)
    BY <1>9, <1>11, NativeAnswers DEF Undisturbed
  <1>12. CASE HaltAgain \/ NativeExit
    BY <1>6, <1>12 DEF HaltAgain, NativeExit, durable
  <1>13. ~ControllerStop
    BY DEF Undisturbed, ControllerStop
  <1> QED
    BY <1>3, <1>5, <1>7, <1>8, <1>10, <1>11, <1>12, <1>13 DEF Next

\* Whatever execution is open has its custody, through a recovery too.
LEMMA CustodyStep ==
  ASSUME Undisturbed, ThreadInv, Regular, Next, thread'.execution # None
  PROVE  custody'[thread'.execution] \in {"held", "entered"}
  <1> USE DEF ThreadInv, Regular
  <1>1. /\ thread \in Threads /\ custody \in Custodies /\ job \in Operations /\ halt \in Interruptions
        /\ thread.execution \in Works \cup {None} /\ runtime \in Attachments
    BY DEF Typed, Threads
  <1>2. thread.execution # None => custody[thread.execution] \in {"held", "entered"}
    BY DEF Accounted
  <1>3. ASSUME custody' = custody, thread'.execution = thread.execution
        PROVE  custody'[thread'.execution] \in {"held", "entered"}
    BY <1>2, <1>3
  <1>4. ASSUME NEW o, NEW attached, NEW table, NEW row, row.execution = thread.execution, NEW opening,
               FinishBy(o, attached, table, row, opening)
        PROVE  custody'[thread'.execution] \in {"held", "entered"}
    <2>1. thread' = Ended \/ (thread' = row /\ custody' = custody)
      BY <1>4 DEF FinishBy
    <2> QED
      BY <1>1, <1>3, <1>4, <2>1, EndedThread
  <1>5. CASE Requested
    <2>1. Reopen => thread.execution = None
      BY DEF Reopen, Linked, Archive, ArchivedIsQuiet
    <2>2. /\ thread'.execution = thread.execution
          /\ custody' = custody \/ Reopen
      BY <1>1, <1>5 DEF Requested, Send, PromoteMessage, CancelMessage, Control, Reopen, Threads
    <2> QED
      BY <1>3, <2>1, <2>2
  <1>6. CASE Drain
    <2>1. thread' = thread
      BY <1>6 DEF Drain, DrainUnassigned, DrainHardSteer, DrainRecover, DrainSelect, DrainProbe, durable
    <2>2. CASE DrainRecover
      BY <1>1, <1>2, <2>1, <2>2 DEF DrainRecover, Custodies
    <2>3. CASE ~DrainRecover
      BY <1>3, <1>6, <2>1, <2>3 DEF Drain, DrainUnassigned, DrainHardSteer, DrainSelect, DrainProbe,
         durable
    <2> QED
      BY <2>2, <2>3
  <1>7. CASE ServeSettlement
    <2>1. Head(settlements).kind = "settled"
      BY <1>7 DEF ServeSettlement, Typed, Told
    <2> QED
      BY <1>3, <1>7, <2>1 DEF ServeSettlement, durable
  <1>8. CASE JobStep
    <2>1. job.at \in Unopened => thread.execution = None
      BY DEF Linked, Recovering
    <2>2. \A ws : EndWait(ws).execution = thread.execution
      BY <1>1, EndWaitThread
    <2>3. CASE RecoverUnassigned \/ Acquired \/ Admitted
      BY <2>1, <2>3 DEF RecoverUnassigned, Acquired, Admitted, Unopened
    <2>4. CASE Reacquired
      <3>1. thread' = thread /\ job.execution = thread.execution
        BY <2>4 DEF Reacquired, Linked, Recovering, Reopening
      <3>2. custody' \in {custody, [custody EXCEPT ![thread.execution] = "entered"]}
        BY <2>4, <3>1 DEF Reacquired
      <3> QED
        BY <1>1, <1>2, <3>1, <3>2 DEF Custodies
    <2>5. CASE Renamed
      <3>1. \/ UNCHANGED durable
            \/ \E o : FinishBy(o, [runtime EXCEPT !.execution = thread.execution], work, thread, TRUE)
        BY <2>5 DEF Renamed
      <3> QED
        BY <1>3, <1>4, <3>1 DEF durable
    <2>6. CASE Prepared
      <3>1. thread' = thread /\ (custody' = custody \/ job.execution = None)
        BY <2>6 DEF Prepared
      <3>2. job.execution = None => thread.execution = None
        BY <2>6 DEF Prepared, Linked, Recovering
      <3> QED
        BY <1>3, <3>1, <3>2
    <2>7. CASE Opened
      <3>1. thread.execution = None
        BY <2>1, <2>7 DEF Opened, Unopened
      <3>2. /\ StillWanted /\ thread' = [thread EXCEPT !.execution = job.work] /\ custody' = custody
        BY <1>1, <2>7, <3>1 DEF Opened
      <3>3. thread'.execution = job.work /\ thread.held = "no" /\ IsQueued(job.work) /\ job.at = "open"
        BY <1>1, <2>7, <3>2 DEF Threads, StillWanted, MayDispatch, Opened
      <3> QED
        BY <3>2, <3>3 DEF Meant
    <2>8. CASE Settling
      <3>1. CASE runtime.execution = None /\ thread' = EndWait(Confirmed)
        BY <2>2, <2>8, <3>1 DEF Settling, Linked, Attached, Joined
      <3>2. \/ custody' = custody /\ thread' = EndWait(Confirmed)
            \/ runtime.execution = None /\ thread' = EndWait(Confirmed)
            \/ \E o : FinishBy(o, runtime, AdoptedReference, EndWait(Confirmed), FALSE)
        BY <2>8 DEF Settling
      <3> QED
        BY <1>3, <1>4, <2>2, <3>1, <3>2
    <2>9. CASE Finishing
      <3>1. UNCHANGED durable \/ thread' = Ended
        BY <2>9 DEF Finishing
      <3> QED
        BY <1>1, <1>3, <3>1, EndedThread DEF durable
    <2>10. CASE Reopened \/ Probed
      BY <1>3, <2>2, <2>10 DEF Reopened, Probed
    <2>11. CASE DrainAfterHalt \/ Abandoned \/ Discard \/ Park
      BY <1>3, <2>11 DEF DrainAfterHalt, Abandoned, Discard, Park, durable
    <2> QED
      BY <1>8, <2>3, <2>4, <2>5, <2>6, <2>7, <2>8, <2>9, <2>10, <2>11 DEF JobStep
  <1>9. CASE HaltStep
    <2>1. ASSUME NEW a, HaltDecides(a, Adopted),
                 a = "live" => halt.at \in Stops /\ halt.runtime = "live"
          PROVE  custody'[thread'.execution] \in {"held", "entered"}
      <3>1. a = "live" /\ thread.execution # None => runtime.execution = thread.execution
        BY <2>1 DEF Linked, Attached, Joined, Stopping, Reopening
      <3>2. \/ thread' = thread /\ custody' = custody
            \/ thread' = thread /\ thread.execution = None
            \/ thread' = Ended
        BY <2>1, <3>1 DEF HaltDecides
      <3> QED
        BY <1>1, <1>3, <3>2, EndedThread
    <2>2. CASE HaltBegin
      <3>1. (custody' = custody /\ thread' = thread) \/ HaltDecides("none", Adopted)
        BY <2>2 DEF HaltBegin
      <3> QED
        BY <1>3, <2>1, <3>1
    <2>3. CASE HaltState
      <3>1. (custody' = custody /\ HaltFails) \/ HaltDecides("live", Adopted)
        BY <2>3 DEF HaltState
      <3>2. HaltFails => thread'.execution = thread.execution
        BY <1>1 DEF HaltFails, Threads
      <3>3. halt.at \in Stops /\ halt.runtime = "live"
        BY <2>3 DEF HaltState, Stops
      <3> QED
        BY <1>3, <2>1, <3>1, <3>2, <3>3
    <2>4. CASE HaltFinish
      <3>1. thread.execution = None \/ thread' = Ended
        BY <2>4 DEF HaltFinish, Linked, Stopping, Native!Busy
      <3>2. thread' = thread \/ thread' = Ended
        BY <2>4 DEF HaltFinish
      <3> QED
        BY <1>1, <3>1, <3>2, EndedThread
    <2>5. CASE HaltAbort \/ HaltEnd \/ HaltLost
      BY <1>1, <1>3, <2>5 DEF HaltAbort, HaltEnd, HaltLost, HaltFails, Threads, durable
    <2> QED
      BY <1>9, <2>2, <2>3, <2>4, <2>5 DEF HaltStep
  <1>10. CASE Answers
    BY <1>3, <1>10 DEF Answers
  <1>11. CASE NativeStep
    <2>1. CASE NativeTakes \/ \E v \in Works : NativeAcknowledges(v)
      BY <1>10, <2>1, NativeAnswers
    <2>2. CASE \/ NativeHalts \/ \E v \in Works : NativeLands(v)
               \/ \E o \in {"complete", "failed"} : NativeSettles(o)
      BY <1>3, <2>2 DEF NativeHalts, NativeLands, NativeSettles, durable
    <2> QED
      BY <1>11, <2>1, <2>2 DEF NativeStep
  <1>12. CASE TimeOut \/ \E v \in Works : NativeRefuses(v)
    BY <1>10, <1>12, NativeAnswers DEF Undisturbed
  <1>13. CASE HaltAgain \/ Replaced \/ NativeExit
    BY <1>3, <1>13 DEF HaltAgain, Replaced, NativeExit, durable
  <1>14. ~ControllerStop
    BY DEF Undisturbed, ControllerStop
  <1> QED
    BY <1>5, <1>6, <1>7, <1>8, <1>9, <1>11, <1>12, <1>13, <1>14 DEF Next

LEMMA AccountedStep ==
  ASSUME Undisturbed, ThreadInv, Regular, Next
  PROVE  Accounted'
  <1> USE DEF ThreadInv, Regular
  <1>1. Moves /\ Acts /\ Tracked'
    BY MovesStep, ActsStep, TrackedStep DEF Accounted
  <1>2. /\ \A w \in Works : work[w].status = "dispatched"
             => thread.execution # None /\ work[w].execution = thread.execution
        /\ active \in SUBSET Works
        /\ pipe # NoInput => pipe.work \in Works /\ work[pipe.work].status = "dispatched"
    BY ReceiptsKnown DEF Accounted, DispatchedIsOpen, Sent, Typed, Commands
  <1>3. DispatchedIsOpen'
    BY <1>1, <1>2 DEF Moves, DispatchedIsOpen
  <1>4. NativeIsAccounted'
    <2> SUFFICES ASSUME NEW w \in active'
                 PROVE  work'[w].status = "dispatched" /\ work'[w].execution = thread'.execution
      BY DEF NativeIsAccounted
    <2>1. w \in active \/ (pipe # NoInput /\ w = pipe.work)
      BY <1>1 DEF Acts
    <2>2. w \in Works /\ work[w].status = "dispatched"
      BY <1>2, <2>1 DEF Accounted, NativeIsAccounted
    <2>3. work'[w].status = "dispatched"
      BY <1>1, <2>1, <2>2 DEF Moves
    <2> QED
      BY <1>3, <2>2, <2>3 DEF DispatchedIsOpen
  <1>5. \A w \in Works : work'[w].status \in {"absent", "queued"} => work'[w].execution = None
    BY <1>1 DEF Moves, Accounted
  <1>6. \A w \in receipts'.landed : work'[w].status \in {"dispatched", "done"}
    <2> SUFFICES ASSUME NEW w \in receipts'.landed
                 PROVE  work'[w].status \in {"dispatched", "done"}
      OBVIOUS
    <2>1. w \in receipts.landed \/ w \in active
      BY <1>1 DEF Acts
    <2>2. w \in Works
      BY <2>1, ReceiptsKnown
    <2>3. work[w].status \in {"dispatched", "done"}
      BY <2>1 DEF Accounted, NativeIsAccounted
    <2> QED
      BY <1>1, <2>1, <2>2, <2>3 DEF Moves
  <1> QED
    BY <1>1, <1>3, <1>4, <1>5, <1>6, CustodyStep DEF Accounted

\* The controller queues a settlement job only for a turn the session settled.
LEMMA SettlementsStep ==
  ASSUME Undisturbed, ThreadInv, Regular, Next, NEW i \in 1..Len(settlements')
  PROVE  settlements'[i].kind = "settled"
  <1> USE DEF ThreadInv, Regular
  <1>1. settlements \in Seq(Settlements) /\ \A j \in 1..Len(settlements) : settlements[j].kind = "settled"
    BY DEF Typed, Told
  <1>2. ASSUME settlements' \in {settlements, <<>>}
        PROVE  settlements'[i].kind = "settled"
    BY <1>1, <1>2
  <1>3. ASSUME NEW s, s.kind = "settled", settlements' = Append(settlements, s)
        PROVE  settlements'[i].kind = "settled"
    BY <1>1, <1>3
  <1>4. ASSUME NEW works, NEW outcome, Settles(works, outcome)
        PROVE  settlements'[i].kind = "settled"
    BY <1>2, <1>3, <1>4 DEF Settles
  <1>5. CASE Requested \/ Drain
    BY <1>2, <1>5 DEF Requested, Send, PromoteMessage, CancelMessage, Control, Reopen, memory,
       Drain, DrainUnassigned, DrainHardSteer, DrainRecover, DrainSelect, DrainProbe
  <1>6. CASE JobStep
    BY <1>2, <1>6 DEF JobStep, RecoverUnassigned, DrainAfterHalt, Reacquired, Reopened, Renamed,
       Prepared, Acquired, Admitted, Opened, Abandoned, Discard, Probed, Settling, Finishing, Park,
       Retire, Keep
  <1>7. CASE ServeSettlement
    BY <1>1, <1>7 DEF ServeSettlement
  <1>8. CASE HaltStep
    BY <1>2, <1>8 DEF HaltStep, HaltBegin, HaltAbort, HaltState, HaltFinish, HaltEnd, HaltLost,
       Retire, Keep
  <1>9. CASE Answers
    BY <1>2, <1>9 DEF Answers
  <1>10. CASE NativeStep
    <2>1. CASE NativeTakes \/ \E v \in Works : NativeAcknowledges(v)
      BY <1>9, <2>1, NativeAnswers
    <2>2. CASE \E v \in Works : NativeLands(v)
      BY <1>2, <2>2 DEF NativeLands, memory
    <2>3. CASE NativeHalts \/ \E o \in {"complete", "failed"} : NativeSettles(o)
      BY <1>2, <1>4, <2>3 DEF NativeHalts, NativeSettles
    <2> QED
      BY <1>10, <2>1, <2>2, <2>3 DEF NativeStep
  <1>11. CASE TimeOut \/ \E v \in Works : NativeRefuses(v)
    BY <1>9, <1>11, NativeAnswers DEF Undisturbed
  <1>12. CASE HaltAgain \/ Replaced \/ NativeExit
    BY <1>2, <1>12 DEF HaltAgain, Replaced, Retire, NativeExit
  <1>13. ~ControllerStop
    BY DEF Undisturbed, ControllerStop
  <1> QED
    BY <1>5, <1>6, <1>7, <1>8, <1>10, <1>11, <1>12, <1>13 DEF Next

LEMMA ToldStep ==
  ASSUME Undisturbed, ThreadInv, Regular, Next
  PROVE  Told'
  <1> USE DEF ThreadInv, Regular
  <1> DEFINE Begun(e) == work[e].status = "done" \/ (work[e].status = "dispatched" /\ work[e].execution = e)
  <1>1. Moves /\ Acts
    BY MovesStep, ActsStep
  <1>2. /\ \A w \in Works : status[w].execution \in Works \cup {None}
        /\ thread.execution \in Works \cup {None} /\ None \notin Works
    BY WorksAreNat DEF Typed, Threads, Status!TypeOK
  <1>3. \A w \in Works : status[w].execution # None => Begun(status[w].execution)
    BY DEF Told
  <1>4. thread.execution # None => Begun(thread.execution)
    BY <1>2 DEF Linked, Opener, Accounted, DispatchedIsOpen
  <1>5. pipe # NoInput => pipe.execution = thread.execution
    BY DEF Sent
  <1>6. ASSUME NEW e \in Works, Begun(e)
        PROVE  \/ work'[e].status = "done"
               \/ work'[e].status = "dispatched" /\ work'[e].execution = e
    BY <1>1, <1>6 DEF Moves
  <1>7. ASSUME NEW w \in Works, status'[w].execution # None
        PROVE  \/ work'[status'[w].execution].status = "done"
               \/ /\ work'[status'[w].execution].status = "dispatched"
                  /\ work'[status'[w].execution].execution = status'[w].execution
    <2>1. PICK e \in Works \cup {None} : e = status'[w].execution /\ e \in {status[w].execution, thread.execution}
      BY <1>1, <1>2, <1>5 DEF Acts
    <2>2. e \in Works /\ Begun(e)
      BY <1>2, <1>3, <1>4, <1>7, <2>1
    <2> QED
      BY <1>6, <2>1, <2>2
  <1>8. ASSUME thread'.held = "no", thread'.execution # None, NEW w \in Works,
               status'[w].state = "rejected", status'[w].execution = thread'.execution
        PROVE  FALSE
    <2>1. thread.held = "no"
      <3>1. SUFFICES ASSUME thread.held # "no" PROVE FALSE
        OBVIOUS
      <3>2. thread.execution = None
        BY <1>8, <3>1, HoldLifts
      <3> QED
        BY <1>1, <1>8, <3>1, <3>2 DEF Moves
    <2>2. status'[w] = status[w]
      BY <1>1, <1>8, <2>1 DEF Acts
    <2>3. CASE thread'.execution = thread.execution
      BY <1>8, <2>1, <2>2, <2>3 DEF Told
    <2>4. CASE thread'.execution # thread.execution
      <3>1. job.work \in Works /\ thread'.execution = job.work /\ work[job.work].status = "queued"
        BY <1>1, <1>8, <2>4 DEF Moves
      <3> QED
        BY <1>3, <1>8, <2>2, <3>1
    <2> QED
      BY <2>3, <2>4
  <1> QED
    BY <1>7, <1>8, SettlementsStep DEF Told

\* Only the operations of the chain send a command.
LEMMA OnlySends ==
  ASSUME Undisturbed, ThreadInv, Next, ~Prepared, ~Opened, ~Renamed
  PROVE  pipe' \in {pipe, NoInput}
  <1>1. CASE Requested \/ Drain \/ ServeSettlement
    BY <1>1 DEF Requested, Send, PromoteMessage, CancelMessage, Control, Reopen,
       Drain, DrainUnassigned, DrainHardSteer, DrainRecover, DrainSelect, DrainProbe, ServeSettlement
  <1>2. CASE JobStep
    BY <1>2 DEF JobStep, RecoverUnassigned, DrainAfterHalt, Reacquired, Reopened, Acquired, Admitted,
       Abandoned, Discard, Probed, Settling, Finishing, Park, Retire, Keep
  <1>3. CASE HaltStep
    BY <1>3 DEF HaltStep, HaltBegin, HaltAbort, HaltState, HaltFinish, HaltEnd, HaltLost, Retire, Keep
  <1>4. CASE NativeStep \/ \E v \in Works : NativeRefuses(v)
    BY <1>4 DEF NativeStep, NativeTakes, NativeHalts, NativeAcknowledges, NativeLands, NativeSettles,
       NativeRefuses
  <1>5. CASE HaltAgain \/ Replaced \/ TimeOut \/ NativeExit \/ ControllerStop
    BY <1>5 DEF HaltAgain, Replaced, Retire, TimeOut, NativeExit, ControllerStop
  <1> QED
    BY <1>1, <1>2, <1>3, <1>4, <1>5 DEF Next

\* An attachment that does not know of a run did not before, or there is none.
LEMMA BusyStep ==
  ASSUME Undisturbed, ThreadInv, Regular, Next, ~Opened, ~HaltBegin, runtime'.up, ~runtime'.busy
  PROVE  (runtime.up /\ ~runtime.busy) \/ (active' = {} /\ pipe' = NoInput)
  <1> USE DEF ThreadInv, Regular
  <1>1. runtime \in Attachments /\ NoRuntime \in Attachments /\ ~NoRuntime.up
        /\ thread.execution \in Works \cup {None} /\ Native!Busy \in BOOLEAN
    BY NothingAttached DEF Typed, Threads, Native!Busy
  <1>2. ASSUME runtime' = runtime
        PROVE  runtime.up /\ ~runtime.busy
    BY <1>2
  <1>3. ~Retire
    BY <1>1, RetireFacts
  <1>4. [runtime EXCEPT !.execution = thread.execution].up = runtime.up
        /\ [runtime EXCEPT !.execution = thread.execution].busy = runtime.busy
    BY <1>1 DEF Attachments
  <1>5. [runtime EXCEPT !.execution = None, !.busy = FALSE].up = runtime.up
    BY <1>1 DEF Attachments
  <1>6. ASSUME active = {}, pipe = NoInput, UNCHANGED <<pipe, nativeVars>>
        PROVE  active' = {} /\ pipe' = NoInput
    BY <1>6 DEF nativeVars
  <1>7. CASE Requested \/ Drain \/ HaltAgain
    BY <1>2, <1>7 DEF Requested, Send, PromoteMessage, CancelMessage, Control, Reopen, memory,
       Drain, DrainUnassigned, DrainHardSteer, DrainRecover, DrainSelect, DrainProbe, HaltAgain
  <1>8. CASE ServeSettlement
    <2>1. Head(settlements).kind = "settled"
      BY <1>8 DEF ServeSettlement, Typed, Told
    <2> QED
      BY <1>2, <1>8, <2>1 DEF ServeSettlement
  <1>9. CASE JobStep
    <2>1. CASE RecoverUnassigned
      <3>1. CASE alive
        <4>1. runtime' = [runtime EXCEPT !.up = TRUE, !.busy = Native!Busy]
          BY <2>1, <3>1 DEF RecoverUnassigned
        <4>2. active = {}
          BY <1>1, <4>1 DEF Attachments, Native!Busy
        <4> QED
          BY <1>6, <2>1, <4>2 DEF RecoverUnassigned
      <3>2. CASE ~alive
        BY <1>2, <2>1, <3>2 DEF RecoverUnassigned
      <3> QED
        BY <3>1, <3>2
    <2>2. CASE Reopened
      <3>1. runtime' = [NoRuntime EXCEPT !.up = TRUE, !.busy = Native!Busy]
            /\ pipe' = NoInput /\ active' = active
        BY <2>2 DEF Reopened, Native!Open
      <3>2. active = {}
        BY <1>1, <3>1 DEF Attachments, Native!Busy
      <3> QED
        BY <3>1, <3>2
    <2>3. CASE Renamed
      <3>1. ~runtime.busy
        BY <1>4, <2>3 DEF Renamed, RecoveredDone
      <3>2. runtime.up
        BY <2>3 DEF Renamed, Linked, Attached
      <3> QED
        BY <3>1, <3>2
    <2>4. CASE Settling
      <3>1. CASE ~Unsettled(job.execution)
        BY <1>6, <2>4, <3>1 DEF Settling, Unsettled, Native!Busy
      <3>2. CASE Unsettled(job.execution)
        BY <1>2, <2>4, <3>2 DEF Settling
      <3> QED
        BY <3>1, <3>2
    <2>5. CASE Finishing
      <3>1. CASE UNCHANGED runtime
        BY <1>2, <3>1
      <3>2. CASE ~Native!Busy
        BY <1>6, <2>5, <3>2 DEF Finishing, Native!Busy
      <3> QED
        BY <2>5, <3>1, <3>2 DEF Finishing
    <2>6. CASE Park
      BY <1>2, <1>3, <2>6 DEF Park, Keep
    <2>7. CASE \/ DrainAfterHalt \/ Reacquired \/ Prepared \/ Acquired \/ Admitted \/ Abandoned
               \/ Discard \/ Probed
      BY <1>2, <2>7 DEF DrainAfterHalt, Reacquired, Prepared, Acquired, Admitted, Abandoned,
         Discard, Probed
    <2> QED
      BY <1>9, <2>1, <2>2, <2>3, <2>4, <2>5, <2>6, <2>7 DEF JobStep
  <1>10. CASE HaltStep
    <2>1. CASE HaltState
      BY <1>2, <1>6, <2>1 DEF HaltState, Native!Busy
    <2>2. CASE HaltFinish
      BY <1>6, <2>2 DEF HaltFinish, Linked, Stopping
    <2>3. CASE HaltEnd
      BY <1>2, <1>3, <2>3 DEF HaltEnd, Keep
    <2>4. CASE HaltAbort \/ HaltLost
      BY <1>2, <2>4 DEF HaltAbort, HaltLost
    <2> QED
      BY <1>10, <2>1, <2>2, <2>3, <2>4 DEF HaltStep
  <1>11. CASE Answers
    BY <1>11 DEF Answers
  <1>12. CASE NativeStep
    <2>1. CASE NativeTakes \/ \E v \in Works : NativeAcknowledges(v)
      BY <1>11, <2>1, NativeAnswers
    <2>2. CASE \E v \in Works : NativeLands(v)
      BY <1>2, <2>2 DEF NativeLands, memory
    <2>3. ASSUME NEW works, NEW outcome, Settles(works, outcome)
          PROVE  runtime.up /\ ~runtime.busy
      <3>1. runtime' = runtime \/ runtime' = [runtime EXCEPT !.outcome = outcome]
        BY <2>3 DEF Settles
      <3> QED
        BY <1>1, <1>2, <3>1 DEF Attachments
    <2>4. CASE NativeHalts \/ \E o \in {"complete", "failed"} : NativeSettles(o)
      BY <1>2, <2>3, <2>4 DEF NativeHalts, NativeSettles
    <2> QED
      BY <1>12, <2>1, <2>2, <2>4 DEF NativeStep
  <1>13. CASE TimeOut \/ \E v \in Works : NativeRefuses(v)
    BY <1>11, <1>13, NativeAnswers DEF Undisturbed
  <1>14. ~Replaced /\ ~NativeExit /\ ~ControllerStop
    BY <1>1, <1>3 DEF Replaced, NativeExit, ControllerStop
  <1> QED
    BY <1>7, <1>8, <1>9, <1>10, <1>12, <1>13, <1>14 DEF Next

\* While the answer to a command is awaited, nothing else goes on in the chain.
LEMMA AnsweringStays ==
  ASSUME Undisturbed, ThreadInv, Regular, Next, thread.held = "no", runtime'.up,
         job.at \in Answering, job.runtime = "live"
  PROVE  job' = job \/ Answers
  <1> USE DEF ThreadInv, Regular
  <1>1. job.at \in {"deliver", "redeliver"} /\ halt.at = "idle"
    BY DEF Answering, Halted
  <1>2. ~JobStep
    BY <1>1 DEF JobStep, RecoverUnassigned, DrainAfterHalt, Reacquired, Reopened, Renamed,
       Prepared, Acquired, Admitted, Opened, Abandoned, Discard, Probed, Settling, Finishing, Park
  <1>3. ~Drain /\ ~ServeSettlement /\ ~Replaced
    BY <1>1 DEF Drain, DrainUnassigned, DrainHardSteer, DrainRecover, DrainSelect, DrainProbe,
       DrainReady, ServeSettlement, Replaced
  <1>4. ~HaltStep
    BY <1>1 DEF HaltStep, HaltBegin, HaltAbort, HaltState, HaltFinish, HaltEnd, HaltLost
  <1>5. ~NativeExit /\ ~ControllerStop
    BY NothingAttached DEF NativeExit, ControllerStop
  <1>6. Requested \/ HaltAgain => job' = job
    BY DEF Requested, Send, PromoteMessage, CancelMessage, Control, Reopen, memory, HaltAgain
  <1>7. CASE NativeStep
    <2>1. CASE NativeTakes \/ \E v \in Works : NativeAcknowledges(v)
      BY <2>1, NativeAnswers
    <2>2. CASE \/ NativeHalts \/ \E v \in Works : NativeLands(v)
               \/ \E o \in {"complete", "failed"} : NativeSettles(o)
      BY <2>2 DEF NativeHalts, NativeLands, NativeSettles, memory
    <2> QED
      BY <1>7, <2>1, <2>2 DEF NativeStep
  <1>8. CASE TimeOut \/ \E v \in Works : NativeRefuses(v)
    BY <1>8, NativeAnswers DEF Undisturbed
  <1> QED
    BY <1>2, <1>3, <1>4, <1>5, <1>6, <1>7, <1>8 DEF Next

\* What the three operations that send leave behind, when they do send: the
\* command of an input of the open execution, and an operation awaiting its
\* answer.
Sends ==
  /\ pipe'.work \in Works /\ work'[pipe'.work].status = "dispatched"
  /\ pipe'.execution = thread'.execution
  /\ pipe'.resume => pipe'.kind = "prompt"
  /\ pipe'.kind = "prompt" => active' = {}
  /\ job'.at \in Answering /\ job'.runtime = "live"

LEMMA PreparedSends ==
  ASSUME ThreadInv, Regular, Prepared
  PROVE  \/ UNCHANGED <<pipe, runtime, active>> /\ job.at = "prepare"
         \/ Sends
  <1> USE DEF ThreadInv, Regular
  <1>1. work \in [Works -> Rows] /\ job \in Operations /\ runtime \in Attachments
        /\ job.at = "prepare" /\ job.work \in Works
    BY DEF Typed, Prepared, Concerns
  <1>2. CASE pipe' = pipe
    BY <1>1, <1>2 DEF Prepared, nativeVars
  <1>3. CASE pipe' # pipe
    <2>1. /\ StillWanted /\ job.execution # None /\ job.runtime # "stale"
          /\ thread' = thread /\ active' = active
          /\ work' = [work EXCEPT ![job.work].status = "dispatched",
                                  ![job.work].execution = job.execution]
          /\ job' = [job EXCEPT !.at = "deliver", !.runtime = job.runtime, !.prompt = ~runtime.busy]
          /\ pipe = NoInput
          /\ pipe' = [work |-> job.work, execution |-> thread.execution, resume |-> FALSE,
                      kind |-> IF runtime.busy THEN "steer" ELSE "prompt"]
      BY <1>3 DEF Prepared, Dispatched, nativeVars
    <2>2. job.runtime = "live" /\ runtime.up /\ thread.held = "no"
      BY <1>1, <2>1 DEF Operations, Linked, Recovering, Attached, StillWanted, MayDispatch
    <2>3. ~runtime.busy => active = {}
      BY <1>1, <2>1, <2>2 DEF Sent, Answering
    <2>4. job'.at = "deliver" /\ job'.runtime = "live"
      BY <1>1, <2>1, <2>2 DEF Operations
    <2>5. work'[job.work].status = "dispatched"
      BY <1>1, <2>1 DEF Rows
    <2> QED
      BY <1>1, <2>1, <2>3, <2>4, <2>5 DEF Sends, Answering
  <1> QED
    BY <1>2, <1>3

LEMMA OpenedSends ==
  ASSUME ThreadInv, Regular, Opened
  PROVE  \/ pipe' = NoInput /\ (thread'.held = "no" /\ ~runtime'.busy => active' = {})
         \/ Sends
  <1> USE DEF ThreadInv, Regular
  <1> DEFINE attached == IF runtime.up THEN runtime ELSE [NoRuntime EXCEPT !.up = TRUE, !.busy = Native!Busy]
  <1>1. work \in [Works -> Rows] /\ job \in Operations /\ runtime \in Attachments /\ thread \in Threads
        /\ job.at = "open" /\ job.work \in Works /\ pipe = NoInput /\ Native!Busy \in BOOLEAN
    BY DEF Typed, Opened, Concerns, Native!Busy
  <1>2. active' = active
    BY DEF Opened, nativeVars, Native!Open
  <1>3. attached \in Attachments /\ (thread.held = "no" /\ ~attached.busy => active = {})
    <2>1. CASE runtime.up
      BY <1>1, <2>1 DEF Sent, Answering
    <2>2. CASE ~runtime.up
      <3>1. attached = [NoRuntime EXCEPT !.up = TRUE, !.busy = Native!Busy]
        BY <2>2
      <3>2. attached \in Attachments /\ attached.busy = Native!Busy
        BY <1>1, <3>1, NothingAttached DEF Attachments
      <3> QED
        BY <3>2 DEF Native!Busy
    <2> QED
      BY <2>1, <2>2
  <1>4. CASE ~StillWanted
    <2>1. runtime' = attached /\ pipe' = NoInput /\ thread' = thread
      BY <1>1, <1>4 DEF Opened
    <2> QED
      BY <1>2, <1>3, <2>1
  <1>5. CASE StillWanted
    <2>1. /\ thread' = [thread EXCEPT !.execution = job.work]
          /\ work' = [work EXCEPT ![job.work].status = "dispatched", ![job.work].execution = job.work]
          /\ job' = [job EXCEPT !.at = "deliver", !.runtime = "live",
                                !.execution = job.work, !.prompt = ~attached.busy]
          /\ pipe' = [work |-> job.work, execution |-> job.work, resume |-> FALSE,
                      kind |-> IF attached.busy THEN "steer" ELSE "prompt"]
      BY <1>5 DEF Opened
    <2>2. thread.held = "no"
      BY <1>5 DEF StillWanted, MayDispatch
    <2> HIDE DEF attached
    <2>3. job'.at = "deliver" /\ job'.runtime = "live" /\ thread'.execution = job.work
      BY <1>1, <2>1 DEF Operations, Threads
    <2>4. work'[job.work].status = "dispatched"
      BY <1>1, <2>1 DEF Rows
    <2> QED
      BY <1>1, <1>2, <1>3, <2>1, <2>2, <2>3, <2>4 DEF Sends, Answering
  <1> QED
    BY <1>4, <1>5

LEMMA RenamedSends ==
  ASSUME ThreadInv, Regular, Renamed
  PROVE  \/ pipe' = NoInput /\ (~runtime'.busy => active' = {})
         \/ Sends
  <1> USE DEF ThreadInv, Regular
  <1> DEFINE e == thread.execution
             w == CHOOSE v \in Unfinished(e) : \A u \in Unfinished(e) : v <= u
  <1>1. work \in [Works -> Rows] /\ job \in Operations /\ runtime \in Attachments
        /\ job.at = "rename" /\ job.runtime = "live" /\ e # None
    BY DEF Typed, Renamed, Linked, Recovering, Reopening
  <1>2. pipe = NoInput /\ active' = active /\ (~runtime.busy => active = {})
    BY <1>1 DEF Sent, Renamed, nativeVars
  <1>3. CASE RecoveredDone(e)
    BY <1>2, <1>3 DEF Renamed, RecoveredDone
  <1>4. CASE ~RecoveredDone(e)
    <2>1. runtime' = [runtime EXCEPT !.execution = e] /\ UNCHANGED durable
      BY <1>4 DEF Renamed
    <2>2. runtime'.busy = runtime.busy
      BY <1>1, <2>1 DEF Attachments
    <2>3. CASE pipe' = NoInput
      BY <1>2, <2>2, <2>3
    <2>4. CASE pipe' # NoInput
      <3>1. /\ ~runtime.busy /\ Unfinished(e) # {}
            /\ pipe' = [work |-> w, execution |-> e, kind |-> "prompt",
                        resume |-> w \in job.accepted \/ work[w].inserted]
            /\ job' = [job EXCEPT !.at = "redeliver", !.work = w]
        BY <1>2, <1>4, <2>4 DEF Renamed
      <3>2. Unfinished(e) \in SUBSET Nat
        BY WorksAreNat DEF Unfinished
      <3>3. w \in Unfinished(e)
        BY <3>1, <3>2, Least
      <3>4. w \in Works /\ work[w].status = "dispatched"
        BY <1>1, <3>3 DEF Unfinished, Accounted, Rows
      <3> HIDE DEF w
      <3>5. job'.at = "redeliver" /\ job'.runtime = "live"
        BY <1>1, <3>1 DEF Operations
      <3> QED
        BY <1>2, <2>1, <3>1, <3>4, <3>5 DEF Sends, Answering, durable
    <2> QED
      BY <2>3, <2>4
  <1> QED
    BY <1>3, <1>4

LEMMA RenameStays ==
  ASSUME Undisturbed, ThreadInv, Regular, Next, ~Reopened,
         job'.at = "rename", job'.runtime = "live"
  PROVE  job' = job
  <1> USE DEF ThreadInv, Regular
  <1>1. ~JobStep
    BY OnlyReopenedRenames
  <1>2. job \in Operations /\ work \in [Works -> Rows] /\ thread.execution \in Works \cup {None}
    BY DEF Typed, Threads
  <1>3. ~DrainSelect /\ ~DrainProbe /\ ~Replaced
    <2>1. ~DrainSelect
      <3>1. \A a \in {"none", "live"} : Chosen(thread.execution, a).at # "rename"
        BY <1>2, ChosenOperation, IdleOperation
      <3> QED
        BY <3>1 DEF DrainSelect
    <2>2. DrainProbe => job'.at = "probe"
      BY DEF DrainProbe, Idle
    <2>3. Replaced => job'.at = "replaced"
      BY <1>2 DEF Replaced, Operations
    <2> QED
      BY <2>1, <2>2, <2>3
  <1>4. job' \in {job, Lost(job)}
    BY <1>1, <1>3, OperationMoves DEF JobStep, Elsewhere
  <1> QED
    BY <1>2, <1>4, LostOperation

LEMMA SentStep ==
  ASSUME Undisturbed, ThreadInv, Regular, Next
  PROVE  Sent'
  <1> USE DEF ThreadInv, Regular
  <1>1. Moves /\ Acts
    BY MovesStep, ActsStep
  <1>2. CASE Sends
    <2>1. job'.at # "rename"
      BY <1>2 DEF Sends, Answering
    <2> QED
      BY <1>2, <2>1 DEF Sends, Sent
  <1>3. CASE ~Sends
    <2>1. pipe' \in {pipe, NoInput}
      BY <1>3, OnlySends, PreparedSends, OpenedSends, RenamedSends
    <2>2. ASSUME pipe' # NoInput
          PROVE  /\ work'[pipe'.work].status = "dispatched"
                 /\ pipe'.execution = thread'.execution
                 /\ pipe'.resume => pipe'.kind = "prompt"
                 /\ pipe'.kind = "prompt" => active' = {}
      <3>1. pipe' = pipe /\ pipe # NoInput /\ pipe.work \in Works /\ work[pipe.work].status = "dispatched"
        BY <2>1, <2>2 DEF Typed, Commands, Sent
      <3>2. thread.execution # None
        BY <3>1 DEF Accounted, DispatchedIsOpen
      <3>3. thread'.execution = thread.execution
        BY <1>1, <3>1, <3>2 DEF Moves
      <3>4. work'[pipe.work].status = "dispatched"
        BY <1>1, <3>1 DEF Moves
      <3>5. active' \subseteq active
        BY <1>1, <2>2 DEF Acts
      <3> QED
        BY <3>1, <3>3, <3>4, <3>5 DEF Sent
    <2>3. ASSUME job'.at = "rename", job'.runtime = "live"
          PROVE  pipe' = NoInput /\ (~runtime'.busy => active' = {})
      <3>1. CASE Reopened
        <4>1. /\ runtime' = [NoRuntime EXCEPT !.up = TRUE, !.busy = Native!Busy]
              /\ pipe' = NoInput /\ active' = active
          BY <3>1 DEF Reopened, Native!Open
        <4>2. runtime'.busy = Native!Busy
          BY <4>1 DEF NoRuntime
        <4> QED
          BY <4>1, <4>2 DEF Native!Busy
      <3>2. CASE ~Reopened
        <4>1. job' = job
          BY <2>3, <3>2, RenameStays
        <4>2. pipe = NoInput /\ (~runtime.busy => active = {}) /\ runtime.up
          BY <2>3, <4>1 DEF Sent, Linked, Attached
        <4>3. pipe' = NoInput /\ active' \subseteq active
          BY <1>1, <2>1, <4>2 DEF Acts
        <4>4. ~HaltBegin /\ ~Opened
          BY <2>3, <4>1 DEF HaltBegin, Opening, Opened
        <4>5. runtime'.up
          BY <2>3, StepThread DEF Linked, Attached
        <4>6. ~runtime'.busy => ~runtime.busy \/ active' = {}
          BY <4>4, <4>5, BusyStep
        <4> QED
          BY <4>2, <4>3, <4>6
      <3> QED
        BY <3>1, <3>2
    <2>4. ASSUME thread'.held = "no", runtime'.up, ~runtime'.busy, active' # {} \/ pipe' # NoInput
          PROVE  job'.at \in Answering /\ job'.runtime = "live"
      <3>1. thread.held = "no"
        BY <2>4, HoldLifts
      <3>2. ~HaltBegin /\ ~Opened /\ ~Renamed
        BY <1>3, <2>4, <3>1, OpenedSends, RenamedSends DEF HaltBegin, Halted
      <3>3. runtime.up /\ ~runtime.busy
        BY <2>4, <3>2, BusyStep
      <3>4. active # {} \/ pipe # NoInput
        BY <1>1, <2>1, <2>4 DEF Acts
      <3>5. job.at \in Answering /\ job.runtime = "live"
        BY <3>1, <3>3, <3>4 DEF Sent
      <3>6. job' = job \/ Answers
        BY <2>4, <3>1, <3>5, AnsweringStays
      <3>7. job' = job
        BY <2>4, <3>1, <3>5, <3>6 DEF Answers
      <3> QED
        BY <3>5, <3>7
    <2> QED
      BY <2>2, <2>3, <2>4 DEF Sent
  <1> QED
    BY <1>2, <1>3

\* Drain chooses from the queue.
LEMMA ChosenIsQueued ==
  ASSUME work \in [Works -> Rows], NEW open \in Works \cup {None}, NEW a \in {"none", "live"},
         Chosen(open, a).at # "idle"
  PROVE  IsQueued(Chosen(open, a).work)
  <1>1. Selectable(open) # {}
        /\ Chosen(open, a) = [Idle EXCEPT !.at = "prepare", !.work = First(Selectable(open)),
                                          !.execution = open, !.runtime = a]
    BY IdleOperation DEF Chosen
  <1>2. Selectable(open) \in SUBSET Works
    BY DEF Selectable, Queued
  <1>3. First(Selectable(open)) \in Selectable(open)
    BY <1>1, <1>2, FirstIsOne
  <1>4. Chosen(open, a).work = First(Selectable(open))
    BY <1>1 DEF Idle
  <1> QED
    BY <1>3, <1>4 DEF Selectable, Queued

\* A halt that has ended an execution knows that its session does nothing,
\* and closes it unless somebody else did.
LEMMA ReleaseStays ==
  ASSUME Undisturbed, ThreadInv, Regular, Next, halt.at = "release",
         ForOpen, job.runtime = "live", job' = job
  PROVE  UNCHANGED <<halt, runtime>>
  <1> USE DEF ThreadInv, Regular
  <1>1. /\ active = {} /\ ~blocked /\ pipe = NoInput /\ unacked = {} /\ inbox = {}
        /\ halt.runtime = "live" /\ ~runtime.busy /\ runtime.execution = None
    BY DEF Linked, Stopping, Meant, SessionInv, Native!TypeOK
  <1>2. ~(JobStep \/ Drain \/ Replaced \/ TimeOut)
    BY ChainMoves
  <1>3. CASE Requested
    BY <1>3 DEF Requested, Send, PromoteMessage, CancelMessage, Control, Reopen, Interrupt, memory,
       Undisturbed
  <1>4. ~HaltStep
    <2>1. ~HaltEnd
      <3>1. SUFFICES ASSUME HaltEnd PROVE FALSE
        OBVIOUS
      <3>2. job' = Lost(job)
        BY <1>1, <3>1 DEF HaltEnd, Unused, Native!Busy, ForOpen
      <3> QED
        BY <3>2, LostOperation DEF Typed
    <2> QED
      BY <2>1 DEF HaltStep, HaltBegin, HaltAbort, HaltState, HaltFinish, HaltLost
  <1>5. ~NativeStep
    BY <1>1 DEF NativeStep, NativeTakes, NativeHalts, NativeAcknowledges, NativeLands, NativeSettles,
       Native!EndAbort, Native!Acknowledge, Native!Land, Native!Settle, Native!Settleable
  <1>6. \A v \in Works : ~NativeRefuses(v)
    BY <1>1 DEF NativeRefuses, Native!Reject
  <1>7. ~NativeExit
    <2>1. SUFFICES ASSUME NativeExit PROVE FALSE
      OBVIOUS
    <2>2. job' = Lost(job)
      BY <2>1 DEF NativeExit
    <2> QED
      BY <2>2, LostOperation DEF Typed
  <1>8. ServeSettlement => UNCHANGED <<halt, runtime>>
    BY DEF ServeSettlement, ForOpen
  <1>9. ~HaltAgain /\ ~ControllerStop
    BY DEF HaltAgain, ControllerStop, Undisturbed
  <1> QED
    BY <1>2, <1>3, <1>4, <1>5, <1>6, <1>7, <1>8, <1>9 DEF Next

\* A halt that gets there while an operation is for the open execution ends
\* that one, and says so to the attachment.
LEMMA Releases ==
  ASSUME Undisturbed, ThreadInv, Regular, Next, halt.at # "release", halt'.at = "release",
         ForOpen, job.runtime = "live", job' = job
  PROVE  halt'.runtime = "live" /\ ~runtime'.busy /\ runtime'.execution = None
  <1> USE DEF ThreadInv, Regular
  <1>1. runtime.up /\ thread.execution = job.execution /\ thread.execution # None
        /\ runtime.execution = thread.execution
    BY DEF Linked, Attached, Joined, Meant, ForOpen
  <1>2. runtime \in Attachments /\ halt \in Interruptions
    BY DEF Typed
  <1>3. ~(JobStep \/ Drain \/ Replaced \/ TimeOut)
    BY ChainMoves
  <1>4. HaltState \/ HaltFinish
    <2>1. ~HaltBegin
      <3>1. alive
        BY <1>1 DEF Linked, Attached
      <3> QED
        BY <3>1 DEF HaltBegin
    <2>2. HaltStep => HaltState \/ HaltFinish
      <3>1. ~HaltAbort /\ ~HaltEnd /\ ~HaltLost
        BY <1>2 DEF HaltAbort, Halts, HaltEnd, HaltLost, HaltFails, Halting, Interruptions
      <3> QED
        BY <2>1, <3>1 DEF HaltStep
    <2>3. Requested \/ ServeSettlement \/ HaltAgain \/ NativeExit \/ ControllerStop => halt'.at # "release"
      <3>1. Requested \/ ServeSettlement => halt' = halt \/ halt' = Halting("begin")
        BY DEF Requested, Send, PromoteMessage, CancelMessage, Control, Reopen, Interrupt, memory,
           ServeSettlement
      <3>2. HaltAgain \/ NativeExit \/ ControllerStop => halt' \in {halt, Lost(halt), Halting("begin")}
        BY DEF HaltAgain, NativeExit, ControllerStop, Undisturbed
      <3>3. Lost(halt).at = halt.at /\ Halting("begin").at = "begin"
        BY <1>2 DEF Lost, Halting, Interruptions
      <3> QED
        BY <3>1, <3>2, <3>3
    <2>4. NativeStep \/ (\E v \in Works : NativeRefuses(v)) => halt'.at # "release"
      <3>1. halt' \in {halt, [halt EXCEPT !.at = "state"]}
              \/ ~(NativeStep \/ \E v \in Works : NativeRefuses(v))
        BY DEF NativeStep, NativeTakes, NativeHalts, NativeAcknowledges, NativeLands, NativeSettles,
           NativeRefuses, Halts, memory
      <3> QED
        BY <1>2, <3>1 DEF Interruptions
    <2> QED
      BY <1>3, <2>2, <2>3, <2>4 DEF Next
  <1>5. /\ halt.runtime = "live" /\ halt' = [halt EXCEPT !.at = "release"]
        /\ runtime' = [runtime EXCEPT !.execution = None, !.busy = FALSE]
    <2>1. CASE HaltState
      <3>1. ~HaltFails
        BY DEF HaltFails, Halting
      <3>2. halt' = [halt EXCEPT !.at = "finish"] => halt'.at = "finish"
        BY <1>2 DEF Interruptions
      <3> QED
        BY <1>1, <2>1, <3>1, <3>2 DEF HaltState, HaltDecides, Halts
    <2>2. CASE HaltFinish
      BY <1>1, <2>2 DEF HaltFinish, Halts, Linked, Stopping, Native!Busy
    <2> QED
      BY <1>4, <2>1, <2>2
  <1> QED
    BY <1>2, <1>5 DEF Attachments, Interruptions

\* An operation still means what it did, whatever happens beside it.
LEMMA BesideMeant ==
  ASSUME Undisturbed, ThreadInv, Regular, Next, job' \in {job, Lost(job)}
  PROVE  Meant'
  <1> USE DEF ThreadInv, Regular
  <1>1. job \in Operations /\ (job.at \in Concerns => job.work \in Works)
    BY DEF Typed
  <1>2. /\ job'.at = job.at /\ job'.work = job.work /\ job'.execution = job.execution
        /\ job'.runtime = "live" => job' = job
    BY <1>1, LostOperation
  <1>3. /\ \/ thread'.execution = thread.execution
           \/ halt'.at = "release" /\ thread'.held # "no"
        /\ thread.held = "no" => custody' = custody \/ Reopen
        /\ \A w \in Works : work[w].status = "queued" => work'[w].status # "dispatched"
    BY BesideStep
  <1>4. Moves
    BY MovesStep
  <1>5. ASSUME ForOpen, job.runtime = "live", job' = job
        PROVE  /\ thread'.execution = job.execution \/ halt'.at = "release"
               /\ halt'.at = "release"
                    => halt'.runtime = "live" /\ ~runtime'.busy /\ runtime'.execution = None
    <2>1. CASE halt.at = "release"
      <3>1. halt' = halt /\ runtime' = runtime
        BY <1>5, <2>1, ReleaseStays
      <3> QED
        BY <1>5, <2>1, <3>1 DEF Meant
    <2>2. CASE halt.at # "release"
      <3>1. thread.execution = job.execution
        BY <1>5, <2>2 DEF Meant
      <3> QED
        BY <1>3, <1>5, <2>2, <3>1, Releases
    <2> QED
      BY <2>1, <2>2
  <1>6. ASSUME ForQueued
        PROVE  /\ work'[job.work].status \in {"queued", "done"}
               /\ work'[job.work].status = "queued" => work[job.work].status = "queued"
    <2>1. job.work \in Works /\ work[job.work].status \in {"queued", "done"}
      BY <1>1, <1>6 DEF ForQueued, Concerns, Meant
    <2> QED
      BY <1>3, <1>4, <2>1 DEF Moves
  <1>7. ASSUME ForQueued, thread'.held = "no", work'[job.work].status = "queued"
        PROVE  thread.held = "no" /\ IsQueued(job.work)
    <2>1. job.work \in Works /\ work[job.work].status = "queued"
      BY <1>1, <1>6, <1>7 DEF ForQueued, Concerns
    <2> QED
      BY <1>7, <2>1, HoldLifts DEF IsQueued
  <1>8. ASSUME job.at = "prepare", job.execution # None, thread'.held = "no",
               work'[job.work].status = "queued"
        PROVE  thread'.execution = job.execution
    BY <1>3, <1>7, <1>8 DEF ForQueued, Meant
  <1>9. ASSUME job.at \in {"admit", "replaced", "open"}, thread'.held = "no",
               work'[job.work].status = "queued"
        PROVE  custody'[job.work] \in {"held", "entered"}
    <2>1. thread.held = "no" /\ IsQueued(job.work) /\ job.work \in Works
      BY <1>1, <1>7, <1>9 DEF ForQueued, Concerns
    <2>2. ~Reopen
      BY <2>1 DEF Reopen, Linked, Archive, ArchivedIsQuiet, IsQueued
    <2> QED
      BY <1>3, <1>9, <2>1, <2>2 DEF Meant
  <1> QED
    BY <1>2, <1>5, <1>6, <1>8, <1>9 DEF Meant, ForOpen, ForQueued, IsQueued

LEMMA ElsewhereMeant ==
  ASSUME job'.at \notin {"prepare", "acquire", "admit", "replaced", "open", "deliver", "probe"}
  PROVE  Meant'
  BY DEF Meant, ForOpen, ForQueued

\* What drain chooses for the open execution is to be prepared for that.
LEMMA ChosenMeant ==
  ASSUME ThreadInv, Regular, NEW open \in Works \cup {None}, NEW a \in {"none", "live"},
         job' = Chosen(open, a),
         halt' = halt, runtime' = runtime, thread'.held = thread.held,
         thread'.execution = thread.execution,
         \A w \in Works : IsQueued(w) => work'[w].status = "queued",
         open # None => \/ thread.execution = open /\ halt.at # "release"
                        \/ /\ thread.held # "no" /\ halt.at = "release" /\ halt.runtime = "live"
                           /\ ~runtime.busy /\ runtime.execution = None
  PROVE  Meant'
  <1> USE DEF ThreadInv, Regular
  <1>1. work \in [Works -> Rows]
    BY DEF Typed
  <1>2. CASE job' = Idle
    BY <1>2, IdleOperation, ElsewhereMeant
  <1>3. CASE job' # Idle
    <2>1. /\ job'.at = "prepare" /\ job'.work \in Works /\ job'.execution = open /\ job'.runtime = a
      BY <1>1, <1>3, ChosenOperation
    <2>2. work'[job'.work].status = "queued"
      BY <1>1, <2>1, ChosenIsQueued
    <2> QED
      BY <2>1, <2>2 DEF Meant, ForOpen, ForQueued, IsQueued
  <1> QED
    BY <1>2, <1>3

LEMMA MeantStep ==
  ASSUME Undisturbed, ThreadInv, Regular, Next
  PROVE  Meant'
  <1> USE DEF ThreadInv, Regular
  <1>1. /\ work \in [Works -> Rows] /\ job \in Operations /\ thread \in Threads
        /\ thread.execution \in Works \cup {None} /\ job.execution \in Works \cup {None}
        /\ custody \in Custodies /\ (job.at \in Concerns => job.work \in Works)
    BY DEF Typed, Threads, Operations
  <1>2. StillWanted => thread.held = "no" /\ halt.at = "idle" /\ work[job.work].status = "queued"
    BY DEF StillWanted, MayDispatch, IsQueued
  <1>3. CASE job' \in {job, Lost(job)}
    BY <1>3, BesideMeant
  <1>4. CASE job'.at \in Elsewhere
    BY <1>4, ElsewhereMeant DEF Elsewhere
  <1>5. CASE Reopened
    <2>1. job'.at = "rename"
      BY <1>1, <1>5 DEF Reopened, Operations
    <2> QED
      BY <2>1, ElsewhereMeant
  <1>6. CASE Renamed
    <2>1. \/ job' = Idle
          \/ \E o : FinishBy(o, [runtime EXCEPT !.execution = thread.execution], work, thread, TRUE)
          \/ \E w : job' = [job EXCEPT !.at = "redeliver", !.work = w]
      BY <1>6 DEF Renamed
    <2>2. ASSUME NEW w, job' = [job EXCEPT !.at = "redeliver", !.work = w]
          PROVE  job'.at = "redeliver"
      BY <1>1, <2>2 DEF Operations
    <2>3. ASSUME NEW o, FinishBy(o, [runtime EXCEPT !.execution = thread.execution], work, thread, TRUE)
          PROVE  job'.at \in {"idle", "finishing", "park"}
      BY <2>3, FinishByAt
    <2>4. job'.at \in {"idle", "finishing", "park", "redeliver"}
      BY <2>1, <2>2, <2>3, IdleOperation
    <2> QED
      BY <2>4, ElsewhereMeant
  <1>7. CASE DrainSelect
    <2>1. halt.at = "idle" /\ UNCHANGED <<work, thread, halt, runtime>>
          /\ job' = Chosen(thread.execution, IF runtime.up THEN "live" ELSE "none")
      BY <1>7 DEF DrainSelect, DrainReady, MayDispatch, durable
    <2> QED
      BY <1>1, <2>1, ChosenMeant DEF IsQueued
  <1>8. CASE DrainProbe
    <2>1. /\ halt.at = "idle" /\ UNCHANGED <<thread, halt>>
          /\ job' = [Idle EXCEPT !.at = "probe", !.work = thread.wait, !.runtime = "live",
                                 !.execution = thread.execution]
      BY <1>8 DEF DrainProbe, DrainReady, MayDispatch, durable
    <2>2. job'.at = "probe" /\ job'.execution = thread.execution
      BY <2>1 DEF Idle
    <2> QED
      BY <2>1, <2>2 DEF Meant, ForOpen, ForQueued
  <1>9. CASE DrainAfterHalt
    <2>1. UNCHANGED <<work, thread, halt, runtime>> /\ job' = Chosen(None, "none")
      BY <1>9 DEF DrainAfterHalt, durable, Linked, Recovering, Unopened
    <2>2. None \in Works \cup {None}
      OBVIOUS
    <2>3. thread'.held = thread.held /\ thread'.execution = thread.execution
          /\ \A w \in Works : IsQueued(w) => work'[w].status = "queued"
      BY <2>1 DEF IsQueued
    <2> QED
      BY <2>1, <2>2, <2>3, ChosenMeant
  <1>10. CASE Probed
    <2>1. UNCHANGED <<halt, runtime>> /\ job.work \in Works /\ job.at = "probe" /\ job.runtime = "live"
          /\ (job' = Idle \/ job' = Chosen(job.execution, "live"))
      BY <1>1, <1>10 DEF Probed, Concerns
    <2>2. thread'.held = thread.held /\ thread'.execution = thread.execution
      BY <1>1, <1>10, EndWaitThread DEF Probed
    <2>3. \A w \in Works : IsQueued(w) => work'[w].status = "queued"
      <3>1. work' \in {work, Inserted(job.work, FALSE), Retired(job.work)}
        BY <1>10 DEF Probed
      <3>2. CASE work' = Inserted(job.work, FALSE)
        BY <1>1, <2>1, <3>2, InsertedRows DEF Alike, IsQueued
      <3>3. CASE work' = Retired(job.work)
        BY <1>1, <2>1, <3>3, RetiredRows DEF IsQueued
      <3> QED
        BY <3>1, <3>2, <3>3 DEF IsQueued
    <2>4. job.execution # None =>
            \/ thread.execution = job.execution /\ halt.at # "release"
            \/ /\ thread.held # "no" /\ halt.at = "release" /\ halt.runtime = "live"
               /\ ~runtime.busy /\ runtime.execution = None
      BY <2>1 DEF Meant, ForOpen, Halted, Linked, Stopping
    <2>5. CASE job' = Idle
      BY <2>5, IdleOperation, ElsewhereMeant
    <2>6. CASE job' = Chosen(job.execution, "live")
      BY <1>1, <2>1, <2>2, <2>3, <2>4, <2>6, ChosenMeant
    <2> QED
      BY <2>1, <2>5, <2>6
  <1>11. CASE Prepared
    <2>1. job.at = "prepare" /\ UNCHANGED <<thread, halt>> /\ job.work \in Works
      BY <1>1, <1>11 DEF Prepared, Concerns
    <2>2. CASE job' = Idle
      BY <2>2, IdleOperation, ElsewhereMeant
    <2>3. CASE StillWanted /\ work' = work /\ job' = [job EXCEPT !.at = "acquire"]
      <3>1. job'.at = "acquire" /\ job'.work = job.work
        BY <1>1, <2>3 DEF Operations
      <3> QED
        BY <1>2, <2>3, <3>1 DEF Meant, ForOpen, ForQueued
    <2>4. CASE /\ StillWanted /\ job.execution # None
               /\ job' = [job EXCEPT !.at = "deliver", !.runtime = job.runtime, !.prompt = ~runtime.busy]
      <3>1. job'.at = "deliver" /\ job'.execution = job.execution
        BY <1>1, <2>4 DEF Operations
      <3>2. thread.execution = job.execution
        BY <1>2, <2>1, <2>4 DEF Meant, IsQueued
      <3> QED
        BY <1>2, <2>1, <2>4, <3>1, <3>2 DEF Meant, ForOpen, ForQueued
    <2> QED
      BY <1>11, <2>2, <2>3, <2>4 DEF Prepared, Dispatched
  <1>12. CASE Acquired
    <2>1. CASE job' = Idle
      BY <2>1, IdleOperation, ElsewhereMeant
    <2>2. CASE job' # Idle
      <3>1. /\ job.at = "acquire" /\ StillWanted /\ custody[job.work] # "none" /\ work' = work
            /\ job' = [job EXCEPT !.at = "admit"]
            /\ custody' = [custody EXCEPT ![job.work] = IF @ = "requested" THEN "held" ELSE @]
        BY <1>12, <2>2 DEF Acquired, GiveUp
      <3>2. job'.at = "admit" /\ job'.work = job.work /\ job.work \in Works
        BY <1>1, <3>1 DEF Operations, Concerns
      <3>3. custody'[job.work] \in {"held", "entered"}
        BY <1>1, <3>1, <3>2 DEF Custodies
      <3> QED
        BY <1>2, <3>1, <3>2, <3>3 DEF Meant, ForOpen, ForQueued
    <2> QED
      BY <2>1, <2>2
  <1>13. CASE Replaced
    <2>1. /\ job.at = "admit" /\ UNCHANGED durable /\ job.work \in Works
          /\ job' = [job EXCEPT !.at = "replaced", !.runtime = "stale"]
      BY <1>1, <1>13 DEF Replaced, Concerns
    <2>2. job'.at = "replaced" /\ job'.work = job.work
      BY <1>1, <2>1 DEF Operations
    <2> QED
      BY <2>1, <2>2 DEF Meant, ForOpen, ForQueued, IsQueued, durable
  <1>14. CASE Admitted
    <2>1. CASE job' = Idle
      BY <2>1, IdleOperation, ElsewhereMeant
    <2>2. CASE job' # Idle
      <3>1. /\ job.at \in {"admit", "replaced"} /\ job.work \in Works /\ UNCHANGED <<work, thread>>
            /\ job' = [job EXCEPT !.at = "open"]
            /\ custody' = [custody EXCEPT ![job.work] = IF @ = "held" THEN "entered" ELSE @]
        BY <1>1, <1>14, <2>2 DEF Admitted, GiveUp, Concerns
      <3>2. job'.at = "open" /\ job'.work = job.work
        BY <1>1, <3>1 DEF Operations
      <3>3. custody[job.work] \in {"held", "entered"} => custody'[job.work] \in {"held", "entered"}
        BY <1>1, <3>1 DEF Custodies
      <3> QED
        BY <3>1, <3>2, <3>3 DEF Meant, ForOpen, ForQueued, IsQueued
    <2> QED
      BY <2>1, <2>2
  <1>15. CASE Opened
    <2>1. job.at = "open" /\ halt' = halt /\ job.work \in Works
      BY <1>1, <1>15 DEF Opened, Concerns
    <2>2. CASE job' = [Idle EXCEPT !.at = "park", !.runtime = "live"]
      <3>1. job'.at = "park"
        BY <2>2 DEF Idle
      <3> QED
        BY <3>1, ElsewhereMeant
    <2>3. CASE /\ StillWanted /\ thread' = [thread EXCEPT !.execution = job.work]
               /\ \E p : job' = [job EXCEPT !.at = "deliver", !.runtime = "live",
                                            !.execution = job.work, !.prompt = p]
      <3>1. PICK p : job' = [job EXCEPT !.at = "deliver", !.runtime = "live",
                                        !.execution = job.work, !.prompt = p]
        BY <2>3
      <3>2. job'.at = "deliver" /\ job'.execution = job.work /\ thread'.execution = job.work
        BY <1>1, <2>3, <3>1 DEF Operations, Threads
      <3>3. job.work # None
        BY <2>1, WorksAreNat
      <3> QED
        BY <1>2, <2>1, <2>3, <3>2, <3>3 DEF Meant, ForOpen, ForQueued
    <2> QED
      BY <1>15, <2>2, <2>3 DEF Opened
  <1> QED
    BY <1>3, <1>4, <1>5, <1>6, <1>7, <1>8, <1>9, <1>10, <1>11, <1>12, <1>13, <1>14, <1>15,
       OperationMoves

LEMMA InitRegular == Init => Regular
  <1> SUFFICES ASSUME Init PROVE Regular
    OBVIOUS
  <1>1. /\ \A w \in Works : /\ work[w].status = "absent" /\ work[w].execution = None
                            /\ work[w].delivery = "queue" /\ work[w].front = 0
        /\ thread.held = "no" /\ thread.execution = None
    BY DEF Init, NoWork
  <1>2. job = Idle /\ runtime = NoRuntime /\ pipe = NoInput /\ settlements = <<>>
        /\ halt.at = "idle" /\ halt.runtime = "none"
    BY DEF Init, Halting
  <1>3. active = {} /\ receipts.landed = {} /\ ~blocked
        /\ \A w \in Works : status[w].execution = None
    BY DEF Init, Native!Init, Status!Init
  <1>4. Soft /\ Halted
    BY <1>1, <1>2, <1>3 DEF Soft, Halted
  <1>5. Sent /\ Meant
    BY <1>2, IdleOperation, NothingAttached DEF Sent, Meant, ForOpen, ForQueued
  <1>6. Told /\ Accounted
    BY <1>1, <1>2, <1>3, IdleOperation DEF Told, Accounted, DispatchedIsOpen, NativeIsAccounted, Tracked
  <1> QED
    BY <1>4, <1>5, <1>6 DEF Regular

LEMMA StepRegular == Undisturbed /\ ThreadInv /\ Regular /\ [Next]_vars => Regular'
  <1> SUFFICES ASSUME Undisturbed, ThreadInv, Regular, [Next]_vars PROVE Regular'
    OBVIOUS
  <1>1. CASE Next
    BY <1>1, SoftStep, HaltedStep, SentStep, MeantStep, ToldStep, AccountedStep DEF Regular
  <1>2. CASE UNCHANGED vars
    <2>1. /\ UNCHANGED <<work, thread, custody, runtime, job, halt, settlements, pipe>>
          /\ UNCHANGED <<receipts, alive, active, inbox, unacked, blocked, status>>
      BY <1>2 DEF vars, durable, memory, nativeVars
    <2>2. Soft' /\ Halted' /\ Sent'
      BY <2>1 DEF Regular, Soft, Halted, Sent
    <2>3. Meant'
      BY <2>1 DEF Regular, Meant, ForOpen, ForQueued, IsQueued
    <2>4. Told' /\ Accounted'
      BY <2>1 DEF Regular, Told, Accounted, DispatchedIsOpen, NativeIsAccounted, Tracked
    <2> QED
      BY <2>2, <2>3, <2>4 DEF Regular
  <1> QED
    BY <1>1, <1>2

\* The hypothesis is on the constants, so it holds of the steps as well.
LEMMA RegularThread == Undisturbed /\ Spec => []Regular
  <1>1. ASSUME Undisturbed
        PROVE  Spec => []Regular
    <2>1. ThreadInv /\ Regular /\ [Next]_vars => Regular'
      BY <1>1, StepRegular
    <2> QED
      BY <2>1, InitRegular, Thread, PTL DEF Spec
  <1> QED
    BY <1>1

\* Unless a successor, a hard steer or a rejection by Pi comes in between, a
\* dispatched input belongs to the open execution through halts, exits of the
\* session, recoveries and late answers, so there is somebody to settle it.
THEOREM DispatchedOpen == Undisturbed /\ Spec => []DispatchedIsOpen
  <1>1. Regular => DispatchedIsOpen
    BY DEF Regular, Accounted
  <1> QED
    BY <1>1, RegularThread, PTL

\* Under the same conditions the session runs only what the durable rows say
\* is dispatched into the open execution: nothing runs unaccounted for.
THEOREM NativeAccounted == Undisturbed /\ Spec => []NativeIsAccounted
  <1>1. Regular => NativeIsAccounted
    BY DEF Regular, Accounted
  <1> QED
    BY <1>1, RegularThread, PTL

\* And capacity custody covers it as long as it runs, so that the authority
\* never hands the same capacity to somebody else.
THEOREM NativeCustody == Undisturbed /\ Spec => []NativeHasCustody
  <1>1. ThreadInv /\ Regular => NativeHasCustody
    <2> SUFFICES ASSUME ThreadInv, Regular, active # {}
                 PROVE  \E w \in Works : custody[w] \in {"held", "entered"}
      BY DEF NativeHasCustody
    <2>1. thread.execution # None
      BY NothingOpen DEF Regular
    <2>2. thread.execution \in Works
      BY <2>1 DEF ThreadInv, Typed, Threads
    <2> QED
      BY <2>1, <2>2 DEF Regular, Accounted
  <1> QED
    BY <1>1, RegularThread, Thread, PTL

\* And an input in the queue is neither in the conversation nor in the run of
\* the session, so dispatching it again repeats nothing.
THEOREM QueuedUndelivered == Undisturbed /\ Spec => []QueuedIsUndelivered
  <1>1. Regular => QueuedIsUndelivered
    BY DEF Regular, Accounted, NativeIsAccounted, QueuedIsUndelivered, Queued, IsQueued
  <1> QED
    BY <1>1, RegularThread, PTL

\* Inputs were sent in the order of their numbers, and the one that is about
\* to open an execution is the first that waits.
InTurn ==
  /\ \A v, w \in Works : v < w /\ work[v].status = "absent" => work[w].status = "absent"
  /\ ForQueued /\ thread.execution = None /\ thread.held = "no" /\ IsQueued(job.work)
       => \A v \in Queued : job.work <= v

LEMMA SentInOrder ==
  ASSUME Moves, \A v, w \in Works : v < w /\ work[v].status = "absent" => work[w].status = "absent"
  PROVE  \A v, w \in Works : v < w /\ work'[v].status = "absent" => work'[w].status = "absent"
  <1> SUFFICES ASSUME NEW v \in Works, NEW w \in Works, v < w, work'[v].status = "absent"
               PROVE  work'[w].status = "absent"
    OBVIOUS
  <1>1. work[v].status = "absent" /\ work[w].status = "absent"
    BY DEF Moves
  <1>2. v \in 1..(w - 1)
    BY ExecutionAssumption DEF Works
  <1> QED
    BY <1>1, <1>2 DEF Moves

\* What drain chooses while nothing is open is the first input that waits.
LEMMA ChosenIsFirst ==
  ASSUME work \in [Works -> Rows], Soft, NEW a \in {"none", "live"}, Chosen(None, a).at # "idle"
  PROVE  \A v \in Queued : Chosen(None, a).work <= v
  <1>1. /\ Selectable(None) # {}
        /\ Chosen(None, a) = [Idle EXCEPT !.at = "prepare", !.work = First(Selectable(None)),
                                          !.execution = None, !.runtime = a]
    BY IdleOperation DEF Chosen
  <1>2. Selectable(None) = Queued /\ Queued \in SUBSET Works
    BY DEF Selectable, Queued
  <1>3. First(Queued) \in Queued /\ \A v \in Queued \ {First(Queued)} : Ahead(First(Queued), v)
    BY <1>1, <1>2, FirstIsOne
  <1>4. Chosen(None, a).work = First(Queued)
    BY <1>1, <1>2 DEF Idle
  <1> SUFFICES ASSUME NEW v \in Queued
               PROVE  First(Queued) <= v
    BY <1>4
  <1>5. CASE v = First(Queued)
    <2>1. v \in Nat
      BY <1>2, WorksAreNat
    <2> QED
      BY <1>5, <2>1
  <1>6. CASE v # First(Queued)
    <2>1. Ahead(First(Queued), v)
      BY <1>3, <1>6
    <2>2. v \in Works /\ First(Queued) \in Works
      BY <1>2, <1>3
    <2>3. work[v].front = 0 /\ work[First(Queued)].front = 0
      BY <2>2 DEF Soft
    <2>4. First(Queued) < v
      BY <2>1, <2>3 DEF Ahead
    <2>5. v \in Nat /\ First(Queued) \in Nat
      BY <2>2, WorksAreNat
    <2> QED
      BY <2>4, <2>5
  <1> QED
    BY <1>5, <1>6

LEMMA InTurnStep ==
  ASSUME Undisturbed, ThreadInv, Regular, InTurn, Next
  PROVE  InTurn'
  <1> USE DEF ThreadInv, Regular
  <1>1. /\ work \in [Works -> Rows] /\ job \in Operations /\ thread \in Threads
        /\ thread.execution \in Works \cup {None} /\ job.execution \in Works \cup {None}
        /\ (job.at \in Concerns => job.work \in Works)
    BY DEF Typed, Threads, Operations
  <1>2. Moves
    BY MovesStep
  <1>3. \A v, w \in Works : v < w /\ work'[v].status = "absent" => work'[w].status = "absent"
    BY <1>2, SentInOrder DEF InTurn
  <1> SUFFICES ASSUME ForQueued', thread'.execution = None, thread'.held = "no",
                      IsQueued(job.work)', NEW v \in Works, work'[v].status = "queued"
               PROVE  job'.work <= v
    BY <1>3 DEF InTurn, Queued, IsQueued
  <1>4. ASSUME ForQueued, job'.work = job.work, thread.held = "no", thread.execution = None,
               IsQueued(job.work), work'[v].status = "queued"
        PROVE  job'.work <= v
    <2>1. job.work \in Works /\ \A u \in Queued : job.work <= u
      BY <1>1, <1>4 DEF ForQueued, Concerns, InTurn
    <2>2. CASE work[v].status = "queued"
      BY <1>4, <2>1, <2>2 DEF Queued, IsQueued
    <2>3. CASE work[v].status = "absent"
      <3>1. ~(v < job.work)
        BY <1>4, <2>1, <2>3 DEF InTurn, IsQueued
      <3>2. v \in Nat /\ job.work \in Nat
        BY <2>1, WorksAreNat
      <3>3. job.work <= v
        BY <3>1, <3>2
      <3> QED
        BY <1>4, <3>3
    <2>4. work[v].status # "dispatched"
      BY <1>4, NothingOpen
    <2> QED
      BY <1>2, <1>4, <2>2, <2>3, <2>4 DEF Moves
  <1>5. CASE job' \in {job, Lost(job)}
    <2>1. job'.at = job.at /\ job'.work = job.work
      BY <1>1, <1>5, LostOperation
    <2>2. ForQueued /\ job.work \in Works
      BY <1>1, <2>1 DEF ForQueued, Concerns
    <2>3. thread.execution = None /\ work[job.work].status # "dispatched"
      <3>1. thread'.execution = thread.execution
        BY <1>5, BesideStep
      <3>2. work[job.work].status # "dispatched"
        BY <2>2 DEF Meant
      <3> QED
        BY <3>1, <3>2
    <2>4. thread.held = "no" /\ IsQueued(job.work)
      <3>1. work'[job.work].status = "queued"
        BY <2>1 DEF IsQueued
      <3>2. work[job.work].status \in {"queued", "done"}
        BY <2>2 DEF Meant
      <3>3. thread.held = "no"
        BY <2>2, <3>1, HoldLifts
      <3> QED
        BY <1>2, <2>2, <3>1, <3>2, <3>3 DEF Moves, IsQueued
    <2> QED
      BY <1>4, <2>1, <2>2, <2>3, <2>4
  <1>6. job'.at \in {"prepare", "acquire", "admit", "replaced", "open"}
    BY DEF ForQueued
  <1>7. ASSUME NEW a \in {"none", "live"}, job' = Chosen(None, a),
               \A w \in Works : work'[w].status = "queued" => work[w].status = "queued"
        PROVE  job'.work <= v
    <2>1. v \in Queued /\ Chosen(None, a).at # "idle"
      BY <1>6, <1>7 DEF Queued, IsQueued
    <2> QED
      BY <1>1, <1>7, <2>1, ChosenIsFirst
  <1>8. CASE DrainSelect \/ DrainAfterHalt
    BY <1>7, <1>8 DEF DrainSelect, DrainAfterHalt, durable
  <1>9. CASE Probed
    <2>1. job.at = "probe" /\ job.runtime = "live" /\ job.work \in Works /\ halt' = halt
          /\ (job' = Idle \/ job' = Chosen(job.execution, "live"))
      BY <1>1, <1>9 DEF Probed, Concerns
    <2>2. thread.held = "no" /\ thread.execution = None
      BY <1>1, <1>9, EndWaitThread DEF Probed
    <2>3. job.execution = None
      BY <2>1, <2>2 DEF Meant, ForOpen, Halted
    <2>4. \A w \in Works : work'[w].status = "queued" => work[w].status = "queued"
      <3>1. work' \in {work, Inserted(job.work, FALSE), Retired(job.work)}
        BY <1>9 DEF Probed
      <3>2. CASE work' = Inserted(job.work, FALSE)
        BY <1>1, <2>1, <3>2, InsertedRows DEF Alike
      <3>3. CASE work' = Retired(job.work)
        BY <1>1, <2>1, <3>3, RetiredRows
      <3> QED
        BY <3>1, <3>2, <3>3
    <2> QED
      BY <1>6, <1>7, <2>1, <2>3, <2>4, IdleOperation
  <1>10. CASE Prepared \/ Acquired \/ Replaced \/ Admitted
    <2>1. ForQueued /\ thread' = thread
      BY <1>10 DEF Prepared, Acquired, Replaced, Admitted, ForQueued, durable
    <2>2. work' = work /\ job'.work = job.work
      <3>1. CASE Prepared
        <4>1. \/ job' = Idle
              \/ work' = work /\ job' = [job EXCEPT !.at = "acquire"]
              \/ job' = [job EXCEPT !.at = "deliver", !.runtime = job.runtime, !.prompt = ~runtime.busy]
          BY <3>1 DEF Prepared, Dispatched
        <4>2. [job EXCEPT !.at = "deliver", !.runtime = job.runtime, !.prompt = ~runtime.busy].at = "deliver"
          BY <1>1 DEF Operations
        <4> QED
          BY <1>1, <1>6, <4>1, <4>2, IdleOperation DEF Operations
      <3>2. CASE Acquired \/ Admitted
        BY <1>1, <1>6, <3>2, IdleOperation DEF Acquired, Admitted, GiveUp, Operations
      <3>3. CASE Replaced
        BY <1>1, <3>3 DEF Replaced, durable, Operations
      <3> QED
        BY <1>10, <3>1, <3>2, <3>3
    <2> QED
      BY <1>4, <2>1, <2>2 DEF IsQueued
  <1>11. ~DrainProbe /\ ~Opened /\ ~Reopened /\ ~Renamed
    <2>1. DrainProbe => job'.at = "probe"
      BY DEF DrainProbe, Idle
    <2>2. Reopened => job'.at = "rename"
      BY <1>1 DEF Reopened, Operations
    <2>3. ~Opened
      <3>1. SUFFICES ASSUME Opened PROVE FALSE
        OBVIOUS
      <3>2. \/ job' = [Idle EXCEPT !.at = "park", !.runtime = "live"]
            \/ thread' = [thread EXCEPT !.execution = job.work] /\ job.work \in Works
        BY <1>1, <3>1 DEF Opened, Concerns
      <3>3. [Idle EXCEPT !.at = "park", !.runtime = "live"].at = "park"
        BY DEF Idle
      <3> QED
        BY <1>1, <1>6, <3>2, <3>3, WorksAreNat DEF Threads
    <2>4. Renamed => thread.execution # None
      BY DEF Renamed, Linked, Recovering, Reopening
    <2>5. ASSUME Renamed
          PROVE  FALSE
      <3>1. \/ job' = Idle
            \/ \E o : FinishBy(o, [runtime EXCEPT !.execution = thread.execution], work, thread, TRUE)
            \/ \E w : job' = [job EXCEPT !.at = "redeliver", !.work = w]
        BY <2>5 DEF Renamed
      <3>2. ASSUME NEW w, job' = [job EXCEPT !.at = "redeliver", !.work = w]
            PROVE  job'.at = "redeliver"
        BY <1>1, <3>2 DEF Operations
      <3>3. ASSUME NEW o, FinishBy(o, [runtime EXCEPT !.execution = thread.execution], work, thread, TRUE)
            PROVE  job'.at \in {"idle", "finishing", "park"}
        BY <3>3, FinishByAt
      <3> QED
        BY <1>6, <3>1, <3>2, <3>3, IdleOperation
    <2> QED
      BY <1>6, <2>1, <2>2, <2>3, <2>5
  <1>12. job'.at \notin Elsewhere
    BY <1>6 DEF Elsewhere
  <1> QED
    BY <1>5, <1>8, <1>9, <1>10, <1>11, <1>12, OperationMoves

\* Under the same conditions a turn is opened by the input that was sent first
\* of those that wait, although it was chosen several awaits before.
THEOREM OpenedInOrder == Undisturbed /\ Spec => OpensInOrder
  <1>1. Init => InTurn
    BY IdleOperation DEF Init, NoWork, InTurn, ForQueued
  <1>2. ASSUME Undisturbed, ThreadInv, Regular, InTurn, [Next]_vars
        PROVE  InTurn'
    <2>1. CASE UNCHANGED vars
      BY <1>2, <2>1 DEF vars, durable, memory, InTurn, ForQueued, Queued, IsQueued
    <2> QED
      BY <1>2, <2>1, InTurnStep
  <1>3. ASSUME Undisturbed, ThreadInv, Regular, InTurn, Next, NEW w \in Works,
               thread.execution = None, thread'.execution = w, NEW v \in Queued \ {w}
        PROVE  work[v].front <= work[w].front /\ (work[v].front = work[w].front => w < v)
    <2>1. w # None /\ v \in Works
      BY WorksAreNat DEF Queued
    <2>2. job.at = "open" /\ thread.held = "no" /\ job.work = w /\ IsQueued(w)
      BY <1>3, <2>1, MovesStep DEF Moves, IsQueued
    <2>3. w <= v
      BY <1>3, <2>2 DEF InTurn, ForQueued
    <2>4. work[v].front = 0 /\ work[w].front = 0
      BY <1>3, <2>1 DEF Regular, Soft
    <2> QED
      BY <1>3, <2>1, <2>3, <2>4, WorksAreNat
  <1>4. ASSUME Undisturbed
        PROVE  Spec => OpensInOrder
    <2>1. ThreadInv /\ Regular /\ InTurn /\ [Next]_vars => InTurn'
      BY <1>2, <1>4
    <2>2. ThreadInv /\ Regular /\ InTurn /\ [Next]_vars
            => [\A w \in Works : thread.execution = None /\ thread'.execution = w =>
                  \A v \in Queued \ {w} : work[v].front <= work[w].front
                                          /\ (work[v].front = work[w].front => w < v)]_vars
      BY <1>3, <1>4
    <2>3. Spec => []Regular
      BY <1>4, RegularThread
    <2> QED
      BY <1>1, <2>1, <2>2, <2>3, Thread, PTL DEF Spec, OpensInOrder
  <1> QED
    BY <1>4
=============================================================================
