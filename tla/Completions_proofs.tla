------------------------ MODULE Completions_proofs ------------------------
(***************************************************************************)
(* Completions for any requests, any number of attempts and any deaths of  *)
(* the daemon and of the host. The invariant says which attempt a record,  *)
(* the work of the host, a receipt file and a reader of one speak of.      *)
(***************************************************************************)
EXTENDS Completions, FiniteSetTheorems, TLAPS

States == {"none", "queued", "running", "completed", "failed", "cancelled", "indeterminate"}
RunStates == {"none", "queued", "starting", "running", "done", "failed", "aborted"}
Results == Outcomes \cup {None}

Record == [state : States, attempt : 0..MaxAttempts, receipt : Results, count : 0..MaxAttempts]
Run == [state : RunStates, assigned : BOOLEAN]
File == [attempt : 0..MaxAttempts, outcome : Results]
Work == [attempt : 0..MaxAttempts, sent : BOOLEAN]
Feedback == [limit : Nat, blocked : BOOLEAN, successes : Nat]
Reader == [at : {"idle", "read", "settled"}, request : Requests \cup {None}, file : File]

TypeOK ==
  /\ record \in [Requests -> Record]
  /\ run \in [Requests -> Run]
  /\ lease \in [Requests -> {"none", "open", "ended"}]
  /\ evidence \in [Requests -> [Attempts -> Results]]
  /\ abort \in [Requests -> BOOLEAN]
  /\ files \in [Requests -> File]
  /\ pool \subseteq Requests /\ starts \subseteq Requests
  /\ host \in [mode : {"down", "starting", "up", "closing"}, busy : Requests \cup {None}]
  /\ active \in [Requests -> Work]
  /\ recon \in [{"daemon", "host"} -> Reader]
  /\ sent \in [Requests -> SUBSET Attempts]
  /\ charged \in [Requests -> {0, 1}] /\ crashes \in Nat
  /\ feedback \in Feedback

\* Of the attempts of a completion only the one it has claimed may be
\* anything but refused, and the record says what became of that one.
RecordOK(r) ==
  /\ record[r].attempt \in {0, record[r].count}
  /\ record[r].attempt = 0 => record[r].count < MaxAttempts /\ record[r].receipt = None
  /\ record[r].attempt # 0 => record[r].receipt = evidence[r][record[r].attempt]
  /\ record[r].state \in {"none", "queued"} => record[r].attempt = 0
  /\ record[r].state = "running" => record[r].attempt # 0
  /\ \A a \in Attempts : a \in sent[r] \/ evidence[r][a] # None => a <= record[r].count
  /\ \A a \in sent[r] : a # record[r].attempt => evidence[r][a] \in Refusals
  /\ \A a \in Attempts : evidence[r][a] \in Refusals => a < MaxAttempts
  /\ charged[r] = 1 <=> record[r].attempt # 0 /\ record[r].receipt = "completed"

\* An assigned run that has no answer holds a lease.
RunOK(r) ==
  /\ RunEnded(run[r].state) => Terminal(record[r].state)
  /\ record[r].state = "none" => run[r].state = "none" /\ ~run[r].assigned
  /\ run[r].assigned /\ ~Terminal(record[r].state) => lease[r] = "open"

\* The host works at the claimed attempt, which has no receipt yet.
WorkOK(r) ==
  /\ active[r].attempt = 0 => ~active[r].sent
  /\ active[r] # NoWork => host.mode \in {"up", "closing"} /\ r \notin starts
  /\ host.busy = r => active[r] # NoWork
  /\ active[r] # NoWork /\ host.busy # r =>
       /\ active[r].attempt = record[r].attempt /\ record[r].receipt = None
       /\ record[r].state \in {"running", "cancelled"} /\ lease[r] = "open"
       /\ active[r].sent <=> record[r].attempt \in sent[r]

\* A receipt is of the last attempt, and the service accepts it.
Receipt(r, f) ==
  /\ f.attempt = record[r].count /\ f.attempt \in Attempts /\ f.outcome \in Outcomes
  /\ Acceptable(r, f)
  /\ Known(r, f) \/ record[r].state \in {"running", "cancelled"}
  /\ f.outcome = "completed" => f.attempt \in sent[r]
  /\ f.outcome \in Refusals => f.attempt < MaxAttempts

FileOK(r) ==
  files[r] # NoFile =>
    Receipt(r, files[r]) /\ (host.mode \in {"down", "starting"} \/ host.busy = r)

\* Whoever has read a file knows it as it is, or settled and removed by the
\* other; and no new attempt is made meanwhile.
ReaderOK(p) ==
  recon[p].at # "idle" =>
    /\ recon[p].request \in Requests /\ Receipt(recon[p].request, recon[p].file)
    /\ files[recon[p].request] \in {recon[p].file, NoFile}
    /\ recon[p].at = "settled" \/ files[recon[p].request] = NoFile => Known(recon[p].request, recon[p].file)
    /\ p = "daemon" => recon[p].request \notin starts
    /\ p = "host" => HostReconciling

CompletionInv ==
  /\ TypeOK
  /\ \A r \in Requests : RecordOK(r) /\ RunOK(r) /\ WorkOK(r) /\ FileOK(r)
  /\ \A p \in {"daemon", "host"} : ReaderOK(p)
  /\ host.mode \in {"down", "starting"} => starts = {} /\ host.busy = None

-----------------------------------------------------------------------------
(* Shapes.                                                                 *)

LEMMA Rows ==
  ASSUME TypeOK, NEW r \in Requests
  PROVE  /\ record[r] \in Record /\ run[r] \in Run /\ lease[r] \in {"none", "open", "ended"}
         /\ files[r] \in File /\ active[r] \in Work /\ sent[r] \subseteq Attempts
         /\ evidence[r] \in [Attempts -> Results] /\ charged[r] \in {0, 1}
  BY DEF TypeOK

LEMMA Fields ==
  /\ \A c \in Record : c.state \in States /\ c.attempt \in 0..MaxAttempts /\ c.receipt \in Results /\ c.count \in 0..MaxAttempts
  /\ \A f \in File : f.attempt \in 0..MaxAttempts /\ f.outcome \in Results
  /\ \A o \in Reader : o.at \in {"idle", "read", "settled"} /\ o.request \in Requests \cup {None} /\ o.file \in File
  /\ \A w \in Work : w.attempt \in 0..MaxAttempts /\ w.sent \in BOOLEAN
  /\ MaxAttempts \in Nat /\ Attempts \subseteq 0..MaxAttempts /\ 0 \notin Attempts /\ 0 \in 0..MaxAttempts
  /\ NoRecord \in Record /\ NoFile \in File /\ Idle \in Reader /\ NoWork \in Work
<1>1. MaxAttempts \in Nat /\ Attempts \subseteq 0..MaxAttempts /\ 0 \notin Attempts /\ 0 \in 0..MaxAttempts
  BY CompletionAssumption DEF Attempts
<1>2. NoRecord \in Record
  BY <1>1 DEF NoRecord, Record, States, Results
<1>3. NoFile \in File
  BY <1>1 DEF NoFile, File, Results
<1>4. Idle \in Reader /\ NoWork \in Work
  <2>1. Idle \in Reader
    BY <1>3 DEF Idle, Reader
  <2>2. NoWork \in Work
    BY <1>1 DEF NoWork, Work
  <2> QED
    BY <2>1, <2>2
<1>5. \A c \in Record : c.state \in States /\ c.attempt \in 0..MaxAttempts /\ c.receipt \in Results /\ c.count \in 0..MaxAttempts
  BY DEF Record
<1>6. \A f \in File : f.attempt \in 0..MaxAttempts /\ f.outcome \in Results
  BY DEF File
<1>7. \A o \in Reader : o.at \in {"idle", "read", "settled"} /\ o.request \in Requests \cup {None} /\ o.file \in File
  BY DEF Reader
<1>8. \A w \in Work : w.attempt \in 0..MaxAttempts /\ w.sent \in BOOLEAN
  BY DEF Work
<1> QED
  BY <1>1, <1>2, <1>3, <1>4, <1>5, <1>6, <1>7, <1>8

LEMMA FeedbackShapes ==
  ASSUME TypeOK
  PROVE  /\ Succeeded \in Feedback
         /\ \A observed \in Nat : [limit |-> Halved(observed), blocked |-> TRUE, successes |-> 0] \in Feedback
         /\ ActiveCompletions \in Nat
<1>1. feedback \in Feedback
  BY DEF TypeOK
<1>2. ActiveCompletions \in Nat
  <2> DEFINE O == {r \in Requests : lease[r] = "open"}
  <2>1. IsFiniteSet(O)
    BY CompletionAssumption, FS_Subset
  <2> QED
    BY <2>1, FS_CardinalityType DEF ActiveCompletions
<1>3. ASSUME NEW observed \in Nat PROVE [limit |-> Halved(observed), blocked |-> TRUE, successes |-> 0] \in Feedback
  <2>1. \A base \in Nat : base \div 2 \in Nat
    OBVIOUS
  <2>2. Halved(observed) \in Nat
    BY <1>1, <2>1 DEF Halved, Feedback
  <2> QED
    BY <2>2 DEF Feedback
<1>4. Succeeded \in Feedback
  <2>1. 2 * feedback.limit \in Nat /\ feedback.successes + 1 \in Nat
    BY <1>1 DEF Feedback
  <2>2. [feedback EXCEPT !.limit = 2 * @, !.successes = 0] \in Feedback
    BY <1>1, <2>1 DEF Feedback
  <2>3. [feedback EXCEPT !.successes = @ + 1] \in Feedback
    BY <1>1, <2>1 DEF Feedback
  <2> QED
    BY <1>1, <2>2, <2>3 DEF Succeeded
<1> QED
  BY <1>2, <1>3, <1>4

\* The ways a record changes.
InState(c, s) == [c EXCEPT !.state = s]
Requeued(c) == [c EXCEPT !.state = "queued", !.attempt = 0, !.receipt = None]
Answered(c, o, s) == [c EXCEPT !.receipt = o, !.state = s]
Claimed(c, a) == [c EXCEPT !.state = "running", !.attempt = a, !.count = a]

LEMMA RecordInState ==
  ASSUME NEW c \in Record, NEW s \in States
  PROVE  /\ InState(c, s) \in Record /\ InState(c, s).state = s /\ InState(c, s).attempt = c.attempt
         /\ InState(c, s).receipt = c.receipt /\ InState(c, s).count = c.count
<1>1. InState(c, s) \in Record
  BY DEF InState, Record
<1>2. InState(c, s).state = s /\ InState(c, s).attempt = c.attempt
  BY DEF InState, Record
<1>3. InState(c, s).receipt = c.receipt /\ InState(c, s).count = c.count
  BY DEF InState, Record
<1> QED
  BY <1>1, <1>2, <1>3

LEMMA RecordRequeued ==
  ASSUME NEW c \in Record
  PROVE  /\ Requeued(c) \in Record /\ Requeued(c).state = "queued" /\ Requeued(c).attempt = 0
         /\ Requeued(c).receipt = None /\ Requeued(c).count = c.count
<1>1. Requeued(c) \in Record
  BY Fields DEF Requeued, Record, States, Results
<1>2. Requeued(c).state = "queued" /\ Requeued(c).attempt = 0
  BY DEF Requeued, Record
<1>3. Requeued(c).receipt = None /\ Requeued(c).count = c.count
  BY DEF Requeued, Record
<1> QED
  BY <1>1, <1>2, <1>3

LEMMA RecordAnswered ==
  ASSUME NEW c \in Record, NEW o \in Results, NEW s \in States
  PROVE  /\ Answered(c, o, s) \in Record /\ Answered(c, o, s).state = s /\ Answered(c, o, s).receipt = o
         /\ Answered(c, o, s).attempt = c.attempt /\ Answered(c, o, s).count = c.count
<1>1. Answered(c, o, s) \in Record
  BY DEF Answered, Record
<1>2. Answered(c, o, s).state = s /\ Answered(c, o, s).receipt = o
  BY DEF Answered, Record
<1>3. Answered(c, o, s).attempt = c.attempt /\ Answered(c, o, s).count = c.count
  BY DEF Answered, Record
<1> QED
  BY <1>1, <1>2, <1>3

LEMMA RecordClaimed ==
  ASSUME NEW c \in Record, NEW a \in Attempts
  PROVE  /\ Claimed(c, a) \in Record /\ Claimed(c, a).state = "running" /\ Claimed(c, a).attempt = a
         /\ Claimed(c, a).receipt = c.receipt /\ Claimed(c, a).count = a
<1>1. Claimed(c, a) \in Record
  BY Fields DEF Claimed, Record, States
<1>2. Claimed(c, a).state = "running" /\ Claimed(c, a).attempt = a
  BY DEF Claimed, Record
<1>3. Claimed(c, a).receipt = c.receipt /\ Claimed(c, a).count = a
  BY DEF Claimed, Record
<1> QED
  BY <1>1, <1>2, <1>3

-----------------------------------------------------------------------------
(* What a step leaves alone.                                               *)

SameRow(q) ==
  /\ record'[q] = record[q] /\ run'[q] = run[q] /\ lease'[q] = lease[q] /\ evidence'[q] = evidence[q]
  /\ charged'[q] = charged[q] /\ sent'[q] = sent[q] /\ files'[q] = files[q] /\ active'[q] = active[q]
  /\ q \in starts' <=> q \in starts

RowOK(q) == RecordOK(q) /\ RunOK(q) /\ WorkOK(q) /\ FileOK(q)

LEMMA Elsewhere ==
  ASSUME CompletionInv, NEW q \in Requests, SameRow(q)
  PROVE  /\ RecordOK(q)' /\ RunOK(q)'
         /\ UNCHANGED host => RowOK(q)'
<1>1. RecordOK(q) /\ RunOK(q) /\ WorkOK(q) /\ FileOK(q)
  BY DEF CompletionInv
<1>2. RecordOK(q)'
  BY <1>1 DEF RecordOK, SameRow
<1>3. RunOK(q)'
  BY <1>1 DEF RunOK, SameRow
<1>4. ASSUME UNCHANGED host PROVE WorkOK(q)'
  BY <1>1, <1>4 DEF WorkOK, SameRow
<1>5. ASSUME UNCHANGED host PROVE FileOK(q)'
  BY <1>1, <1>5 DEF FileOK, SameRow, Receipt, Acceptable, Known
<1> QED
  BY <1>2, <1>3, <1>4, <1>5 DEF RowOK

\* A receipt stays one unless the record turns from its attempt.
LEMMA ReceiptStays ==
  ASSUME CompletionInv, NEW r \in Requests, NEW f \in File, Receipt(r, f),
         record'[r].count = record[r].count, sent[r] \subseteq sent'[r],
         \/ evidence'[r][f.attempt] = f.outcome
         \/ /\ evidence'[r] = evidence[r] /\ record'[r].attempt = record[r].attempt
            /\ record'[r].receipt = record[r].receipt
            /\ Known(r, f) \/ record'[r].state \in {"running", "cancelled"}
  PROVE  Receipt(r, f)'
<1>1. CASE evidence'[r][f.attempt] = f.outcome
  BY <1>1 DEF Receipt, Acceptable, Known, Outcomes, None
<1>2. CASE /\ evidence'[r] = evidence[r] /\ record'[r].attempt = record[r].attempt
           /\ record'[r].receipt = record[r].receipt
           /\ Known(r, f) \/ record'[r].state \in {"running", "cancelled"}
  BY <1>2 DEF Receipt, Acceptable, Known
<1> QED
  BY <1>1, <1>2

\* A reader is not disturbed by a step that keeps the files and the receipts.
LEMMA ReaderStays ==
  ASSUME CompletionInv, NEW p \in {"daemon", "host"}, recon'[p] = recon[p],
         HostReconciling => HostReconciling' \/ p # "host", starts' \subseteq starts \/ p # "daemon" \/ recon[p].at = "idle",
         \A r \in Requests, f \in File : recon[p].at # "idle" /\ recon[p].request = r /\ Receipt(r, f) =>
           Receipt(r, f)' /\ files'[r] = files[r] /\ evidence'[r] = evidence[r]
  PROVE  ReaderOK(p)'
<1> SUFFICES ASSUME recon[p].at # "idle" PROVE ReaderOK(p)'
  BY DEF ReaderOK
<1>1. ReaderOK(p) /\ recon[p] \in Reader
  BY DEF CompletionInv, TypeOK
<1>2. PICK r \in Requests : r = recon[p].request
  BY <1>1 DEF ReaderOK
<1>3. PICK f \in File : f = recon[p].file
  BY <1>1, Fields
<1>4. /\ Receipt(r, f) /\ files[r] \in {f, NoFile}
      /\ recon[p].at = "settled" \/ files[r] = NoFile => Known(r, f)
      /\ p = "daemon" => r \notin starts
      /\ p = "host" => HostReconciling
  BY <1>1, <1>2, <1>3 DEF ReaderOK
<1>5. Receipt(r, f)' /\ files'[r] = files[r] /\ evidence'[r] = evidence[r]
  BY <1>2, <1>4
<1>6. recon'[p].request = r /\ recon'[p].file = f /\ recon'[p].at = recon[p].at
  BY <1>2, <1>3
<1>7. Receipt(recon[p].request, recon[p].file)'
  BY <1>5, <1>6 DEF Receipt, Acceptable, Known
<1>8. Known(recon[p].request, recon[p].file)' <=> Known(r, f)
  BY <1>5, <1>6 DEF Known
<1> QED
  BY <1>4, <1>5, <1>6, <1>7, <1>8 DEF ReaderOK

\* A step of the ledger about one completion.
LEMMA LedgerStep ==
  ASSUME CompletionInv, NEW r \in Requests, TypeOK', UNCHANGED <<evidence, files, starts, host, active, sent, recon>>,
         \A q \in Requests \ {r} : SameRow(q),
         RecordOK(r)', RunOK(r)', WorkOK(r)',
         \A f \in File : Receipt(r, f) => Receipt(r, f)'
  PROVE  CompletionInv'
<1>1. ASSUME NEW q \in Requests, NEW f \in File, Receipt(q, f) PROVE Receipt(q, f)'
  <2>1. CASE q = r
    BY <1>1, <2>1
  <2>2. CASE q # r
    BY <1>1, <2>2 DEF SameRow, Receipt, Acceptable, Known
  <2> QED
    BY <2>1, <2>2
<1>2. FileOK(r)'
  <2> SUFFICES ASSUME files[r] # NoFile PROVE FileOK(r)'
    BY DEF FileOK
  <2>1. PICK f \in File : f = files[r]
    BY DEF CompletionInv, TypeOK
  <2>2. Receipt(r, f) /\ (host.mode \in {"down", "starting"} \/ host.busy = r)
    BY <2>1 DEF CompletionInv, FileOK
  <2>3. Receipt(r, f)'
    BY <1>1, <2>2
  <2>4. Receipt(r, files[r])'
    BY <2>1, <2>3 DEF Receipt, Acceptable, Known
  <2> QED
    BY <2>2, <2>4 DEF FileOK
<1>3. \A q \in Requests : RowOK(q)'
  BY <1>2, Elsewhere DEF RowOK
<1>4. ASSUME NEW p \in {"daemon", "host"} PROVE ReaderOK(p)'
  BY <1>1, ReaderStays DEF HostReconciling
<1> QED
  BY <1>3, <1>4 DEF CompletionInv, RowOK

-----------------------------------------------------------------------------
(* The daemon's steps.                                                     *)

LEMMA Here ==
  ASSUME CompletionInv, NEW r \in Requests
  PROVE  /\ TypeOK /\ RecordOK(r) /\ RunOK(r) /\ WorkOK(r) /\ FileOK(r)
         /\ record[r] \in Record /\ run[r] \in Run /\ lease[r] \in {"none", "open", "ended"}
         /\ files[r] \in File /\ active[r] \in Work /\ sent[r] \subseteq Attempts
         /\ evidence[r] \in [Attempts -> Results] /\ charged[r] \in {0, 1}
  BY Rows DEF CompletionInv

LEMMA SubmitInv ==
  ASSUME CompletionInv, NEW r \in Requests, Submit(r)
  PROVE  CompletionInv'
<1> DEFINE rec == InState(record[r], "queued")
<1>1. /\ record' = [record EXCEPT ![r] = rec] /\ run' = [run EXCEPT ![r].state = "queued"]
      /\ record[r].state = "none"
      /\ UNCHANGED <<lease, evidence, abort, feedback, charged, files, pool, starts, host, active, recon, sent, crashes>>
  BY DEF Submit, InState
<1>2. /\ rec \in Record /\ rec.state = "queued" /\ rec.attempt = record[r].attempt
      /\ rec.receipt = record[r].receipt /\ rec.count = record[r].count
  BY Here, RecordInState DEF States
<1> HIDE DEF rec
<1>3. [run[r] EXCEPT !.state = "queued"] \in Run
  BY Here DEF Run, RunStates
<1>4. TypeOK'
  BY <1>1, <1>2, <1>3 DEF CompletionInv, TypeOK
<1>5. record'[r] = rec /\ run'[r].state = "queued" /\ run'[r].assigned = run[r].assigned
  BY <1>1, Here DEF CompletionInv, TypeOK, Run
<1>6. \A q \in Requests \ {r} : SameRow(q)
  BY <1>1 DEF SameRow
<1>7. RecordOK(r)'
  BY <1>1, <1>2, <1>5, Here DEF RecordOK
<1>8. RunOK(r)'
  BY <1>1, <1>2, <1>5, Here DEF RunOK, RunEnded
<1>9. WorkOK(r)'
  BY <1>1, <1>2, <1>5, Here DEF WorkOK
<1>10. ASSUME NEW f \in File, Receipt(r, f) PROVE Receipt(r, f)'
  BY <1>1, <1>2, <1>5, <1>10, ReceiptStays DEF Receipt, Known
<1> QED
  BY <1>1, <1>4, <1>6, <1>7, <1>8, <1>9, <1>10, LedgerStep

LEMMA CancelInv ==
  ASSUME CompletionInv, NEW r \in Requests, Cancel(r)
  PROVE  CompletionInv'
<1> DEFINE rec == InState(record[r], "cancelled")
<1>1. /\ record' = [record EXCEPT ![r] = rec] /\ run' = [run EXCEPT ![r].state = "aborted"]
      /\ lease' = [lease EXCEPT ![r] = Reopened(r)] /\ abort' = [abort EXCEPT ![r] = TRUE]
      /\ record[r].state \in {"queued", "running"}
      /\ UNCHANGED <<evidence, feedback, charged, files, pool, starts, host, active, recon, sent, crashes>>
  BY DEF Cancel, InState
<1>2. /\ rec \in Record /\ rec.state = "cancelled" /\ rec.attempt = record[r].attempt
      /\ rec.receipt = record[r].receipt /\ rec.count = record[r].count
  BY Here, RecordInState DEF States
<1> HIDE DEF rec
<1>3. [run[r] EXCEPT !.state = "aborted"] \in Run /\ Reopened(r) \in {"none", "open", "ended"}
  BY Here DEF Run, RunStates, Reopened, EndLease
<1>4. TypeOK'
  BY <1>1, <1>2, <1>3 DEF CompletionInv, TypeOK
<1>5. record'[r] = rec /\ run'[r].state = "aborted" /\ lease'[r] = Reopened(r)
  BY <1>1, Here DEF CompletionInv, TypeOK, Run
<1>6. \A q \in Requests \ {r} : SameRow(q)
  BY <1>1 DEF SameRow
<1>7. RecordOK(r)'
  BY <1>1, <1>2, <1>5, Here DEF RecordOK
<1>8. RunOK(r)'
  BY <1>2, <1>5 DEF RunOK, Terminal
<1>9. WorkOK(r)'
  <2>1. active[r] # NoWork /\ host.busy # r => record[r].attempt # 0
    BY <1>1, Here DEF WorkOK, RecordOK
  <2> QED
    BY <1>1, <1>2, <1>5, <2>1, Here DEF WorkOK, Reopened
<1>10. ASSUME NEW f \in File, Receipt(r, f) PROVE Receipt(r, f)'
  BY <1>1, <1>2, <1>5, <1>10, ReceiptStays DEF Receipt, Known
<1> QED
  BY <1>1, <1>4, <1>6, <1>7, <1>8, <1>9, <1>10, LedgerStep

LEMMA RetryInv ==
  ASSUME CompletionInv, NEW r \in Requests, Retry(r)
  PROVE  CompletionInv'
<1> DEFINE rec == Requeued(record[r])
<1>1. /\ record' = [record EXCEPT ![r] = rec] /\ run' = [run EXCEPT ![r] = [state |-> "queued", assigned |-> FALSE]]
      /\ lease' = [lease EXCEPT ![r] = EndLease(@)]
      /\ record[r].state = "failed" /\ record[r].receipt \in Refusals /\ record[r].attempt # 0
      /\ UNCHANGED <<evidence, abort, charged, files, pool, starts, host, active, recon, sent, crashes>>
  BY DEF Retry, Requeue, Requeued
<1>2. /\ rec \in Record /\ rec.state = "queued" /\ rec.attempt = 0
      /\ rec.receipt = None /\ rec.count = record[r].count
  BY Here, RecordRequeued
<1> HIDE DEF rec
<1>3. feedback' \in Feedback
  <2>1. PICK observed \in 1..Cardinality(Requests) : RecordRejection(observed)
    BY DEF Retry
  <2>2. observed \in Nat
    OBVIOUS
  <2> QED
    BY <2>1, <2>2, FeedbackShapes DEF RecordRejection, CompletionInv
<1>4. TypeOK'
  <2>1. [state |-> "queued", assigned |-> FALSE] \in Run /\ EndLease(lease[r]) \in {"none", "open", "ended"}
    BY Here DEF Run, RunStates, EndLease
  <2> QED
    BY <1>1, <1>2, <1>3, <2>1 DEF CompletionInv, TypeOK
<1>5. record'[r] = rec /\ run'[r].state = "queued" /\ ~run'[r].assigned
  BY <1>1 DEF CompletionInv, TypeOK
<1>6. \A q \in Requests \ {r} : SameRow(q)
  BY <1>1 DEF SameRow
<1>7. RecordOK(r)'
  <2>1. record[r].attempt \in Attempts /\ record[r].attempt = record[r].count /\ record[r].attempt < MaxAttempts
    BY <1>1, Here, Fields DEF RecordOK, Record, Attempts
  <2>2. evidence[r][record[r].attempt] \in Refusals /\ charged[r] = 0
    BY <1>1, Here DEF RecordOK, Refusals
  <2> QED
    BY <1>1, <1>2, <1>5, <2>1, <2>2, Here DEF RecordOK
<1>8. RunOK(r)'
  BY <1>2, <1>5 DEF RunOK, RunEnded
<1>9. WorkOK(r)'
  BY <1>1, Here DEF WorkOK
<1>10. ASSUME NEW f \in File, Receipt(r, f) PROVE Receipt(r, f)'
  BY <1>1, <1>2, <1>5, <1>10, ReceiptStays DEF Receipt, Known
<1> QED
  BY <1>1, <1>4, <1>6, <1>7, <1>8, <1>9, <1>10, LedgerStep

LEMMA LaunchInv ==
  ASSUME CompletionInv, NEW r \in Requests, Launch(r)
  PROVE  CompletionInv'
<1>1. /\ run' = [run EXCEPT ![r] = [state |-> "starting", assigned |-> TRUE]]
      /\ lease' = [lease EXCEPT ![r] = "open"] /\ pool' = pool \cup {r} /\ run[r].state = "queued"
      /\ UNCHANGED <<record, evidence, abort, feedback, charged, files, starts, host, active, recon, sent, crashes>>
  BY DEF Launch
<1>2. TypeOK'
  <2>1. [state |-> "starting", assigned |-> TRUE] \in Run
    BY DEF Run, RunStates
  <2> QED
    BY <1>1, <2>1 DEF CompletionInv, TypeOK
<1>3. run'[r].state = "starting" /\ lease'[r] = "open"
  BY <1>1 DEF CompletionInv, TypeOK
<1>4. \A q \in Requests \ {r} : SameRow(q)
  BY <1>1 DEF SameRow
<1>5. RecordOK(r)'
  BY <1>1, Here DEF RecordOK
<1>6. RunOK(r)'
  BY <1>1, <1>3, Here DEF RunOK, RunEnded
<1>7. WorkOK(r)'
  BY <1>1, <1>3, Here DEF WorkOK
<1>8. ASSUME NEW f \in File, Receipt(r, f) PROVE Receipt(r, f)'
  BY <1>1, <1>8 DEF Receipt, Acceptable, Known
<1> QED
  BY <1>1, <1>2, <1>4, <1>5, <1>6, <1>7, <1>8, LedgerStep

\* A step of a process that leaves the ledger and the files.
LEMMA ProcessStep ==
  ASSUME CompletionInv, TypeOK', UNCHANGED <<record, run, lease, evidence, charged, files, sent>>,
         \A q \in Requests : WorkOK(q)',
         \A q \in Requests : files[q] # NoFile => host'.mode \in {"down", "starting"} \/ host'.busy = q,
         \A p \in {"daemon", "host"} :
           recon'[p].at = "idle" \/ (recon'[p] = recon[p] /\ (HostReconciling => HostReconciling' \/ p # "host")),
         starts' \subseteq starts \/ recon["daemon"].at = "idle",
         host'.mode \in {"down", "starting"} => starts' = {} /\ host'.busy = None
  PROVE  CompletionInv'
<1>1. ASSUME NEW q \in Requests PROVE RecordOK(q)' /\ RunOK(q)' /\ FileOK(q)'
  <2>1. RecordOK(q)'
    BY Here DEF RecordOK
  <2>2. RunOK(q)'
    BY Here DEF RunOK
  <2>3. FileOK(q)'
    BY Here DEF FileOK, Receipt, Acceptable, Known
  <2> QED
    BY <2>1, <2>2, <2>3
<1>2. ASSUME NEW p \in {"daemon", "host"} PROVE ReaderOK(p)'
  <2>1. CASE recon'[p].at = "idle"
    BY <2>1 DEF ReaderOK
  <2>2. CASE recon'[p] = recon[p] /\ (HostReconciling => HostReconciling' \/ p # "host")
    <3>1. \A r \in Requests, f \in File : Receipt(r, f) => Receipt(r, f)'
      BY DEF Receipt, Acceptable, Known
    <3> QED
      BY <2>2, <3>1, ReaderStays
  <2> QED
    BY <2>1, <2>2
<1> QED
  BY <1>1, <1>2 DEF CompletionInv

LEMMA DaemonSteps ==
  ASSUME CompletionInv,
         \/ \E r \in Requests : Observe(r) \/ Forget(r)
         \/ DaemonRestarts \/ Elapse \/ UNCHANGED vars
  PROVE  CompletionInv'
<1>1. TypeOK /\ (host.mode \in {"down", "starting"} => starts = {} /\ host.busy = None)
  BY DEF CompletionInv
<1>2. \A q \in Requests : WorkOK(q) /\ (files[q] # NoFile => host.mode \in {"down", "starting"} \/ host.busy = q)
  BY DEF CompletionInv, FileOK
<1>3. ASSUME NEW r \in Requests, Observe(r) PROVE CompletionInv'
  <2>1. /\ starts' = starts \cup {r} /\ host.mode = "up" /\ active[r] = NoWork /\ recon["daemon"].at = "idle"
        /\ UNCHANGED <<files, pool, host, active, recon, sent, crashes>> /\ UNCHANGED ledger
    BY <1>3 DEF Observe, DaemonFree
  <2>2. UNCHANGED <<record, run, lease, evidence, abort, feedback, charged>>
    BY <2>1 DEF ledger
  <2>3. TypeOK'
    BY <1>1, <2>1, <2>2 DEF TypeOK
  <2>4. \A q \in Requests : WorkOK(q)'
    BY <1>2, <2>1, <2>2 DEF WorkOK
  <2> QED
    BY <1>1, <1>2, <2>1, <2>2, <2>3, <2>4, ProcessStep DEF HostReconciling
<1>4. CASE (\E r \in Requests : Forget(r)) \/ DaemonRestarts \/ Elapse \/ UNCHANGED vars
  <2>1. /\ UNCHANGED <<record, run, lease, evidence, abort, charged, files, starts, host, active, sent, crashes>>
        /\ pool' \subseteq Requests
        /\ recon' = recon \/ recon' = [recon EXCEPT !["daemon"] = Idle]
        /\ feedback' = feedback \/ feedback' = [feedback EXCEPT !.blocked = FALSE]
    <3>1. ASSUME NEW r \in Requests, Forget(r)
          PROVE  /\ UNCHANGED <<record, run, lease, evidence, abort, charged, files, starts, host, active, sent, crashes>>
                 /\ pool' \subseteq Requests /\ recon' = recon /\ feedback' = feedback
      BY <1>1, <3>1 DEF Forget, ledger, TypeOK
    <3>2. CASE DaemonRestarts
      BY <3>2 DEF DaemonRestarts, ledger
    <3>3. CASE Elapse
      BY <1>1, <3>3 DEF Elapse, TypeOK
    <3>4. CASE UNCHANGED vars
      BY <1>1, <3>4 DEF vars, TypeOK
    <3> QED
      BY <1>4, <3>1, <3>2, <3>3, <3>4
  <2>2. feedback' \in Feedback /\ recon' \in [{"daemon", "host"} -> Reader]
    <3>1. feedback' \in Feedback
      BY <1>1, <2>1 DEF TypeOK, Feedback
    <3>2. recon' \in [{"daemon", "host"} -> Reader]
      BY <1>1, <2>1, Fields DEF TypeOK
    <3> QED
      BY <3>1, <3>2
  <2>3. TypeOK'
    BY <1>1, <2>1, <2>2 DEF TypeOK
  <2>4. \A q \in Requests : WorkOK(q)'
    BY <1>2, <2>1 DEF WorkOK
  <2>5. recon' = recon \/ (recon'["daemon"].at = "idle" /\ recon'["host"] = recon["host"])
    BY <1>1, <2>1 DEF TypeOK, Idle
  <2> QED
    BY <1>1, <1>2, <2>1, <2>3, <2>4, <2>5, ProcessStep DEF HostReconciling
<1> QED
  BY <1>3, <1>4

-----------------------------------------------------------------------------
(* The host's steps that leave the ledger.                                 *)

LEMMA HostSteps ==
  ASSUME CompletionInv,
         LaunchHost \/ HostStops \/ HostExits \/ HostDies \/ HostReconciled \/ \E r \in Requests : StartIgnored(r)
  PROVE  CompletionInv'
<1>1. TypeOK /\ (host.mode \in {"down", "starting"} => starts = {} /\ host.busy = None)
  BY DEF CompletionInv
<1>2. \A q \in Requests : WorkOK(q) /\ (files[q] # NoFile => host.mode \in {"down", "starting"} \/ host.busy = q)
  BY DEF CompletionInv, FileOK
<1>3. host.mode \in {"down", "starting", "up", "closing"} /\ host.busy \in Requests \cup {None} /\ None \notin Requests
  BY <1>1, CompletionAssumption DEF TypeOK
<1>4. UNCHANGED <<record, run, lease, evidence, abort, feedback, charged, files, pool, sent>>
  BY DEF LaunchHost, HostStops, HostExits, HostDies, HostReconciled, StartIgnored, ledger
<1>5. recon["host"].at # "idle" => HostReconciling
  BY DEF CompletionInv, ReaderOK
<1>6. CASE LaunchHost
  <2>1. host' = [mode |-> "starting", busy |-> None] /\ host.mode = "down" /\ UNCHANGED <<starts, active, recon, crashes>>
    BY <1>6 DEF LaunchHost
  <2>2. TypeOK'
    BY <1>1, <1>4, <2>1 DEF TypeOK
  <2>3. \A q \in Requests : WorkOK(q)'
    BY <1>2, <1>3, <2>1 DEF WorkOK
  <2> QED
    BY <1>1, <1>4, <2>1, <2>2, <2>3, ProcessStep DEF HostReconciling
<1>7. CASE HostStops
  <2>1. /\ host.mode = "up" /\ host'.mode = "closing" /\ host'.busy = host.busy /\ crashes' = crashes + 1
        /\ host' \in [mode : {"down", "starting", "up", "closing"}, busy : Requests \cup {None}]
        /\ UNCHANGED <<starts, active, recon>>
    BY <1>1, <1>7 DEF HostStops, TypeOK
  <2>2. TypeOK'
    BY <1>1, <1>4, <2>1 DEF TypeOK
  <2>3. \A q \in Requests : WorkOK(q)'
    BY <1>2, <1>4, <2>1 DEF WorkOK
  <2> QED
    BY <1>1, <1>2, <1>4, <2>1, <2>2, <2>3, ProcessStep DEF HostReconciling
<1>8. CASE HostExits
  <2>1. /\ host.busy = None /\ host.mode \in {"up", "closing"} /\ \A q \in Requests : active[q] = NoWork
        /\ host' = [mode |-> "down", busy |-> None] /\ starts' = {} /\ UNCHANGED <<active, recon, crashes>>
    BY <1>8 DEF HostExits, HostFree, NoneActive
  <2>2. TypeOK'
    BY <1>1, <1>4, <2>1 DEF TypeOK
  <2>3. \A q \in Requests : WorkOK(q)'
    BY <1>2, <1>3, <2>1 DEF WorkOK
  <2>4. recon["host"].at = "idle"
    BY <1>5, <2>1 DEF HostReconciling
  <2> QED
    BY <1>1, <1>4, <2>1, <2>2, <2>3, <2>4, ProcessStep
<1>9. CASE HostDies
  <2>1. /\ crashes' = crashes + 1 /\ host' = [mode |-> "down", busy |-> None] /\ starts' = {}
        /\ active' = [r \in Requests |-> NoWork] /\ recon' = [recon EXCEPT !["host"] = Idle]
    BY <1>9 DEF HostDies
  <2>2. recon' \in [{"daemon", "host"} -> Reader] /\ recon'["daemon"] = recon["daemon"] /\ recon'["host"].at = "idle"
    BY <1>1, <2>1, Fields DEF TypeOK, Idle
  <2>3. TypeOK'
    BY <1>1, <1>4, <2>1, <2>2, Fields DEF TypeOK
  <2>4. \A q \in Requests : WorkOK(q)'
    BY <1>3, <2>1 DEF WorkOK, NoWork
  <2> QED
    BY <1>4, <2>1, <2>2, <2>3, <2>4, ProcessStep
<1>10. CASE HostReconciled
  <2>1. /\ HostReconciling /\ recon["host"].at = "idle" /\ \A q \in Requests : files[q] = NoFile
        /\ host' = [mode |-> IF host.mode = "starting" THEN "up" ELSE host.mode, busy |-> None]
        /\ active' = IF host.busy = None THEN active ELSE [active EXCEPT ![host.busy] = NoWork]
        /\ UNCHANGED <<starts, recon, crashes>>
    BY <1>10 DEF HostReconciled
  <2>2. host'.mode \in {"up", "closing"} /\ host'.busy = None
        /\ host' \in [mode : {"down", "starting", "up", "closing"}, busy : Requests \cup {None}]
    BY <1>1, <1>3, <2>1 DEF HostReconciling, TypeOK
  <2>3. active' \in [Requests -> Work] /\ \A q \in Requests : (active'[q] = active[q] /\ q # host.busy) \/ active'[q] = NoWork
    BY <1>1, <1>3, <2>1, Fields DEF TypeOK
  <2>4. TypeOK'
    BY <1>1, <1>4, <2>1, <2>2, <2>3 DEF TypeOK
  <2>5. \A q \in Requests : WorkOK(q)'
    <3> TAKE q \in Requests
    <3>1. CASE active'[q] = NoWork
      BY <1>3, <2>2, <3>1 DEF WorkOK, NoWork
    <3>2. CASE active'[q] = active[q] /\ q # host.busy
      BY <1>2, <1>3, <1>4, <2>1, <2>2, <3>2 DEF WorkOK
    <3> QED
      BY <2>3, <3>1, <3>2
  <2> QED
    BY <1>4, <2>1, <2>2, <2>4, <2>5, ProcessStep
<1>11. ASSUME NEW r \in Requests, StartIgnored(r) PROVE CompletionInv'
  <2>1. starts' = starts \ {r} /\ UNCHANGED <<host, active, recon, crashes>>
    BY <1>11 DEF StartIgnored, Received
  <2>2. TypeOK'
    BY <1>1, <1>4, <2>1 DEF TypeOK
  <2>3. \A q \in Requests : WorkOK(q)'
    BY <1>2, <1>4, <2>1 DEF WorkOK
  <2> QED
    BY <1>1, <1>2, <1>4, <2>1, <2>2, <2>3, ProcessStep DEF HostReconciling
<1> QED
  BY <1>6, <1>7, <1>8, <1>9, <1>10, <1>11

-----------------------------------------------------------------------------
(* Claiming, sending and returning.                                        *)

LEMMA ClaimStep ==
  ASSUME CompletionInv, NEW r \in Requests, TypeOK', UNCHANGED <<evidence, charged, files, host, sent, recon>>,
         host.mode = "up", host.busy = None, r \in starts, starts' = starts \ {r},
         \A q \in Requests \ {r} : SameRow(q),
         RecordOK(r)', RunOK(r)', WorkOK(r)'
  PROVE  CompletionInv'
<1>1. None \notin Requests /\ \A q \in Requests : files[q] = NoFile
  BY CompletionAssumption DEF CompletionInv, FileOK
<1>2. FileOK(r)'
  BY <1>1 DEF FileOK
<1>3. \A q \in Requests : RowOK(q)'
  BY <1>2, Elsewhere DEF RowOK
<1>4. ASSUME NEW p \in {"daemon", "host"} PROVE ReaderOK(p)'
  <2>1. CASE recon[p].at = "idle"
    BY <2>1 DEF ReaderOK
  <2>2. CASE recon[p].at # "idle"
    <3>1. p = "daemon" /\ recon[p].request # r
      BY <2>2 DEF CompletionInv, ReaderOK, HostReconciling
    <3>2. ASSUME NEW q \in Requests, NEW f \in File, recon[p].request = q, Receipt(q, f)
          PROVE  Receipt(q, f)' /\ files'[q] = files[q] /\ evidence'[q] = evidence[q]
      BY <3>1, <3>2 DEF SameRow, Receipt, Acceptable, Known
    <3> QED
      BY <3>1, <3>2, ReaderStays
  <2> QED
    BY <2>1, <2>2
<1> QED
  BY <1>3, <1>4 DEF CompletionInv, RowOK

LEMMA ClaimInv ==
  ASSUME CompletionInv, NEW r \in Requests, Claim(r) \/ ClaimLost(r)
  PROVE  CompletionInv'
<1>1. /\ host.mode = "up" /\ host.busy = None /\ r \in starts /\ starts' = starts \ {r}
      /\ run[r].assigned /\ active[r] = NoWork /\ ~Terminal(record[r].state)
      /\ UNCHANGED <<evidence, abort, feedback, charged, files, pool, host, recon, sent, crashes>>
  BY DEF Claim, ClaimLost, Startable, Received, Owned, Synchronized
<1>2. None \notin Requests /\ record[r].state \in {"queued", "running"} /\ lease[r] = "open"
  BY <1>1, Here, Fields, CompletionAssumption DEF RunOK, Terminal, States
<1>3. CASE Claim(r)
  <2>1. PICK a \in Attempts : a = record[r].count + 1
    <3>1. record[r].attempt = 0 /\ record[r].count < MaxAttempts /\ record[r].count \in 0..MaxAttempts
      BY <1>3, Here, Fields DEF Claim, RecordOK
    <3> QED
      BY <3>1, CompletionAssumption DEF Attempts
  <2> DEFINE rec == Claimed(record[r], a)
             work == [attempt |-> a, sent |-> FALSE]
  <2>2. /\ record' = [record EXCEPT ![r] = rec] /\ active' = [active EXCEPT ![r] = work]
        /\ run' = [run EXCEPT ![r].state = "running"] /\ record[r].attempt = 0 /\ UNCHANGED lease
    BY <1>3, <2>1 DEF Claim, Claimed
  <2>3. /\ rec \in Record /\ rec.state = "running" /\ rec.attempt = a
        /\ rec.receipt = record[r].receipt /\ rec.count = a
    BY Here, RecordClaimed
  <2> HIDE DEF rec
  <2>4. work \in Work /\ [run[r] EXCEPT !.state = "running"] \in Run
    BY Here, Fields DEF Work, Run, RunStates
  <2>5. TypeOK'
    BY <1>1, <2>2, <2>3, <2>4 DEF CompletionInv, TypeOK
  <2>6. record'[r] = rec /\ active'[r] = work /\ run'[r].state = "running"
    BY <2>2, Here DEF CompletionInv, TypeOK, Run
  <2>7. \A q \in Requests \ {r} : SameRow(q)
    BY <1>1, <2>2 DEF SameRow
  <2>8. a \notin sent[r] /\ evidence[r][a] = None /\ record[r].receipt = None /\ charged[r] = 0
    <3>1. record[r].receipt = None
      BY <2>2, Here DEF RecordOK
    <3>2. charged[r] = 0
      BY <2>2, Here DEF RecordOK
    <3>3. ~(a <= record[r].count)
      BY <2>1, Here, Fields
    <3>4. a \notin sent[r] /\ evidence[r][a] = None
      BY <3>3, Here DEF RecordOK
    <3> QED
      BY <3>1, <3>2, <3>4
  <2>9. RecordOK(r)'
    <3>1. \A b \in Attempts : b \in sent[r] \/ evidence[r][b] # None => b <= a
      BY <2>1, Here, Fields DEF RecordOK
    <3>2. \A b \in sent[r] : evidence[r][b] \in Refusals
      BY <2>2, Here, Fields DEF RecordOK
    <3>3. \A b \in Attempts : evidence[r][b] \in Refusals => b < MaxAttempts
      BY Here DEF RecordOK
    <3>4. a # 0
      BY Fields
    <3> QED
      BY <1>1, <2>3, <2>6, <2>8, <3>1, <3>2, <3>3, <3>4 DEF RecordOK, None
  <2>10. RunOK(r)'
    BY <1>2, <2>2, <2>3, <2>6 DEF RunOK, RunEnded
  <2>11. WorkOK(r)'
    <3>1. a # 0 /\ work.attempt = a /\ ~work.sent
      BY Fields
    <3> QED
      BY <1>1, <1>2, <2>2, <2>3, <2>6, <2>8, <3>1 DEF WorkOK
  <2> QED
    BY <1>1, <2>5, <2>7, <2>9, <2>10, <2>11, ClaimStep
<1>4. CASE ClaimLost(r)
  <2> DEFINE rec == InState(record[r], "indeterminate")
  <2>1. /\ record' = [record EXCEPT ![r] = rec] /\ run' = [run EXCEPT ![r].state = "failed"]
        /\ lease' = [lease EXCEPT ![r] = EndLease(@)] /\ record[r].attempt # 0 /\ UNCHANGED active
    BY <1>4 DEF ClaimLost, InState
  <2>2. /\ rec \in Record /\ rec.state = "indeterminate" /\ rec.attempt = record[r].attempt
        /\ rec.receipt = record[r].receipt /\ rec.count = record[r].count
    BY Here, RecordInState DEF States
  <2> HIDE DEF rec
  <2>3. EndLease(lease[r]) \in {"none", "open", "ended"} /\ [run[r] EXCEPT !.state = "failed"] \in Run
    BY Here DEF EndLease, Run, RunStates
  <2>4. TypeOK'
    BY <1>1, <2>1, <2>2, <2>3 DEF CompletionInv, TypeOK
  <2>5. record'[r] = rec
    BY <2>1, Here DEF CompletionInv, TypeOK
  <2>6. \A q \in Requests \ {r} : SameRow(q)
    BY <1>1, <2>1 DEF SameRow
  <2>7. RecordOK(r)'
    BY <1>1, <2>2, <2>5, Here DEF RecordOK
  <2>8. RunOK(r)'
    BY <2>2, <2>5 DEF RunOK, Terminal
  <2>9. WorkOK(r)'
    BY <1>1, <1>2, <2>1, Here DEF WorkOK
  <2> QED
    BY <1>1, <2>4, <2>6, <2>7, <2>8, <2>9, ClaimStep
<1> QED
  BY <1>3, <1>4

LEMMA Reading ==
  ASSUME CompletionInv, NEW p \in {"daemon", "host"}, recon[p].at # "idle"
  PROVE  \E r \in Requests, f \in File :
           /\ r = recon[p].request /\ f = recon[p].file /\ f # NoFile
           /\ Receipt(r, f) /\ files[r] \in {f, NoFile}
           /\ recon[p].at = "settled" \/ files[r] = NoFile => Known(r, f)
           /\ p = "daemon" => r \notin starts
           /\ p = "host" => HostReconciling
<1>1. ReaderOK(p) /\ recon[p] \in Reader
  BY DEF CompletionInv, TypeOK
<1>2. PICK r \in Requests : r = recon[p].request
  BY <1>1 DEF ReaderOK
<1>3. PICK f \in File : f = recon[p].file
  BY <1>1, Fields
<1>4. Receipt(r, f)
  BY <1>1, <1>2, <1>3 DEF ReaderOK
<1>5. f # NoFile
  BY <1>4 DEF Receipt, NoFile, Outcomes, None
<1> QED
  BY <1>1, <1>2, <1>3, <1>4, <1>5 DEF ReaderOK

LEMMA ReaderNext ==
  ASSUME NEW p \in {"daemon", "host"}, NEW r \in Requests, NEW f \in File,
         recon'[p].request = r, recon'[p].file = f, Receipt(r, f)', files'[r] \in {f, NoFile},
         recon'[p].at = "settled" \/ files'[r] = NoFile => Known(r, f)',
         p = "daemon" => r \notin starts', p = "host" => HostReconciling'
  PROVE  ReaderOK(p)'
<1>1. Receipt(recon[p].request, recon[p].file)'
  BY DEF Receipt, Acceptable, Known
<1>2. Known(recon[p].request, recon[p].file)' <=> Known(r, f)'
  BY DEF Known
<1> QED
  BY <1>1, <1>2 DEF ReaderOK

LEMMA SendInv ==
  ASSUME CompletionInv, NEW r \in Requests, Send(r)
  PROVE  CompletionInv'
<1>1. /\ host.mode \in {"up", "closing"} /\ host.busy = None /\ active[r] # NoWork /\ ~active[r].sent
      /\ active' = [active EXCEPT ![r].sent = TRUE]
      /\ sent' = [sent EXCEPT ![r] = @ \cup {active[r].attempt}]
      /\ UNCHANGED <<files, pool, starts, host, recon, crashes>>
      /\ UNCHANGED <<record, run, lease, evidence, abort, feedback, charged>>
  BY DEF Send, HostFree, ledger
<1>2. PICK a \in Attempts :
        /\ a = active[r].attempt /\ a = record[r].attempt /\ record[r].receipt = None
        /\ record[r].state \in {"running", "cancelled"} /\ lease[r] = "open"
  <2>1. host.busy # r
    BY <1>1, CompletionAssumption
  <2>2. active[r].attempt # 0 /\ active[r].attempt \in 0..MaxAttempts
    BY <1>1, Here, Fields DEF Work, NoWork
  <2> QED
    BY <1>1, <2>1, <2>2, Here DEF WorkOK, Attempts
<1>3. /\ active'[r] \in Work /\ active'[r].attempt = a /\ active'[r].sent /\ active'[r] # NoWork
      /\ active' \in [Requests -> Work]
  BY <1>1, <1>2, Here DEF CompletionInv, TypeOK, Work, NoWork
<1>4. sent'[r] = sent[r] \cup {a} /\ sent' \in [Requests -> SUBSET Attempts]
  BY <1>1, <1>2 DEF CompletionInv, TypeOK
<1>5. TypeOK'
  BY <1>1, <1>3, <1>4 DEF CompletionInv, TypeOK
<1>6. \A q \in Requests \ {r} : SameRow(q)
  BY <1>1 DEF SameRow, CompletionInv, TypeOK
<1>7. None \notin Requests /\ \A q \in Requests : files[q] = NoFile
  BY <1>1, CompletionAssumption DEF CompletionInv, FileOK
<1>8. RecordOK(r)'
  <2>1. a <= record[r].count /\ a # 0
    BY <1>2, Here, Fields DEF RecordOK
  <2>2. a = record[r].attempt => \A b \in sent'[r] : b # record[r].attempt => evidence[r][b] \in Refusals
    BY <1>4, Here DEF RecordOK
  <2>3. \A b \in Attempts : b \in sent'[r] \/ evidence[r][b] # None => b <= record[r].count
    BY <1>4, <2>1, Here DEF RecordOK
  <2> QED
    BY <1>1, <1>2, <2>2, <2>3, Here DEF RecordOK
<1>9. RunOK(r)'
  BY <1>1, Here DEF RunOK
<1>10. WorkOK(r)'
  <2>1. active'[r].attempt # 0
    BY <1>3, Fields
  <2> QED
    BY <1>1, <1>2, <1>3, <1>4, <2>1, Here DEF WorkOK
<1>11. FileOK(r)'
  BY <1>1, <1>7 DEF FileOK
<1>12. ASSUME NEW p \in {"daemon", "host"} PROVE ReaderOK(p)'
  <2>1. ASSUME NEW q \in Requests, NEW f \in File, Receipt(q, f)
        PROVE  Receipt(q, f)' /\ files'[q] = files[q] /\ evidence'[q] = evidence[q]
    <3>1. sent[q] \subseteq sent'[q]
      BY <1>4, <1>6 DEF SameRow
    <3> QED
      BY <1>1, <2>1, <3>1 DEF Receipt, Acceptable, Known
  <2> QED
    BY <1>1, <2>1, ReaderStays DEF HostReconciling
<1>13. \A q \in Requests : RowOK(q)'
  BY <1>1, <1>6, <1>8, <1>9, <1>10, <1>11, Elsewhere DEF RowOK
<1> QED
  BY <1>1, <1>5, <1>12, <1>13 DEF CompletionInv, RowOK

LEMMA ReturnInv ==
  ASSUME CompletionInv, NEW r \in Requests, Return(r)
  PROVE  CompletionInv'
<1>1. PICK outcome \in Possible(r) : files' = [files EXCEPT ![r] = [attempt |-> active[r].attempt, outcome |-> outcome]]
  BY DEF Return
<1>2. /\ host.mode \in {"up", "closing"} /\ host.busy = None /\ active[r] # NoWork
      /\ host' = [host EXCEPT !.busy = r]
      /\ UNCHANGED <<pool, starts, active, recon, sent, crashes>>
      /\ UNCHANGED <<record, run, lease, evidence, abort, feedback, charged>>
  BY DEF Return, HostFree, ledger
<1>3. PICK a \in Attempts :
        /\ a = active[r].attempt /\ a = record[r].attempt /\ a = record[r].count /\ record[r].receipt = None
        /\ evidence[r][a] = None
        /\ record[r].state \in {"running", "cancelled"} /\ (active[r].sent => a \in sent[r])
  <2>1. host.busy # r
    BY <1>2, CompletionAssumption
  <2>2. active[r].attempt # 0 /\ active[r].attempt \in 0..MaxAttempts
    <3>1. active[r].attempt = 0 => ~active[r].sent
      BY Here DEF WorkOK
    <3>2. active[r].attempt \in 0..MaxAttempts /\ active[r] \in Work
      BY Here, Fields
    <3> QED
      BY <1>2, <3>1, <3>2 DEF Work, NoWork
  <2>3. active[r].attempt \in Attempts
    BY <2>2 DEF Attempts
  <2> QED
    BY <1>2, <2>1, <2>2, <2>3, Here DEF WorkOK, RecordOK
<1>4. /\ outcome \in Outcomes /\ (outcome = "completed" => a \in sent[r]) /\ (outcome \in Refusals => a < MaxAttempts)
  <2>1. outcome \in {"cancelled", "indeterminate", "failed"} \/ active[r].sent
    BY DEF Possible, Interrupted
  <2>2. outcome \in Refusals => active[r].attempt < MaxAttempts
    BY DEF Possible, Interrupted, Refusals
  <2>3. outcome \in Outcomes
    BY DEF Possible, Interrupted, Refusals, Outcomes
  <2> QED
    BY <1>3, <2>1, <2>2, <2>3
<1>5. PICK f \in File : f = [attempt |-> a, outcome |-> outcome] /\ f.attempt = a /\ f.outcome = outcome
  <2>1. a \in 0..MaxAttempts /\ outcome \in Results
    BY <1>4, Fields DEF Results
  <2>2. [attempt |-> a, outcome |-> outcome] \in File
    BY <2>1 DEF File
  <2> QED
    BY <2>2
<1>6. files' = [files EXCEPT ![r] = f] /\ files'[r] = f /\ files' \in [Requests -> File]
  BY <1>1, <1>3, <1>5 DEF CompletionInv, TypeOK
<1>7. host'.busy = r /\ host'.mode = host.mode
      /\ host' \in [mode : {"down", "starting", "up", "closing"}, busy : Requests \cup {None}]
  BY <1>2 DEF CompletionInv, TypeOK
<1>8. TypeOK'
  BY <1>2, <1>6, <1>7 DEF CompletionInv, TypeOK
<1>9. None \notin Requests /\ \A q \in Requests : files[q] = NoFile
  BY <1>2, CompletionAssumption DEF CompletionInv, FileOK
<1>10. \A q \in Requests : Receipt(q, f) => Receipt(q, f)'
  BY <1>2 DEF Receipt, Acceptable, Known
<1>11. Receipt(r, f)'
  BY <1>2, <1>3, <1>4, <1>5 DEF Receipt, Acceptable, Known
<1>12. ASSUME NEW q \in Requests PROVE RecordOK(q)' /\ RunOK(q)' /\ WorkOK(q)' /\ FileOK(q)'
  <2>1. RecordOK(q)' /\ RunOK(q)'
    BY <1>2, Here DEF RecordOK, RunOK
  <2>2. WorkOK(q)'
    BY <1>2, <1>7, <1>9, Here DEF WorkOK
  <2>3. FileOK(q)'
    <3>1. CASE q = r
      <4>1. Receipt(r, files[r])'
        BY <1>6, <1>11 DEF Receipt, Acceptable, Known
      <4> QED
        BY <1>7, <3>1, <4>1 DEF FileOK
    <3>2. CASE q # r
      BY <1>6, <1>9, <3>2 DEF FileOK
    <3> QED
      BY <3>1, <3>2
  <2> QED
    BY <2>1, <2>2, <2>3
<1>13. ASSUME NEW p \in {"daemon", "host"} PROVE ReaderOK(p)'
  <2> SUFFICES ASSUME recon[p].at # "idle" PROVE ReaderOK(p)'
    BY <1>2 DEF ReaderOK
  <2>1. PICK q \in Requests, g \in File :
          /\ q = recon[p].request /\ g = recon[p].file /\ g # NoFile
          /\ Receipt(q, g) /\ files[q] \in {g, NoFile}
          /\ recon[p].at = "settled" \/ files[q] = NoFile => Known(q, g)
          /\ p = "daemon" => q \notin starts
          /\ p = "host" => HostReconciling
    BY Reading
  <2>2. p = "daemon"
    BY <1>2, <2>1 DEF HostReconciling
  <2>3. q # r
    BY <1>3, <1>9, <2>1 DEF Receipt, Known, Outcomes, None
  <2>4. Receipt(q, g)' /\ (Known(q, g)' <=> Known(q, g)) /\ files'[q] = files[q]
    BY <1>2, <1>6, <2>1, <2>3 DEF Receipt, Acceptable, Known
  <2> QED
    BY <1>2, <2>1, <2>2, <2>4, ReaderNext
<1> QED
  BY <1>2, <1>7, <1>8, <1>12, <1>13 DEF CompletionInv

-----------------------------------------------------------------------------
(* Receipts, which either process settles.                                 *)

Processes == {"daemon", "host"}

LEMMA ReadInv ==
  ASSUME CompletionInv, NEW p \in Processes, NEW r \in Requests, Read(p, r), p = "host" => HostReconciling
  PROVE  CompletionInv'
<1>1. /\ recon' = [recon EXCEPT ![p] = [at |-> "read", request |-> r, file |-> files[r]]] /\ files[r] # NoFile
      /\ UNCHANGED <<files, pool, starts, host, active, sent, crashes>>
      /\ UNCHANGED <<record, run, lease, evidence, abort, feedback, charged>>
  BY DEF Read, ledger
<1>2. PICK f \in File : f = files[r] /\ Receipt(r, f) /\ (host.mode \in {"down", "starting"} \/ host.busy = r)
  BY <1>1, Here DEF FileOK
<1>3. r \notin starts
  BY <1>2, Here DEF CompletionInv, WorkOK
<1>4. recon'[p] = [at |-> "read", request |-> r, file |-> f] /\ \A o \in Processes \ {p} : recon'[o] = recon[o]
  BY <1>1, <1>2 DEF CompletionInv, TypeOK, Processes
<1>5. recon' \in [Processes -> Reader]
  <2>1. [at |-> "read", request |-> r, file |-> f] \in Reader
    BY DEF Reader
  <2> QED
    BY <1>1, <1>2, <2>1 DEF CompletionInv, TypeOK, Processes
<1>6. TypeOK'
  BY <1>1, <1>5 DEF CompletionInv, TypeOK, Processes
<1>7. ASSUME NEW q \in Requests PROVE RecordOK(q)' /\ RunOK(q)' /\ WorkOK(q)' /\ FileOK(q)'
  <2>1. SameRow(q) /\ UNCHANGED host
    BY <1>1 DEF SameRow
  <2> QED
    BY <2>1, Elsewhere DEF RowOK
<1>8. \A q \in Requests, g \in File : Receipt(q, g) => Receipt(q, g)'
  BY <1>1 DEF Receipt, Acceptable, Known
<1>9. ASSUME NEW o \in Processes PROVE ReaderOK(o)'
  <2>1. CASE o = p
    <3>1. recon'[p].request = r /\ recon'[p].file = f /\ recon'[p].at = "read" /\ files'[r] = f /\ f # NoFile
      BY <1>1, <1>2, <1>4
    <3>2. HostReconciling => HostReconciling'
      BY <1>1 DEF HostReconciling
    <3> QED
      BY <1>1, <1>2, <1>3, <1>8, <2>1, <3>1, <3>2, ReaderNext DEF Processes
  <2>2. CASE o # p
    BY <1>1, <1>4, <1>8, <2>2, ReaderStays DEF Processes, HostReconciling
  <2> QED
    BY <2>1, <2>2
<1> QED
  BY <1>1, <1>6, <1>7, <1>9 DEF CompletionInv, Processes

LEMMA RemoveInv ==
  ASSUME CompletionInv, NEW p \in Processes, Remove(p)
  PROVE  CompletionInv'
<1>1. PICK r \in Requests, f \in File :
        r = recon[p].request /\ f = recon[p].file /\ files[r] \in {f, NoFile} /\ Known(r, f)
  BY Reading DEF Remove, Processes
<1>2. /\ files' = [files EXCEPT ![r] = NoFile] /\ recon' = [recon EXCEPT ![p] = Idle]
      /\ UNCHANGED <<pool, starts, host, active, sent, crashes>>
      /\ UNCHANGED <<record, run, lease, evidence, abort, feedback, charged>>
  BY <1>1 DEF Remove, ledger
<1>3. /\ files'[r] = NoFile /\ (\A q \in Requests \ {r} : files'[q] = files[q])
      /\ recon'[p].at = "idle" /\ (\A o \in Processes \ {p} : recon'[o] = recon[o])
  BY <1>2 DEF CompletionInv, TypeOK, Processes, Idle
<1>4. TypeOK'
  BY <1>2, Fields DEF CompletionInv, TypeOK
<1>5. \A q \in Requests, g \in File : (Receipt(q, g) => Receipt(q, g)') /\ (Known(q, g)' <=> Known(q, g))
  BY <1>2 DEF Receipt, Acceptable, Known
<1>6. ASSUME NEW q \in Requests PROVE RecordOK(q)' /\ RunOK(q)' /\ WorkOK(q)' /\ FileOK(q)'
  <2>1. RecordOK(q)' /\ RunOK(q)' /\ WorkOK(q)'
    BY <1>2, Here DEF RecordOK, RunOK, WorkOK
  <2>2. FileOK(q)'
    <3>1. CASE q = r
      BY <1>3, <3>1 DEF FileOK
    <3>2. CASE q # r
      BY <1>2, <1>3, <3>2, Here DEF FileOK, Receipt, Acceptable, Known
    <3> QED
      BY <3>1, <3>2
  <2> QED
    BY <2>1, <2>2
<1>7. ASSUME NEW o \in Processes PROVE ReaderOK(o)'
  <2> SUFFICES ASSUME o # p, recon[o].at # "idle" PROVE ReaderOK(o)'
    BY <1>3 DEF ReaderOK
  <2>1. PICK q \in Requests, g \in File :
          /\ q = recon[o].request /\ g = recon[o].file /\ g # NoFile
          /\ Receipt(q, g) /\ files[q] \in {g, NoFile}
          /\ recon[o].at = "settled" \/ files[q] = NoFile => Known(q, g)
          /\ o = "daemon" => q \notin starts
          /\ o = "host" => HostReconciling
    BY Reading DEF Processes
  <2>2. q = r => Known(q, g)
    BY <1>1, <2>1
  <2>3. files'[q] \in {g, NoFile} /\ (recon[o].at = "settled" \/ files'[q] = NoFile => Known(q, g)')
    BY <1>3, <1>5, <2>1, <2>2
  <2>4. recon'[o] = recon[o] /\ (HostReconciling => HostReconciling')
    BY <1>2, <1>3 DEF HostReconciling
  <2> QED
    BY <1>2, <1>5, <2>1, <2>3, <2>4, ReaderNext DEF Processes
<1> QED
  BY <1>2, <1>4, <1>6, <1>7 DEF CompletionInv, Processes

\* What a settlement that is not a repetition does to the record.
Settled(r, f) ==
  IF f.outcome = "rejected" /\ record[r].state # "cancelled" THEN Requeued(record[r])
  ELSE Answered(record[r], f.outcome, IF record[r].state = "cancelled" THEN "cancelled" ELSE StateOf(f.outcome))

\* A receipt that is settled for the first time, in terms of the record.
LEMMA FirstSettlement ==
  ASSUME CompletionInv, NEW r \in Requests, NEW f \in File, Receipt(r, f), ~Known(r, f), Settle(r, f)
  PROVE  /\ f.attempt = record[r].attempt /\ f.attempt \in Attempts /\ record[r].attempt = record[r].count
         /\ record[r].receipt = None /\ evidence[r][f.attempt] = None /\ charged[r] = 0
         /\ record[r].state \in {"running", "cancelled"}
         /\ record' = [record EXCEPT ![r] = Settled(r, f)]
         /\ evidence' = [evidence EXCEPT ![r][f.attempt] = f.outcome]
         /\ run' = [run EXCEPT ![r] = run'[r]] /\ run'[r] \in Run
         /\ RunEnded(run'[r].state) => Terminal(Settled(r, f).state)
         /\ Terminal(Settled(r, f).state) \/ ~run'[r].assigned
         /\ lease' = [lease EXCEPT ![r] = EndLease(@)]
         /\ charged' = [charged EXCEPT ![r] = IF f.outcome = "completed" THEN 1 ELSE 0]
         /\ feedback' \in Feedback /\ UNCHANGED abort
<1>1. /\ f.attempt = record[r].attempt /\ record[r].receipt = None /\ f.attempt = record[r].count
      /\ f.attempt \in Attempts /\ evidence[r][f.attempt] = None /\ f.outcome \in Outcomes
      /\ record[r].state \in {"running", "cancelled"}
  BY DEF Receipt, Acceptable, Known
<1>2. charged[r] = 0
  BY <1>1, Here DEF RecordOK, None
<1>3. Synchronized(r) = record[r]
  <2>1. record[r].state = "running" => ~RunEnded(run[r].state)
    BY Here DEF RunOK, Terminal
  <2> QED
    BY <1>1, <2>1 DEF Synchronized, Terminal
<1>4. /\ evidence' = [evidence EXCEPT ![r][f.attempt] = f.outcome] /\ UNCHANGED abort
      /\ IF f.outcome = "rejected" /\ record[r].state # "cancelled"
         THEN Requeue(r, record[r]) /\ RecordRejection(ActiveCompletions) /\ UNCHANGED charged
         ELSE /\ record' = [record EXCEPT ![r] =
                   [record[r] EXCEPT !.receipt = f.outcome,
                                     !.state = IF record[r].state = "cancelled" THEN record[r].state ELSE StateOf(f.outcome)]]
              /\ run' = IF record[r].state = "cancelled" \/ run[r].state = "aborted" THEN run
                        ELSE [run EXCEPT ![r].state = RunResult(f.outcome)]
              /\ lease' = [lease EXCEPT ![r] = EndLease(@)]
              /\ IF f.outcome = "completed"
                 THEN feedback' = Succeeded /\ charged' = [charged EXCEPT ![r] = @ + 1]
                 ELSE UNCHANGED <<feedback, charged>>
  BY <1>3 DEF Settle
<1>5. run \in [Requests -> Run] /\ charged \in [Requests -> {0, 1}] /\ feedback \in Feedback
  BY DEF CompletionInv, TypeOK
<1>6. CASE f.outcome = "rejected" /\ record[r].state # "cancelled"
  <2>1. Requeue(r, record[r]) /\ RecordRejection(ActiveCompletions) /\ UNCHANGED charged
    BY <1>4, <1>6
  <2>2. Settled(r, f) = Requeued(record[r])
    BY <1>6 DEF Settled
  <2>3. record' = [record EXCEPT ![r] = Settled(r, f)]
    BY <2>1, <2>2 DEF Requeue, Requeued
  <2>4. run' = [run EXCEPT ![r] = [state |-> "queued", assigned |-> FALSE]] /\ lease' = [lease EXCEPT ![r] = EndLease(@)]
    BY <2>1 DEF Requeue
  <2>5. [state |-> "queued", assigned |-> FALSE] \in Run
    BY DEF Run, RunStates
  <2>6. run'[r] = [state |-> "queued", assigned |-> FALSE] /\ run' = [run EXCEPT ![r] = run'[r]]
    BY <1>5, <2>4
  <2>7. feedback' \in Feedback
    BY <2>1, FeedbackShapes DEF RecordRejection, CompletionInv
  <2>8. charged' = [charged EXCEPT ![r] = IF f.outcome = "completed" THEN 1 ELSE 0]
    BY <1>2, <1>5, <1>6, <2>1
  <2>9. ~RunEnded(run'[r].state) /\ ~run'[r].assigned
    BY <2>6 DEF RunEnded
  <2> QED
    BY <1>1, <1>2, <1>4, <2>3, <2>4, <2>5, <2>6, <2>7, <2>8, <2>9
<1>7. CASE ~(f.outcome = "rejected" /\ record[r].state # "cancelled")
  <2> DEFINE s == IF record[r].state = "cancelled" THEN "cancelled" ELSE StateOf(f.outcome)
  <2>1. Settled(r, f) = Answered(record[r], f.outcome, s)
    BY <1>7 DEF Settled
  <2>2. record' = [record EXCEPT ![r] = Settled(r, f)]
    BY <1>4, <1>7, <2>1 DEF Answered
  <2>3. s \in States /\ Terminal(s)
    BY <1>1 DEF StateOf, Refusals, Outcomes, States, Terminal
  <2>4. Settled(r, f).state = s
    BY <1>1, <2>1, <2>3, Here, RecordAnswered DEF Results
  <2>5. run' = [run EXCEPT ![r] = run'[r]] /\ run'[r] \in Run
    <3>1. [run[r] EXCEPT !.state = RunResult(f.outcome)] \in Run
      BY <1>5 DEF Run, RunStates, RunResult
    <3>2. run' = run \/ run' = [run EXCEPT ![r] = [run[r] EXCEPT !.state = RunResult(f.outcome)]]
      BY <1>4, <1>7
    <3> QED
      BY <1>5, <3>1, <3>2
  <2>6. feedback' \in Feedback
    BY <1>4, <1>5, <1>7, FeedbackShapes DEF CompletionInv
  <2>7. charged' = [charged EXCEPT ![r] = IF f.outcome = "completed" THEN 1 ELSE 0]
    BY <1>2, <1>4, <1>5, <1>7
  <2> QED
    BY <1>1, <1>2, <1>4, <1>7, <2>2, <2>3, <2>4, <2>5, <2>6, <2>7
<1> QED
  BY <1>6, <1>7

LEMMA SettledRecord ==
  ASSUME CompletionInv, NEW r \in Requests, NEW f \in File, Receipt(r, f),
         f.attempt = record[r].attempt, record[r].state \in {"running", "cancelled"}
  PROVE  /\ Settled(r, f) \in Record /\ Settled(r, f).count = record[r].count
         /\ \/ /\ f.outcome = "rejected" /\ record[r].state = "running" /\ Settled(r, f).state = "queued"
               /\ Settled(r, f).attempt = 0 /\ Settled(r, f).receipt = None
            \/ /\ Settled(r, f).attempt = record[r].attempt /\ Settled(r, f).receipt = f.outcome
               /\ Settled(r, f).state = IF record[r].state = "cancelled" THEN "cancelled" ELSE StateOf(f.outcome)
<1>1. f.outcome \in Outcomes
  BY DEF Receipt
<1>2. CASE f.outcome = "rejected" /\ record[r].state # "cancelled"
  BY <1>2, Here, RecordRequeued DEF Settled
<1>3. CASE ~(f.outcome = "rejected" /\ record[r].state # "cancelled")
  <2> DEFINE s == IF record[r].state = "cancelled" THEN "cancelled" ELSE StateOf(f.outcome)
  <2>1. s \in States /\ f.outcome \in Results
    BY <1>1 DEF StateOf, Refusals, Outcomes, States, Results
  <2>2. Settled(r, f) = Answered(record[r], f.outcome, s)
    BY <1>3 DEF Settled
  <2> HIDE DEF s
  <2>3. /\ Settled(r, f) \in Record /\ Settled(r, f).count = record[r].count
        /\ Settled(r, f).attempt = record[r].attempt /\ Settled(r, f).receipt = f.outcome /\ Settled(r, f).state = s
    BY <2>1, <2>2, Here, RecordAnswered
  <2> QED
    BY <2>3 DEF s
<1> QED
  BY <1>2, <1>3

LEMMA SettleInv ==
  ASSUME CompletionInv, NEW p \in Processes, SettleReceipt(p)
  PROVE  CompletionInv'
<1>1. recon[p].at = "read" /\ recon' = [recon EXCEPT ![p].at = "settled"]
      /\ UNCHANGED <<files, pool, starts, host, active, sent, crashes>>
  BY DEF SettleReceipt
<1>2. PICK r \in Requests, f \in File :
        /\ r = recon[p].request /\ f = recon[p].file /\ f # NoFile
        /\ Receipt(r, f) /\ files[r] \in {f, NoFile}
        /\ files[r] = NoFile => Known(r, f)
        /\ p = "daemon" => r \notin starts
        /\ p = "host" => HostReconciling
  BY <1>1, Reading DEF Processes
<1>3. Settle(r, f)
  BY <1>2 DEF SettleReceipt
<1>4. /\ recon' \in [Processes -> Reader] /\ recon'[p].at = "settled" /\ recon'[p].request = r /\ recon'[p].file = f
      /\ \A o \in Processes \ {p} : recon'[o] = recon[o]
  <2>1. recon[p] \in Reader /\ recon \in [Processes -> Reader]
    BY DEF CompletionInv, TypeOK, Processes
  <2>2. [recon[p] EXCEPT !.at = "settled"] \in Reader
    BY <2>1 DEF Reader
  <2>3. recon'[p] = [recon[p] EXCEPT !.at = "settled"] /\ \A o \in Processes \ {p} : recon'[o] = recon[o]
    BY <1>1, <2>1
  <2>4. recon'[p].at = "settled" /\ recon'[p].request = r /\ recon'[p].file = f
    BY <1>2, <2>1, <2>3 DEF Reader
  <2> QED
    BY <1>1, <2>1, <2>2, <2>3, <2>4
<1>5. HostReconciling' <=> HostReconciling
  BY <1>1 DEF HostReconciling
<1>6. CASE Known(r, f)
  <2>1. UNCHANGED <<record, run, lease, evidence, abort, feedback, charged>>
    BY <1>3, <1>6 DEF Settle, ledger
  <2>2. TypeOK'
    BY <1>1, <1>4, <2>1 DEF CompletionInv, TypeOK, Processes
  <2>3. ASSUME NEW q \in Requests PROVE RecordOK(q)' /\ RunOK(q)' /\ WorkOK(q)' /\ FileOK(q)'
    <3>1. SameRow(q) /\ UNCHANGED host
      BY <1>1, <2>1 DEF SameRow
    <3> QED
      BY <3>1, Elsewhere DEF RowOK
  <2>4. \A q \in Requests, g \in File : (Receipt(q, g) => Receipt(q, g)') /\ (Known(q, g)' <=> Known(q, g))
    BY <1>1, <2>1 DEF Receipt, Acceptable, Known
  <2>5. ASSUME NEW o \in Processes PROVE ReaderOK(o)'
    <3>1. CASE o = p
      BY <1>1, <1>2, <1>4, <1>5, <1>6, <2>4, <3>1, ReaderNext DEF Processes
    <3>2. CASE o # p
      BY <1>1, <1>4, <1>5, <2>1, <2>4, <3>2, ReaderStays DEF Processes
    <3> QED
      BY <3>1, <3>2
  <2> QED
    BY <1>1, <2>2, <2>3, <2>5 DEF CompletionInv, Processes
<1>7. CASE ~Known(r, f)
  <2> DEFINE rec == Settled(r, f)
  <2>1. /\ f.attempt = record[r].attempt /\ f.attempt \in Attempts /\ record[r].attempt = record[r].count
        /\ record[r].receipt = None /\ evidence[r][f.attempt] = None /\ charged[r] = 0
        /\ record[r].state \in {"running", "cancelled"}
        /\ record' = [record EXCEPT ![r] = rec]
        /\ evidence' = [evidence EXCEPT ![r][f.attempt] = f.outcome]
        /\ run' = [run EXCEPT ![r] = run'[r]] /\ run'[r] \in Run
        /\ RunEnded(run'[r].state) => Terminal(rec.state)
        /\ Terminal(rec.state) \/ ~run'[r].assigned
        /\ lease' = [lease EXCEPT ![r] = EndLease(@)]
        /\ charged' = [charged EXCEPT ![r] = IF f.outcome = "completed" THEN 1 ELSE 0]
        /\ feedback' \in Feedback /\ UNCHANGED abort
    BY <1>2, <1>3, <1>7, FirstSettlement
  <2>2. /\ rec \in Record /\ rec.count = record[r].count
        /\ \/ /\ f.outcome = "rejected" /\ record[r].state = "running" /\ rec.state = "queued"
              /\ rec.attempt = 0 /\ rec.receipt = None
           \/ /\ rec.attempt = record[r].attempt /\ rec.receipt = f.outcome
              /\ rec.state = IF record[r].state = "cancelled" THEN "cancelled" ELSE StateOf(f.outcome)
    BY <1>2, <2>1, SettledRecord
  <2> HIDE DEF rec
  <2>3. files[r] = f /\ f.outcome \in Outcomes /\ (f.outcome \in Refusals => f.attempt < MaxAttempts)
    BY <1>2, <1>7 DEF Receipt
  <2>4. /\ evidence' \in [Requests -> [Attempts -> Results]] /\ evidence'[r][f.attempt] = f.outcome
        /\ \A a \in Attempts : a # f.attempt => evidence'[r][a] = evidence[r][a]
    BY <2>1, <2>3 DEF CompletionInv, TypeOK, Results
  <2>5. TypeOK'
    <3>1. EndLease(lease[r]) \in {"none", "open", "ended"}
      BY Here DEF EndLease
    <3>2. record' \in [Requests -> Record] /\ run' \in [Requests -> Run]
      BY <2>1, <2>2 DEF CompletionInv, TypeOK
    <3>3. lease' \in [Requests -> {"none", "open", "ended"}] /\ charged' \in [Requests -> {0, 1}]
      BY <2>1, <3>1 DEF CompletionInv, TypeOK
    <3> QED
      BY <1>1, <1>4, <2>1, <2>4, <3>2, <3>3 DEF CompletionInv, TypeOK, Processes
  <2>6. /\ record'[r] = rec /\ charged'[r] = IF f.outcome = "completed" THEN 1 ELSE 0
        /\ \A q \in Requests \ {r} : SameRow(q)
    BY <1>1, <2>1 DEF CompletionInv, TypeOK, SameRow
  <2>7. RecordOK(r)'
    <3>1. \A a \in Attempts : a \in sent'[r] \/ evidence'[r][a] # None => a <= rec.count
      <4>1. f.attempt <= rec.count
        BY <2>1, <2>2, Here, Fields
      <4> QED
        BY <1>1, <2>2, <2>4, <4>1, Here DEF RecordOK
    <3>2. \A a \in sent'[r] : a # rec.attempt => evidence'[r][a] \in Refusals
      BY <1>1, <2>1, <2>2, <2>4, Here DEF RecordOK, Refusals
    <3>3. \A a \in Attempts : evidence'[r][a] \in Refusals => a < MaxAttempts
      BY <2>3, <2>4, Here DEF RecordOK
    <3>4. f.attempt # 0
      BY <2>1, Fields
    <3>5. rec.attempt = 0 => rec.count < MaxAttempts /\ rec.receipt = None
      BY <2>1, <2>2, <2>3, <3>4 DEF Refusals
    <3>6. rec.attempt # 0 => rec.receipt = evidence'[r][rec.attempt]
      BY <2>1, <2>2, <2>4
    <3>7. /\ rec.state \in {"none", "queued"} => rec.attempt = 0
          /\ rec.state = "running" => rec.attempt # 0
      BY <2>2, <2>3 DEF StateOf, Outcomes, Refusals
    <3>8. charged'[r] = 1 <=> rec.attempt # 0 /\ rec.receipt = "completed"
      BY <2>1, <2>2, <2>6, <3>4
    <3>9. rec.attempt \in {0, rec.count}
      BY <2>1, <2>2
    <3> QED
      BY <2>6, <3>1, <3>2, <3>3, <3>5, <3>6, <3>7, <3>8, <3>9 DEF RecordOK
  <2>8. RunOK(r)'
    BY <2>1, <2>2, <2>3, <2>6 DEF RunOK, StateOf, Outcomes
  <2>9. active[r] = NoWork \/ host.busy = r
    BY <1>2, <2>3, Here DEF FileOK, WorkOK
  <2>10. WorkOK(r)'
    BY <1>1, <2>9, Here DEF WorkOK
  <2>11. Known(r, f)' /\ Receipt(r, f)'
    <3>1. rec.count = record[r].count /\ sent'[r] = sent[r]
      BY <1>1, <2>2
    <3> QED
      BY <1>2, <2>4, <2>6, <3>1, ReceiptStays DEF Known
  <2>12. FileOK(r)'
    <3>1. Receipt(r, files[r])'
      BY <1>1, <2>3, <2>11 DEF Receipt, Acceptable, Known
    <3> QED
      BY <1>1, <1>2, <2>3, <3>1, Here DEF FileOK
  <2>13. \A q \in Requests : RowOK(q)'
    BY <1>1, <2>6, <2>7, <2>8, <2>10, <2>12, Elsewhere DEF RowOK
  <2>14. ASSUME NEW o \in Processes PROVE ReaderOK(o)'
    <3>1. CASE o = p
      BY <1>1, <1>2, <1>4, <1>5, <2>11, <3>1, ReaderNext DEF Processes
    <3>2. CASE o # p
      <4> SUFFICES ASSUME recon[o].at # "idle" PROVE ReaderOK(o)'
        BY <1>4, <3>2 DEF ReaderOK
      <4>1. PICK q \in Requests, g \in File :
              /\ q = recon[o].request /\ g = recon[o].file /\ g # NoFile
              /\ Receipt(q, g) /\ files[q] \in {g, NoFile}
              /\ recon[o].at = "settled" \/ files[q] = NoFile => Known(q, g)
              /\ o = "daemon" => q \notin starts
              /\ o = "host" => HostReconciling
        BY Reading DEF Processes
      <4>2. CASE q = r
        <5>1. g = f
          BY <1>2, <2>3, <4>1, <4>2
        <5>2. recon'[o].request = r /\ recon'[o].file = f
          BY <1>4, <3>2, <4>1, <4>2, <5>1
        <5>3. files'[r] = f
          BY <1>1, <2>3
        <5>4. /\ o = "daemon" => r \notin starts'
              /\ o = "host" => HostReconciling'
          BY <1>1, <1>5, <4>1, <4>2
        <5> QED
          BY <2>11, <5>2, <5>3, <5>4, ReaderNext DEF Processes
      <4>3. CASE q # r
        <5>1. Receipt(q, g)' /\ (Known(q, g)' <=> Known(q, g)) /\ files'[q] = files[q]
          BY <2>6, <4>1, <4>3 DEF SameRow, Receipt, Acceptable, Known
        <5> QED
          BY <1>1, <1>4, <1>5, <3>2, <4>1, <5>1, ReaderNext DEF Processes
      <4> QED
        BY <4>2, <4>3
    <3> QED
      BY <3>1, <3>2
  <2> QED
    BY <1>1, <2>5, <2>13, <2>14 DEF CompletionInv, RowOK, Processes
<1> QED
  BY <1>6, <1>7

-----------------------------------------------------------------------------
(* The invariant, and what it gives.                                       *)

LEMMA InitInv == Init => CompletionInv
<1> SUFFICES ASSUME Init PROVE CompletionInv
  OBVIOUS
<1>1. TypeOK
  <2>1. [state |-> "none", assigned |-> FALSE] \in Run
    BY DEF Run, RunStates
  <2>2. record \in [Requests -> Record] /\ run \in [Requests -> Run] /\ files \in [Requests -> File] /\ active \in [Requests -> Work]
    BY <2>1, Fields DEF Init
  <2>3. recon \in [{"daemon", "host"} -> Reader]
    BY Fields DEF Init
  <2>4. evidence \in [Requests -> [Attempts -> Results]]
    BY DEF Init, Results
  <2>5. feedback \in Feedback
    BY DEF Init, Feedback
  <2> QED
    BY <2>2, <2>3, <2>4, <2>5 DEF Init, TypeOK
<1>2. ASSUME NEW r \in Requests PROVE RecordOK(r) /\ RunOK(r) /\ WorkOK(r) /\ FileOK(r)
  <2>1. /\ record[r] = NoRecord /\ run[r] = [state |-> "none", assigned |-> FALSE] /\ active[r] = NoWork /\ files[r] = NoFile
        /\ sent[r] = {} /\ evidence[r] = [a \in Attempts |-> None] /\ charged[r] = 0 /\ host.busy = None
    BY <1>2 DEF Init
  <2>2. RecordOK(r)
    BY <2>1, CompletionAssumption DEF RecordOK, NoRecord, Refusals, None, Attempts
  <2>3. RunOK(r)
    BY <2>1 DEF RunOK, NoRecord, RunEnded
  <2>4. WorkOK(r)
    BY <2>1, CompletionAssumption DEF WorkOK, NoWork
  <2>5. FileOK(r)
    BY <2>1 DEF FileOK
  <2> QED
    BY <2>2, <2>3, <2>4, <2>5
<1>3. \A p \in {"daemon", "host"} : ReaderOK(p)
  BY DEF Init, Idle, ReaderOK
<1> QED
  BY <1>1, <1>2, <1>3 DEF Init, CompletionInv

LEMMA NextInv == CompletionInv /\ [Next]_vars => CompletionInv'
<1> SUFFICES ASSUME CompletionInv, [Next]_vars PROVE CompletionInv'
  OBVIOUS
<1>1. ASSUME NEW r \in Requests,
             Submit(r) \/ Cancel(r) \/ Retry(r) \/ Launch(r) \/ Observe(r) \/ Forget(r) \/ Start(r) \/ Send(r) \/ Return(r)
      PROVE  CompletionInv'
  BY <1>1, SubmitInv, CancelInv, RetryInv, LaunchInv, DaemonSteps, HostSteps, ClaimInv, SendInv, ReturnInv DEF Start
<1>2. ASSUME NEW p \in Processes, Reconcile(p), p = "host" => HostReconciling PROVE CompletionInv'
  BY <1>2, ReadInv, SettleInv, RemoveInv DEF Reconcile
<1> QED
  BY <1>1, <1>2, DaemonSteps, HostSteps DEF Next, HostReconciles, Processes

THEOREM Invariance == Spec => []CompletionInv
<1> QED
  BY InitInv, NextInv, PTL DEF Spec

\* Records, runs, receipts and readers keep their shape.
THEOREM TypeCorrect == Spec => []TypeOK
<1>1. CompletionInv => TypeOK
  BY DEF CompletionInv
<1> QED
  BY <1>1, Invariance, PTL

\* Reconciliation never throws, whatever the other process settled meanwhile.
THEOREM EveryReceiptAccepted == Spec => []ReceiptsAccepted
<1>1. CompletionInv => ReceiptsAccepted
  BY DEF CompletionInv, ReaderOK, Receipt, ReceiptsAccepted
<1> QED
  BY <1>1, Invariance, PTL

\* A request that is at the provider counts against the account.
THEOREM LeasesCover == Spec => []LeaseCoversRequest
<1>1. CompletionInv => LeaseCoversRequest
  <2> SUFFICES ASSUME CompletionInv, NEW r \in Requests, active[r].sent, host.busy # r PROVE lease[r] = "open"
    BY DEF LeaseCoversRequest
  <2> QED
    BY Here DEF WorkOK, NoWork
<1> QED
  BY <1>1, Invariance, PTL

-----------------------------------------------------------------------------
(* What a step does to the receipt files.                                  *)

LEMMA FilesStay ==
  ASSUME [Next]_vars, files' # files
  PROVE  (\E p \in Processes : Remove(p)) \/ (\E r \in Requests : Return(r))
<1>1. ASSUME NEW r \in Requests,
             Submit(r) \/ Cancel(r) \/ Retry(r) \/ Launch(r) \/ Observe(r) \/ Forget(r) \/ Start(r) \/ Send(r)
      PROVE  FALSE
  BY <1>1 DEF Submit, Cancel, Retry, Launch, Observe, Forget, Start, StartIgnored, Claim, ClaimLost, Send
<1>2. ASSUME NEW p \in Processes, (\E r \in Requests : Read(p, r)) \/ SettleReceipt(p) PROVE FALSE
  BY <1>2 DEF Read, SettleReceipt
<1>3. ASSUME HostReconciled \/ LaunchHost \/ HostStops \/ HostExits \/ HostDies \/ DaemonRestarts \/ Elapse \/ UNCHANGED vars
      PROVE  FALSE
  BY <1>3 DEF HostReconciled, LaunchHost, HostStops, HostExits, HostDies, DaemonRestarts, Elapse, vars
<1> QED
  BY <1>1, <1>2, <1>3 DEF Next, HostReconciles, Reconcile, Processes

\* A result on disk stays until the ledger has it: only what was settled is
\* removed, and the host returns none over it.
THEOREM EveryReceiptKept == Spec => ReceiptKept
<1>1. ASSUME CompletionInv, [Next]_vars, NEW r \in Requests, files[r] # NoFile, files'[r] # files[r]
      PROVE  evidence'[r][files[r].attempt] = files[r].outcome
  <2>1. ASSUME NEW p \in Processes, Remove(p) PROVE evidence'[r][files[r].attempt] = files[r].outcome
    <3>1. PICK q \in Requests, f \in File :
            q = recon[p].request /\ f = recon[p].file /\ files[q] \in {f, NoFile} /\ Known(q, f)
      BY <1>1, <2>1, Reading DEF Remove, Processes
    <3>2. files' = [files EXCEPT ![q] = NoFile] /\ evidence' = evidence
      BY <2>1, <3>1 DEF Remove, ledger
    <3>3. q = r /\ files[r] = f
      BY <1>1, <3>1, <3>2 DEF CompletionInv, TypeOK
    <3> QED
      BY <3>1, <3>2, <3>3 DEF Known
  <2>2. ASSUME NEW q \in Requests, Return(q) PROVE FALSE
    <3>1. host.mode \in {"up", "closing"} /\ host.busy = None
      BY <2>2 DEF Return, HostFree
    <3> QED
      BY <1>1, <3>1, CompletionAssumption DEF CompletionInv, FileOK
  <2> QED
    BY <1>1, <2>1, <2>2, FilesStay
<1>2. CompletionInv /\ [Next]_vars =>
        \A r \in Requests :
          files[r] # NoFile /\ files'[r] # files[r] => evidence'[r][files[r].attempt] = files[r].outcome
  BY <1>1
<1> QED
  BY <1>2, Invariance, PTL DEF Spec, ReceiptKept

-----------------------------------------------------------------------------
(* The contract. Its state is the record's; a request is pending when the  *)
(* claimed attempt was sent and not refused.                               *)

Unrefused(S, E) == Cardinality({a \in S : E[a] \notin Refusals})

\* Of the attempts sent only one can be anything but refused.
LEMMA AtMostOnePending ==
  ASSUME NEW S, NEW E, NEW c, \A a \in S : a # c => E[a] \in Refusals
  PROVE  Unrefused(S, E) = IF c \in S /\ E[c] \notin Refusals THEN 1 ELSE 0
<1>1. CASE c \in S /\ E[c] \notin Refusals
  <2>1. {a \in S : E[a] \notin Refusals} = {c}
    BY <1>1
  <2> QED
    BY <1>1, <2>1, FS_Singleton DEF Unrefused
<1>2. CASE ~(c \in S /\ E[c] \notin Refusals)
  <2>1. {a \in S : E[a] \notin Refusals} = {}
    BY <1>2
  <2> QED
    BY <1>2, <2>1, FS_EmptySet DEF Unrefused
<1> QED
  BY <1>1, <1>2

IsPending(r) == record[r].attempt \in sent[r] /\ evidence[r][record[r].attempt] \notin Refusals

LEMMA PendingIs ==
  ASSUME NEW r \in Requests
  PROVE  /\ CompletionInv => PendingBar[r] = IF IsPending(r) THEN 1 ELSE 0
         /\ CompletionInv' => PendingBar'[r] = IF IsPending(r)' THEN 1 ELSE 0
<1>1. ASSUME CompletionInv PROVE PendingBar[r] = IF IsPending(r) THEN 1 ELSE 0
  <2>1. \A a \in sent[r] : a # record[r].attempt => evidence[r][a] \in Refusals
    BY <1>1, Here DEF RecordOK
  <2>2. PendingBar[r] = Unrefused(sent[r], evidence[r])
    BY DEF PendingBar, Unrefused
  <2>3. Unrefused(sent[r], evidence[r]) =
          IF record[r].attempt \in sent[r] /\ evidence[r][record[r].attempt] \notin Refusals THEN 1 ELSE 0
    BY <2>1, AtMostOnePending
  <2> QED
    BY <2>2, <2>3 DEF IsPending
<1>2. ASSUME CompletionInv' PROVE PendingBar'[r] = IF IsPending(r)' THEN 1 ELSE 0
  <2>1. \A a \in sent'[r] : a # record'[r].attempt => evidence'[r][a] \in Refusals
    BY <1>2 DEF CompletionInv, RecordOK
  <2>2. PendingBar'[r] = Unrefused(sent'[r], evidence'[r])
    BY DEF PendingBar, Unrefused
  <2>3. Unrefused(sent'[r], evidence'[r]) =
          IF record'[r].attempt \in sent'[r] /\ evidence'[r][record'[r].attempt] \notin Refusals THEN 1 ELSE 0
    BY <2>1, AtMostOnePending
  <2> QED
    BY <2>2, <2>3 DEF IsPending
<1> QED
  BY <1>1, <1>2

\* A step about one completion, in terms of the contract.
LEMMA BarStep ==
  ASSUME CompletionInv, CompletionInv', NEW r \in Requests,
         \A q \in Requests \ {r} :
           record'[q] = record[q] /\ sent'[q] = sent[q] /\ evidence'[q] = evidence[q] /\ charged'[q] = charged[q]
  PROVE  /\ StateBar[r] = record[r].state
         /\ StateBar' = [StateBar EXCEPT ![r] = record'[r].state]
         /\ PendingBar' = [PendingBar EXCEPT ![r] = PendingBar'[r]]
         /\ charged' = [charged EXCEPT ![r] = charged'[r]]
         /\ record'[r].state = record[r].state => StateBar' = StateBar
         /\ PendingBar'[r] = PendingBar[r] => PendingBar' = PendingBar
         /\ charged'[r] = charged[r] => charged' = charged
<1>1. StateBar' = [StateBar EXCEPT ![r] = record'[r].state] /\ StateBar[r] = record[r].state
  BY DEF StateBar
<1>2. PendingBar' = [PendingBar EXCEPT ![r] = PendingBar'[r]]
  <2>1. \A q \in Requests \ {r} : PendingBar'[q] = PendingBar[q]
    BY DEF PendingBar
  <2>2. PendingBar' = [q \in Requests |-> PendingBar'[q]] /\ PendingBar = [q \in Requests |-> PendingBar[q]]
    BY DEF PendingBar
  <2> HIDE DEF PendingBar
  <2> QED
    BY <2>1, <2>2
<1>3. charged' = [charged EXCEPT ![r] = charged'[r]]
  BY DEF CompletionInv, TypeOK
<1>4. record'[r].state = record[r].state => StateBar' = StateBar
  BY DEF StateBar
<1>5. PendingBar = [q \in Requests |-> PendingBar[q]]
  BY DEF PendingBar
<1>6. charged = [q \in Requests |-> charged[q]]
  BY DEF CompletionInv, TypeOK
<1> HIDE DEF PendingBar
<1> QED
  BY <1>1, <1>2, <1>3, <1>4, <1>5, <1>6

\* The contract's actions in these terms.
LEMMA ContractForms ==
  ASSUME NEW r \in Requests
  PROVE  /\ StateBar[r] = "none" /\ StateBar' = [StateBar EXCEPT ![r] = "queued"] /\ UNCHANGED <<PendingBar, charged>>
          => Contract!Submit(r)
         /\ StateBar[r] = "queued" /\ StateBar' = [StateBar EXCEPT ![r] = "running"] /\ UNCHANGED <<PendingBar, charged>>
          => Contract!Claim(r)
         /\ /\ StateBar[r] \in {"running", "cancelled"} /\ PendingBar[r] = 0
            /\ PendingBar' = [PendingBar EXCEPT ![r] = 1] /\ UNCHANGED <<StateBar, charged>>
          => Contract!Send(r)
         /\ /\ \/ StateBar[r] = "running" /\ \E s \in {"queued", "failed"} : StateBar' = [StateBar EXCEPT ![r] = s]
               \/ StateBar[r] = "failed" /\ StateBar' = [StateBar EXCEPT ![r] = "queued"]
               \/ StateBar[r] = "cancelled" /\ UNCHANGED StateBar
            /\ PendingBar' = [PendingBar EXCEPT ![r] = 0] /\ UNCHANGED charged
          => Contract!Refused(r)
         /\ /\ StateBar[r] = "running" /\ PendingBar[r] = 1 /\ charged[r] = 0
            /\ StateBar' = [StateBar EXCEPT ![r] = "completed"] /\ charged' = [charged EXCEPT ![r] = 1] /\ UNCHANGED PendingBar
          => Contract!Completed(r)
         /\ /\ StateBar[r] \in {"queued", "running"}
            /\ \E s \in {"failed", "cancelled", "indeterminate"} : StateBar' = [StateBar EXCEPT ![r] = s]
            /\ UNCHANGED <<PendingBar, charged>>
          => Contract!Unsuccessful(r)
         /\ /\ StateBar[r] = "cancelled" /\ PendingBar[r] = 1 /\ charged[r] = 0
            /\ charged' = [charged EXCEPT ![r] = 1] /\ UNCHANGED <<StateBar, PendingBar>>
          => Contract!CompletedLate(r)
<1>1. StateBar[r] = "none" /\ StateBar' = [StateBar EXCEPT ![r] = "queued"] /\ UNCHANGED <<PendingBar, charged>>
     => Contract!Submit(r)
  BY DEF Contract!Submit, Contract!Becomes
<1>2. StateBar[r] = "queued" /\ StateBar' = [StateBar EXCEPT ![r] = "running"] /\ UNCHANGED <<PendingBar, charged>>
     => Contract!Claim(r)
  BY DEF Contract!Claim, Contract!Becomes
<1>3. /\ StateBar[r] \in {"running", "cancelled"} /\ PendingBar[r] = 0
      /\ PendingBar' = [PendingBar EXCEPT ![r] = 1] /\ UNCHANGED <<StateBar, charged>>
     => Contract!Send(r)
  BY DEF Contract!Send
<1>4. /\ \/ StateBar[r] = "running" /\ \E s \in {"queued", "failed"} : StateBar' = [StateBar EXCEPT ![r] = s]
         \/ StateBar[r] = "failed" /\ StateBar' = [StateBar EXCEPT ![r] = "queued"]
         \/ StateBar[r] = "cancelled" /\ UNCHANGED StateBar
      /\ PendingBar' = [PendingBar EXCEPT ![r] = 0] /\ UNCHANGED charged
     => Contract!Refused(r)
  BY DEF Contract!Refused, Contract!Becomes
<1>5. /\ StateBar[r] = "running" /\ PendingBar[r] = 1 /\ charged[r] = 0
      /\ StateBar' = [StateBar EXCEPT ![r] = "completed"] /\ charged' = [charged EXCEPT ![r] = 1] /\ UNCHANGED PendingBar
     => Contract!Completed(r)
  BY DEF Contract!Completed, Contract!Becomes
<1>6. /\ StateBar[r] \in {"queued", "running"}
      /\ \E s \in {"failed", "cancelled", "indeterminate"} : StateBar' = [StateBar EXCEPT ![r] = s]
      /\ UNCHANGED <<PendingBar, charged>>
     => Contract!Unsuccessful(r)
  BY DEF Contract!Unsuccessful, Contract!Becomes, Contract!Open, Contract!Answers
<1>7. /\ StateBar[r] = "cancelled" /\ PendingBar[r] = 1 /\ charged[r] = 0
      /\ charged' = [charged EXCEPT ![r] = 1] /\ UNCHANGED <<StateBar, PendingBar>>
     => Contract!CompletedLate(r)
  BY DEF Contract!CompletedLate
<1> QED
  BY <1>1, <1>2, <1>3, <1>4, <1>5, <1>6, <1>7

\* What the contract allows to happen to one completion.
RowStep(r) ==
  \/ /\ charged'[r] = charged[r]
     /\ IsPending(r)' <=> IsPending(r)
     /\ \/ record'[r].state = record[r].state
        \/ record[r].state = "none" /\ record'[r].state = "queued"
        \/ record[r].state = "queued" /\ record'[r].state = "running"
        \/ record[r].state \in {"queued", "running"} /\ record'[r].state \in {"failed", "cancelled", "indeterminate"}
  \/ /\ charged'[r] = charged[r]
     /\ ~IsPending(r) /\ IsPending(r)'
     /\ record[r].state \in {"running", "cancelled"} /\ record'[r].state = record[r].state
  \/ /\ charged'[r] = charged[r]
     /\ ~IsPending(r)'
     /\ \/ record[r].state = "running" /\ record'[r].state \in {"queued", "failed"}
        \/ record[r].state = "failed" /\ record'[r].state = "queued"
        \/ record[r].state = "cancelled" /\ record'[r].state = "cancelled"
  \/ /\ charged[r] = 0 /\ charged'[r] = 1
     /\ IsPending(r) /\ IsPending(r)'
     /\ \/ record[r].state = "running" /\ record'[r].state = "completed"
        \/ record[r].state = "cancelled" /\ record'[r].state = "cancelled"

ContractStep == Contract!Next \/ UNCHANGED <<StateBar, PendingBar, charged>>

LEMMA RowStepIsContract ==
  ASSUME CompletionInv, CompletionInv', NEW r \in Requests, RowStep(r),
         \A q \in Requests \ {r} :
           record'[q] = record[q] /\ sent'[q] = sent[q] /\ evidence'[q] = evidence[q] /\ charged'[q] = charged[q]
  PROVE  ContractStep
<1>1. /\ StateBar[r] = record[r].state
      /\ StateBar' = [StateBar EXCEPT ![r] = record'[r].state]
      /\ PendingBar' = [PendingBar EXCEPT ![r] = PendingBar'[r]]
      /\ charged' = [charged EXCEPT ![r] = charged'[r]]
      /\ record'[r].state = record[r].state => StateBar' = StateBar
      /\ PendingBar'[r] = PendingBar[r] => PendingBar' = PendingBar
      /\ charged'[r] = charged[r] => charged' = charged
  BY BarStep
<1>2. PendingBar[r] = (IF IsPending(r) THEN 1 ELSE 0) /\ PendingBar'[r] = IF IsPending(r)' THEN 1 ELSE 0
  BY PendingIs
<1>3. ASSUME Contract!Submit(r) \/ Contract!Claim(r) \/ Contract!Send(r) \/ Contract!Refused(r) \/ Contract!Completed(r)
             \/ Contract!Unsuccessful(r) \/ Contract!CompletedLate(r)
      PROVE  ContractStep
  BY <1>3 DEF ContractStep, Contract!Next
<1>4. CASE charged'[r] = charged[r] /\ (IsPending(r)' <=> IsPending(r))
  <2>1. UNCHANGED <<PendingBar, charged>>
    BY <1>1, <1>2, <1>4
  <2>2. CASE record'[r].state = record[r].state
    BY <1>1, <2>1, <2>2 DEF ContractStep
  <2>3. CASE record[r].state = "none" /\ record'[r].state = "queued"
    BY <1>1, <1>3, <2>1, <2>3, ContractForms
  <2>4. CASE record[r].state = "queued" /\ record'[r].state = "running"
    BY <1>1, <1>3, <2>1, <2>4, ContractForms
  <2>5. CASE record[r].state \in {"queued", "running"} /\ record'[r].state \in {"failed", "cancelled", "indeterminate"}
    BY <1>1, <1>3, <2>1, <2>5, ContractForms
  <2>6. CASE ~IsPending(r)' /\ \/ record[r].state = "running" /\ record'[r].state = "queued"
                               \/ record[r].state = "failed" /\ record'[r].state = "queued"
    BY <1>1, <1>2, <1>3, <2>1, <2>6, ContractForms
  <2> QED
    BY <1>4, <2>2, <2>3, <2>4, <2>5, <2>6 DEF RowStep
<1>5. CASE /\ charged'[r] = charged[r] /\ ~IsPending(r) /\ IsPending(r)'
           /\ record[r].state \in {"running", "cancelled"} /\ record'[r].state = record[r].state
  BY <1>1, <1>2, <1>3, <1>5, ContractForms
<1>6. CASE /\ charged'[r] = charged[r] /\ ~IsPending(r)'
           /\ \/ record[r].state = "running" /\ record'[r].state \in {"queued", "failed"}
              \/ record[r].state = "failed" /\ record'[r].state = "queued"
              \/ record[r].state = "cancelled" /\ record'[r].state = "cancelled"
  BY <1>1, <1>2, <1>3, <1>6, ContractForms
<1>7. CASE /\ charged[r] = 0 /\ charged'[r] = 1 /\ IsPending(r) /\ IsPending(r)'
           /\ \/ record[r].state = "running" /\ record'[r].state = "completed"
              \/ record[r].state = "cancelled" /\ record'[r].state = "cancelled"
  BY <1>1, <1>2, <1>3, <1>7, ContractForms
<1> QED
  BY <1>4, <1>5, <1>6, <1>7 DEF RowStep

\* The steps of the ledger, completion by completion.
LEMMA LedgerSteps ==
  ASSUME CompletionInv, CompletionInv', NEW r \in Requests, Submit(r) \/ Cancel(r) \/ Retry(r) \/ Claim(r) \/ ClaimLost(r)
  PROVE  ContractStep
<1>1. /\ \A q \in Requests \ {r} : record'[q] = record[q]
      /\ UNCHANGED <<sent, evidence, charged>>
  BY DEF Submit, Cancel, Retry, Requeue, Claim, ClaimLost, CompletionInv, TypeOK
<1>2. record \in [Requests -> Record] /\ RecordOK(r) /\ RecordOK(r)' /\ RunOK(r)
  BY DEF CompletionInv, TypeOK
<1>3. CASE Submit(r)
  <2>1. record[r].state = "none" /\ record'[r].state = "queued" /\ record'[r].attempt = record[r].attempt
    BY <1>2, <1>3 DEF Submit, Record
  <2> QED
    BY <1>1, <2>1, RowStepIsContract DEF RowStep, IsPending
<1>4. CASE Cancel(r)
  <2>1. record[r].state \in {"queued", "running"} /\ record'[r].state = "cancelled" /\ record'[r].attempt = record[r].attempt
    BY <1>2, <1>4 DEF Cancel, Record
  <2> QED
    BY <1>1, <2>1, RowStepIsContract DEF RowStep, IsPending
<1>5. CASE Retry(r)
  <2>1. record[r].state = "failed" /\ record'[r].state = "queued" /\ record'[r].attempt = 0
    BY <1>2, <1>5 DEF Retry, Requeue, Record
  <2>2. ~IsPending(r)'
    BY <1>1, <2>1, Here, Fields DEF IsPending
  <2> QED
    BY <1>1, <2>1, <2>2, RowStepIsContract DEF RowStep
<1>6. CASE Claim(r)
  <2>1. record[r].attempt = 0 /\ ~Terminal(record[r].state) /\ run[r].assigned /\ record'[r].state = "running"
    BY <1>2, <1>6 DEF Claim, Startable, Owned, Synchronized, Record
  <2>2. record[r].state = "queued"
    BY <1>2, <2>1 DEF RecordOK, RunOK, Record, States, Terminal
  <2>3. record'[r].attempt = record[r].count + 1 /\ record[r].count \in 0..MaxAttempts
    BY <1>2, <1>6 DEF Claim, Record
  <2>4. record'[r].attempt \notin sent[r]
    <3>1. ~(record[r].count + 1 <= record[r].count)
      BY <2>3, Fields
    <3> QED
      BY <2>3, <3>1, Here DEF RecordOK
  <2>5. ~IsPending(r) /\ ~IsPending(r)'
    BY <1>1, <2>1, <2>4, Here, Fields DEF IsPending
  <2> QED
    BY <1>1, <2>1, <2>2, <2>5, RowStepIsContract DEF RowStep
<1>7. CASE ClaimLost(r)
  <2>1. /\ record[r].attempt # 0 /\ ~Terminal(record[r].state) /\ run[r].assigned
        /\ record'[r].state = "indeterminate" /\ record'[r].attempt = record[r].attempt
    BY <1>2, <1>7 DEF ClaimLost, Startable, Owned, Synchronized, Record
  <2>2. record[r].state \in {"queued", "running"}
    BY <1>2, <2>1 DEF RecordOK, RunOK, Record, States, Terminal
  <2> QED
    BY <1>1, <2>1, <2>2, RowStepIsContract DEF RowStep, IsPending
<1> QED
  BY <1>3, <1>4, <1>5, <1>6, <1>7

LEMMA SendStep ==
  ASSUME CompletionInv, CompletionInv', NEW r \in Requests, Send(r)
  PROVE  ContractStep
<1>1. /\ host.busy = None /\ active[r] # NoWork /\ ~active[r].sent
      /\ sent' = [sent EXCEPT ![r] = @ \cup {active[r].attempt}]
      /\ UNCHANGED <<record, evidence, charged>>
  BY DEF Send, HostFree, ledger
<1>2. /\ active[r].attempt = record[r].attempt /\ record[r].receipt = None /\ record[r].attempt \notin sent[r]
      /\ record[r].state \in {"running", "cancelled"}
  BY <1>1, Here, CompletionAssumption DEF WorkOK
<1>3. record[r].attempt # 0
  BY <1>1, <1>2, Here DEF Work, NoWork, WorkOK
<1>4. evidence[r][record[r].attempt] = None
  BY <1>2, <1>3, Here DEF RecordOK
<1>5. ~IsPending(r) /\ IsPending(r)'
  BY <1>1, <1>2, <1>4 DEF IsPending, Refusals, None, CompletionInv, TypeOK
<1>6. \A q \in Requests \ {r} : sent'[q] = sent[q]
  BY <1>1 DEF CompletionInv, TypeOK
<1> QED
  BY <1>1, <1>2, <1>5, <1>6, RowStepIsContract DEF RowStep

LEMMA SettleStep ==
  ASSUME CompletionInv, CompletionInv', NEW p \in Processes, SettleReceipt(p)
  PROVE  ContractStep
<1>1. PICK r \in Requests, f \in File : r = recon[p].request /\ f = recon[p].file /\ Receipt(r, f)
  BY Reading DEF SettleReceipt, Processes
<1>2. Settle(r, f) /\ sent' = sent
  BY <1>1 DEF SettleReceipt
<1>3. CASE Known(r, f)
  <2>1. UNCHANGED <<record, evidence, charged, sent>>
    BY <1>2, <1>3 DEF Settle, ledger
  <2> QED
    BY <2>1 DEF ContractStep, StateBar, PendingBar
<1>4. CASE ~Known(r, f)
  <2> DEFINE rec == Settled(r, f)
  <2>1. /\ f.attempt = record[r].attempt /\ f.attempt \in Attempts
        /\ evidence[r][f.attempt] = None /\ charged[r] = 0
        /\ record[r].state \in {"running", "cancelled"}
        /\ record' = [record EXCEPT ![r] = rec]
        /\ evidence' = [evidence EXCEPT ![r][f.attempt] = f.outcome]
        /\ charged' = [charged EXCEPT ![r] = IF f.outcome = "completed" THEN 1 ELSE 0]
    BY <1>1, <1>2, <1>4, FirstSettlement
  <2>2. \/ /\ f.outcome = "rejected" /\ record[r].state = "running" /\ rec.state = "queued"
           /\ rec.attempt = 0
        \/ /\ rec.attempt = record[r].attempt
           /\ rec.state = IF record[r].state = "cancelled" THEN "cancelled" ELSE StateOf(f.outcome)
    BY <1>1, <2>1, SettledRecord
  <2> HIDE DEF rec
  <2>3. /\ record'[r] = rec /\ evidence'[r][f.attempt] = f.outcome
        /\ charged'[r] = IF f.outcome = "completed" THEN 1 ELSE 0
    BY <2>1 DEF CompletionInv, TypeOK
  <2>4. \A q \in Requests \ {r} : record'[q] = record[q] /\ sent'[q] = sent[q] /\ evidence'[q] = evidence[q] /\ charged'[q] = charged[q]
    BY <1>2, <2>1 DEF CompletionInv, TypeOK
  <2>5. SUFFICES RowStep(r)
    BY <2>4, RowStepIsContract
  <2>6. f.outcome \in Outcomes /\ (f.outcome = "completed" => f.attempt \in sent[r]) /\ 0 \notin sent[r]
    BY <1>1, Here, Fields DEF Receipt
  <2>7. IsPending(r) <=> f.attempt \in sent[r]
    BY <2>1 DEF IsPending, Refusals, None
  <2>8. CASE rec.attempt = 0
    <3>1. ~IsPending(r)' /\ f.outcome = "rejected" /\ record[r].state = "running" /\ rec.state = "queued"
      BY <1>2, <2>1, <2>2, <2>3, <2>6, <2>8, Fields DEF IsPending
    <3> QED
      BY <2>1, <2>3, <3>1 DEF RowStep
  <2>9. CASE rec.attempt # 0
    <3>1. rec.attempt = f.attempt /\ rec.state = IF record[r].state = "cancelled" THEN "cancelled" ELSE StateOf(f.outcome)
      BY <2>1, <2>2, <2>9
    <3>2. IsPending(r)' <=> f.attempt \in sent[r] /\ f.outcome \notin Refusals
      BY <1>2, <2>3, <3>1 DEF IsPending
    <3>3. CASE f.outcome \in Refusals
      BY <2>1, <2>3, <3>1, <3>2, <3>3 DEF RowStep, StateOf, Refusals
    <3>4. CASE f.outcome = "completed"
      BY <2>1, <2>3, <2>6, <2>7, <3>1, <3>2, <3>4 DEF RowStep, StateOf, Refusals
    <3>5. CASE f.outcome \in {"failed", "cancelled", "indeterminate"}
      BY <2>1, <2>3, <2>7, <3>1, <3>2, <3>5 DEF RowStep, StateOf, Refusals
    <3> QED
      BY <2>6, <3>3, <3>4, <3>5 DEF Outcomes, Refusals
  <2> QED
    BY <2>8, <2>9
<1> QED
  BY <1>3, <1>4

LEMMA OtherSteps ==
  ASSUME \/ \E r \in Requests : Launch(r) \/ Observe(r) \/ Forget(r) \/ StartIgnored(r) \/ Return(r)
         \/ \E p \in Processes : Remove(p) \/ \E r \in Requests : Read(p, r)
         \/ HostReconciled \/ LaunchHost \/ HostStops \/ HostExits \/ HostDies \/ DaemonRestarts \/ Elapse
         \/ UNCHANGED vars
  PROVE  ContractStep
<1>1. UNCHANGED <<record, evidence, charged, sent>>
  BY DEF Launch, Observe, Forget, StartIgnored, Return, Remove, Read, HostReconciled, LaunchHost, HostStops, HostExits,
         HostDies, DaemonRestarts, Elapse, vars, ledger
<1> QED
  BY <1>1 DEF ContractStep, StateBar, PendingBar

LEMMA InitContract == Init => Contract!Init
<1> SUFFICES ASSUME Init PROVE Contract!Init
  OBVIOUS
<1>1. StateBar = [r \in Requests |-> "none"]
  BY DEF Init, NoRecord, StateBar
<1>2. PendingBar = [r \in Requests |-> 0]
  <2>1. \A r \in Requests : {a \in sent[r] : evidence[r][a] \notin Refusals} = {}
    BY DEF Init
  <2> QED
    BY <2>1, FS_EmptySet DEF PendingBar
<1> QED
  BY <1>1, <1>2 DEF Init, Contract!Init

LEMMA NextContract == CompletionInv /\ CompletionInv' /\ [Next]_vars => [Contract!Next]_Contract!vars
<1> SUFFICES ASSUME CompletionInv, CompletionInv', [Next]_vars PROVE ContractStep
  BY DEF ContractStep, Contract!vars
<1>1. ASSUME NEW r \in Requests,
             Submit(r) \/ Cancel(r) \/ Retry(r) \/ Launch(r) \/ Observe(r) \/ Forget(r) \/ Start(r) \/ Send(r) \/ Return(r)
      PROVE  ContractStep
  BY <1>1, LedgerSteps, SendStep, OtherSteps DEF Start
<1>2. ASSUME NEW p \in Processes, Reconcile(p) PROVE ContractStep
  BY <1>2, SettleStep, OtherSteps DEF Reconcile
<1> QED
  BY <1>1, <1>2, OtherSteps DEF Next, HostReconciles, Processes

\* Whatever dies and whatever is settled twice, each completion keeps its
\* contract with its caller: one request at the provider unless the provider
\* refused it, one final answer, one charge.
THEOREM Refinement == Spec => KeepsContract
<1> QED
  BY InitContract, NextContract, Invariance, PTL DEF Spec, KeepsContract, Contract!Spec
=============================================================================
