---------------------- MODULE SharedCredential_proofs ----------------------
(***************************************************************************)
(* The shared credential for any processes and any number of grants. What  *)
(* depends on the lock is proved of every history in which no process      *)
(* removes a lock that another one holds (NoTheft); two processes have no   *)
(* other histories.                                                        *)
(***************************************************************************)
EXTENDS SharedCredential, TLAPS

Issued == 0..provider.issued

\* A credential that is, or may become, the file's.
CredentialOK(c) ==
  /\ c.grant \in Issued
  /\ c.due => c.state = "refresh-required"
  /\ c.state = "login-required" => c.grant \notin provider.usable \/ c.grant \in rejected

\* What an operation holds, reports and was answered.
OperationOK(o) ==
  /\ CredentialOK(o.current) /\ o.grant \in Issued
  /\ o.operation \in Reports => o.token \in provider.refused
  /\ o.at = "answered" /\ o.answer = "refused" => o.current.grant \notin provider.usable

\* The answer with a new grant is on its way to the file.
Rotated(o) == o.at = "answered" /\ o.answer = "refreshed"

\* Nobody else has that grant yet.
RotatedIsNew ==
  \A p \in Processes : Rotated(process[p]) =>
    /\ process[p].grant # 0
    /\ process[p].grant \notin provider.refused /\ process[p].grant # file.grant
    /\ \A q \in Processes :
         /\ served[q] # process[p].grant /\ process[q].current.grant # process[p].grant
         /\ q # p /\ Rotated(process[q]) => process[q].grant # process[p].grant

CredentialInv ==
  /\ TypeOK
  /\ provider.usable \subseteq Issued /\ provider.refused \subseteq Issued
  /\ CredentialOK(file) /\ \A p \in Processes : OperationOK(process[p])
  /\ RotatedIsNew

-----------------------------------------------------------------------------
(* What every step leaves true of what the provider and the reports say.   *)

Grows ==
  /\ provider' \in [issued : Grants, usable : SUBSET Grants, refused : SUBSET Grants]
  /\ provider.issued <= provider'.issued
  /\ provider'.usable \subseteq 0..provider'.issued /\ provider'.usable \cap Issued \subseteq provider.usable
  /\ provider.refused \subseteq provider'.refused /\ provider'.refused \subseteq 0..provider'.issued
  /\ rejected \subseteq rejected' /\ rejected' \subseteq provider'.refused

LEMMA Fixed ==
  ASSUME CredentialInv, UNCHANGED <<provider, rejected>>
  PROVE  Grows /\ Issued' = Issued
<1>1. provider' = provider /\ rejected' = rejected
  OBVIOUS
<1>2. Issued' = Issued /\ provider.issued <= provider.issued
  BY <1>1 DEF CredentialInv, TypeOK, Issued, Grants
<1> QED
  BY <1>1, <1>2 DEF CredentialInv, TypeOK, Grows, Issued

LEMMA StaysOK ==
  ASSUME CredentialInv, Grows
  PROVE  /\ Issued \subseteq Issued'
         /\ \A c \in Credential : CredentialOK(c) => CredentialOK(c)'
         /\ \A o \in Operation : OperationOK(o) => OperationOK(o)'
<1>1. Issued \subseteq Issued'
  BY CredentialAssumption DEF CredentialInv, TypeOK, Grows, Issued, Grants
<1>2. ASSUME NEW c \in Credential, CredentialOK(c) PROVE CredentialOK(c)'
  BY <1>1, <1>2 DEF CredentialOK, Grows
<1>3. ASSUME NEW o \in Operation, OperationOK(o) PROVE OperationOK(o)'
  <2>1. o.current \in Credential
    BY DEF Operation
  <2>2. CredentialOK(o.current)'
    BY <1>2, <1>3, <2>1 DEF OperationOK
  <2>3. o.current.grant \in Issued
    BY <1>3 DEF OperationOK, CredentialOK
  <2> QED
    BY <1>1, <1>3, <2>2, <2>3 DEF OperationOK, Grows
<1> QED
  BY <1>1, <1>2, <1>3

\* A step of one process that brings no grant.
LEMMA Moved ==
  ASSUME CredentialInv, Grows, NEW p \in Processes, NEW op \in Operation,
         process' = [process EXCEPT ![p] = op], OperationOK(op)', ~Rotated(op),
         lock' \in BOOLEAN, file' \in Credential, CredentialOK(file)',
         served' \in [Processes -> Issued'],
         \A q \in Processes \ {p} : Rotated(process[q]) =>
           /\ process[q].grant \notin provider'.refused
           /\ process[q].grant # file'.grant /\ process[q].grant # op.current.grant
           /\ served'[p] # process[q].grant,
         \A q \in Processes \ {p} : served'[q] = served[q]
  PROVE  CredentialInv'
<1>1. process \in [Processes -> Operation] /\ process' \in [Processes -> Operation]
  BY DEF CredentialInv, TypeOK
<1>2. TypeOK'
  BY <1>1 DEF TypeOK, Grows, CredentialOK, Issued
<1>3. \A q \in Processes : OperationOK(process[q])'
  <2> TAKE q \in Processes
  <2>1. CASE q = p
    BY <1>1, <2>1 DEF OperationOK, CredentialOK
  <2>2. CASE q # p
    <3>1. process'[q] = process[q] /\ process[q] \in Operation /\ OperationOK(process[q])
      BY <1>1, <2>2 DEF CredentialInv
    <3>2. OperationOK(process[q]) => \A o \in Operation : o = process[q] => OperationOK(o)'
      BY <3>1, StaysOK
    <3> QED
      BY <3>1, <3>2 DEF OperationOK, CredentialOK
  <2> QED
    BY <2>1, <2>2
<1>4. RotatedIsNew'
  <2> SUFFICES ASSUME NEW q \in Processes, Rotated(process'[q]), NEW k \in Processes
               PROVE  /\ process'[q].grant # 0 /\ process'[q].grant \notin provider'.refused /\ process'[q].grant # file'.grant
                      /\ served'[k] # process'[q].grant /\ process'[k].current.grant # process'[q].grant
                      /\ k # q /\ Rotated(process'[k]) => process'[k].grant # process'[q].grant
    BY DEF RotatedIsNew, Rotated
  <2>1. q # p /\ process'[q] = process[q] /\ Rotated(process[q]) /\ process[q].grant # 0
    BY <1>1 DEF CredentialInv, RotatedIsNew
  <2>2. CASE k = p
    BY <1>1, <2>1, <2>2
  <2>3. CASE k # p
    BY <1>1, <2>1, <2>3 DEF CredentialInv, RotatedIsNew
  <2> QED
    BY <2>2, <2>3
<1> QED
  BY <1>2, <1>3, <1>4 DEF CredentialInv, Grows, Issued

Steps == {"idle", "waiting", "stale", "locked", "provider", "answered", "effect", "dead"}
Answers == {"none", "refreshed", "refused", "failed"}

LEMMA Updates ==
  ASSUME NEW o \in Operation
  PROVE  /\ \A at \in Steps : [o EXCEPT !.at = at] \in Operation
         /\ \A at \in Steps, c \in Credential : [o EXCEPT !.at = at, !.current = c] \in Operation
         /\ \A at \in Steps, answer \in Answers : [o EXCEPT !.at = at, !.answer = answer] \in Operation
         /\ \A at \in Steps, answer \in Answers, g \in Grants :
              [o EXCEPT !.at = at, !.answer = answer, !.grant = g] \in Operation
<1>1. ASSUME NEW at \in Steps PROVE [o EXCEPT !.at = at] \in Operation
  BY DEF Operation, Steps
<1>2. ASSUME NEW at \in Steps, NEW c \in Credential PROVE [o EXCEPT !.at = at, !.current = c] \in Operation
  BY DEF Operation, Steps
<1>3. ASSUME NEW at \in Steps, NEW answer \in Answers PROVE [o EXCEPT !.at = at, !.answer = answer] \in Operation
  BY DEF Operation, Steps, Answers
<1>4. ASSUME NEW at \in Steps, NEW answer \in Answers, NEW g \in Grants
      PROVE  [o EXCEPT !.at = at, !.answer = answer, !.grant = g] \in Operation
  BY DEF Operation, Steps, Answers
<1> QED
  BY <1>1, <1>2, <1>3, <1>4

LEMMA Fresh0 ==
  /\ \A g \in Grants : Fresh(g) \in Credential /\ Fresh(g).grant = g /\ Fresh(g).state = "good" /\ ~Fresh(g).due
  /\ 0 \in Grants
  /\ \A at \in Steps : [Idle EXCEPT !.at = at] \in Operation
  /\ Idle \in Operation /\ ~Rotated(Idle)
<1>1. 0 \in Grants
  BY CredentialAssumption DEF Grants
<1>2. \A g \in Grants : Fresh(g) \in Credential /\ Fresh(g).grant = g /\ Fresh(g).state = "good" /\ ~Fresh(g).due
  BY DEF Fresh, Credential
<1>3. Idle \in Operation
  BY <1>1, <1>2 DEF Idle, Operation, Operations
<1> QED
  BY <1>1, <1>2, <1>3, Updates DEF Idle, Rotated

LEMMA IdleOK ==
  ASSUME CredentialInv
  PROVE  /\ OperationOK(Idle) /\ Idle.current.grant = 0
         /\ OperationOK([Idle EXCEPT !.at = "dead"])
<1>1. 0 \in Issued
  BY CredentialAssumption DEF CredentialInv, TypeOK, Issued, Grants
<1> QED
  BY <1>1 DEF OperationOK, CredentialOK, Idle, Fresh, Reports

\* A step of one process that leaves the file and the provider alone.
LEMMA Private ==
  ASSUME CredentialInv, NEW p \in Processes, NEW op \in Operation,
         process' = [process EXCEPT ![p] = op], OperationOK(op), ~Rotated(op),
         op.current.grant \in {process[p].current.grant, file.grant, 0}, lock' \in BOOLEAN,
         UNCHANGED <<file, served, provider, rejected>>
  PROVE  CredentialInv'
<1>1. Grows /\ Issued' = Issued
  BY Fixed
<1>2. OperationOK(op)' /\ CredentialOK(file)' /\ file' \in Credential
  BY <1>1 DEF OperationOK, CredentialOK, CredentialInv, TypeOK
<1>3. served' \in [Processes -> Issued']
  BY <1>1 DEF CredentialInv, TypeOK, Issued
<1>4. \A q \in Processes \ {p} : Rotated(process[q]) =>
        /\ process[q].grant \notin provider'.refused
        /\ process[q].grant # file'.grant /\ process[q].grant # op.current.grant
        /\ served'[p] # process[q].grant
  BY DEF CredentialInv, RotatedIsNew
<1> QED
  BY <1>1, <1>2, <1>3, <1>4, Moved

LEMMA PrivateSteps ==
  ASSUME CredentialInv, NEW p \in Processes,
         \/ \E operation \in Operations : Begin(p, operation)
         \/ TakeLock(p) \/ FindStale(p) \/ RemoveStale(p) \/ GiveUp(p)
         \/ RefusedUse(p) \/ AbortUse(p) \/ RefreshNothing(p)
         \/ RefuseSpent(p) \/ FailRefresh(p) \/ RefreshFailed(p) \/ Die(p)
  PROVE  CredentialInv'
<1>1. process[p] \in Operation /\ OperationOK(process[p]) /\ lock \in BOOLEAN
  BY DEF CredentialInv, TypeOK
<1>2. ASSUME NEW operation \in Operations, Begin(p, operation) PROVE CredentialInv'
  <2> DEFINE op == [Idle EXCEPT !.at = "waiting", !.operation = operation,
                                !.token = IF operation \in Reports THEN served[p] ELSE 0]
  <2>1. served[p] \in Grants
    BY CredentialAssumption DEF CredentialInv, TypeOK, Grants
  <2>2. op \in Operation /\ ~Rotated(op) /\ op.current = Idle.current
    BY <2>1, Fresh0 DEF Operation, Idle, Rotated
  <2>3. OperationOK(op)
    BY <1>2, <2>2, IdleOK DEF OperationOK, Begin, Idle
  <2> QED
    BY <1>1, <1>2, <2>2, <2>3, IdleOK, Private DEF Begin
<1>3. ASSUME NEW at \in {"locked", "stale", "waiting"}, process' = [process EXCEPT ![p].at = at],
             lock' \in BOOLEAN, UNCHANGED <<file, served, provider, rejected>>
      PROVE  CredentialInv'
  <2> DEFINE op == [process[p] EXCEPT !.at = at]
  <2>1. op \in Operation
    BY <1>1, Updates DEF Steps
  <2>2. ~Rotated(op)
    BY <1>1 DEF Rotated, Operation
  <2>3. OperationOK(op) /\ op.current = process[p].current
    BY <1>1, <1>3 DEF OperationOK, Operation
  <2> QED
    BY <1>3, <2>1, <2>2, <2>3, Private
<1>4. CASE TakeLock(p) \/ FindStale(p) \/ RemoveStale(p)
  BY <1>1, <1>3, <1>4 DEF TakeLock, FindStale, RemoveStale
<1>5. CASE GiveUp(p) \/ RefusedUse(p) \/ AbortUse(p) \/ RefreshNothing(p) \/ RefreshFailed(p)
  <2>1. /\ process' = [process EXCEPT ![p] = Idle] /\ lock' \in BOOLEAN
        /\ UNCHANGED <<file, served, provider, rejected>>
    BY <1>1, <1>5 DEF GiveUp, RefusedUse, AbortUse, RefreshNothing, RefreshFailed, Release
  <2> QED
    BY <2>1, IdleOK, Fresh0, Private
<1>6. CASE Die(p)
  <2> DEFINE op == [Idle EXCEPT !.at = "dead"]
  <2>1. op \in Operation /\ ~Rotated(op) /\ op.current.grant = 0
    BY Fresh0, IdleOK DEF Steps, Rotated, Idle
  <2> QED
    BY <1>1, <1>6, <2>1, IdleOK, Private DEF Die
<1>7. CASE RefuseSpent(p) \/ FailRefresh(p)
  <2>1. PICK answer \in {"refused", "failed"} :
          /\ process' = [process EXCEPT ![p].at = "answered", ![p].answer = answer]
          /\ answer = "refused" => process[p].current.grant \notin provider.usable
          /\ UNCHANGED <<lock, file, served, provider, rejected>>
    BY <1>7 DEF RefuseSpent, FailRefresh
  <2> DEFINE op == [process[p] EXCEPT !.at = "answered", !.answer = answer]
  <2>2. op \in Operation
    BY <1>1, Updates DEF Steps, Answers
  <2>3. ~Rotated(op)
    BY <1>1 DEF Rotated, Operation
  <2>4. OperationOK(op) /\ op.current = process[p].current
    BY <1>1, <2>1 DEF OperationOK, Operation
  <2> QED
    BY <1>1, <2>1, <2>2, <2>3, <2>4, Private
<1> QED
  BY <1>2, <1>4, <1>5, <1>6, <1>7

-----------------------------------------------------------------------------
(* Steps that write the file, or give a token to the caller.               *)

\* What is written and served is what the file or the operation had.
LEMMA Rewrites ==
  ASSUME CredentialInv, NEW p \in Processes, NEW op \in Operation,
         process' = [process EXCEPT ![p] = op], OperationOK(op)', ~Rotated(op),
         op.current.grant \in {process[p].current.grant, file.grant, 0},
         lock' \in BOOLEAN, file' \in Credential, CredentialOK(file)',
         file'.grant \in {file.grant, process[p].current.grant},
         served' = served \/ Serve(p, file.grant),
         UNCHANGED provider, rejected \subseteq rejected', rejected' \subseteq provider.refused
  PROVE  CredentialInv'
<1>1. Grows /\ Issued' = Issued
  <2>1. Issued' = Issued /\ provider.issued <= provider.issued
    BY DEF CredentialInv, TypeOK, Issued, Grants
  <2> QED
    BY <2>1 DEF CredentialInv, TypeOK, Grows, Issued
<1>2. served' \in [Processes -> Issued'] /\ \A q \in Processes \ {p} : served'[q] = served[q]
  BY <1>1 DEF CredentialInv, TypeOK, Issued, Serve, CredentialOK
<1>3. served'[p] \in {served[p], file.grant}
  BY DEF CredentialInv, TypeOK, Serve
<1>4. \A q \in Processes \ {p} : Rotated(process[q]) =>
        /\ process[q].grant \notin provider'.refused
        /\ process[q].grant # file'.grant /\ process[q].grant # op.current.grant
        /\ served'[p] # process[q].grant
  BY <1>3 DEF CredentialInv, RotatedIsNew
<1> QED
  BY <1>1, <1>2, <1>4, Moved

LEMMA FileShapes ==
  ASSUME CredentialInv
  PROVE  /\ \A c \in Credential :
              /\ [c EXCEPT !.present = FALSE] \in Credential
              /\ Quarantined(c) \in Credential /\ Quarantined(c).grant = c.grant
              /\ ~Quarantined(c).due /\ Quarantined(c).state = "login-required"
         /\ Clean \in Credential /\ Clean.grant = file.grant /\ ~Clean.due /\ Clean.state = "good"
         /\ \A knownBad \in BOOLEAN :
              /\ Marked(knownBad) \in Credential /\ Marked(knownBad).grant = file.grant
              /\ CredentialOK(Marked(knownBad))
         /\ CredentialOK(Clean)
<1>1. file \in Credential /\ CredentialOK(file)
  BY DEF CredentialInv, TypeOK
<1>2. ASSUME NEW c \in Credential
      PROVE  /\ [c EXCEPT !.present = FALSE] \in Credential
             /\ Quarantined(c) \in Credential /\ Quarantined(c).grant = c.grant
             /\ ~Quarantined(c).due /\ Quarantined(c).state = "login-required"
  BY DEF Credential, Quarantined
<1>3. Clean \in Credential /\ Clean.grant = file.grant /\ ~Clean.due /\ Clean.state = "good"
  BY <1>1 DEF Credential, Clean
<1>4. ASSUME NEW knownBad \in BOOLEAN
      PROVE  /\ Marked(knownBad) \in Credential /\ Marked(knownBad).grant = file.grant
             /\ CredentialOK(Marked(knownBad))
  <2> DEFINE m == [file EXCEPT !.state = "refresh-required", !.due = FALSE]
  <2>1. m \in Credential /\ m.grant = file.grant /\ m.state = "refresh-required"
    BY <1>1 DEF Credential
  <2>2. Marked(knownBad) \in {m, file}
    BY DEF Marked
  <2> QED
    BY <1>1, <2>1, <2>2 DEF CredentialOK
<1> QED
  BY <1>1, <1>2, <1>3, <1>4 DEF CredentialOK

LEMMA EndsWith ==
  ASSUME CredentialInv, NEW p \in Processes, Release(p), file' \in Credential, CredentialOK(file)',
         file'.grant \in {file.grant, process[p].current.grant},
         served' = served \/ Serve(p, file.grant),
         UNCHANGED provider, rejected \subseteq rejected', rejected' \subseteq provider.refused
  PROVE  CredentialInv'
<1>1. process' = [process EXCEPT ![p] = Idle] /\ lock' \in BOOLEAN
  BY DEF Release
<1>2. OperationOK(Idle)' /\ Idle.current.grant = 0 /\ Idle \in Operation /\ ~Rotated(Idle)
  <2>1. provider.issued \in Nat /\ provider' = provider
    BY DEF CredentialInv, TypeOK, Grants
  <2>2. 0 \in Issued'
    BY <2>1 DEF Issued
  <2> QED
    BY <2>2, IdleOK, Fresh0 DEF OperationOK, CredentialOK, Idle, Fresh, Reports
<1> QED
  BY <1>1, <1>2, Rewrites

\* An operation goes on with a credential of its own.
With(o, at, c) == [o EXCEPT !.at = at, !.current = c]

LEMMA WithCurrent ==
  ASSUME NEW o \in Operation, NEW at \in Steps, NEW c \in Credential
  PROVE  /\ With(o, at, c) \in Operation
         /\ With(o, at, c).at = at /\ With(o, at, c).current = c
         /\ With(o, at, c).grant = o.grant /\ With(o, at, c).answer = o.answer
         /\ With(o, at, c).operation = o.operation /\ With(o, at, c).token = o.token
<1>1. With(o, at, c) \in Operation
  BY Updates DEF With
<1>2. With(o, at, c).at = at /\ With(o, at, c).current = c
  BY DEF With, Operation
<1>3. With(o, at, c).grant = o.grant /\ With(o, at, c).answer = o.answer
  BY DEF With, Operation
<1>4. With(o, at, c).operation = o.operation /\ With(o, at, c).token = o.token
  BY DEF With, Operation
<1> QED
  BY <1>1, <1>2, <1>3, <1>4

LEMMA StartRefreshInv ==
  ASSUME CredentialInv, NEW p \in Processes, NEW knownBad \in BOOLEAN, StartRefresh(p, knownBad),
         rejected \subseteq rejected', rejected' \subseteq provider.refused
  PROVE  CredentialInv'
<1>1. process[p] \in Operation /\ OperationOK(process[p]) /\ lock \in BOOLEAN
  BY DEF CredentialInv, TypeOK
<1>2. /\ Clean \in Credential /\ Clean.grant = file.grant /\ CredentialOK(Clean)
      /\ Marked(knownBad) \in Credential /\ Marked(knownBad).grant = file.grant /\ CredentialOK(Marked(knownBad))
  BY FileShapes
<1>3. /\ file' = Marked(knownBad) /\ UNCHANGED <<lock, served, provider>>
      /\ process' = [process EXCEPT ![p] = With(process[p], "provider", Clean)]
  BY DEF StartRefresh, With
<1>4. PICK op \in Operation :
        /\ process' = [process EXCEPT ![p] = op] /\ op.at = "provider"
        /\ op.current.grant = file.grant /\ CredentialOK(op.current) /\ op.grant = process[p].grant
        /\ op.operation = process[p].operation /\ op.token = process[p].token
  <2>1. PICK op \in Operation : op = With(process[p], "provider", Clean)
    BY <1>1, <1>2, WithCurrent DEF Steps
  <2>2. "provider" \in Steps
    BY DEF Steps
  <2>3. op.at = "provider" /\ op.current = Clean
    BY <2>1, <2>2, <1>1, <1>2, WithCurrent
  <2>4. op.grant = process[p].grant /\ op.operation = process[p].operation /\ op.token = process[p].token
    BY <2>1, <2>2, <1>1, <1>2, WithCurrent
  <2> QED
    BY <1>3, <1>2, <2>1, <2>3, <2>4
<1>5. PICK written \in Credential :
        file' = written /\ CredentialOK(written) /\ written.grant = file.grant
  BY <1>2, <1>3
<1>6. CredentialOK(file)' /\ OperationOK(op)'
  BY <1>1, <1>3, <1>4, <1>5 DEF OperationOK, CredentialOK, Issued
<1>7. ~Rotated(op)
  BY <1>4 DEF Rotated
<1> QED
  BY <1>1, <1>3, <1>4, <1>5, <1>6, <1>7, Rewrites

LEMMA FileSteps ==
  ASSUME CredentialInv, NEW p \in Processes,
         \/ UseCurrent(p) \/ RefreshUse(p) \/ RefreshAnyway(p) \/ Reject(p)
         \/ Remove(p) \/ EffectEnds(p) \/ RefreshRefused(p)
  PROVE  CredentialInv'
<1>1. /\ process[p] \in Operation /\ OperationOK(process[p]) /\ process[p].current \in Credential
      /\ file \in Credential /\ CredentialOK(file) /\ rejected \subseteq provider.refused
  BY DEF CredentialInv, TypeOK, Operation
<1>2. CASE UseCurrent(p)
  <2>1. CredentialOK(file)'
    BY <1>1, <1>2 DEF UseCurrent, CredentialOK, Issued
  <2> QED
    BY <1>1, <1>2, <2>1, EndsWith DEF UseCurrent
<1>3. CASE RefreshUse(p)
  <2>1. rejected \subseteq rejected' /\ rejected' \subseteq provider.refused
    BY <1>1, <1>3 DEF RefreshUse, OperationOK, Reports
  <2> QED
    BY <1>3, <2>1, StartRefreshInv DEF RefreshUse
<1>4. CASE RefreshAnyway(p)
  BY <1>1, <1>4, StartRefreshInv DEF RefreshAnyway
<1>5. CASE Reject(p)
  <2>1. rejected \subseteq rejected' /\ rejected' \subseteq provider.refused
    BY <1>1, <1>5 DEF Reject, Doing, OperationOK, Reports
  <2>2. /\ file' \in {file, Quarantined(file)} /\ UNCHANGED provider
        /\ file' # file => file.grant \in rejected'
    BY <1>5 DEF Reject, Held
  <2>3. file' \in Credential /\ file'.grant = file.grant
    <3>1. Quarantined(file) \in Credential /\ Quarantined(file).grant = file.grant
      BY <1>1, FileShapes
    <3> QED
      BY <1>1, <2>2, <3>1
  <2>4. CredentialOK(file)'
    BY <1>1, <1>5, <2>1, <2>2, FileShapes DEF Reject, CredentialOK, Issued
  <2> QED
    BY <1>5, <2>1, <2>2, <2>3, <2>4, EndsWith DEF Reject
<1>6. CASE Remove(p)
  <2>1. file' = [file EXCEPT !.present = FALSE] /\ UNCHANGED <<provider, rejected>>
    BY <1>6 DEF Remove
  <2>2. file' \in Credential /\ file'.grant = file.grant /\ file'.due = file.due /\ file'.state = file.state
    BY <1>1, <2>1, FileShapes DEF Credential
  <2>3. CredentialOK(file)'
    BY <1>1, <2>1, <2>2 DEF CredentialOK, Issued
  <2> QED
    BY <1>1, <1>6, <2>2, <2>3, EndsWith DEF Remove
<1>7. CASE EffectEnds(p)
  <2>1. CredentialOK(process[p].current)
    BY <1>1 DEF OperationOK
  <2>2. CredentialOK(file)'
    BY <1>1, <1>7, <2>1 DEF EffectEnds, CredentialOK, Issued
  <2> QED
    BY <1>1, <1>7, <2>2, EndsWith DEF EffectEnds
<1>8. CASE RefreshRefused(p)
  <2>1. file' = Quarantined(process[p].current) /\ UNCHANGED <<provider, rejected>>
        /\ process[p].current.grant \notin provider.usable
    BY <1>1, <1>8 DEF RefreshRefused, At, OperationOK
  <2>2. CredentialOK(file)' /\ file' \in Credential /\ file'.grant = process[p].current.grant
    BY <1>1, <2>1, FileShapes DEF CredentialOK, OperationOK, Issued
  <2> QED
    BY <1>1, <1>8, <2>2, EndsWith DEF RefreshRefused
<1> QED
  BY <1>2, <1>3, <1>4, <1>5, <1>6, <1>7, <1>8

\* transactSharedCredential keeps what the file held.
LEMMA DiscardInv ==
  ASSUME CredentialInv, NEW p \in Processes, Discard(p)
  PROVE  CredentialInv'
<1>1. process[p] \in Operation /\ OperationOK(process[p]) /\ file \in Credential /\ CredentialOK(file)
  BY DEF CredentialInv, TypeOK
<1>2. /\ process' = [process EXCEPT ![p] = With(process[p], "effect", file)]
      /\ file' = [file EXCEPT !.present = FALSE] /\ UNCHANGED <<lock, served, provider, rejected>>
  BY DEF Discard, Transact, With
<1>3. PICK op \in Operation :
        /\ process' = [process EXCEPT ![p] = op] /\ op.at = "effect" /\ op.current = file
        /\ op.grant = process[p].grant /\ op.operation = process[p].operation /\ op.token = process[p].token
  <2>1. PICK op \in Operation : op = With(process[p], "effect", file)
    BY <1>1, WithCurrent DEF Steps
  <2>2. "effect" \in Steps
    BY DEF Steps
  <2>3. op.at = "effect" /\ op.current = file
    BY <2>1, <2>2, <1>1, WithCurrent
  <2>4. op.grant = process[p].grant /\ op.operation = process[p].operation /\ op.token = process[p].token
    BY <2>1, <2>2, <1>1, WithCurrent
  <2> QED
    BY <1>2, <2>1, <2>3, <2>4
<1>4. file' \in Credential /\ file'.grant = file.grant /\ file'.due = file.due /\ file'.state = file.state
  BY <1>1, <1>2, FileShapes DEF Credential
<1>5. CredentialOK(file)'
  BY <1>1, <1>2, <1>4 DEF CredentialOK, Issued
<1>6. OperationOK(op) /\ ~Rotated(op)
  BY <1>1, <1>3 DEF OperationOK, Rotated
<1>7. OperationOK(op)'
  BY <1>2, <1>6 DEF OperationOK, CredentialOK, Issued
<1>8. lock' \in BOOLEAN /\ rejected \subseteq rejected' /\ rejected' \subseteq provider.refused
  BY <1>2 DEF CredentialInv, TypeOK
<1> QED
  BY <1>2, <1>3, <1>4, <1>5, <1>6, <1>7, <1>8, Rewrites

-----------------------------------------------------------------------------
(* Steps that bring a grant.                                               *)

LEMMA NewGrantGrows ==
  ASSUME CredentialInv, NewGrant, UNCHANGED rejected
  PROVE  /\ Grows /\ provider'.issued = provider.issued + 1 /\ provider'.issued \in Grants
         /\ provider'.refused = provider.refused
<1>1. /\ provider.issued \in Nat /\ provider.issued < MaxGrants
      /\ provider' = [provider EXCEPT !.issued = @ + 1, !.usable = @ \cup {provider.issued + 1}]
  BY DEF NewGrant, CredentialInv, TypeOK, Grants
<1>2. provider'.issued = provider.issued + 1 /\ provider'.usable = provider.usable \cup {provider.issued + 1}
      /\ provider'.refused = provider.refused
  BY <1>1 DEF CredentialInv, TypeOK
<1>3. provider'.issued \in Grants
  BY <1>1, <1>2, CredentialAssumption DEF Grants
<1>4. provider' \in [issued : Grants, usable : SUBSET Grants, refused : SUBSET Grants]
  BY <1>1, <1>2, <1>3 DEF CredentialInv, TypeOK
<1> QED
  BY <1>1, <1>2, <1>3, <1>4 DEF CredentialInv, TypeOK, Grows, Issued

LEMMA SetInv ==
  ASSUME CredentialInv, NEW p \in Processes, Set(p)
  PROVE  CredentialInv'
<1> DEFINE g == provider'.issued
<1>1. /\ NewGrant /\ file' = Fresh(g) /\ process' = [process EXCEPT ![p] = Idle] /\ lock' = FALSE
      /\ UNCHANGED <<served, rejected>>
  BY DEF Set, Release
<1>2. Grows /\ g = provider.issued + 1 /\ g \in Grants /\ provider'.refused = provider.refused /\ provider.issued \in Nat
  BY <1>1, NewGrantGrows DEF CredentialInv, TypeOK, Grants
<1>3. file' \in Credential /\ file'.grant = g /\ CredentialOK(file)'
  BY <1>1, <1>2, Fresh0 DEF CredentialOK, Issued
<1>4. OperationOK(Idle)' /\ Idle.current.grant = 0 /\ Idle \in Operation /\ ~Rotated(Idle)
  BY <1>2, StaysOK, IdleOK, Fresh0
<1>5. served' \in [Processes -> Issued']
  BY <1>1, <1>2 DEF CredentialInv, TypeOK, Issued
<1>6. \A q \in Processes : process[q].grant \in Issued
  BY DEF CredentialInv, OperationOK
<1>7. \A q \in Processes \ {p} : Rotated(process[q]) =>
        /\ process[q].grant \notin provider'.refused
        /\ process[q].grant # file'.grant /\ process[q].grant # Idle.current.grant
        /\ served'[p] # process[q].grant
  BY <1>1, <1>2, <1>3, <1>4, <1>6 DEF CredentialInv, RotatedIsNew, Issued
<1> QED
  BY <1>1, <1>2, <1>3, <1>4, <1>5, <1>7, Moved

LEMMA ImportInv ==
  ASSUME CredentialInv, NEW p \in Processes, Import(p)
  PROVE  CredentialInv'
<1>1. /\ NewGrant /\ file' = Fresh(provider'.issued) /\ UNCHANGED <<lock, served, rejected>>
      /\ process' = [process EXCEPT ![p] = With(process[p], "effect", file)]
  BY DEF Import, Transact, With
<1>2. PICK g \in Grants :
        /\ Grows /\ provider'.issued = g /\ g = provider.issued + 1
        /\ provider'.refused = provider.refused /\ provider.issued \in Nat
  BY <1>1, NewGrantGrows DEF CredentialInv, TypeOK, Grants
<1>3. file' \in Credential /\ file'.grant = g /\ CredentialOK(file)'
  BY <1>1, <1>2, Fresh0 DEF CredentialOK, Issued
<1>4. process[p] \in Operation /\ OperationOK(process[p]) /\ file \in Credential /\ CredentialOK(file)
  BY DEF CredentialInv, TypeOK
<1>5. PICK op \in Operation :
        /\ process' = [process EXCEPT ![p] = op] /\ op.at = "effect" /\ op.current = file
        /\ op.grant = process[p].grant /\ op.operation = process[p].operation /\ op.token = process[p].token
  <2>1. PICK op \in Operation : op = With(process[p], "effect", file)
    BY <1>4, WithCurrent DEF Steps
  <2>2. "effect" \in Steps
    BY DEF Steps
  <2>3. op.at = "effect" /\ op.current = file
    BY <2>1, <2>2, <1>4, WithCurrent
  <2>4. op.grant = process[p].grant /\ op.operation = process[p].operation /\ op.token = process[p].token
    BY <2>1, <2>2, <1>4, WithCurrent
  <2> QED
    BY <1>1, <2>1, <2>3, <2>4
<1>6. OperationOK(op) /\ ~Rotated(op)
  BY <1>4, <1>5 DEF OperationOK, Rotated
<1>7. OperationOK(op)'
  BY <1>2, <1>6, StaysOK
<1>8. served' \in [Processes -> Issued'] /\ lock' \in BOOLEAN
  BY <1>1, <1>2 DEF CredentialInv, TypeOK, Issued
<1>9. \A q \in Processes \ {p} : Rotated(process[q]) =>
        /\ process[q].grant \notin provider'.refused
        /\ process[q].grant # file'.grant /\ process[q].grant # op.current.grant
        /\ served'[p] # process[q].grant
  <2>1. \A q \in Processes : process[q].grant \in Issued
    BY DEF CredentialInv, OperationOK
  <2> QED
    BY <1>1, <1>2, <1>3, <1>5, <2>1 DEF CredentialInv, RotatedIsNew, Issued
<1> QED
  BY <1>1, <1>2, <1>3, <1>5, <1>6, <1>7, <1>8, <1>9, Moved

LEMMA RefreshedInv ==
  ASSUME CredentialInv, NEW p \in Processes, Refreshed(p)
  PROVE  CredentialInv'
<1>1. PICK g \in Issued : g = process[p].grant
  BY DEF CredentialInv, OperationOK
<1>2. /\ file' = Fresh(g) /\ served' = [served EXCEPT ![p] = g] /\ lock' = FALSE
      /\ process' = [process EXCEPT ![p] = Idle] /\ UNCHANGED <<provider, rejected>>
  BY <1>1 DEF Refreshed, Serve, Release
<1>3. Grows /\ Issued' = Issued /\ g \in Grants
  BY <1>2, Fixed, CredentialAssumption DEF CredentialInv, TypeOK, Issued, Grants
<1>4. file' \in Credential /\ file'.grant = g /\ CredentialOK(file)'
  BY <1>2, <1>3, Fresh0 DEF CredentialOK
<1>5. OperationOK(Idle)' /\ Idle.current.grant = 0 /\ Idle \in Operation /\ ~Rotated(Idle)
  BY <1>3, StaysOK, IdleOK, Fresh0
<1>6. served' \in [Processes -> Issued'] /\ served'[p] = g
  BY <1>2, <1>3 DEF CredentialInv, TypeOK, Issued
<1>7. \A q \in Processes \ {p} : Rotated(process[q]) =>
        /\ process[q].grant \notin provider'.refused
        /\ process[q].grant # file'.grant /\ process[q].grant # Idle.current.grant
        /\ served'[p] # process[q].grant
  <2>1. Rotated(process[p])
    BY DEF Refreshed, At, Rotated
  <2>2. \A q \in Processes \ {p} : Rotated(process[q]) => process[q].grant # g /\ process[q].grant # 0
    BY <1>1, <2>1 DEF CredentialInv, RotatedIsNew
  <2>3. \A q \in Processes : Rotated(process[q]) => process[q].grant \notin provider'.refused
    BY <1>2 DEF CredentialInv, RotatedIsNew
  <2> QED
    BY <1>4, <1>5, <1>6, <2>2, <2>3
<1> QED
  BY <1>2, <1>3, <1>4, <1>5, <1>6, <1>7, Moved

\* The provider's answer, as the operation holds it.
Answered(o, answer, g) == [o EXCEPT !.at = "answered", !.answer = answer, !.grant = g]

LEMMA WithAnswer ==
  ASSUME NEW o \in Operation, NEW answer \in Answers, NEW g \in Grants
  PROVE  /\ Answered(o, answer, g) \in Operation
         /\ Answered(o, answer, g).at = "answered" /\ Answered(o, answer, g).current = o.current
         /\ Answered(o, answer, g).answer = answer /\ Answered(o, answer, g).grant = g
         /\ Answered(o, answer, g).operation = o.operation /\ Answered(o, answer, g).token = o.token
<1>1. Answered(o, answer, g) \in Operation
  BY Updates DEF Answered, Steps
<1>2. Answered(o, answer, g).at = "answered" /\ Answered(o, answer, g).current = o.current
  BY DEF Answered, Operation
<1>3. Answered(o, answer, g).answer = answer /\ Answered(o, answer, g).grant = g
  BY DEF Answered, Operation
<1>4. Answered(o, answer, g).operation = o.operation /\ Answered(o, answer, g).token = o.token
  BY DEF Answered, Operation
<1> QED
  BY <1>1, <1>2, <1>3, <1>4

LEMMA RotateInv ==
  ASSUME CredentialInv, NEW p \in Processes, Rotate(p)
  PROVE  CredentialInv'
<1>1. /\ process[p] \in Operation /\ OperationOK(process[p]) /\ provider.issued \in Nat
      /\ process \in [Processes -> Operation] /\ provider.issued < MaxGrants
      /\ process[p].current.grant \in Issued /\ \A q \in Processes : process[q].grant \in Issued
  BY DEF CredentialInv, TypeOK, Grants, OperationOK, CredentialOK, Rotate
<1>2. PICK g \in Grants : g = provider.issued + 1
  BY <1>1, CredentialAssumption DEF Grants
<1>3. /\ provider'.issued = g /\ provider'.refused = provider.refused
      /\ provider'.usable = (provider.usable \ {process[p].current.grant}) \cup {g}
      /\ UNCHANGED <<lock, file, served, rejected>>
      /\ provider' \in [issued : Grants, usable : SUBSET Grants, refused : SUBSET Grants]
  BY <1>2 DEF Rotate, CredentialInv, TypeOK
<1>4. Grows
  BY <1>1, <1>2, <1>3 DEF CredentialInv, TypeOK, Grows, Issued
<1>5. PICK op \in Operation :
        /\ process' = [process EXCEPT ![p] = op] /\ op.at = "answered" /\ op.grant = g
        /\ op.current = process[p].current /\ op.operation = process[p].operation /\ op.token = process[p].token
  <2>1. PICK answer \in Answers : process' = [process EXCEPT ![p] = Answered(process[p], answer, g)]
    BY <1>2 DEF Rotate, Answers, Answered
  <2>2. PICK op \in Operation : op = Answered(process[p], answer, g)
    BY <1>1, WithAnswer
  <2>3. op.at = "answered" /\ op.grant = g /\ op.current = process[p].current
    BY <1>1, <2>2, WithAnswer
  <2>4. op.operation = process[p].operation /\ op.token = process[p].token
    BY <1>1, <2>2, WithAnswer
  <2> QED
    BY <2>1, <2>2, <2>3, <2>4
<1>6. g \notin Issued /\ g \in Issued' /\ g # 0
  BY <1>1, <1>2, <1>3 DEF Issued
<1>7. OperationOK(op)'
  <2>1. OperationOK(process[p]) => CredentialOK(process[p].current)
    BY DEF OperationOK
  <2>2. process[p].current \in Credential
    BY <1>1 DEF Operation
  <2>3. CredentialOK(op.current)'
    BY <1>1, <1>4, <1>5, <2>1, <2>2, StaysOK
  <2> QED
    BY <1>1, <1>3, <1>5, <1>6, <2>3 DEF OperationOK
<1>8. \A q \in Processes : OperationOK(process[q])'
  <2> TAKE q \in Processes
  <2>1. CASE q = p
    BY <1>1, <1>5, <1>7, <2>1 DEF OperationOK, CredentialOK
  <2>2. CASE q # p
    <3>1. PICK o \in Operation : o = process[q] /\ OperationOK(o)
      BY <1>1 DEF CredentialInv
    <3>2. OperationOK(o)' /\ process'[q] = o
      BY <1>1, <1>4, <1>5, <2>2, <3>1, StaysOK
    <3> QED
      BY <3>2 DEF OperationOK, CredentialOK
  <2> QED
    BY <2>1, <2>2
<1>9. TypeOK'
  <2>1. served' \in [Processes -> 0..provider'.issued]
    BY <1>1, <1>2, <1>3 DEF CredentialInv, TypeOK
  <2>2. process' \in [Processes -> Operation]
    BY <1>1, <1>5
  <2> QED
    BY <1>3, <2>1, <2>2 DEF CredentialInv, TypeOK
<1>10. CredentialOK(file)'
  <2>1. file \in Credential /\ CredentialOK(file)
    BY DEF CredentialInv, TypeOK
  <2>2. PICK c \in Credential : c = file /\ CredentialOK(c)
    BY <2>1
  <2>3. CredentialOK(c)' /\ file' = c
    BY <1>3, <1>4, <2>2, StaysOK
  <2> QED
    BY <2>3 DEF CredentialOK
<1>11. RotatedIsNew'
  <2> SUFFICES ASSUME NEW q \in Processes, Rotated(process'[q]), NEW k \in Processes
               PROVE  /\ process'[q].grant # 0 /\ process'[q].grant \notin provider'.refused /\ process'[q].grant # file'.grant
                      /\ served'[k] # process'[q].grant /\ process'[k].current.grant # process'[q].grant
                      /\ k # q /\ Rotated(process'[k]) => process'[k].grant # process'[q].grant
    BY DEF RotatedIsNew, Rotated
  <2>1. process'[k].current = process[k].current /\ (k # p => process'[k] = process[k])
    BY <1>1, <1>5
  <2>2. process[k].current.grant \in Issued /\ process[k].grant \in Issued /\ served[k] \in Issued /\ file.grant \in Issued
    BY DEF CredentialInv, TypeOK, Issued, OperationOK, CredentialOK
  <2>3. CASE q = p
    <3>1. process'[q].grant = g
      BY <1>1, <1>5, <2>3
    <3> QED
      BY <1>3, <1>6, <2>1, <2>2, <2>3, <3>1 DEF CredentialInv
  <2>4. CASE q # p
    <3>1. process'[q] = process[q] /\ Rotated(process[q]) /\ process[q].grant \in Issued
      BY <1>1, <1>5, <2>4
    <3>2. k = p => process'[k].grant = g
      BY <1>1, <1>5
    <3>3. /\ process[q].grant # 0 /\ process[q].grant \notin provider.refused /\ process[q].grant # file.grant
          /\ served[k] # process[q].grant /\ process[k].current.grant # process[q].grant
          /\ k # q /\ Rotated(process[k]) => process[k].grant # process[q].grant
      BY <3>1 DEF CredentialInv, RotatedIsNew
    <3> QED
      BY <1>3, <1>6, <2>1, <2>4, <3>1, <3>2, <3>3
  <2> QED
    BY <2>3, <2>4
<1> QED
  BY <1>4, <1>8, <1>9, <1>10, <1>11 DEF CredentialInv, Grows, Issued

-----------------------------------------------------------------------------
(* Steps of nobody's, and the invariant.                                   *)

LEMMA Ambient ==
  ASSUME CredentialInv, Grows, UNCHANGED <<lock, process, served, rejected>>, provider'.issued = provider.issued,
         file' \in Credential, CredentialOK(file)', file'.grant = file.grant,
         \A p \in Processes : Rotated(process[p]) => process[p].grant \notin provider'.refused
  PROVE  CredentialInv'
<1>1. TypeOK'
  BY DEF CredentialInv, TypeOK, Grows, CredentialOK
<1>2. \A p \in Processes : OperationOK(process[p])'
  <2> TAKE p \in Processes
  <2>1. PICK o \in Operation : o = process[p] /\ OperationOK(o)
    BY DEF CredentialInv, TypeOK
  <2>2. OperationOK(o)' /\ process'[p] = o
    BY <2>1, StaysOK
  <2> QED
    BY <2>2 DEF OperationOK, CredentialOK
<1>3. RotatedIsNew'
  <2>1. \A p \in Processes : Rotated(process[p]) => process[p].grant \notin provider'.refused
    OBVIOUS
  <2> QED
    BY <2>1 DEF CredentialInv, RotatedIsNew, Rotated
<1> QED
  BY <1>1, <1>2, <1>3 DEF CredentialInv, Grows, Issued

LEMMA AmbientSteps ==
  ASSUME CredentialInv, (\E g \in Grants : RefuseAccess(g)) \/ Age \/ FallDue \/ UNCHANGED vars
  PROVE  CredentialInv'
<1>1. file \in Credential /\ CredentialOK(file) /\ provider.issued \in Nat
  BY DEF CredentialInv, TypeOK, Grants
<1>2. \A p \in Processes : Rotated(process[p]) => process[p].grant \notin provider.refused
  BY DEF CredentialInv, RotatedIsNew
<1>3. ASSUME NEW g \in Grants, RefuseAccess(g) PROVE CredentialInv'
  <2>1. PICK p \in Processes : g = served[p]
    BY <1>3 DEF RefuseAccess
  <2>2. /\ provider' = [provider EXCEPT !.refused = @ \cup {g}]
        /\ UNCHANGED <<lock, file, process, served, rejected>> /\ g \in Issued
    BY <1>3, <2>1 DEF RefuseAccess, CredentialInv, TypeOK, Issued
  <2>3. /\ provider'.issued = provider.issued /\ provider'.usable = provider.usable
        /\ provider'.refused = provider.refused \cup {g}
        /\ provider' \in [issued : Grants, usable : SUBSET Grants, refused : SUBSET Grants]
    BY <1>3, <2>2 DEF CredentialInv, TypeOK
  <2>4. Grows
    BY <1>1, <2>2, <2>3 DEF CredentialInv, TypeOK, Grows, Issued
  <2>5. CredentialOK(file)'
    BY <1>1, <2>2, <2>3 DEF CredentialOK, Issued
  <2>6. \A q \in Processes : Rotated(process[q]) => process[q].grant \notin provider'.refused
    BY <1>2, <2>1, <2>3 DEF CredentialInv, RotatedIsNew
  <2> QED
    BY <1>1, <2>2, <2>3, <2>4, <2>5, <2>6, Ambient
<1>4. CASE Age \/ FallDue \/ UNCHANGED vars
  <2>1. UNCHANGED <<lock, process, served, provider, rejected>>
    BY <1>4 DEF Age, FallDue, vars
  <2>2. /\ file' \in Credential /\ file'.grant = file.grant /\ file'.state = file.state
        /\ file'.due => file'.state = "refresh-required"
    <3>1. CASE Age
      BY <1>1, <3>1 DEF Age, Credential, CredentialOK
    <3>2. CASE FallDue
      BY <1>1, <3>2 DEF FallDue, Credential
    <3>3. CASE UNCHANGED vars
      BY <1>1, <3>3 DEF vars, CredentialOK
    <3> QED
      BY <1>4, <3>1, <3>2, <3>3
  <2>3. CredentialOK(file)'
    BY <1>1, <2>1, <2>2 DEF CredentialOK, Issued
  <2> QED
    BY <1>2, <2>1, <2>2, <2>3, Fixed, Ambient
<1> QED
  BY <1>3, <1>4

LEMMA InitInv == Init => CredentialInv
<1> SUFFICES ASSUME Init PROVE CredentialInv
  OBVIOUS
<1>1. /\ lock = FALSE /\ file = Fresh(0) /\ process = [p \in Processes |-> Idle] /\ served = [p \in Processes |-> 0]
      /\ provider.issued = 0 /\ provider.usable = {0} /\ provider.refused = {} /\ rejected = {}
      /\ provider = [issued |-> 0, usable |-> {0}, refused |-> {}]
  BY DEF Init
<1>2. Issued = {0} /\ 0 \in Grants /\ 0 \in 0..provider.issued
  BY <1>1, Fresh0 DEF Issued
<1>3. TypeOK
  <2>1. file \in Credential /\ (file.due => file.state = "refresh-required")
    BY <1>1, <1>2, Fresh0
  <2>2. process \in [Processes -> Operation]
    BY <1>1, Fresh0
  <2>3. provider \in [issued : Grants, usable : SUBSET Grants, refused : SUBSET Grants]
    BY <1>1, <1>2
  <2> QED
    BY <1>1, <1>2, <2>1, <2>2, <2>3 DEF TypeOK
<1>4. CredentialOK(file)
  BY <1>1, <1>2, Fresh0 DEF CredentialOK
<1>5. \A p \in Processes : process[p] = Idle
  BY <1>1
<1>6. OperationOK(Idle)
  BY <1>1, <1>2 DEF OperationOK, CredentialOK, Idle, Fresh, Reports
<1>7. RotatedIsNew
  BY <1>5, Fresh0 DEF RotatedIsNew
<1> QED
  BY <1>1, <1>2, <1>3, <1>4, <1>5, <1>6, <1>7 DEF CredentialInv

LEMMA NextInv == CredentialInv /\ [Next]_vars => CredentialInv'
<1> SUFFICES ASSUME CredentialInv, [Next]_vars PROVE CredentialInv'
  OBVIOUS
<1>1. ASSUME NEW p \in Processes, Step(p) PROVE CredentialInv'
  BY <1>1, PrivateSteps, FileSteps, DiscardInv, SetInv, ImportInv, RotateInv, RefreshedInv DEF Step
<1>2. ASSUME NEW p \in Processes, NEW operation \in Operations, Begin(p, operation) PROVE CredentialInv'
  BY <1>2, PrivateSteps
<1> QED
  BY <1>1, <1>2, AmbientSteps DEF Next

THEOREM Invariance == Spec => []CredentialInv
<1> QED
  BY InitInv, NextInv, PTL DEF Spec

\* The file, the operations and the grants have the shapes the code gives them.
THEOREM TypeCorrect == Spec => []TypeOK
<1>1. CredentialInv => TypeOK
  BY DEF CredentialInv
<1> QED
  BY <1>1, Invariance, PTL

\* An account asks its person to log in only when its grant is spent or its
\* access token was refused: through crashes, lost answers, effects that put an
\* older credential back, and two holders of the lock.
THEOREM LoginIsNeededAlways == Spec => []LoginIsNeeded
<1>1. CredentialInv => LoginIsNeeded
  BY DEF CredentialInv, CredentialOK, LoginIsNeeded
<1> QED
  BY <1>1, Invariance, PTL

-----------------------------------------------------------------------------
(* The lock, and what only its holder may do.                              *)

\* Nobody finds a lock stale and removes another's that was made since.
NoTheft == \A p \in Processes : At(p, "stale") => \A q \in Processes : ~Holds(q)

Exclusive ==
  /\ \A p, q \in Processes : Holds(p) /\ Holds(q) => p = q
  /\ \A p \in Processes : Holds(p) => lock

\* A credential that does not make a reported token admissible.
Safe(c) == c.present /\ c.state = "good" => c.grant \notin rejected

GuardInv ==
  /\ Exclusive
  /\ Safe(file) /\ \A p \in Processes : At(p, "effect") => Safe(process[p].current)

Acts(p) == Step(p) \/ \E operation \in Operations : Begin(p, operation)

Takes(p) == ~lock /\ lock' = TRUE /\ At(p, "waiting") /\ At(p, "locked")'
Keeps(p) == UNCHANGED lock /\ Holds(p) /\ Holds(p)'
Frees(p) == Holds(p) /\ lock' = FALSE /\ At(p, "idle")'
Steals(p) == At(p, "stale") /\ lock' = FALSE /\ At(p, "waiting")'
Apart(p) == UNCHANGED lock /\ ~Holds(p)' /\ (Holds(p) => At(p, "dead")') /\ (At(p, "stale")' => Stale)

\* How a step of a process is one of the lock.
LEMMA LockSteps ==
  ASSUME TypeOK, NEW p \in Processes, Acts(p)
  PROVE  /\ Takes(p) \/ Keeps(p) \/ Frees(p) \/ Steals(p) \/ Apart(p)
         /\ ~At(p, "dead") /\ \A q \in Processes \ {p} : process'[q] = process[q]
<1>1. process \in [Processes -> Operation] /\ process[p] \in Operation
  BY DEF TypeOK
<1>2. CASE TakeLock(p)
  BY <1>1, <1>2 DEF TakeLock, Takes, At, Operation
<1>3. CASE FindStale(p) \/ GiveUp(p) \/ Die(p) \/ \E operation \in Operations : Begin(p, operation)
  <2>1. UNCHANGED lock /\ \A q \in Processes \ {p} : process'[q] = process[q]
    BY <1>1, <1>3 DEF FindStale, GiveUp, Die, Begin
  <2>2. /\ process'[p].at \in {"stale", "idle", "dead", "waiting"} /\ (process'[p].at = "stale" => Stale)
        /\ process[p].at \in {"idle", "waiting"} \/ process'[p].at = "dead"
        /\ ~At(p, "dead")
    <3>1. CASE FindStale(p)
      BY <1>1, <3>1 DEF FindStale, Operation, At
    <3>2. CASE GiveUp(p)
      BY <1>1, <3>2 DEF GiveUp, Idle, At
    <3>3. CASE Die(p)
      BY <1>1, <3>3 DEF Die, Idle, At
    <3>4. ASSUME NEW operation \in Operations, Begin(p, operation)
          PROVE  process'[p].at = "waiting" /\ process[p].at = "idle"
      <4> DEFINE token == IF operation \in Reports THEN served[p] ELSE 0
      <4>1. process'[p] = [Idle EXCEPT !.at = "waiting", !.operation = operation, !.token = token]
        BY <1>1, <3>4 DEF Begin
      <4> HIDE DEF token
      <4> QED
        BY <3>4, <4>1 DEF Begin, Idle, At
    <3> QED
      BY <1>3, <3>1, <3>2, <3>3, <3>4 DEF At
  <2> QED
    BY <2>1, <2>2 DEF Apart, Holds, At
<1>4. CASE RemoveStale(p)
  BY <1>1, <1>4 DEF RemoveStale, Steals, At, Operation
<1>5. CASE RefreshUse(p) \/ RefreshAnyway(p) \/ Import(p) \/ Discard(p)
  <2>1. At(p, "locked") /\ UNCHANGED lock
    BY <1>5 DEF RefreshUse, RefreshAnyway, Import, Discard, Doing, StartRefresh, Transact
  <2>2. PICK at \in {"provider", "effect"} : \E c : process' = [process EXCEPT ![p].at = at, ![p].current = c]
    BY <1>5 DEF RefreshUse, RefreshAnyway, Import, Discard, StartRefresh, Transact
  <2>3. process'[p].at = at /\ \A q \in Processes \ {p} : process'[q] = process[q]
    BY <1>1, <2>2 DEF Operation
  <2> QED
    BY <2>1, <2>3 DEF Keeps, Holds, At
<1>6. CASE Rotate(p) \/ RefuseSpent(p) \/ FailRefresh(p)
  <2>1. At(p, "provider") /\ UNCHANGED lock
    BY <1>6 DEF Rotate, RefuseSpent, FailRefresh
  <2>2. process'[p].at = "answered" /\ \A q \in Processes \ {p} : process'[q] = process[q]
    BY <1>1, <1>6 DEF Rotate, RefuseSpent, FailRefresh, Operation
  <2> QED
    BY <2>1, <2>2 DEF Keeps, Holds, At
<1>7. CASE \/ RefusedUse(p) \/ AbortUse(p) \/ UseCurrent(p) \/ RefreshNothing(p) \/ Reject(p) \/ Set(p) \/ Remove(p)
           \/ EffectEnds(p) \/ Refreshed(p) \/ RefreshRefused(p) \/ RefreshFailed(p)
  <2>1. Release(p) /\ Holds(p)
    BY <1>7 DEF RefusedUse, AbortUse, UseCurrent, RefreshNothing, Reject, Set, Remove, EffectEnds,
                Refreshed, RefreshRefused, RefreshFailed, Doing, At, Holds
  <2> QED
    BY <1>1, <2>1 DEF Release, Idle, Frees, At, Holds
<1> QED
  BY <1>2, <1>3, <1>4, <1>5, <1>6, <1>7 DEF Acts, Step

LEMMA ExclusiveStep ==
  ASSUME TypeOK, Exclusive, NoTheft, NEW p \in Processes, Acts(p)
  PROVE  Exclusive'
<1>1. \A q \in Processes \ {p} : Holds(q)' <=> Holds(q)
  BY LockSteps DEF Holds
<1>2. CASE Takes(p)
  BY <1>1, <1>2 DEF Takes, Exclusive, Holds, At
<1>3. CASE Keeps(p)
  BY <1>1, <1>3 DEF Keeps, Exclusive
<1>4. CASE Frees(p)
  BY <1>1, <1>4 DEF Frees, Exclusive, Holds, At
<1>5. CASE Steals(p)
  BY <1>1, <1>5 DEF Steals, Exclusive, NoTheft, Holds, At
<1>6. CASE Apart(p)
  BY <1>1, <1>6 DEF Apart, Exclusive
<1> QED
  BY <1>2, <1>3, <1>4, <1>5, <1>6, LockSteps

\* What a step writes, and what it keeps to put back, admits no reported token.
LEMMA SafeStep ==
  ASSUME CredentialInv, GuardInv, NEW p \in Processes, Acts(p)
  PROVE  /\ Safe(file)'
         /\ At(p, "effect")' => Safe(process[p].current)'
         /\ rejected' # rejected => Holds(p)
<1>1. /\ process \in [Processes -> Operation] /\ process[p] \in Operation /\ file \in Credential
      /\ process[p].current \in Credential /\ Safe(file) /\ rejected \subseteq Issued
  BY DEF CredentialInv, TypeOK, Operation, GuardInv
<1>2. CASE \/ RefusedUse(p) \/ AbortUse(p) \/ UseCurrent(p) \/ RefreshNothing(p) \/ RefreshFailed(p)
           \/ TakeLock(p) \/ FindStale(p) \/ RemoveStale(p) \/ GiveUp(p)
           \/ Rotate(p) \/ RefuseSpent(p) \/ FailRefresh(p) \/ Die(p)
           \/ \E operation \in Operations : Begin(p, operation)
  <2>1. UNCHANGED <<file, rejected>>
    BY <1>2 DEF RefusedUse, AbortUse, UseCurrent, RefreshNothing, RefreshFailed, TakeLock, FindStale, RemoveStale,
                GiveUp, Rotate, RefuseSpent, FailRefresh, Die, Begin
  <2>2. ~At(p, "effect")'
    <3>1. CASE RefusedUse(p) \/ AbortUse(p) \/ UseCurrent(p) \/ RefreshNothing(p) \/ RefreshFailed(p) \/ GiveUp(p)
      BY <1>1, <3>1 DEF RefusedUse, AbortUse, UseCurrent, RefreshNothing, RefreshFailed, GiveUp, Release, Idle, At
    <3>2. CASE TakeLock(p) \/ FindStale(p) \/ RemoveStale(p)
      BY <1>1, <3>2 DEF TakeLock, FindStale, RemoveStale, At, Operation
    <3>3. CASE Rotate(p) \/ RefuseSpent(p) \/ FailRefresh(p)
      BY <1>1, <3>3 DEF Rotate, RefuseSpent, FailRefresh, At, Operation
    <3>4. CASE Die(p)
      BY <1>1, <3>4 DEF Die, Idle, At
    <3>5. ASSUME NEW operation \in Operations, Begin(p, operation) PROVE ~At(p, "effect")'
      <4> DEFINE token == IF operation \in Reports THEN served[p] ELSE 0
      <4>1. process'[p] = [Idle EXCEPT !.at = "waiting", !.operation = operation, !.token = token]
        BY <1>1, <3>5 DEF Begin
      <4> HIDE DEF token
      <4> QED
        BY <4>1 DEF Idle, At
    <3> QED
      BY <1>2, <3>1, <3>2, <3>3, <3>4, <3>5
  <2> QED
    BY <1>1, <2>1, <2>2 DEF Safe
<1>3. CASE RefreshUse(p) \/ RefreshAnyway(p)
  <2>1. PICK knownBad \in BOOLEAN : StartRefresh(p, knownBad) /\ (rejected' # rejected => knownBad)
    BY <1>3 DEF RefreshUse, RefreshAnyway
  <2>2. Holds(p) /\ ~At(p, "effect")'
    BY <1>1, <1>3, <2>1 DEF RefreshUse, RefreshAnyway, Doing, StartRefresh, Holds, At, Operation
  <2>3. file' = file \/ file'.state = "refresh-required"
    BY <1>1, <2>1 DEF StartRefresh, Marked, Credential
  <2>4. rejected' # rejected => file'.state = "refresh-required"
    BY <1>1, <2>1 DEF StartRefresh, Marked, Credential
  <2> QED
    BY <1>1, <2>2, <2>3, <2>4 DEF Safe
<1>4. CASE Reject(p)
  <2>1. Holds(p) /\ ~At(p, "effect")'
    BY <1>1, <1>4 DEF Reject, Doing, Holds, At, Release, Idle
  <2>2. Quarantined(file).state = "login-required"
    BY <1>1, FileShapes
  <2>3. (file' = file /\ rejected' = rejected) \/ file'.state = "login-required"
    BY <1>4, <2>2 DEF Reject
  <2> QED
    BY <1>1, <2>1, <2>3 DEF Safe
<1>5. CASE Set(p) \/ Import(p)
  <2>1. NewGrant /\ file' = Fresh(provider'.issued) /\ UNCHANGED rejected
    BY <1>5 DEF Set, Import, Transact
  <2>2. provider'.issued \notin Issued /\ provider'.issued \in Grants
    BY <2>1, NewGrantGrows DEF CredentialInv, TypeOK, Issued, Grants
  <2>3. Safe(file)'
    BY <1>1, <2>1, <2>2, Fresh0 DEF Safe
  <2>4. At(p, "effect")' => process'[p].current = file
    BY <1>1, <1>5 DEF Set, Import, Transact, Release, Idle, At, Operation
  <2> QED
    BY <1>1, <2>1, <2>3, <2>4 DEF Safe
<1>6. CASE Discard(p) \/ Remove(p)
  <2>1. file' = [file EXCEPT !.present = FALSE] /\ UNCHANGED rejected
    BY <1>6 DEF Discard, Transact, Remove
  <2>2. ~file'.present
    BY <1>1, <2>1 DEF Credential
  <2>3. At(p, "effect")' => process'[p].current = file
    BY <1>1, <1>6 DEF Discard, Remove, Transact, Release, Idle, At, Operation
  <2> QED
    BY <1>1, <2>1, <2>2, <2>3 DEF Safe
<1>7. CASE EffectEnds(p)
  BY <1>1, <1>7 DEF EffectEnds, GuardInv, Safe, Release, Idle, At
<1>8. CASE RefreshRefused(p) \/ Refreshed(p)
  <2>1. UNCHANGED rejected /\ ~At(p, "effect")'
    BY <1>1, <1>8 DEF RefreshRefused, Refreshed, Release, Idle, At
  <2>2. CASE RefreshRefused(p)
    <3>1. Quarantined(process[p].current).state = "login-required"
      BY <1>1, FileShapes
    <3> QED
      BY <2>1, <2>2, <3>1 DEF RefreshRefused, Safe
  <2>3. CASE Refreshed(p)
    <3>1. Rotated(process[p]) /\ process[p].grant \notin rejected /\ process[p].grant \in Grants
      BY <1>1, <2>3 DEF Refreshed, At, Rotated, CredentialInv, RotatedIsNew, TypeOK, Operation
    <3>2. Fresh(process[p].grant).grant = process[p].grant
      BY <3>1, Fresh0
    <3> QED
      BY <2>1, <2>3, <3>1, <3>2 DEF Refreshed, Safe
  <2> QED
    BY <1>8, <2>1, <2>2, <2>3
<1> QED
  BY <1>2, <1>3, <1>4, <1>5, <1>6, <1>7, <1>8 DEF Acts, Step

LEMMA GuardStep == CredentialInv /\ GuardInv /\ NoTheft /\ [Next]_vars => GuardInv'
<1> SUFFICES ASSUME CredentialInv, GuardInv, NoTheft, [Next]_vars PROVE GuardInv'
  OBVIOUS
<1>1. TypeOK /\ Exclusive /\ file \in Credential /\ Safe(file)
  BY DEF CredentialInv, GuardInv, TypeOK
<1>2. ASSUME NEW p \in Processes, Acts(p) PROVE GuardInv'
  <2>1. Exclusive'
    BY <1>1, <1>2, ExclusiveStep
  <2>2. ASSUME NEW q \in Processes, At(q, "effect")' PROVE Safe(process[q].current)'
    <3>1. CASE q = p
      BY <1>2, <2>2, <3>1, SafeStep
    <3>2. CASE q # p
      <4>1. process'[q] = process[q]
        BY <1>1, <1>2, <3>2, LockSteps
      <4>2. At(q, "effect") /\ Holds(q)
        BY <2>2, <4>1 DEF At, Holds
      <4>3. rejected' = rejected
        BY <1>1, <1>2, <3>2, <4>2, SafeStep DEF Exclusive
      <4> QED
        BY <4>1, <4>2, <4>3 DEF GuardInv, Safe
    <3> QED
      BY <3>1, <3>2
  <2> QED
    BY <1>2, <2>1, <2>2, SafeStep DEF GuardInv
<1>3. ASSUME UNCHANGED <<lock, process, rejected>>, Safe(file)' PROVE GuardInv'
  BY <1>3 DEF GuardInv, Exclusive, Safe, Holds, At
<1>4. CASE (\E g \in Grants : RefuseAccess(g)) \/ Age \/ FallDue \/ UNCHANGED vars
  <2>1. UNCHANGED <<lock, process, rejected>>
    BY <1>4 DEF RefuseAccess, Age, FallDue, vars
  <2>2. file'.present = file.present /\ file'.state = file.state /\ file'.grant = file.grant
    BY <1>1, <1>4 DEF RefuseAccess, Age, FallDue, vars, Credential
  <2> QED
    BY <1>1, <1>3, <2>1, <2>2 DEF Safe
<1> QED
  BY <1>2, <1>4 DEF Next, Acts

LEMMA GuardInit == Init => GuardInv /\ NoTheft
  BY DEF Init, GuardInv, Exclusive, NoTheft, Safe, Holds, At, Idle, Fresh

LEMMA GuardGives == GuardInv => OneRefresh /\ RejectedIsMarked
  BY DEF GuardInv, Exclusive, OneRefresh, RejectedIsMarked, Safe, Holds

\* Of any number of processes: whenever nobody steals a lock, one refresh is
\* under way at a time, and a reported token is never admissible again.
THEOREM OneRefreshWithoutTheft == Spec /\ []NoTheft => []OneRefresh /\ []RejectedIsMarked
<1>1. Spec /\ []NoTheft => []GuardInv
  BY GuardInit, GuardStep, Invariance, PTL DEF Spec
<1> QED
  BY <1>1, GuardGives, PTL

-----------------------------------------------------------------------------
(* Two processes steal from nobody: one that finds the lock stale waits    *)
(* alone, for the other has died.                                          *)

AtMostTwo == \A p, q, r \in Processes : p = q \/ q = r \/ p = r

Abandoned ==
  /\ lock => \E q \in Processes : Holds(q) \/ At(q, "dead")
  /\ \A p \in Processes : At(p, "stale") => \A q \in Processes \ {p} : At(q, "dead")

LEMMA AbandonedGives == Abandoned => NoTheft
  BY DEF Abandoned, NoTheft, Holds, At

LEMMA AbandonedStep == AtMostTwo /\ TypeOK /\ Abandoned /\ [Next]_vars => Abandoned'
<1> SUFFICES ASSUME AtMostTwo, TypeOK, Abandoned, [Next]_vars PROVE Abandoned'
  OBVIOUS
<1>1. ASSUME NEW p \in Processes, Acts(p) PROVE Abandoned'
  <2>1. ~At(p, "dead") /\ \A q \in Processes \ {p} : process'[q] = process[q]
    BY <1>1, LockSteps
  <2>2. \A q \in Processes \ {p} : (Holds(q)' <=> Holds(q)) /\ \A at : At(q, at)' <=> At(q, at)
    BY <2>1 DEF Holds, At
  <2>3. lock' => \E q \in Processes : Holds(q)' \/ At(q, "dead")'
    <3>1. CASE Takes(p) \/ Keeps(p)
      BY <3>1 DEF Takes, Keeps, Holds, At
    <3>2. CASE Frees(p) \/ Steals(p)
      BY <3>2 DEF Frees, Steals
    <3>3. CASE Apart(p)
      <4> SUFFICES ASSUME lock PROVE \E q \in Processes : Holds(q)' \/ At(q, "dead")'
        BY <3>3 DEF Apart
      <4>1. PICK q \in Processes : Holds(q) \/ At(q, "dead")
        BY DEF Abandoned
      <4>2. CASE q = p
        BY <2>1, <3>3, <4>1, <4>2 DEF Apart
      <4>3. CASE q # p
        BY <2>2, <4>1, <4>3
      <4> QED
        BY <4>2, <4>3
    <3> QED
      BY <1>1, <3>1, <3>2, <3>3, LockSteps
  <2>4. ASSUME NEW r \in Processes, At(r, "stale")', NEW s \in Processes \ {r} PROVE At(s, "dead")'
    <3>1. CASE r = p
      <4>1. Stale
        BY <1>1, <2>4, <3>1, LockSteps DEF Takes, Keeps, Frees, Steals, Apart, At, Holds
      <4>2. PICK q \in Processes : At(q, "dead")
        BY <4>1 DEF Stale, Abandoned
      <4>3. q = s
        BY <2>1, <3>1, <4>2 DEF AtMostTwo
      <4> QED
        BY <2>2, <3>1, <4>2, <4>3
    <3>2. CASE r # p
      BY <2>1, <2>2, <2>4, <3>2 DEF Abandoned
    <3> QED
      BY <3>1, <3>2
  <2> QED
    BY <2>3, <2>4 DEF Abandoned
<1>2. CASE (\E g \in Grants : RefuseAccess(g)) \/ Age \/ FallDue \/ UNCHANGED vars
  <2>1. UNCHANGED <<lock, process>>
    BY <1>2 DEF RefuseAccess, Age, FallDue, vars
  <2> QED
    BY <2>1 DEF Abandoned, Holds, At
<1> QED
  BY <1>1, <1>2 DEF Next, Acts

\* No process of two removes a lock that the other has made.
THEOREM TwoProcessesNeverSteal == AtMostTwo /\ Spec => []NoTheft
<1> SUFFICES ASSUME AtMostTwo PROVE Spec => []NoTheft
  OBVIOUS
<1>1. Init => Abandoned
  BY DEF Init, Abandoned, At, Idle
<1>2. Spec => []Abandoned
  BY <1>1, AbandonedStep, TypeCorrect, PTL DEF Spec
<1> QED
  BY <1>2, AbandonedGives, PTL

\* Two processes never refresh at once, and a token that was reported while the
\* file held it is never admissible again, whatever dies, waits or gives up.
THEOREM TwoProcessesRefreshOnce == AtMostTwo /\ Spec => []OneRefresh /\ []RejectedIsMarked
<1> SUFFICES ASSUME AtMostTwo PROVE Spec => []OneRefresh /\ []RejectedIsMarked
  OBVIOUS
<1>1. Spec => []NoTheft
  BY TwoProcessesNeverSteal
<1> QED
  BY <1>1, OneRefreshWithoutTheft, PTL
=============================================================================
