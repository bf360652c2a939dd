------------------------- MODULE ReportQueueProofs -------------------------
(* Theorems about ReportQueue, for any workers, jobs, attempt bound and     *)
(* fault bound.                                                             *)
EXTENDS ReportQueue, TLAPS

\* The row after a renewal, an expiry or the end of a retry delay.
WithLease(row, l) == [row EXCEPT !.lease_until = l]

WithRetry(row, r) == [row EXCEPT !.retry_at = r]

\* A repaired row is a row.
LEMMA FinalizedIsRow ==
  ASSUME NEW row \in Row
  PROVE  Finalized(row) \in Row
  BY QueueAssumption DEF Row, Token, NoToken, Outcome, Finalized, CompleteValues

LEMMA ClaimedIsRow ==
  ASSUME NEW w \in Workers, NEW row \in Row
  PROVE  ClaimedRow(w, row) \in Row
<1>1. row.job_version + 1 \in Nat /\ row.attempt_count + 1 \in Nat
  BY DEF Row
<1>2. <<w, row.job_version + 1>> \in Token
  BY <1>1 DEF Token
<1> QED
  BY <1>1, <1>2 DEF Row, ClaimedRow, Outcome

LEMMA FailureIsRow ==
  ASSUME TypeOK, NEW w \in Workers, NEW row \in Row
  PROVE  FailureValues(w, row) \in Row
<1>1. NoToken \in Token
  BY DEF NoToken, Token
<1> QED
  BY <1>1 DEF Row, FailureValues, TypeOK

\* The columns each row update sets, and the ones it leaves alone.
LEMMA FinalizedColumns ==
  ASSUME NEW row \in Row
  PROVE  /\ Finalized(row).status = "completed"
         /\ Finalized(row).attempt_count = row.attempt_count
         /\ row.status = "completed" => Finalized(row) = row
         /\ row.status # "completed" =>
              /\ Finalized(row).worker_token = NoToken
              /\ Finalized(row).lease_until = "none"
              /\ Finalized(row).retry_at = "none"
              /\ Finalized(row).last_error = "none"
  BY DEF Finalized, CompleteValues, Row

LEMMA NewColumns ==
  ASSUME NEW s
  PROVE  /\ NewRow(s).status = s
         /\ NewRow(s).worker_token = NoToken
         /\ NewRow(s).lease_until = "none"
         /\ NewRow(s).retry_at = "none"
         /\ NewRow(s).last_error = "none"
  BY DEF NewRow

LEMMA ClaimedColumns ==
  ASSUME NEW w \in Workers, NEW row \in Row
  PROVE  /\ ClaimedRow(w, row).status = "processing"
         /\ ClaimedRow(w, row).worker_token = <<w, row.job_version + 1>>
         /\ ClaimedRow(w, row).job_version = row.job_version + 1
         /\ ClaimedRow(w, row).lease_until = "live"
         /\ ClaimedRow(w, row).retry_at = "none"
         /\ ClaimedRow(w, row).last_error = "none"
  BY DEF ClaimedRow, Row

LEMMA FailureColumns ==
  ASSUME NEW w \in Workers, NEW row \in Row
  PROVE  /\ FailureValues(w, row).status = IF pc[w] = "closing" THEN "failed" ELSE "queued"
         /\ FailureValues(w, row).worker_token = NoToken
         /\ FailureValues(w, row).lease_until = "none"
         /\ FailureValues(w, row).retry_at = IF pc[w] = "closing" THEN "none" ELSE "future"
         /\ FailureValues(w, row).last_error = outcome[w]
         /\ FailureValues(w, row).attempt_count = row.attempt_count
  BY DEF FailureValues, Row

LEMMA ClockColumns ==
  ASSUME NEW row \in Row, NEW v
  PROVE  /\ WithLease(row, v).lease_until = v
         /\ WithLease(row, v).status = row.status
         /\ WithLease(row, v).worker_token = row.worker_token
         /\ WithLease(row, v).job_version = row.job_version
         /\ WithLease(row, v).attempt_count = row.attempt_count
         /\ WithLease(row, v).retry_at = row.retry_at
         /\ WithLease(row, v).last_error = row.last_error
         /\ WithRetry(row, v).lease_until = row.lease_until
         /\ WithRetry(row, v).status = row.status
         /\ WithRetry(row, v).worker_token = row.worker_token
         /\ WithRetry(row, v).job_version = row.job_version
         /\ WithRetry(row, v).attempt_count = row.attempt_count
         /\ WithRetry(row, v).retry_at = v
         /\ WithRetry(row, v).last_error = row.last_error
  BY DEF WithLease, WithRetry, Row

\* Repairing or completing one row keeps the tables well typed.
LEMMA AdoptKeepsRows ==
  ASSUME TypeOK, NEW j \in Jobs
  PROVE  [job EXCEPT ![j] = Finalized(@)] \in [Jobs -> Row]
  BY FinalizedIsRow DEF TypeOK

\* What an executing worker knows about its claim.
LEMMA ExecutingHasClaim ==
  ASSUME TypeOK, NEW w \in Workers, pc[w] \in Executing
  PROVE  /\ JobOf(w) \in Jobs
         /\ claim[w].version \in Nat
         /\ claim[w] = [job |-> JobOf(w), version |-> claim[w].version]
  BY DEF TypeOK, Claim, JobOf

LEMMA InsertKeepsRows ==
  ASSUME TypeOK, NEW w \in Workers, pc[w] \in Executing, InsertAndComplete(w)
  PROVE  job' \in [Jobs -> Row] /\ report' \subseteq Report
<1>1. JobOf(w) \in Jobs /\ claim[w].version \in Nat
  BY ExecutingHasClaim
<1> QED
  BY <1>1, AdoptKeepsRows DEF InsertAndComplete, Report, TypeOK

\* The end of an execution and a jump inside one keep the locals well typed.
LEMMA FinishKeepsTypes ==
  ASSUME TypeOK, NEW w \in Workers, Finish(w)
  PROVE  /\ pc' \in [Workers -> PC]
         /\ claim' \in [Workers -> Claim \cup {NoClaim}]
         /\ \A v \in Workers : pc'[v] \in Executing <=> claim'[v] \in Claim
         /\ outcome' \in [Workers -> Outcome]
         /\ found' \in [Workers -> BOOLEAN]
<1>1. NoClaim \notin Claim
  BY QueueAssumption DEF NoClaim, Claim
<1>2. "idle" \in PC /\ "idle" \notin Executing
  BY DEF PC, Executing, InTry, InHandler, WithHeartbeat
<1> QED
  BY <1>1, <1>2 DEF TypeOK, Finish, Outcome

LEMMA GotoKeepsTypes ==
  ASSUME TypeOK, NEW w \in Workers, pc[w] \in Executing,
         NEW label \in Executing, Goto(w, label)
  PROVE  /\ pc' \in [Workers -> PC]
         /\ claim' \in [Workers -> Claim \cup {NoClaim}]
         /\ \A v \in Workers : pc'[v] \in Executing <=> claim'[v] \in Claim
         /\ found' \in [Workers -> BOOLEAN]
  BY DEF TypeOK, Goto, PC

\* Types are kept by every step.
LEMMA TypeStep == TypeOK /\ [Next]_vars => TypeOK'
<1> SUFFICES ASSUME TypeOK, [Next]_vars
             PROVE  TypeOK'
  OBVIOUS
<1> USE QueueAssumption
<1>1. CASE UNCHANGED vars
  BY <1>1 DEF TypeOK, vars
<1>2. ASSUME NEW j \in Jobs, JobStep(j)
      PROVE  TypeOK'
  <2>1. job[j] \in Row
    BY DEF TypeOK
  <2>2. CASE ExportTranscript(j)
    <3>1. NewRow("queued") \in Row
      BY DEF Row, NewRow, Token, NoToken, Outcome
    <3> QED
      BY <2>2, <3>1 DEF ExportTranscript, TypeOK
  <2>3. CASE LeaseRunsOut(j) \/ LeaseOverrun(j)
    <3>1. [job[j] EXCEPT !.lease_until = "expired"] \in Row
      BY <2>1 DEF Row
    <3>2. faults' \in 0..MaxFaults
      BY <2>3 DEF LeaseRunsOut, LeaseOverrun, Fault, TypeOK
    <3> QED
      BY <2>3, <3>1, <3>2 DEF LeaseRunsOut, LeaseOverrun, LeaseExpires, TypeOK
  <2>4. CASE RetryFallsDue(j)
    <3>1. [job[j] EXCEPT !.retry_at = "due"] \in Row
      BY <2>1 DEF Row
    <3> QED
      BY <2>4, <3>1 DEF RetryFallsDue, TypeOK
  <2> QED
    BY <1>2, <2>2, <2>3, <2>4 DEF JobStep
<1>3. ASSUME NEW w \in Workers, Start(w)
      PROVE  TypeOK'
  <2>1. "starting" \in PC /\ "starting" \notin Executing /\ "down" \notin Executing
    BY DEF PC, Executing, InTry, InHandler, WithHeartbeat
  <2> QED
    BY <1>3, <2>1 DEF Start, TypeOK
<1>4. ASSUME NEW w \in Workers, WorkerStep(w)
      PROVE  TypeOK'
  <2>1. CASE ReconcileOnce(w)
    <3>1. /\ "idle" \in PC /\ "idle" \notin Executing
          /\ "starting" \notin Executing
      BY DEF PC, Executing, InTry, InHandler, WithHeartbeat
    <3>2. job' \in [Jobs -> Row]
      BY <2>1, FinalizedIsRow DEF ReconcileOnce, TypeOK
    <3> QED
      BY <2>1, <3>1, <3>2 DEF ReconcileOnce, TypeOK
  <2>2. ASSUME NEW j \in Jobs, ClaimNextJob(w, j)
        PROVE  TypeOK'
    <3>1. job' \in [Jobs -> Row]
      BY <2>2, ClaimedIsRow DEF ClaimNextJob, TypeOK
    <3>2. /\ "claimed" \in PC /\ "claimed" \in Executing
          /\ "idle" \notin Executing
      BY DEF PC, Executing, InTry, InHandler, WithHeartbeat
    <3>3. [job |-> j, version |-> job[j].job_version + 1] \in Claim
      BY DEF TypeOK, Row, Claim
    <3> QED
      BY <2>2, <3>1, <3>2, <3>3 DEF ClaimNextJob, TypeOK
  <2>3. CASE ReadJob(w)
    <3>1. pc[w] \in Executing /\ "owner" \in Executing /\ "outsider" \in Executing
      BY <2>3 DEF ReadJob, Executing, InTry
    <3> QED
      BY <2>3, <3>1, GotoKeepsTypes DEF ReadJob, TypeOK
  <2>4. CASE CheckReport(w)
    <3>1. pc[w] \in Executing /\ "leased" \in Executing
      BY <2>4 DEF CheckReport, Executing, InTry, WithHeartbeat
    <3>2. JobOf(w) \in Jobs /\ claim[w].version \in Nat
      BY <3>1, ExecutingHasClaim
    <3>3. CASE AdoptExisting(w) /\ UNCHANGED beats
      BY <2>4, <3>2, <3>3, FinishKeepsTypes, AdoptKeepsRows DEF CheckReport, AdoptExisting, TypeOK
    <3>4. CASE Finish(w) /\ UNCHANGED <<job, beats>>
      BY <2>4, <3>4, FinishKeepsTypes DEF CheckReport, TypeOK
    <3>5. CASE StartHeartbeat(w)
      <4>1. beats' \subseteq Beat
        BY <3>2, <3>5 DEF StartHeartbeat, Beat, TypeOK
      <4> QED
        BY <2>4, <3>1, <3>5, <4>1, GotoKeepsTypes DEF CheckReport, StartHeartbeat, TypeOK
    <3> QED
      BY <2>4, <3>3, <3>4, <3>5 DEF CheckReport
  <2>5. CASE CheckLeased(w)
    <3>1. /\ pc[w] \in Executing
          /\ "generating" \in Executing /\ "recording" \in Executing
      BY <2>5 DEF CheckLeased, Executing, InTry, InHandler, WithHeartbeat
    <3>2. JobOf(w) \in Jobs
      BY <3>1, ExecutingHasClaim
    <3>3. beats' \subseteq Beat
      BY <2>5 DEF CheckLeased, StopHeartbeat, TypeOK
    <3>4. outcome' \in [Workers -> Outcome] /\ job' \in [Jobs -> Row]
      BY <2>5, <3>2, AdoptKeepsRows DEF CheckLeased, Raise, AdoptExisting, Finish, Outcome, TypeOK
    <3>5. CASE Finish(w)
      BY <2>5, <3>3, <3>4, <3>5, FinishKeepsTypes DEF CheckLeased, TypeOK
    <3>6. CASE Goto(w, "recording") \/ Goto(w, "generating")
      BY <2>5, <3>1, <3>3, <3>4, <3>6, GotoKeepsTypes DEF CheckLeased, TypeOK
    <3> QED
      BY <2>5, <3>5, <3>6 DEF CheckLeased, AdoptExisting, Raise
  <2>6. CASE Generate(w)
    <3>1. pc[w] \in Executing /\ "generated" \in Executing
      BY <2>6 DEF Generate, Executing, InTry, WithHeartbeat
    <3>2. outcome' \in [Workers -> Outcome]
      BY <2>6 DEF Generate, Outcome, TypeOK
    <3> QED
      BY <2>6, <3>1, <3>2, GotoKeepsTypes DEF Generate, TypeOK
  <2>7. CASE LeaveHeartbeat(w)
    <3>1. /\ pc[w] \in Executing
          /\ "rechecking" \in Executing /\ "lease_lost" \in Executing
      BY <2>7 DEF LeaveHeartbeat, Executing, InTry, InHandler, WithHeartbeat
    <3>2. JobOf(w) \in Jobs
      BY <3>1, ExecutingHasClaim
    <3>3. beats' \subseteq Beat
      BY <2>7 DEF LeaveHeartbeat, StopHeartbeat, TypeOK
    <3>4. CASE AdoptExisting(w)
      BY <2>7, <3>2, <3>3, <3>4, FinishKeepsTypes, AdoptKeepsRows DEF LeaveHeartbeat, AdoptExisting, TypeOK
    <3>5. CASE (Goto(w, "rechecking") \/ Goto(w, "lease_lost")) /\ UNCHANGED <<job, outcome>>
      BY <2>7, <3>1, <3>3, <3>5, GotoKeepsTypes DEF LeaveHeartbeat, TypeOK
    <3> QED
      BY <2>7, <3>4, <3>5 DEF LeaveHeartbeat
  <2>8. CASE Recheck(w)
    <3>1. /\ pc[w] \in Executing
          /\ "recording" \in Executing /\ "persisting" \in Executing
      BY <2>8 DEF Recheck, Executing, InTry, InHandler
    <3>2. JobOf(w) \in Jobs
      BY <3>1, ExecutingHasClaim
    <3>3. CASE AdoptExisting(w)
      BY <2>8, <3>2, <3>3, FinishKeepsTypes, AdoptKeepsRows DEF Recheck, AdoptExisting, TypeOK
    <3>4. CASE Raise(w, "recording", "permanent") /\ UNCHANGED job
      BY <2>8, <3>1, <3>4, GotoKeepsTypes DEF Recheck, Raise, Outcome, TypeOK
    <3>5. CASE Goto(w, "persisting") /\ UNCHANGED <<job, outcome>>
      BY <2>8, <3>1, <3>5, GotoKeepsTypes DEF Recheck, TypeOK
    <3> QED
      BY <2>8, <3>3, <3>4, <3>5 DEF Recheck
  <2>9. CASE Persist(w)
    <3>1. pc[w] \in Executing /\ "adopting" \in Executing
      BY <2>9 DEF Persist, Executing, InTry
    <3>2. JobOf(w) \in Jobs
      BY <3>1, ExecutingHasClaim
    <3>3. CASE InsertAndComplete(w) /\ Finish(w)
      BY <2>9, <3>1, <3>3, FinishKeepsTypes, InsertKeepsRows DEF Persist, TypeOK
    <3>4. CASE Goto(w, "adopting") /\ UNCHANGED <<job, report, outcome>>
      BY <2>9, <3>1, <3>4, GotoKeepsTypes DEF Persist, TypeOK
    <3> QED
      BY <2>9, <3>3, <3>4 DEF Persist
  <2>10. CASE Adopt(w)
    <3>1. pc[w] \in Executing /\ "failing" \in Executing
      BY <2>10 DEF Adopt, Executing, InTry, InHandler
    <3>2. JobOf(w) \in Jobs
      BY <3>1, ExecutingHasClaim
    <3>3. CASE AdoptExisting(w)
      BY <2>10, <3>2, <3>3, FinishKeepsTypes, AdoptKeepsRows DEF Adopt, AdoptExisting, TypeOK
    <3>4. CASE Raise(w, "failing", "transient") /\ UNCHANGED job
      BY <2>10, <3>1, <3>4, GotoKeepsTypes DEF Adopt, Raise, Outcome, TypeOK
    <3> QED
      BY <2>10, <3>3, <3>4 DEF Adopt
  <2>11. CASE HandleError(w)
    <3>1. pc[w] \in Executing /\ "recording" \in Executing
      BY <2>11 DEF HandleError, Executing, InHandler
    <3>2. JobOf(w) \in Jobs
      BY <3>1, ExecutingHasClaim
    <3>3. CASE AdoptExisting(w)
      BY <2>11, <3>2, <3>3, FinishKeepsTypes, AdoptKeepsRows DEF HandleError, AdoptExisting, TypeOK
    <3>4. CASE Finish(w) /\ UNCHANGED job
      BY <2>11, <3>4, FinishKeepsTypes DEF HandleError, TypeOK
    <3>5. CASE Goto(w, "recording") /\ UNCHANGED <<job, outcome>>
      BY <2>11, <3>1, <3>5, GotoKeepsTypes DEF HandleError, TypeOK
    <3> QED
      BY <2>11, <3>3, <3>4, <3>5 DEF HandleError
  <2>12. CASE ReadForFailure(w)
    <3>1. /\ pc[w] \in Executing
          /\ "closing" \in Executing /\ "requeueing" \in Executing
      BY <2>12 DEF ReadForFailure, Executing, InHandler
    <3>2. CASE Finish(w)
      BY <2>12, <3>2, FinishKeepsTypes DEF ReadForFailure, TypeOK
    <3>3. CASE (Goto(w, "closing") \/ Goto(w, "requeueing")) /\ UNCHANGED outcome
      BY <2>12, <3>1, <3>3, GotoKeepsTypes DEF ReadForFailure, TypeOK
    <3> QED
      BY <2>12, <3>2, <3>3 DEF ReadForFailure
  <2>13. CASE WriteFailure(w)
    <3>1. pc[w] \in Executing
      BY <2>13 DEF WriteFailure, Executing, InHandler
    <3>2. job' \in [Jobs -> Row]
      BY <2>13, <3>1, ExecutingHasClaim, FailureIsRow DEF WriteFailure, TypeOK
    <3> QED
      BY <2>13, <3>2, FinishKeepsTypes DEF WriteFailure, TypeOK
  <2> QED
    BY <1>4, <2>1, <2>2, <2>3, <2>4, <2>5, <2>6, <2>7, <2>8, <2>9, <2>10,
       <2>11, <2>12, <2>13 DEF WorkerStep
<1>5. ASSUME NEW w \in Workers, WorkerFault(w)
      PROVE  TypeOK'
  <2>1. ASSUME NEW j \in Jobs, ClaimUnacknowledged(w, j)
        PROVE  TypeOK'
    <3>1. job' \in [Jobs -> Row]
      BY <2>1, ClaimedIsRow DEF ClaimUnacknowledged, TypeOK
    <3>2. faults' \in 0..MaxFaults
      BY <2>1 DEF ClaimUnacknowledged, Fault, TypeOK
    <3> QED
      BY <2>1, <3>1, <3>2 DEF ClaimUnacknowledged, TypeOK
  <2>2. CASE PersistUnacknowledged(w)
    <3>1. pc[w] \in Executing /\ "failing" \in Executing
      BY <2>2 DEF PersistUnacknowledged, Executing, InTry, InHandler
    <3>2. outcome' \in [Workers -> Outcome]
      BY <2>2 DEF PersistUnacknowledged, Raise, Outcome, TypeOK
    <3> QED
      BY <2>2, <3>1, <3>2, GotoKeepsTypes, InsertKeepsRows
      DEF PersistUnacknowledged, Raise, TypeOK
  <2>3. CASE ExecutionError(w)
    <3>1. pc[w] \in Executing /\ "failing" \in Executing
      BY <2>3 DEF ExecutionError, Executing, InTry, InHandler
    <3>2. outcome' \in [Workers -> Outcome] /\ beats' \subseteq Beat
      BY <2>3 DEF ExecutionError, Raise, StopHeartbeat, Outcome, TypeOK
    <3> QED
      BY <2>3, <3>1, <3>2, GotoKeepsTypes DEF ExecutionError, Raise, TypeOK
  <2>4. CASE HandlerError(w)
    <3>1. faults' \in 0..MaxFaults
      BY <2>4 DEF HandlerError, Fault, TypeOK
    <3> QED
      BY <2>4, <3>1, FinishKeepsTypes DEF HandlerError, TypeOK
  <2>5. CASE Crash(w)
    <3>1. "down" \in PC /\ "down" \notin Executing
      BY DEF PC, Executing, InTry, InHandler, WithHeartbeat
    <3>2. NoClaim \notin Claim
      BY DEF NoClaim, Claim
    <3>3. faults' \in 0..MaxFaults /\ beats' \subseteq Beat
      BY <2>5 DEF Crash, Fault, TypeOK
    <3> QED
      BY <2>5, <3>1, <3>2, <3>3 DEF Crash, Outcome, TypeOK
  <2> QED
    BY <1>5, <2>1, <2>2, <2>3, <2>4, <2>5 DEF WorkerFault
<1>6. ASSUME NEW b \in beats, BeatStep(b)
      PROVE  TypeOK'
  <2>1. b \in Beat /\ b.worker \in Workers /\ b.job \in Jobs
    BY DEF TypeOK, Beat
  <2>2. \A s \in {"waiting", "checking", "renewing"} : [b EXCEPT !.step = s] \in Beat
    BY <2>1 DEF Beat
  <2>3. beats' \subseteq Beat
    BY <1>6, <2>2 DEF BeatStep, BeatWakes, BeatChecks, BeatRenews, BeatFails,
                      NextRound, TypeOK
  <2>4. job' \in [Jobs -> Row]
    <3>1. [job[b.job] EXCEPT !.lease_until = "live"] \in Row
      BY <2>1 DEF Row, TypeOK
    <3> QED
      BY <1>6, <2>1, <3>1, AdoptKeepsRows
      DEF BeatStep, BeatWakes, BeatChecks, BeatRenews, BeatFails, TypeOK
  <2>5. found' \in [Workers -> BOOLEAN]
    BY <1>6 DEF BeatStep, BeatWakes, BeatChecks, BeatRenews, BeatFails, TypeOK
  <2> QED
    BY <1>6, <2>3, <2>4, <2>5
    DEF BeatStep, BeatWakes, BeatChecks, BeatRenews, BeatFails, TypeOK
<1> QED
  BY <1>1, <1>2, <1>3, <1>4, <1>5, <1>6 DEF Next

LEMMA InitTypes == Init => TypeOK
<1> SUFFICES ASSUME Init PROVE TypeOK
  OBVIOUS
<1> USE QueueAssumption
<1>1. \A s \in {"absent", "queued", "processing"} : NewRow(s) \in Row
  BY DEF NewRow, Row, Token, NoToken, Outcome
<1>2. NoClaim \notin Claim
  BY DEF NoClaim, Claim
<1>3. "down" \in PC /\ "down" \notin Executing
  BY DEF PC, Executing, InTry, InHandler, WithHeartbeat
<1>4. job \in [Jobs -> Row]
  BY <1>1 DEF Init
<1>5. report \subseteq Report
  BY DEF Init, Report
<1> QED
  BY <1>2, <1>3, <1>4, <1>5 DEF Init, TypeOK, Outcome

\* Every column, local and thread keeps its type; an executing worker always
\* has a claim, and no other worker has one.
THEOREM TypeCorrect == Spec => []TypeOK
  BY InitTypes, TypeStep, PTL DEF Spec

----------------------------------------------------------------------------
(* What a step can do to the two tables.  Most of the argument needs only   *)
(* this: which handler made the change does not matter.                     *)

Changed(j, row) == job' = [job EXCEPT ![j] = row] /\ UNCHANGED report

Repaired(j) == HasReport(j) /\ Changed(j, Finalized(job[j]))

AllRepaired ==
  /\ job' = [j \in Jobs |-> IF HasReport(j) THEN Finalized(job[j]) ELSE job[j]]
  /\ UNCHANGED report

Exported(j) == job[j].status = "absent" /\ Changed(j, NewRow("queued"))

LeaseExpired(j) ==
  /\ job[j].lease_until = "live"
  /\ Held(j) => faults' = faults + 1
  /\ Changed(j, WithLease(job[j], "expired"))

FellDue(j) ==
  job[j].retry_at = "future" /\ Changed(j, WithRetry(job[j], "due"))

Claimed(w, j) ==
  pc[w] = "idle" /\ Candidate(j) /\ Changed(j, ClaimedRow(w, job[j]))

Renewed(b) ==
  /\ RenewFence(b)
  /\ Changed(b.job, WithLease(job[b.job], "live"))

Inserted(w) == pc[w] = "persisting" /\ InsertAndComplete(w)

FailureWritten(w) ==
  /\ pc[w] \in {"closing", "requeueing"}
  /\ FailureFence(w)
  /\ Changed(JobOf(w), FailureValues(w, job[JobOf(w)]))
  /\ pc'[w] = "idle"

TableStep ==
  \/ UNCHANGED <<job, report>>
  \/ AllRepaired
  \/ \E j \in Jobs : Repaired(j) \/ Exported(j) \/ LeaseExpired(j) \/ FellDue(j)
  \/ \E w \in Workers, j \in Jobs : Claimed(w, j)
  \/ \E w \in Workers : Inserted(w) \/ FailureWritten(w)
  \/ \E b \in beats : Renewed(b)

LEMMA AdoptRepairs ==
  ASSUME TypeOK, NEW w \in Workers, pc[w] \in Executing, HasReport(JobOf(w)),
         AdoptExisting(w), UNCHANGED report
  PROVE  TableStep
<1>1. JobOf(w) \in Jobs
  BY ExecutingHasClaim
<1>2. Repaired(JobOf(w))
  BY DEF AdoptExisting, Repaired, Changed
<1> QED
  BY <1>1, <1>2 DEF TableStep

LEMMA EveryStepIsTableStep == TypeOK /\ [Next]_vars => TableStep
<1> SUFFICES ASSUME TypeOK, [Next]_vars
             PROVE  TableStep
  OBVIOUS
<1>1. CASE UNCHANGED vars
  BY <1>1 DEF vars, TableStep
<1>2. ASSUME NEW j \in Jobs, JobStep(j)
      PROVE  TableStep
  BY <1>2 DEF JobStep, ExportTranscript, LeaseRunsOut, LeaseOverrun, LeaseExpires,
              RetryFallsDue, Fault, TableStep, Exported, LeaseExpired, FellDue, Changed,
              WithLease, WithRetry
<1>3. ASSUME NEW w \in Workers, Start(w)
      PROVE  TableStep
  BY <1>3 DEF Start, TableStep
<1>4. ASSUME NEW w \in Workers, WorkerStep(w)
      PROVE  TableStep
  <2>1. CASE ReconcileOnce(w)
    BY <2>1 DEF ReconcileOnce, TableStep, AllRepaired
  <2>2. ASSUME NEW j \in Jobs, ClaimNextJob(w, j)
        PROVE  TableStep
    BY <2>2 DEF ClaimNextJob, Claimable, TableStep, Claimed, Changed
  <2>3. CASE AdoptExisting(w) /\ HasReport(JobOf(w)) /\ pc[w] \in Executing /\ UNCHANGED report
    BY <2>3, AdoptRepairs
  <2>4. CASE Persist(w) /\ InsertAndComplete(w)
    BY <2>4 DEF Persist, TableStep, Inserted
  <2>5. CASE WriteFailure(w)
    <3>1. pc'[w] = "idle"
      BY <2>5 DEF WriteFailure, Finish, TypeOK
    <3> QED
      BY <2>5, <3>1 DEF WriteFailure, TableStep, FailureWritten, Changed
  <2>6. CASE UNCHANGED <<job, report>>
    BY <2>6 DEF TableStep
  <2>7. CASE ReadJob(w) \/ Generate(w) \/ ReadForFailure(w)
    BY <2>6, <2>7 DEF ReadJob, Generate, ReadForFailure
  <2>8. CASE CheckReport(w) \/ CheckLeased(w) \/ LeaveHeartbeat(w)
    BY <2>3, <2>6, <2>8 DEF CheckReport, CheckLeased, LeaveHeartbeat, StartHeartbeat,
                            Executing, InTry, WithHeartbeat
  <2>9. CASE Recheck(w) \/ Adopt(w) \/ HandleError(w)
    BY <2>3, <2>6, <2>9 DEF Recheck, Adopt, HandleError, Executing, InTry, InHandler
  <2>10. CASE Persist(w)
    BY <2>4, <2>6, <2>10 DEF Persist
  <2> QED
    BY <1>4, <2>1, <2>2, <2>5, <2>7, <2>8, <2>9, <2>10 DEF WorkerStep
<1>5. ASSUME NEW w \in Workers, WorkerFault(w)
      PROVE  TableStep
  BY <1>5 DEF WorkerFault, ClaimUnacknowledged, Claimable, PersistUnacknowledged,
              ExecutionError, HandlerError, Crash, TableStep, Claimed, Changed, Inserted
<1>6. ASSUME NEW b \in beats, BeatStep(b)
      PROVE  TableStep
  <2>1. b.job \in Jobs
    BY DEF TypeOK, Beat
  <2>2. CASE BeatChecks(b)
    BY <2>1, <2>2 DEF BeatChecks, TableStep, Repaired, Changed
  <2>3. CASE BeatRenews(b)
    BY <2>3 DEF BeatRenews, TableStep, Renewed, Changed, WithLease
  <2>4. CASE BeatWakes(b) \/ BeatFails(b)
    BY <2>4 DEF BeatWakes, BeatFails, TableStep
  <2> QED
    BY <1>6, <2>2, <2>3, <2>4 DEF BeatStep
<1> QED
  BY <1>1, <1>2, <1>3, <1>4, <1>5, <1>6 DEF Next

----------------------------------------------------------------------------
(* The inductive invariant.  TableInv is about the rows, LocalInv about     *)
(* what each execution may rely on while others change the rows.            *)

\* A legacy row keeps its report and is only ever processing or completed.
InterruptedKeepReport ==
  \A j \in Interrupted :
    HasReport(j) /\ job[j].status \in {"processing", "completed"}

TableInv ==
  /\ OneReportPerJob
  /\ ReportFinalizesJob
  /\ RowsAreConsistent
  /\ RetryBudget
  /\ InterruptedKeepReport

\* An execution that handles an error knows its kind; a verdict about a row
\* that still carries this claim was taken from the current attempt count; a
\* legacy job never gets past the look-up of its report; the report_found
\* event is set only for a report; and the claimed row exists.
LocalInv(w) ==
  /\ pc[w] \in {"failing", "recording", "closing", "requeueing"}
       => outcome[w] \in {"transient", "permanent"}
  /\ pc[w] = "requeueing" /\ OwnsJob(w)
       => job[JobOf(w)].attempt_count < MaxAttempts
  /\ pc[w] = "closing" /\ OwnsJob(w) /\ outcome[w] = "transient"
       => job[JobOf(w)].attempt_count >= MaxAttempts
  /\ pc[w] \in Executing \ {"claimed", "owner", "outsider", "failing"}
       => JobOf(w) \notin Interrupted
  /\ found[w] => pc[w] \in Executing /\ HasReport(JobOf(w))
  /\ pc[w] \in Executing => job[JobOf(w)].status # "absent"

Inv == TypeOK /\ TableInv /\ \A w \in Workers : LocalInv(w)

\* Reports are never withdrawn.
LEMMA ReportsStay ==
  ASSUME TableStep, NEW j, HasReport(j)
  PROVE  HasReport(j)'
  BY DEF TableStep, AllRepaired, Repaired, Exported, LeaseExpired, FellDue, Claimed,
         Inserted, InsertAndComplete, FailureWritten, Renewed, Changed, HasReport

\* Only an insertion adds a report, and only to a job that has none.
LEMMA ReportsGrow ==
  ASSUME TableStep
  PROVE  \/ UNCHANGED report
         \/ \E w \in Workers :
              /\ Inserted(w)
              /\ ~HasReport(JobOf(w))
              /\ report' = report \cup {[job |-> JobOf(w), by |-> claim[w].version]}
  BY DEF TableStep, AllRepaired, Repaired, Exported, LeaseExpired, FellDue, Claimed,
         Inserted, InsertAndComplete, UniqueAllows, FailureWritten, Renewed, Changed

\* The effect of a step on one row.
RowFinalized(j) ==
  /\ job'[j] = Finalized(job[j])
  /\ HasReport(j) \/ \E w \in Workers : Inserted(w) /\ JobOf(w) = j

RowExported(j) == job[j].status = "absent" /\ job'[j] = NewRow("queued")

RowExpired(j) ==
  /\ job[j].lease_until = "live"
  /\ Held(j) => faults' = faults + 1
  /\ job'[j] = WithLease(job[j], "expired")

RowFellDue(j) ==
  /\ job[j].retry_at = "future"
  /\ job'[j] = WithRetry(job[j], "due")

RowClaimed(w, j) ==
  pc[w] = "idle" /\ Candidate(j) /\ job'[j] = ClaimedRow(w, job[j])

RowFailed(w, j) ==
  /\ FailureWritten(w)
  /\ JobOf(w) = j
  /\ job'[j] = FailureValues(w, job[j])

RowRenewed(b, j) ==
  /\ b.job = j
  /\ RenewFence(b)
  /\ job'[j] = WithLease(job[j], "live")

LEMMA RowStep ==
  ASSUME TypeOK, TableStep, NEW j \in Jobs
  PROVE  \/ job'[j] = job[j]
         \/ RowFinalized(j) \/ RowExported(j) \/ RowExpired(j) \/ RowFellDue(j)
         \/ \E w \in Workers : RowClaimed(w, j) \/ RowFailed(w, j)
         \/ \E b \in beats : RowRenewed(b, j)
<1>1. job \in [Jobs -> Row]
  BY DEF TypeOK
<1>2. CASE UNCHANGED <<job, report>>
  BY <1>2
<1>3. CASE AllRepaired
  BY <1>3 DEF AllRepaired, RowFinalized
<1>4. ASSUME NEW i \in Jobs,
             Repaired(i) \/ Exported(i) \/ LeaseExpired(i) \/ FellDue(i)
      PROVE  \/ job'[j] = job[j]
             \/ RowFinalized(j) \/ RowExported(j) \/ RowExpired(j) \/ RowFellDue(j)
  BY <1>1, <1>4 DEF Repaired, Exported, LeaseExpired, FellDue, Changed,
                    RowFinalized, RowExported, RowExpired, RowFellDue
<1>5. ASSUME NEW w \in Workers, NEW i \in Jobs, Claimed(w, i)
      PROVE  job'[j] = job[j] \/ RowClaimed(w, j)
  BY <1>1, <1>5 DEF Claimed, Changed, RowClaimed
<1>6. ASSUME NEW w \in Workers, Inserted(w)
      PROVE  job'[j] = job[j] \/ RowFinalized(j)
  BY <1>1, <1>6 DEF Inserted, InsertAndComplete, RowFinalized
<1>7. ASSUME NEW w \in Workers, FailureWritten(w)
      PROVE  job'[j] = job[j] \/ RowFailed(w, j)
  BY <1>1, <1>7 DEF FailureWritten, Changed, RowFailed
<1>8. ASSUME NEW b \in beats, Renewed(b)
      PROVE  job'[j] = job[j] \/ RowRenewed(b, j)
  BY <1>1, <1>8 DEF Renewed, Changed, RowRenewed
<1> QED
  BY <1>2, <1>3, <1>4, <1>5, <1>6, <1>7, <1>8 DEF TableStep

\* The tables stay correct.
LEMMA TableInvStep == Inv /\ TableStep => TableInv'
<1> SUFFICES ASSUME Inv, TableStep
             PROVE  TableInv'
  OBVIOUS
<1> USE DEF Inv
<1>1. OneReportPerJob'
  BY ReportsGrow DEF TableInv, OneReportPerJob, HasReport
<1>2. ReportFinalizesJob'
  <2> SUFFICES ASSUME NEW j \in Jobs
               PROVE  /\ job'[j].status = "completed" => HasReport(j)'
                      /\ HasReport(j)' /\ j \notin Interrupted
                           => job'[j].status = "completed"
    BY DEF ReportFinalizesJob
  <2>1. job \in [Jobs -> Row] /\ job[j] \in Row
    BY DEF TypeOK
  <2>2. /\ job[j].status = "completed" => HasReport(j)
        /\ HasReport(j) /\ j \notin Interrupted => job[j].status = "completed"
    BY DEF TableInv, ReportFinalizesJob
  <2>3. Finalized(job[j]).status = "completed"
    BY <2>1, FinalizedColumns
  <2>4. ASSUME NEW w \in Workers, Inserted(w), JobOf(w) = j
        PROVE  HasReport(j)' /\ job'[j].status = "completed"
    <3>1. job'[j] = Finalized(job[j])
      BY <2>1, <2>4 DEF Inserted, InsertAndComplete
    <3>2. [job |-> j, by |-> claim[w].version] \in report'
      BY <2>4 DEF Inserted, InsertAndComplete
    <3> QED
      BY <2>3, <3>1, <3>2 DEF HasReport
  <2>5. CASE HasReport(j)
    <3>1. HasReport(j)'
      BY <2>5, ReportsStay
    <3>2. ASSUME j \notin Interrupted
          PROVE  job'[j].status = "completed"
      <4>1. job[j].status = "completed"
        BY <2>2, <2>5, <3>2
      <4>2. CASE RowFinalized(j)
        BY <2>3, <4>2 DEF RowFinalized
      <4>3. CASE RowExpired(j) \/ RowFellDue(j)
        BY <2>1, <4>1, <4>3, ClockColumns DEF RowExpired, RowFellDue
      <4>4. ~RowExported(j)
        BY <4>1 DEF RowExported
      <4>5. \A w \in Workers : ~RowClaimed(w, j) /\ ~RowFailed(w, j)
        BY <4>1 DEF RowClaimed, Candidate, Ready, Abandoned,
                    RowFailed, FailureWritten, FailureFence
      <4>6. \A b \in beats : ~RowRenewed(b, j)
        BY <4>1 DEF RowRenewed, RenewFence
      <4> QED
        BY <4>1, <4>2, <4>3, <4>4, <4>5, <4>6, RowStep
    <3> QED
      BY <3>1, <3>2
  <2>6. CASE ~HasReport(j)
    <3>1. job'[j].status = "completed" => \E w \in Workers : Inserted(w) /\ JobOf(w) = j
      <4>1. job[j].status # "completed"
        BY <2>2, <2>6
      <4>2. CASE RowFinalized(j)
        BY <2>6, <4>2 DEF RowFinalized
      <4>3. CASE RowExported(j)
        BY <4>3, NewColumns DEF RowExported
      <4>4. CASE RowExpired(j) \/ RowFellDue(j)
        BY <2>1, <4>1, <4>4, ClockColumns DEF RowExpired, RowFellDue
      <4>5. ASSUME NEW w \in Workers, RowClaimed(w, j) \/ RowFailed(w, j)
            PROVE  job'[j].status # "completed"
        BY <2>1, <4>5, ClaimedColumns, FailureColumns DEF RowClaimed, RowFailed
      <4>6. ASSUME NEW b \in beats, RowRenewed(b, j)
            PROVE  job'[j].status # "completed"
        BY <2>1, <4>1, <4>6, ClockColumns DEF RowRenewed
      <4> QED
        BY <4>1, <4>2, <4>3, <4>4, <4>5, <4>6, RowStep
    <3>2. HasReport(j)' => \E w \in Workers : Inserted(w) /\ JobOf(w) = j
      BY <2>6, ReportsGrow DEF HasReport
    <3> QED
      BY <2>4, <3>1, <3>2
  <2> QED
    BY <2>5, <2>6
<1>3. ASSUME NEW w \in Workers, Inserted(w), NEW j, JobOf(w) = j
      PROVE  HasReport(j)'
  <2>1. [job |-> j, by |-> claim[w].version] \in report'
    BY <1>3 DEF Inserted, InsertAndComplete
  <2> QED
    BY <2>1 DEF HasReport
<1>4. RowsAreConsistent'
  <2> SUFFICES ASSUME NEW j \in Jobs
               PROVE  Consistent(j)'
    BY DEF RowsAreConsistent
  <2> USE DEF Consistent
  <2>1. job[j] \in Row /\ (HasReport(j) => HasReport(j)')
    BY ReportsStay DEF TypeOK
  <2>2. Consistent(j)
    BY DEF TableInv, RowsAreConsistent
  <2>3. CASE job'[j] = job[j]
    BY <2>1, <2>2, <2>3
  <2>4. CASE RowFinalized(j)
    <3>1. HasReport(j)'
      BY <1>3, <2>4, ReportsStay DEF RowFinalized
    <3> QED
      BY <2>1, <2>2, <2>4, <3>1, FinalizedColumns DEF RowFinalized
  <2>5. CASE RowExported(j)
    BY <2>5, NewColumns DEF RowExported
  <2>6. CASE RowExpired(j) \/ RowFellDue(j)
    BY <2>1, <2>2, <2>6, ClockColumns DEF RowExpired, RowFellDue
  <2>7. ASSUME NEW w \in Workers, RowClaimed(w, j)
        PROVE  Consistent(j)'
    <3>1. <<w, job[j].job_version + 1>> # NoToken
      BY QueueAssumption DEF NoToken
    <3> HIDE DEF Consistent
    <3>2. /\ job'[j].status = "processing"
          /\ job'[j].worker_token = <<w, job[j].job_version + 1>>
          /\ job'[j].job_version = job[j].job_version + 1
          /\ job'[j].lease_until = "live"
          /\ job'[j].retry_at = "none"
          /\ job'[j].last_error = "none"
      BY <2>1, <2>7, ClaimedColumns DEF RowClaimed
    <3>3. job'[j].worker_token # NoToken /\ job'[j].worker_token[2] = job'[j].job_version
      BY <3>1, <3>2
    <3> QED
      BY <3>2, <3>3, SMTT(30) DEF Consistent
  <2>8. ASSUME NEW w \in Workers, RowFailed(w, j)
        PROVE  Consistent(j)'
    <3>1. outcome[w] \in {"transient", "permanent"}
      BY <2>8 DEF RowFailed, FailureWritten, LocalInv
    <3> QED
      BY <2>1, <2>8, <3>1, FailureColumns DEF RowFailed
  <2>9. ASSUME NEW b \in beats, RowRenewed(b, j)
        PROVE  Consistent(j)'
    <3>1. job[j].worker_token # NoToken
      BY <2>9, QueueAssumption DEF RowRenewed, RenewFence, NoToken, TypeOK, Beat
    <3> QED
      BY <2>1, <2>2, <2>9, <3>1, ClockColumns DEF RowRenewed
  <2> QED
    BY <2>3, <2>4, <2>5, <2>6, <2>7, <2>8, <2>9, RowStep
<1>5. RetryBudget'
  <2> SUFFICES ASSUME NEW j \in Jobs
               PROVE  /\ job'[j].status = "failed" /\ job'[j].last_error = "transient"
                           => job'[j].attempt_count >= MaxAttempts
                      /\ job'[j].retry_at # "none" => job'[j].attempt_count < MaxAttempts
    BY DEF RetryBudget
  <2>1. job[j] \in Row
    BY DEF TypeOK
  <2>2. /\ job[j].status = "failed" /\ job[j].last_error = "transient"
             => job[j].attempt_count >= MaxAttempts
        /\ job[j].retry_at # "none" => job[j].attempt_count < MaxAttempts
    BY DEF TableInv, RetryBudget
  <2>3. CASE job'[j] = job[j]
    BY <2>2, <2>3
  <2>4. CASE RowFinalized(j)
    BY <2>1, <2>2, <2>4, FinalizedColumns DEF RowFinalized
  <2>5. CASE RowExported(j)
    BY <2>5, NewColumns DEF RowExported
  <2>6. CASE RowExpired(j) \/ RowFellDue(j)
    BY <2>1, <2>2, <2>6, ClockColumns DEF RowExpired, RowFellDue
  <2>7. ASSUME NEW w \in Workers, RowClaimed(w, j)
        PROVE  job'[j].status = "processing" /\ job'[j].retry_at = "none"
    BY <2>1, <2>7, ClaimedColumns DEF RowClaimed
  <2>8. ASSUME NEW w \in Workers, RowFailed(w, j)
        PROVE  /\ job'[j].status = "failed" /\ job'[j].last_error = "transient"
                    => job'[j].attempt_count >= MaxAttempts
               /\ job'[j].retry_at # "none" => job'[j].attempt_count < MaxAttempts
    BY <2>1, <2>8, FailureColumns DEF RowFailed, FailureWritten, FailureFence, LocalInv
  <2>9. ASSUME NEW b \in beats, RowRenewed(b, j)
        PROVE  /\ job'[j].status = "failed" /\ job'[j].last_error = "transient"
                    => job'[j].attempt_count >= MaxAttempts
               /\ job'[j].retry_at # "none" => job'[j].attempt_count < MaxAttempts
    BY <2>1, <2>2, <2>9, ClockColumns DEF RowRenewed
  <2> QED
    BY <2>3, <2>4, <2>5, <2>6, <2>7, <2>8, <2>9, RowStep
<1>6. InterruptedKeepReport'
  <2> SUFFICES ASSUME NEW j \in Interrupted
               PROVE  HasReport(j)' /\ job'[j].status \in {"processing", "completed"}
    BY DEF InterruptedKeepReport
  <2>1. j \in Jobs /\ job[j] \in Row
    BY QueueAssumption DEF TypeOK
  <2>2. HasReport(j) /\ job[j].status \in {"processing", "completed"}
    BY DEF TableInv, InterruptedKeepReport
  <2>3. HasReport(j)'
    BY <2>2, ReportsStay
  <2>4. ASSUME NEW w \in Workers, RowFailed(w, j)
        PROVE  FALSE
    BY <2>4 DEF RowFailed, FailureWritten, LocalInv, Executing, InHandler
  <2>5. ~RowExported(j)
    BY <2>2 DEF RowExported
  <2>6. CASE RowFinalized(j)
    BY <2>1, <2>6, <2>3, FinalizedColumns DEF RowFinalized
  <2>7. CASE RowExpired(j) \/ RowFellDue(j)
    BY <2>1, <2>2, <2>7, <2>3, ClockColumns DEF RowExpired, RowFellDue
  <2>8. ASSUME NEW w \in Workers, RowClaimed(w, j)
        PROVE  job'[j].status = "processing"
    BY <2>1, <2>8, ClaimedColumns DEF RowClaimed
  <2>9. ASSUME NEW b \in beats, RowRenewed(b, j)
        PROVE  job'[j].status \in {"processing", "completed"}
    BY <2>1, <2>2, <2>9, ClockColumns DEF RowRenewed
  <2> QED
    BY <2>1, <2>2, <2>4, <2>5, <2>6, <2>7, <2>8, <2>9, <2>3, RowStep
<1> QED
  BY <1>1, <1>2, <1>4, <1>5, <1>6 DEF TableInv

\* A claimed row stays in the table.
LEMMA NeverAbsentAgain ==
  ASSUME TypeOK, TableStep, NEW j \in Jobs, job[j].status # "absent"
  PROVE  job'[j].status # "absent"
<1>1. job[j] \in Row
  BY DEF TypeOK
<1>2. CASE RowFinalized(j)
  BY <1>1, <1>2, FinalizedColumns DEF RowFinalized
<1>3. CASE RowExpired(j) \/ RowFellDue(j)
  BY <1>1, <1>3, ClockColumns DEF RowExpired, RowFellDue
<1>4. ASSUME NEW w \in Workers, RowClaimed(w, j) \/ RowFailed(w, j)
      PROVE  job'[j].status # "absent"
  BY <1>1, <1>4, ClaimedColumns, FailureColumns DEF RowClaimed, RowFailed
<1>5. ASSUME NEW b \in beats, RowRenewed(b, j)
      PROVE  job'[j].status # "absent"
  BY <1>1, <1>5, ClockColumns DEF RowRenewed
<1>6. ~RowExported(j)
  BY DEF RowExported
<1> QED
  BY <1>2, <1>3, <1>4, <1>5, <1>6, RowStep

\* Ownership is only ever lost while an execution runs: a row that carries the
\* token of a running execution already carried it, with the same attempts.
LEMMA OwnershipIsOld ==
  ASSUME TypeOK, TableStep, NEW w \in Workers, pc[w] \in Executing,
         NEW j \in Jobs, NEW n, job'[j].worker_token = <<w, n>>
  PROVE  /\ job[j].worker_token = <<w, n>>
         /\ job'[j].job_version = job[j].job_version
         /\ job'[j].attempt_count = job[j].attempt_count
<1>1. job[j] \in Row
  BY DEF TypeOK
<1>2. <<w, n>> # NoToken
  BY QueueAssumption DEF NoToken
<1>3. CASE RowFinalized(j)
  BY <1>1, <1>2, <1>3, FinalizedColumns DEF RowFinalized
<1>4. CASE RowExpired(j) \/ RowFellDue(j)
  BY <1>1, <1>4, ClockColumns DEF RowExpired, RowFellDue
<1>5. ASSUME RowExported(j)
      PROVE  FALSE
  <2>1. job'[j].worker_token = NoToken
    BY <1>5, NewColumns DEF RowExported
  <2> QED
    BY <1>2, <2>1
<1>6. ASSUME NEW v \in Workers, RowClaimed(v, j)
      PROVE  FALSE
  <2>1. v # w
    BY <1>6 DEF RowClaimed, Executing, InTry, InHandler, WithHeartbeat
  <2>2. job'[j].worker_token = <<v, job[j].job_version + 1>>
    BY <1>1, <1>6, ClaimedColumns DEF RowClaimed
  <2> QED
    BY <2>1, <2>2
<1>7. ASSUME NEW v \in Workers, RowFailed(v, j)
      PROVE  FALSE
  <2>1. job'[j].worker_token = NoToken
    BY <1>1, <1>7, FailureColumns DEF RowFailed
  <2> QED
    BY <1>2, <2>1
<1>8. ASSUME NEW b \in beats, RowRenewed(b, j)
      PROVE  /\ job[j].worker_token = <<w, n>>
             /\ job'[j].job_version = job[j].job_version
             /\ job'[j].attempt_count = job[j].attempt_count
  BY <1>1, <1>8, ClockColumns DEF RowRenewed
<1> QED
  BY <1>3, <1>4, <1>5, <1>6, <1>7, <1>8, RowStep

\* Steps of others leave what an execution relies on alone.
LEMMA OthersKeepLocalInv ==
  ASSUME Inv, TableStep, NEW w \in Workers,
         pc'[w] = pc[w], claim'[w] = claim[w], outcome'[w] = outcome[w],
         found'[w] => pc[w] \in Executing /\ HasReport(JobOf(w))
  PROVE  LocalInv(w)'
<1>1. CASE pc[w] \notin Executing
  BY <1>1 DEF LocalInv, Executing, InHandler
<1>2. CASE pc[w] \in Executing
  <2>1. JobOf(w) \in Jobs /\ JobOf(w)' = JobOf(w) /\ MyToken(w)' = MyToken(w)
    BY <1>2, ExecutingHasClaim DEF Inv, JobOf, MyToken
  <2>2. OwnsJob(w)' => /\ OwnsJob(w)
                       /\ job'[JobOf(w)].attempt_count = job[JobOf(w)].attempt_count
    BY <1>2, <2>1, OwnershipIsOld DEF Inv, OwnsJob, MyToken
  <2>3. found'[w] => HasReport(JobOf(w))'
    BY <2>1, ReportsStay DEF Inv
  <2>4. job'[JobOf(w)].status # "absent"
    BY <1>2, <2>1, NeverAbsentAgain DEF Inv, LocalInv
  <2>5. LocalInv(w)
    BY DEF Inv
  <2> QED
    BY <1>2, <2>1, <2>2, <2>3, <2>4, <2>5 DEF LocalInv
<1> QED
  BY <1>1, <1>2

\* A jump that takes no verdict keeps it too.
LEMMA GotoKeepsLocalInv ==
  ASSUME Inv, TableStep, NEW w \in Workers, pc[w] \in Executing,
         NEW label \in Executing \ {"closing", "requeueing"}, Goto(w, label),
         label \in {"failing", "recording"} => outcome'[w] \in {"transient", "permanent"},
         label \notin {"owner", "outsider", "failing"} => JobOf(w) \notin Interrupted
  PROVE  LocalInv(w)'
<1>1. pc'[w] = label /\ claim'[w] = claim[w] /\ found'[w] = found[w]
  BY DEF Goto, Inv, TypeOK
<1>2. JobOf(w) \in Jobs /\ JobOf(w)' = JobOf(w)
  BY <1>1, ExecutingHasClaim DEF Inv, JobOf
<1>3. found'[w] => HasReport(JobOf(w))'
  BY <1>1, <1>2, ReportsStay DEF Inv, LocalInv
<1>4. job'[JobOf(w)].status # "absent"
  BY <1>2, NeverAbsentAgain DEF Inv, LocalInv
<1> QED
  BY <1>1, <1>2, <1>3, <1>4 DEF LocalInv

\* An execution that is over relies on nothing.
LEMMA IdleLocalInv ==
  ASSUME NEW w, pc'[w] \in {"down", "starting", "idle"}, ~found'[w]
  PROVE  LocalInv(w)'
  BY DEF LocalInv, Executing, InTry, InHandler, WithHeartbeat

LEMMA LocalInvStep == Inv /\ [Next]_vars => \A v \in Workers : LocalInv(v)'
<1> SUFFICES ASSUME Inv, [Next]_vars, NEW v \in Workers
             PROVE  LocalInv(v)'
  OBVIOUS
<1>1. TypeOK /\ TableStep /\ LocalInv(v)
  BY EveryStepIsTableStep DEF Inv
<1>2. CASE UNCHANGED <<pc, claim, outcome, found>>
  BY <1>1, <1>2, OthersKeepLocalInv DEF LocalInv
<1>3. ASSUME NEW w \in Workers, WorkerStep(w) \/ WorkerFault(w), w # v
      PROVE  LocalInv(v)'
  <2>1. /\ pc'[v] = pc[v] /\ claim'[v] = claim[v]
        /\ outcome'[v] = outcome[v] /\ found'[v] = found[v]
    <3>1. CASE WorkerStep(w)
      BY <1>1, <1>3, <3>1
      DEF WorkerStep, ReconcileOnce, ClaimNextJob, ReadJob, CheckReport, CheckLeased,
          Generate, LeaveHeartbeat, Recheck, Persist, Adopt, HandleError,
          ReadForFailure, WriteFailure, StartHeartbeat, AdoptExisting, Raise, Goto,
          Finish, TypeOK
    <3>2. CASE WorkerFault(w)
      BY <1>1, <1>3, <3>2
      DEF WorkerFault, ClaimUnacknowledged, PersistUnacknowledged, ExecutionError,
          HandlerError, Crash, Raise, Goto, Finish, TypeOK
    <3> QED
      BY <1>3, <3>1, <3>2
  <2> QED
    BY <1>1, <2>1, OthersKeepLocalInv DEF LocalInv
<1>4. CASE WorkerStep(v)
  <2>1. ASSUME Finish(v)
        PROVE  LocalInv(v)'
    BY <1>1, <2>1, IdleLocalInv DEF Finish, TypeOK
  <2>2. CASE ReconcileOnce(v)
    BY <1>1, <2>2, IdleLocalInv
    DEF ReconcileOnce, LocalInv, TypeOK, Executing, InTry, InHandler, WithHeartbeat
  <2>3. ASSUME NEW j \in Jobs, ClaimNextJob(v, j)
        PROVE  LocalInv(v)'
    <3>1. pc'[v] = "claimed" /\ JobOf(v)' = j /\ ~found'[v]
      BY <1>1, <2>3
      DEF ClaimNextJob, JobOf, LocalInv, TypeOK, Executing, InTry, InHandler, WithHeartbeat
    <3>2. job'[j].status # "absent"
      BY <1>1, <2>3, NeverAbsentAgain
      DEF ClaimNextJob, Claimable, Candidate, Ready, Abandoned
    <3> QED
      BY <3>1, <3>2 DEF LocalInv
  <2>4. CASE ReadJob(v)
    <3>1. pc[v] \in Executing /\ {"owner", "outsider"} \subseteq Executing
      BY <2>4 DEF ReadJob, Executing, InTry
    <3> QED
      BY <1>1, <2>4, <3>1, GotoKeepsLocalInv DEF ReadJob
  <2>5. CASE CheckReport(v)
    <3>1. pc[v] \in Executing /\ "leased" \in Executing
      BY <2>5 DEF CheckReport, Executing, InTry, WithHeartbeat
    <3>2. CASE StartHeartbeat(v) /\ ~HasReport(JobOf(v))
      BY <1>1, <3>1, <3>2, GotoKeepsLocalInv
      DEF StartHeartbeat, Inv, TableInv, InterruptedKeepReport
    <3> QED
      BY <2>1, <2>5, <3>2 DEF CheckReport, AdoptExisting
  <2>6. CASE CheckLeased(v)
    <3>1. /\ pc[v] \in Executing /\ {"recording", "generating"} \subseteq Executing
          /\ JobOf(v) \notin Interrupted
      BY <1>1, <2>6 DEF CheckLeased, LocalInv, Executing, InTry, InHandler, WithHeartbeat
    <3>2. CASE Raise(v, "recording", "permanent")
      BY <1>1, <3>1, <3>2, GotoKeepsLocalInv DEF Raise, TypeOK
    <3>3. CASE Goto(v, "generating")
      BY <1>1, <3>1, <3>3, GotoKeepsLocalInv
    <3> QED
      BY <2>1, <2>6, <3>2, <3>3 DEF CheckLeased, AdoptExisting
  <2>7. CASE Generate(v)
    <3>1. /\ pc[v] \in Executing /\ "generated" \in Executing
          /\ JobOf(v) \notin Interrupted
      BY <1>1, <2>7 DEF Generate, LocalInv, Executing, InTry, WithHeartbeat
    <3> QED
      BY <1>1, <2>7, <3>1, GotoKeepsLocalInv DEF Generate
  <2>8. CASE LeaveHeartbeat(v)
    <3>1. /\ pc[v] \in Executing /\ {"rechecking", "lease_lost"} \subseteq Executing
          /\ JobOf(v) \notin Interrupted
      BY <1>1, <2>8
      DEF LeaveHeartbeat, LocalInv, Executing, InTry, InHandler, WithHeartbeat
    <3>2. CASE Goto(v, "rechecking") \/ Goto(v, "lease_lost")
      BY <1>1, <3>1, <3>2, GotoKeepsLocalInv
    <3> QED
      BY <2>1, <2>8, <3>2 DEF LeaveHeartbeat, AdoptExisting
  <2>9. CASE Recheck(v)
    <3>1. /\ pc[v] \in Executing /\ {"recording", "persisting"} \subseteq Executing
          /\ JobOf(v) \notin Interrupted
      BY <1>1, <2>9 DEF Recheck, LocalInv, Executing, InTry, InHandler
    <3>2. CASE Raise(v, "recording", "permanent")
      BY <1>1, <3>1, <3>2, GotoKeepsLocalInv DEF Raise, TypeOK
    <3>3. CASE Goto(v, "persisting")
      BY <1>1, <3>1, <3>3, GotoKeepsLocalInv
    <3> QED
      BY <2>1, <2>9, <3>2, <3>3 DEF Recheck, AdoptExisting
  <2>10. CASE Persist(v)
    <3>1. /\ pc[v] \in Executing /\ "adopting" \in Executing
          /\ JobOf(v) \notin Interrupted
      BY <1>1, <2>10 DEF Persist, LocalInv, Executing, InTry
    <3> QED
      BY <1>1, <2>1, <2>10, <3>1, GotoKeepsLocalInv DEF Persist
  <2>11. CASE Adopt(v)
    <3>1. pc[v] \in Executing /\ "failing" \in Executing
      BY <2>11 DEF Adopt, Executing, InTry, InHandler
    <3>2. CASE Raise(v, "failing", "transient")
      BY <1>1, <3>1, <3>2, GotoKeepsLocalInv DEF Raise, TypeOK
    <3> QED
      BY <2>1, <2>11, <3>2 DEF Adopt, AdoptExisting
  <2>12. CASE HandleError(v)
    <3>1. CASE Goto(v, "recording") /\ UNCHANGED outcome /\ ~HasReport(JobOf(v))
               /\ pc[v] = "failing"
      <4>1. /\ pc[v] \in Executing /\ "recording" \in Executing
            /\ outcome'[v] \in {"transient", "permanent"}
        BY <1>1, <3>1 DEF LocalInv, Executing, InHandler
      <4> QED
        BY <1>1, <3>1, <4>1, GotoKeepsLocalInv DEF Inv, TableInv, InterruptedKeepReport
    <3> QED
      BY <2>1, <2>12, <3>1 DEF HandleError, AdoptExisting
  <2>13. CASE ReadForFailure(v)
    <3>1. JobOf(v) \in Jobs /\ job[JobOf(v)] \in Row
      BY <1>1, <2>13, ExecutingHasClaim
      DEF ReadForFailure, TypeOK, Executing, InHandler
    <3>2. CASE ~Finish(v)
      <4>1. /\ pc'[v] = IF outcome[v] = "permanent" \/ AttemptsExhausted(JobOf(v))
                        THEN "closing" ELSE "requeueing"
            /\ claim'[v] = claim[v] /\ found'[v] = found[v]
            /\ UNCHANGED <<job, report, outcome>>
        BY <1>1, <2>13, <3>2 DEF ReadForFailure, Goto, TypeOK
      <4>2. JobOf(v)' = JobOf(v) /\ (HasReport(JobOf(v)) => HasReport(JobOf(v))')
        BY <4>1 DEF JobOf, HasReport
      <4>3. /\ outcome[v] \in {"transient", "permanent"}
            /\ JobOf(v) \notin Interrupted
            /\ found[v] => HasReport(JobOf(v))
            /\ job[JobOf(v)].status # "absent"
        BY <1>1, <2>13 DEF ReadForFailure, LocalInv, Executing, InHandler
      <4>4. AttemptsExhausted(JobOf(v)) <=> job[JobOf(v)].attempt_count >= MaxAttempts
        BY DEF AttemptsExhausted
      <4>5. job[JobOf(v)].attempt_count \in Nat /\ MaxAttempts \in Int
        BY <3>1, QueueAssumption DEF Row
      <4>6. pc'[v] = "requeueing" => job[JobOf(v)].attempt_count < MaxAttempts
        BY <4>1, <4>4, <4>5
      <4>7. pc'[v] = "closing" /\ outcome[v] = "transient"
              => job[JobOf(v)].attempt_count >= MaxAttempts
        BY <4>1, <4>4
      <4>8. pc'[v] \in {"closing", "requeueing"} /\ pc'[v] \in Executing
        BY <4>1 DEF Executing, InHandler
      <4> QED
        BY <4>1, <4>2, <4>3, <4>6, <4>7, <4>8 DEF LocalInv
    <3> QED
      BY <2>1, <3>2
  <2>14. CASE WriteFailure(v)
    BY <2>1, <2>14 DEF WriteFailure
  <2> QED
    BY <1>4, <2>2, <2>3, <2>4, <2>5, <2>6, <2>7, <2>8, <2>9, <2>10, <2>11, <2>12,
       <2>13, <2>14 DEF WorkerStep
<1>5. CASE WorkerFault(v)
  <2>1. CASE PersistUnacknowledged(v)
    <3>1. /\ pc[v] \in Executing /\ "failing" \in Executing
          /\ outcome'[v] = "transient"
      BY <1>1, <2>1 DEF PersistUnacknowledged, Raise, TypeOK, Executing, InTry, InHandler
    <3> QED
      BY <1>1, <2>1, <3>1, GotoKeepsLocalInv DEF PersistUnacknowledged, Raise
  <2>2. CASE ExecutionError(v)
    <3>1. /\ pc[v] \in Executing /\ "failing" \in Executing
          /\ outcome'[v] = "transient"
      BY <1>1, <2>2 DEF ExecutionError, Raise, TypeOK, Executing, InHandler
    <3> QED
      BY <1>1, <2>2, <3>1, GotoKeepsLocalInv DEF ExecutionError, Raise
  <2>3. CASE HandlerError(v) \/ Crash(v)
    BY <1>1, <2>3, IdleLocalInv DEF HandlerError, Crash, Finish, TypeOK
  <2> QED
    BY <1>2, <1>5, <2>1, <2>2, <2>3 DEF WorkerFault, ClaimUnacknowledged
<1>6. ASSUME NEW w \in Workers, Start(w)
      PROVE  LocalInv(v)'
  <2>1. CASE w = v
    BY <1>1, <1>6, <2>1, IdleLocalInv
    DEF Start, LocalInv, TypeOK, Executing, InTry, InHandler, WithHeartbeat
  <2>2. CASE w # v
    BY <1>1, <1>6, <2>2, OthersKeepLocalInv DEF Start, LocalInv, TypeOK
  <2> QED
    BY <2>1, <2>2
<1>7. ASSUME NEW j \in Jobs, JobStep(j)
      PROVE  LocalInv(v)'
  BY <1>2, <1>7 DEF JobStep, ExportTranscript, LeaseRunsOut, LeaseOverrun, LeaseExpires,
                    RetryFallsDue
<1>8. ASSUME NEW b \in beats, BeatStep(b)
      PROVE  LocalInv(v)'
  <2>1. CASE BeatChecks(b)
    <3>1. /\ pc'[v] = pc[v] /\ claim'[v] = claim[v] /\ outcome'[v] = outcome[v]
      BY <2>1 DEF BeatChecks
    <3>2. found'[v] => \/ found[v]
                       \/ b.worker = v /\ Live(b) /\ HasReport(b.job)
      BY <1>1, <2>1 DEF BeatChecks, TypeOK, Beat
    <3>3. b.worker = v /\ Live(b) => pc[v] \in Executing /\ JobOf(v) = b.job
      BY DEF Live, JobOf, Executing, InTry
    <3> QED
      BY <1>1, <3>1, <3>2, <3>3, OthersKeepLocalInv DEF LocalInv
  <2> QED
    BY <1>2, <1>8, <2>1 DEF BeatStep, BeatWakes, BeatRenews, BeatFails
<1> QED
  BY <1>2, <1>3, <1>4, <1>5, <1>6, <1>7, <1>8 DEF Next, vars

LEMMA InitInv == Init => TypeOK /\ TableInv /\ \A w \in Workers : LocalInv(w)
<1> SUFFICES ASSUME Init
             PROVE  TypeOK /\ TableInv /\ \A w \in Workers : LocalInv(w)
  OBVIOUS
<1>1. TypeOK
  BY InitTypes
<1>2. \A w \in Workers : LocalInv(w)
  BY DEF Init, LocalInv, Executing, InTry, InHandler, WithHeartbeat
<1>3. ASSUME NEW j \in Jobs
      PROVE  HasReport(j) <=> j \in Interrupted
  <2>1. ASSUME j \in Interrupted
        PROVE  HasReport(j)
    <3>1. [job |-> j, by |-> 0] \in report
      BY <2>1 DEF Init
    <3> QED
      BY <3>1 DEF HasReport
  <2>2. ASSUME HasReport(j)
        PROVE  j \in Interrupted
    BY <2>2 DEF Init, HasReport
  <2> QED
    BY <2>1, <2>2
<1>4. OneReportPerJob
  BY DEF Init, OneReportPerJob
<1>5. ASSUME NEW j \in Jobs
      PROVE  /\ job[j].status = IF j \in Interrupted THEN "processing"
                                ELSE IF j \in Unsupported THEN "queued" ELSE "absent"
             /\ job[j].worker_token = NoToken
             /\ job[j].lease_until = "none"
             /\ job[j].retry_at = "none"
             /\ job[j].last_error = "none"
  BY NewColumns DEF Init
<1>6. ReportFinalizesJob /\ RowsAreConsistent
  BY <1>3, <1>5 DEF ReportFinalizesJob, RowsAreConsistent, Consistent
<1>7. RetryBudget /\ InterruptedKeepReport
  BY <1>3, <1>5, QueueAssumption DEF RetryBudget, InterruptedKeepReport
<1> QED
  BY <1>1, <1>2, <1>4, <1>6, <1>7 DEF TableInv

\* The inductive invariant holds in every reachable state.
THEOREM InvCorrect == Spec => []Inv
<1>1. Init => Inv
  BY InitInv DEF Inv
<1>2. Inv /\ [Next]_vars => Inv'
  BY TypeStep, EveryStepIsTableStep, TableInvStep, LocalInvStep DEF Inv
<1> QED
  BY <1>1, <1>2, PTL DEF Spec

\* However executions overlap, a job has at most one report.
THEOREM OneReport == Spec => []OneReportPerJob
<1>1. Inv => OneReportPerJob
  BY DEF Inv, TableInv
<1> QED
  BY <1>1, InvCorrect, PTL

\* The report decides the status of its job.
THEOREM ReportDecides == Spec => []ReportFinalizesJob
<1>1. Inv => ReportFinalizesJob
  BY DEF Inv, TableInv
<1> QED
  BY <1>1, InvCorrect, PTL

\* The columns of a row agree after every transaction.
THEOREM ColumnsAgree == Spec => []RowsAreConsistent
<1>1. Inv => RowsAreConsistent
  BY DEF Inv, TableInv
<1> QED
  BY <1>1, InvCorrect, PTL

\* A failure verdict that reaches the row was taken from its current attempts.
THEOREM VerdictsAreCurrent == Spec => []RetryBudget
<1>1. Inv => RetryBudget
  BY DEF Inv, TableInv
<1> QED
  BY <1>1, InvCorrect, PTL

\* The heartbeat never announces a report that is not there.
THEOREM HeartbeatIsTruthful == Spec => []HeartbeatTellsTheTruth
<1>1. Inv => HeartbeatTellsTheTruth
  BY DEF Inv, LocalInv, HeartbeatTellsTheTruth
<1> QED
  BY <1>1, InvCorrect, PTL

\* A job that already had its report when it was taken over is never generated
\* again.
THEOREM ReportsAreAdopted == Spec => []NeverRegenerated
<1>1. Inv => NeverRegenerated
  BY DEF Inv, LocalInv, NeverRegenerated, Executing, InTry, WithHeartbeat
<1> QED
  BY <1>1, InvCorrect, PTL

\* Only the holder of the current claim fails or requeues a processing job.
THEOREM FailuresAreFenced == Spec => FencedFailure
<1> DEFINE Fenced ==
      \A j \in Jobs :
        job[j].status = "processing" /\ job'[j].status \in {"failed", "queued"} =>
          \E w \in Workers :
            /\ pc[w] \in {"closing", "requeueing"}
            /\ claim[w] = [job |-> j, version |-> job[j].job_version]
            /\ pc'[w] = "idle"
<1>1. TypeOK /\ [Next]_vars => [Fenced]_vars
  <2> SUFFICES ASSUME TypeOK, [Next]_vars, NEW j \in Jobs,
                      job[j].status = "processing", job'[j].status \in {"failed", "queued"}
               PROVE  \E w \in Workers :
                        /\ pc[w] \in {"closing", "requeueing"}
                        /\ claim[w] = [job |-> j, version |-> job[j].job_version]
                        /\ pc'[w] = "idle"
    OBVIOUS
  <2>1. TableStep /\ job[j] \in Row
    BY EveryStepIsTableStep DEF TypeOK
  <2>2. ~RowFinalized(j)
    BY <2>1, FinalizedColumns DEF RowFinalized
  <2>3. ~RowExported(j)
    BY DEF RowExported
  <2>4. ~RowExpired(j) /\ ~RowFellDue(j)
    BY <2>1, ClockColumns DEF RowExpired, RowFellDue
  <2>5. \A w \in Workers : ~RowClaimed(w, j)
    BY <2>1, ClaimedColumns DEF RowClaimed
  <2>6. \A b \in beats : ~RowRenewed(b, j)
    BY <2>1, ClockColumns DEF RowRenewed
  <2>7. PICK w \in Workers : RowFailed(w, j)
    BY <2>1, <2>2, <2>3, <2>4, <2>5, <2>6, RowStep
  <2>8. /\ pc[w] \in {"closing", "requeueing"} /\ pc'[w] = "idle"
        /\ JobOf(w) = j /\ claim[w].version = job[j].job_version
    BY <2>7 DEF RowFailed, FailureWritten, FailureFence, OwnsJob
  <2>9. claim[w] = [job |-> JobOf(w), version |-> claim[w].version]
    BY <2>8, ExecutingHasClaim DEF Executing, InHandler
  <2> QED
    BY <2>8, <2>9
<1> QED
  BY <1>1, TypeCorrect, PTL DEF Spec, FencedFailure

\* Only a new claim or its own heartbeat revives an expired lease.
THEOREM DeadLeasesStayDead == Spec => DeadLeaseStaysDead
<1> DEFINE StaysDead ==
      \A j \in Jobs :
        job[j].lease_until = "expired" /\ job'[j].lease_until = "live" =>
          \/ job'[j].job_version > job[j].job_version
          \/ \E b \in beats : b.job = j /\ b.version = job[j].job_version
<1>1. TypeOK /\ [Next]_vars => [StaysDead]_vars
  <2> SUFFICES ASSUME TypeOK, [Next]_vars, NEW j \in Jobs,
                      job[j].lease_until = "expired", job'[j].lease_until = "live"
               PROVE  \/ job'[j].job_version > job[j].job_version
                      \/ \E b \in beats : b.job = j /\ b.version = job[j].job_version
    OBVIOUS
  <2>1. TableStep /\ job[j] \in Row
    BY EveryStepIsTableStep DEF TypeOK
  <2>2. ~RowFinalized(j)
    BY <2>1, FinalizedColumns DEF RowFinalized
  <2>3. ~RowExported(j)
    BY NewColumns DEF RowExported
  <2>4. ~RowExpired(j) /\ ~RowFellDue(j)
    BY <2>1, ClockColumns DEF RowExpired, RowFellDue
  <2>5. \A w \in Workers : ~RowFailed(w, j)
    BY <2>1, FailureColumns DEF RowFailed
  <2>6. ASSUME NEW w \in Workers, RowClaimed(w, j)
        PROVE  job'[j].job_version > job[j].job_version
    <3>1. job'[j].job_version = job[j].job_version + 1 /\ job[j].job_version \in Nat
      BY <2>1, <2>6, ClaimedColumns DEF RowClaimed, Row
    <3> QED
      BY <3>1
  <2>7. ASSUME NEW b \in beats, RowRenewed(b, j)
        PROVE  b.job = j /\ b.version = job[j].job_version
    BY <2>7 DEF RowRenewed, RenewFence
  <2> QED
    BY <2>1, <2>2, <2>3, <2>4, <2>5, <2>6, <2>7, RowStep
<1> QED
  BY <1>1, TypeCorrect, PTL DEF Spec, DeadLeaseStaysDead

----------------------------------------------------------------------------
(* Without faults, leases exclude.  The strengthening says why: every       *)
(* execution still owns its row under a live lease, or the row is final.    *)

Secure(w) ==
  \/ job[JobOf(w)].status = "completed"
  \/ /\ OwnsJob(w)
     /\ job[JobOf(w)].status = "processing"
     /\ job[JobOf(w)].lease_until = "live"

SecureInv ==
  faults = 0 => \A w \in Workers : pc[w] \in Executing => Secure(w)

\* An execution is older than the step, or the step is its claim.
LEMMA ExecutionsBeginWithAClaim ==
  ASSUME TypeOK, [Next]_vars, NEW w \in Workers, pc'[w] \in Executing
  PROVE  \/ pc[w] \in Executing /\ claim'[w] = claim[w]
         \/ \E j \in Jobs : ClaimNextJob(w, j)
<1> USE DEF Executing, InTry, InHandler, WithHeartbeat
<1>1. CASE UNCHANGED <<pc, claim>>
  BY <1>1
<1>2. ASSUME NEW v \in Workers, Start(v)
      PROVE  pc[w] \in Executing /\ claim'[w] = claim[w]
  BY <1>2 DEF Start, TypeOK
<1>3. ASSUME NEW v \in Workers, WorkerStep(v)
      PROVE  \/ pc[w] \in Executing /\ claim'[w] = claim[w]
             \/ \E j \in Jobs : ClaimNextJob(w, j)
  <2>1. CASE \E j \in Jobs : ClaimNextJob(v, j)
    BY <2>1 DEF ClaimNextJob, TypeOK
  <2>2. CASE Finish(v)
    BY <2>2 DEF Finish, TypeOK
  <2>3. CASE pc[v] \in Executing /\ UNCHANGED claim /\ \E l \in PC : pc' = [pc EXCEPT ![v] = l]
    BY <2>3 DEF TypeOK
  <2>4. CASE ReconcileOnce(v)
    BY <2>4 DEF ReconcileOnce, TypeOK
  <2>5. CASE ReadJob(v) \/ CheckReport(v) \/ CheckLeased(v) \/ Generate(v)
    BY <2>2, <2>3, <2>5
    DEF ReadJob, CheckReport, CheckLeased, Generate, StartHeartbeat, AdoptExisting,
        Raise, Goto, PC
  <2>6. CASE LeaveHeartbeat(v) \/ Recheck(v) \/ Persist(v) \/ Adopt(v)
    BY <2>2, <2>3, <2>6
    DEF LeaveHeartbeat, Recheck, Persist, Adopt, AdoptExisting, Raise, Goto, PC
  <2>7. CASE HandleError(v) \/ ReadForFailure(v) \/ WriteFailure(v)
    BY <2>2, <2>3, <2>7
    DEF HandleError, ReadForFailure, WriteFailure, AdoptExisting, Raise, Goto, PC
  <2> QED
    BY <1>3, <2>1, <2>4, <2>5, <2>6, <2>7 DEF WorkerStep
<1>4. ASSUME NEW v \in Workers, WorkerFault(v)
      PROVE  pc[w] \in Executing /\ claim'[w] = claim[w]
  BY <1>4
  DEF WorkerFault, ClaimUnacknowledged, PersistUnacknowledged, ExecutionError,
      HandlerError, Crash, Raise, Goto, Finish, TypeOK
<1>5. CASE \E j \in Jobs : JobStep(j)
  BY <1>1, <1>5 DEF JobStep, ExportTranscript, LeaseRunsOut, LeaseOverrun, LeaseExpires,
                    RetryFallsDue
<1>6. CASE \E b \in beats : BeatStep(b)
  BY <1>1, <1>6 DEF BeatStep, BeatWakes, BeatChecks, BeatRenews, BeatFails
<1> QED
  BY <1>1, <1>2, <1>3, <1>4, <1>5, <1>6 DEF Next, vars

\* Faults are counted, never forgotten.
LEMMA FaultsOnlyGrow ==
  ASSUME TypeOK, [Next]_vars, faults' = 0
  PROVE  faults = 0
<1>1. faults \in Nat
  BY QueueAssumption DEF TypeOK
<1>2. UNCHANGED faults \/ faults' = faults + 1
  BY DEF Next, vars, JobStep, ExportTranscript, LeaseRunsOut, LeaseOverrun, RetryFallsDue,
         Start, WorkerStep, ReconcileOnce, ClaimNextJob, ReadJob, CheckReport,
         CheckLeased, Generate, LeaveHeartbeat, Recheck, Persist, Adopt, HandleError,
         ReadForFailure, WriteFailure, WorkerFault, ClaimUnacknowledged,
         PersistUnacknowledged, ExecutionError, HandlerError, Crash, Fault,
         BeatStep, BeatWakes, BeatChecks, BeatRenews, BeatFails
<1> QED
  BY <1>1, <1>2

\* Without a fault, a step of others leaves an execution secure.
LEMMA SecurityIsKept ==
  ASSUME Inv, TableStep, faults' = faults, NEW w \in Workers, pc[w] \in Executing,
         Secure(w), pc'[w] \in Executing, claim'[w] = claim[w]
  PROVE  Secure(w)'
<1>1. JobOf(w) \in Jobs /\ JobOf(w)' = JobOf(w) /\ MyToken(w)' = MyToken(w)
  BY ExecutingHasClaim DEF Inv, JobOf, MyToken
<1> DEFINE j == JobOf(w)
<1>2. job[j] \in Row
  BY <1>1 DEF Inv, TypeOK
<1>3. ASSUME job'[j].status = "completed"
      PROVE  Secure(w)'
  BY <1>1, <1>3 DEF Secure
<1>4. ASSUME job'[j].status = job[j].status, job'[j].worker_token = job[j].worker_token,
             job'[j].job_version = job[j].job_version,
             job'[j].lease_until \in {job[j].lease_until, "live"}
      PROVE  Secure(w)'
  BY <1>1, <1>4 DEF Secure, OwnsJob, MyToken
<1>5. CASE RowFinalized(j)
  BY <1>2, <1>3, <1>5, FinalizedColumns DEF RowFinalized
<1>6. ~RowExported(j)
  BY DEF RowExported, Secure
<1>7. CASE RowExpired(j)
  <2>1. ~Held(j)
    BY <1>7, QueueAssumption DEF RowExpired, Inv, TypeOK
  <2>2. job[j].status = "completed"
    BY <2>1 DEF Held, Secure
  <2> QED
    BY <1>2, <1>3, <1>7, <2>2, ClockColumns DEF RowExpired
<1>8. CASE RowFellDue(j)
  BY <1>2, <1>4, <1>8, ClockColumns DEF RowFellDue
<1>9. \A v \in Workers : ~RowClaimed(v, j)
  BY DEF RowClaimed, Candidate, Ready, Abandoned, Secure
<1>10. ASSUME NEW v \in Workers, RowFailed(v, j)
       PROVE  FALSE
  <2>1. v # w
    BY <1>10 DEF RowFailed, FailureWritten, Executing, InTry, InHandler, WithHeartbeat
  <2>2. job[j].worker_token = <<v, claim[v].version>> /\ job[j].status = "processing"
    BY <1>10 DEF RowFailed, FailureWritten, FailureFence, OwnsJob, MyToken
  <2>3. job[j].worker_token = <<w, claim[w].version>>
    BY <2>2 DEF Secure, OwnsJob, MyToken
  <2> QED
    BY <2>1, <2>2, <2>3
<1>11. ASSUME NEW b \in beats, RowRenewed(b, j)
       PROVE  Secure(w)'
  BY <1>2, <1>4, <1>11, ClockColumns DEF RowRenewed
<1>12. CASE job'[j] = job[j]
  BY <1>4, <1>12
<1> QED
  BY <1>1, <1>5, <1>6, <1>7, <1>8, <1>9, <1>10, <1>11, <1>12, RowStep DEF Inv

LEMMA SecureStep == Inv /\ SecureInv /\ LeasesExclude /\ [Next]_vars
                      => SecureInv' /\ LeasesExclude'
<1> SUFFICES ASSUME Inv, SecureInv, LeasesExclude, [Next]_vars, faults' = 0
             PROVE  /\ \A w \in Workers : pc'[w] \in Executing => Secure(w)'
                    /\ \A v, w \in Workers :
                         pc'[v] \in Executing /\ pc'[w] \in Executing
                         /\ JobOf(v)' = JobOf(w)' => v = w
  BY DEF SecureInv, LeasesExclude
<1>1. TypeOK /\ TableStep /\ faults = 0
  BY EveryStepIsTableStep, FaultsOnlyGrow DEF Inv
<1>2. ASSUME NEW w \in Workers, NEW j \in Jobs, ClaimNextJob(w, j)
      PROVE  Secure(w)' /\ JobOf(w)' = j /\ Candidate(j)
  <2>1. job[j] \in Row /\ job'[j] = ClaimedRow(w, job[j])
    BY <1>1, <1>2 DEF ClaimNextJob, TypeOK
  <2>2. claim'[w] = [job |-> j, version |-> job[j].job_version + 1]
    BY <1>1, <1>2 DEF ClaimNextJob, TypeOK
  <2> QED
    BY <1>2, <2>1, <2>2, ClaimedColumns
    DEF ClaimNextJob, Claimable, Secure, OwnsJob, MyToken, JobOf
<1>3. ASSUME NEW w \in Workers, pc'[w] \in Executing
      PROVE  Secure(w)'
  BY <1>1, <1>2, <1>3, ExecutionsBeginWithAClaim, SecurityIsKept DEF SecureInv
<1>4. ASSUME NEW v \in Workers, NEW w \in Workers, NEW j \in Jobs,
             pc[v] \in Executing, claim'[v] = claim[v], ClaimNextJob(w, j)
      PROVE  JobOf(v)' # j
  <2>1. Secure(v) /\ JobOf(v)' = JobOf(v)
    BY <1>1, <1>4 DEF SecureInv, JobOf
  <2>2. Candidate(j)
    BY <1>2, <1>4
  <2> QED
    BY <2>1, <2>2 DEF Secure, Candidate, Ready, Abandoned
<1>5. ASSUME NEW v \in Workers, NEW w \in Workers, NEW i \in Jobs, NEW j \in Jobs,
             ClaimNextJob(v, i), ClaimNextJob(w, j)
      PROVE  v = w
  BY <1>1, <1>5 DEF ClaimNextJob, TypeOK
<1>6. ASSUME NEW v \in Workers, NEW w \in Workers,
             pc'[v] \in Executing, pc'[w] \in Executing, JobOf(v)' = JobOf(w)'
      PROVE  v = w
  <2>1. CASE /\ pc[v] \in Executing /\ claim'[v] = claim[v]
             /\ pc[w] \in Executing /\ claim'[w] = claim[w]
    BY <1>1, <1>6, <2>1 DEF LeasesExclude, JobOf
  <2>2. CASE \E j \in Jobs : ClaimNextJob(v, j)
    BY <1>1, <1>2, <1>4, <1>5, <1>6, <2>2, ExecutionsBeginWithAClaim
  <2>3. CASE \E j \in Jobs : ClaimNextJob(w, j)
    BY <1>1, <1>2, <1>4, <1>5, <1>6, <2>3, ExecutionsBeginWithAClaim
  <2> QED
    BY <1>1, <1>6, <2>1, <2>2, <2>3, ExecutionsBeginWithAClaim
<1> QED
  BY <1>3, <1>6

\* As long as no fault has happened, no two workers execute the same job.
THEOREM LeasesAreExclusive == Spec => []LeasesExclude
<1>1. Init => SecureInv /\ LeasesExclude
  BY DEF Init, SecureInv, LeasesExclude, Executing, InTry, InHandler, WithHeartbeat
<1> QED
  BY <1>1, SecureStep, InvCorrect, PTL DEF Spec

----------------------------------------------------------------------------
(* The queue implements the service of ReportService.                       *)

SameAnswers ==
  /\ \A j \in Jobs : ReportedStatus(j)' = ReportedStatus(j)
  /\ UNCHANGED report

\* A step that changes no answer is invisible to users.
LEMMA SameAnswersStutter == SameAnswers => UNCHANGED Service!vars
  BY DEF SameAnswers, Service!vars

\* A reported job is answered "completed", whatever its row says.
LEMMA AnswerIsFinal ==
  ASSUME TypeOK, TableStep, NEW j \in Jobs, HasReport(j)
  PROVE  ReportedStatus(j)' = ReportedStatus(j) /\ ReportedStatus(j) = "completed"
  BY ReportsStay DEF ReportedStatus

\* An unreported job is answered from its status column.
LEMMA AnswerFromStatus ==
  ASSUME TypeOK, NEW j \in Jobs, ~HasReport(j)
  PROVE  /\ ReportedStatus(j) = "unknown" <=> job[j].status = "absent"
         /\ ReportedStatus(j) = "pending" <=> job[j].status \in {"queued", "processing"}
         /\ ReportedStatus(j) = "failed" <=> job[j].status = "failed"
  BY DEF ReportedStatus, TypeOK, Row

LEMMA SameStatusSameAnswer ==
  ASSUME UNCHANGED report, NEW j \in Jobs,
         \/ job'[j].status = job[j].status
         \/ {job[j].status, job'[j].status} \subseteq {"queued", "processing"}
  PROVE  ReportedStatus(j)' = ReportedStatus(j)
<1>1. HasReport(j)' <=> HasReport(j)
  BY DEF HasReport
<1> QED
  BY <1>1 DEF ReportedStatus

LEMMA InitImplementsInit == Init => Service!Init
<1> SUFFICES ASSUME Init, NEW j \in Jobs
             PROVE  Service!Unrequested(j) \/ Service!Awaited(j) \/ Service!Delivered(j)
  BY DEF Service!Init
<1>1. job[j].status = IF j \in Interrupted THEN "processing"
                      ELSE IF j \in Unsupported THEN "queued" ELSE "absent"
  BY NewColumns DEF Init
<1>2. CASE j \in Interrupted
  <2>1. [job |-> j, by |-> 0] \in report
    BY <1>2 DEF Init
  <2>2. {r.by : r \in {s \in report : s.job = j}} = {0}
    <3>1. \A s \in report : s.by = 0
      BY DEF Init
    <3> QED
      BY <2>1, <3>1
  <2>3. ReportedStatus(j) = "completed"
    BY <2>1 DEF ReportedStatus, HasReport
  <2> QED
    BY <2>2, <2>3 DEF Service!Delivered
<1>3. CASE j \notin Interrupted
  <2>1. ~HasReport(j)
    BY <1>3 DEF Init, HasReport
  <2>2. {r.by : r \in {s \in report : s.job = j}} = {}
    BY <2>1 DEF HasReport
  <2>3. ReportedStatus(j) \in {"unknown", "pending"}
    BY <1>1, <1>3, <2>1 DEF ReportedStatus
  <2> QED
    BY <2>2, <2>3 DEF Service!Unrequested, Service!Awaited
<1> QED
  BY <1>2, <1>3

LEMMA StepImplementsNext == Inv /\ TableStep => [Service!Next]_Service!vars
<1> SUFFICES ASSUME Inv, TableStep
             PROVE  SameAnswers \/ Service!Next
  BY SameAnswersStutter
<1>1. /\ TypeOK /\ job \in [Jobs -> Row]
      /\ \A w \in Workers : LocalInv(w)
      /\ ReportFinalizesJob /\ InterruptedKeepReport
  BY DEF Inv, TypeOK, TableInv
\* One row changes, its report does not: only that answer can change.
<1>2. ASSUME NEW j \in Jobs, NEW row, Changed(j, row),
             \/ row.status = job[j].status
             \/ {job[j].status, row.status} \subseteq {"queued", "processing"}
             \/ HasReport(j)
      PROVE  SameAnswers
  <2>1. ASSUME NEW i \in Jobs
        PROVE  ReportedStatus(i)' = ReportedStatus(i)
    <3>1. CASE HasReport(i)
      BY <1>1, <3>1, AnswerIsFinal
    <3>2. CASE ~HasReport(i)
      <4>1. job'[i] = IF i = j THEN row ELSE job[i]
        BY <1>1, <1>2 DEF Changed
      <4> QED
        BY <1>2, <3>2, <4>1, SameStatusSameAnswer DEF Changed
    <3> QED
      BY <3>1, <3>2
  <2> QED
    BY <1>2, <2>1 DEF SameAnswers, Changed
<1>3. ASSUME NEW j \in Jobs, NEW s \in {"pending", "failed"}, NEW row,
             Changed(j, row), ~HasReport(j), ReportedStatus(j)' = s
      PROVE  /\ [i \in Jobs |-> ReportedStatus(i)]'
                  = [[i \in Jobs |-> ReportedStatus(i)] EXCEPT ![j] = s]
             /\ UNCHANGED [i \in Jobs |-> {r.by : r \in {t \in report : t.job = i}}]
  <2>1. ASSUME NEW i \in Jobs, i # j
        PROVE  ReportedStatus(i)' = ReportedStatus(i)
    <3>1. job'[i] = job[i] /\ UNCHANGED report
      BY <1>1, <1>3, <2>1 DEF Changed
    <3> QED
      BY <3>1, SameStatusSameAnswer
  <2> QED
    BY <1>3, <2>1 DEF Changed
<1>4. CASE UNCHANGED <<job, report>>
  BY <1>4, SameStatusSameAnswer DEF SameAnswers
<1>5. CASE AllRepaired
  <2>1. ASSUME NEW j \in Jobs
        PROVE  ReportedStatus(j)' = ReportedStatus(j)
    <3>1. CASE HasReport(j)
      BY <1>1, <3>1, AnswerIsFinal
    <3>2. CASE ~HasReport(j)
      BY <1>5, <3>2, SameStatusSameAnswer DEF AllRepaired
    <3> QED
      BY <3>1, <3>2
  <2> QED
    BY <1>5, <2>1 DEF SameAnswers, AllRepaired
<1>6. ASSUME NEW j \in Jobs, Repaired(j)
      PROVE  SameAnswers
  BY <1>2, <1>6 DEF Repaired
<1>7. ASSUME NEW j \in Jobs, Exported(j)
      PROVE  Service!Request(j)
  <2>1. ~HasReport(j)
    BY <1>1, <1>7 DEF Exported, ReportFinalizesJob, InterruptedKeepReport
  <2>2. ReportedStatus(j) = "unknown"
    BY <1>1, <1>7, <2>1, AnswerFromStatus DEF Exported
  <2>3. ReportedStatus(j)' = "pending"
    <3>1. job'[j].status = "queued" /\ ~HasReport(j)'
      BY <1>1, <1>7, <2>1, NewColumns DEF Exported, Changed, HasReport
    <3> QED
      BY <3>1 DEF ReportedStatus
  <2> QED
    BY <1>3, <1>7, <2>1, <2>2, <2>3 DEF Exported, Service!Request
<1>8. ASSUME NEW j \in Jobs, LeaseExpired(j) \/ FellDue(j)
      PROVE  SameAnswers
  <2>1. WithLease(job[j], "expired").status = job[j].status
        /\ WithRetry(job[j], "due").status = job[j].status
    BY <1>1, ClockColumns
  <2> QED
    BY <1>2, <1>8, <2>1 DEF LeaseExpired, FellDue
<1>9. ASSUME NEW w \in Workers, NEW j \in Jobs, Claimed(w, j)
      PROVE  SameAnswers
  <2>1. ClaimedRow(w, job[j]).status = "processing" /\ job[j].status \in {"queued", "processing"}
    BY <1>1, <1>9, ClaimedColumns DEF Claimed, Candidate, Ready, Abandoned
  <2> QED
    BY <1>2, <1>9, <2>1 DEF Claimed
<1>10. ASSUME NEW b \in beats, Renewed(b)
       PROVE  SameAnswers
  <2>1. b.job \in Jobs
    BY <1>1 DEF TypeOK, Beat
  <2>2. WithLease(job[b.job], "live").status = job[b.job].status
    BY <1>1, <2>1, ClockColumns
  <2> QED
    BY <1>2, <1>10, <2>1, <2>2 DEF Renewed
<1>11. ASSUME NEW w \in Workers, NEW j \in Jobs, FailureWritten(w), JobOf(w) = j
       PROVE  SameAnswers \/ Service!GiveUp(j)
  <2>1. job[j].status = "processing" /\ j \notin Interrupted
    BY <1>1, <1>11 DEF FailureWritten, FailureFence, LocalInv, Executing, InHandler
  <2>2. ~HasReport(j)
    BY <1>1, <2>1 DEF ReportFinalizesJob
  <2>3. CASE pc[w] = "requeueing"
    <3>1. FailureValues(w, job[j]).status = "queued"
      BY <1>1, <2>3, FailureColumns
    <3> QED
      BY <1>2, <1>11, <2>1, <3>1 DEF FailureWritten
  <2>4. CASE pc[w] = "closing"
    <3>1. ReportedStatus(j) = "pending"
      BY <1>1, <2>1, <2>2, AnswerFromStatus
    <3>2. job'[j].status = "failed" /\ ~HasReport(j)'
      BY <1>1, <1>11, <2>2, <2>4, FailureColumns DEF FailureWritten, Changed, HasReport
    <3>3. ReportedStatus(j)' = "failed"
      BY <3>2 DEF ReportedStatus
    <3>4. Changed(j, FailureValues(w, job[j]))
      BY <1>11 DEF FailureWritten
    <3> QED
      BY <1>3, <2>2, <3>1, <3>3, <3>4 DEF Service!GiveUp
  <2> QED
    BY <1>11, <2>3, <2>4 DEF FailureWritten
<1>12. ASSUME NEW w \in Workers, NEW j \in Jobs, Inserted(w), JobOf(w) = j
       PROVE  Service!Deliver(j)
  <2> DEFINE Result == [i \in Jobs |-> {r.by : r \in {s \in report : s.job = i}}]
             n == claim[w].version
  <2>1. /\ ~HasReport(j)
        /\ report' = report \cup {[job |-> j, by |-> n]}
        /\ job' = [job EXCEPT ![j] = Finalized(@)]
    BY <1>12 DEF Inserted, InsertAndComplete, UniqueAllows
  <2>2. ReportedStatus(j) \in {"pending", "failed"}
    <3>1. job[j].status \notin {"absent", "completed"}
      BY <1>1, <1>12, <2>1
      DEF Inserted, LocalInv, ReportFinalizesJob, Executing, InTry
    <3>2. job[j].status \in {"queued", "processing", "failed"}
      BY <1>1, <3>1 DEF Row
    <3> QED
      BY <1>1, <2>1, <3>2, AnswerFromStatus
  <2>3. Result[j] = {}
    BY <2>1 DEF HasReport
  <2>4. ReportedStatus(j)' = "completed"
    <3>1. [job |-> j, by |-> n] \in report'
      BY <2>1
    <3>2. HasReport(j)'
      BY <3>1 DEF HasReport
    <3> QED
      BY <3>2 DEF ReportedStatus
  <2>5. ASSUME NEW i \in Jobs, i # j
        PROVE  ReportedStatus(i)' = ReportedStatus(i) /\ Result'[i] = Result[i]
    <3>1. job'[i] = job[i]
      BY <1>1, <2>1, <2>5
    <3>2. \A r : r \in report' /\ r.job = i <=> r \in report /\ r.job = i
      BY <2>1, <2>5
    <3>3. HasReport(i)' <=> HasReport(i)
      BY <3>2 DEF HasReport
    <3>4. ReportedStatus(i)' = ReportedStatus(i)
      BY <3>1, <3>3 DEF ReportedStatus
    <3>5. {s \in report' : s.job = i} = {s \in report : s.job = i}
      BY <3>2
    <3> QED
      BY <3>4, <3>5
  <2>6. Result'[j] = {n}
    <3>1. {s \in report' : s.job = j} = {[job |-> j, by |-> n]}
      BY <2>1 DEF HasReport
    <3>2. {r.by : r \in {[job |-> j, by |-> n]}} = {n}
      OBVIOUS
    <3>3. Result'[j] = {r.by : r \in {s \in report' : s.job = j}}
      OBVIOUS
    <3> QED
      BY <3>1, <3>2, <3>3
  <2>7. [i \in Jobs |-> ReportedStatus(i)]'
          = [[i \in Jobs |-> ReportedStatus(i)] EXCEPT ![j] = "completed"]
    BY <2>4, <2>5
  <2>8. \E r \in Result'[j] : Result' = [Result EXCEPT ![j] = {r}]
    BY <2>5, <2>6
  <2> QED
    BY <2>2, <2>3, <2>7, <2>8 DEF Service!Deliver
<1>13. \A w \in Workers : Inserted(w) \/ FailureWritten(w) => JobOf(w) \in Jobs
  BY <1>1, ExecutingHasClaim DEF Inserted, FailureWritten, Executing, InTry, InHandler
<1> QED
  BY <1>4, <1>5, <1>6, <1>7, <1>8, <1>9, <1>10, <1>11, <1>12, <1>13
  DEF TableStep, Service!Next

\* What users observe is the abstract service: one final document per job, and
\* no job that was given up is ever pending again.
THEOREM QueueImplementsService == Spec => ImplementsService
<1>1. Init => Service!Init
  BY InitImplementsInit
<1>2. Inv /\ [Next]_vars => [Service!Next]_Service!vars
  BY EveryStepIsTableStep, StepImplementsNext DEF Inv
<1> QED
  BY <1>1, <1>2, InvCorrect, PTL DEF Spec, ImplementsService, Service!Spec

=============================================================================
