---------------------------- MODULE ReportQueue ----------------------------
(* The transcript job queue of the report worker: app/workers/tasks.py and  *)
(* app/workers/runner.py, the tables of app/models/job.py and report.py,    *)
(* and the export endpoint of app/routers/reports.py.                       *)
(*                                                                          *)
(* Every committed transaction is one step, and a worker that runs several  *)
(* transactions keeps what it read between them in its pc and locals.  Time *)
(* is abstract: a lease is live until it is seen expired, a retry delay is  *)
(* pending until it is seen due.                                            *)
EXTENDS Integers

CONSTANTS
  Workers,      \* worker processes
  Jobs,         \* job ids, numbered in the order (created_at, job_id)
  Interrupted,  \* legacy rows: report persisted, row left in "processing"
  Unsupported,  \* rows whose report_type is not "transcript"
  MaxAttempts,  \* settings.job_max_attempts
  MaxFaults,    \* bound on crashes, lost replies and overrun leases
  None          \* SQL NULL

ASSUME QueueAssumption ==
  /\ Jobs \subseteq Nat
  /\ None \notin Workers
  /\ None \notin Jobs
  /\ Interrupted \subseteq Jobs
  /\ Unsupported \subseteq Jobs
  /\ Interrupted \cap Unsupported = {}
  /\ MaxAttempts \in Int
  /\ MaxFaults \in Nat

VARIABLES
  job,      \* the job table: one row per job id
  report,   \* the report table: a set of rows
  pc,       \* where each worker process is
  claim,    \* the ClaimedJob a worker is executing
  outcome,  \* what the execution has produced or which error it is handling
  found,    \* the report_found event of the execution's heartbeat
  beats,    \* running heartbeat threads
  faults    \* faults so far

vars == <<job, report, pc, claim, outcome, found, beats, faults>>

----------------------------------------------------------------------------
(* Rows, claims and heartbeat threads                                       *)

\* worker_token is a fresh uuid for every claim: the worker and the version
\* the claim produced stand for it.
NoToken == <<None, 0>>

Token == (Workers \cup {None}) \X Nat

\* A result of generate_student_transcript, or the kind of an error.
Outcome == {"none", "built", "missing", "transient", "permanent"}

Row == [status        : {"absent", "queued", "processing", "completed", "failed"},
        worker_token  : Token,
        job_version   : Nat,
        attempt_count : Nat,
        lease_until   : {"none", "live", "expired"},
        retry_at      : {"none", "future", "due"},
        last_error    : Outcome]

NewRow(s) == [status        |-> s,
              worker_token  |-> NoToken,
              job_version   |-> 0,
              attempt_count |-> 0,
              lease_until   |-> "none",
              retry_at      |-> "none",
              last_error    |-> "none"]

\* "by" is the version of the claim whose execution generated the document.
Report == [job : Jobs, by : Nat]

NoClaim == [job |-> None, version |-> 0]

Claim == [job : Jobs, version : Nat]

Beat == [worker : Workers, job : Jobs, version : Nat,
         step : {"waiting", "checking", "renewing"}]

\* The body of "with job_heartbeat(claim)".
WithHeartbeat == {"leased", "generating", "generated"}

\* The try block of process_claimed_report ...
InTry == WithHeartbeat \cup
         {"claimed", "owner", "outsider", "rechecking", "persisting", "adopting"}

\* ... and its exception handlers.
InHandler == {"failing", "lease_lost", "recording", "closing", "requeueing"}

Executing == InTry \cup InHandler

PC == Executing \cup {"down", "starting", "idle"}

TypeOK ==
  /\ job \in [Jobs -> Row]
  /\ report \subseteq Report
  /\ pc \in [Workers -> PC]
  /\ claim \in [Workers -> Claim \cup {NoClaim}]
  /\ \A w \in Workers : pc[w] \in Executing <=> claim[w] \in Claim
  /\ outcome \in [Workers -> Outcome]
  /\ found \in [Workers -> BOOLEAN]
  /\ beats \subseteq Beat
  /\ faults \in 0..MaxFaults

----------------------------------------------------------------------------
(* Reads and row updates shared by the handlers                             *)

HasReport(j) == \E r \in report : r.job = j

JobOf(w) == claim[w].job

MyToken(w) == <<w, claim[w].version>>

OwnsJob(w) ==
  /\ job[JobOf(w)].worker_token = MyToken(w)
  /\ job[JobOf(w)].job_version = claim[w].version

\* Mutant: completion forgets the lease.
CompleteValuesKeepingLease(row) ==
  [row EXCEPT !.status = "completed", !.worker_token = NoToken, !.retry_at = "none"]

CompleteValues(row) == [row EXCEPT !.status       = "completed",
                                   !.worker_token = NoToken,
                                   !.lease_until  = "none",
                                   !.retry_at     = "none",
                                   !.last_error   = "none"]

\* Mutant: only a row that is being processed is completed.
FinalizedIfProcessing(row) ==
  IF row.status = "processing" THEN CompleteValues(row) ELSE row

\* UPDATE job ... WHERE status != 'completed'
Finalized(row) == IF row.status # "completed" THEN CompleteValues(row) ELSE row

\* Mutant: the next poll starts with the claim of the last one.
FinishKeepingClaim(w) ==
  /\ pc' = [pc EXCEPT ![w] = "idle"]
  /\ outcome' = [outcome EXCEPT ![w] = "none"]
  /\ found' = [found EXCEPT ![w] = FALSE]
  /\ UNCHANGED claim

\* The execution is over: its locals go out of scope.
Finish(w) ==
  /\ pc' = [pc EXCEPT ![w] = "idle"]
  /\ claim' = [claim EXCEPT ![w] = NoClaim]
  /\ outcome' = [outcome EXCEPT ![w] = "none"]
  /\ found' = [found EXCEPT ![w] = FALSE]

Goto(w, label) ==
  /\ pc' = [pc EXCEPT ![w] = label]
  /\ UNCHANGED <<claim, found>>

Raise(w, label, error) ==
  /\ Goto(w, label)
  /\ outcome' = [outcome EXCEPT ![w] = error]

\* reconcile_reported_job found a report: repair the job, return the report.
AdoptExisting(w) ==
  /\ job' = [job EXCEPT ![JobOf(w)] = Finalized(@)]
  /\ Finish(w)

\* Leaving the with block sets stop_event: a waiting thread ends at once, a
\* thread inside a transaction first finishes it (join gives up after 1 s).
StopHeartbeat(w) ==
  beats' = {b \in beats : ~(b.worker = w /\ b.step = "waiting")}

Fault == faults < MaxFaults /\ faults' = faults + 1

----------------------------------------------------------------------------
(* The API and the clock                                                    *)

Init ==
  /\ job = [j \in Jobs |-> NewRow(IF j \in Interrupted THEN "processing"
                                  ELSE IF j \in Unsupported THEN "queued"
                                  ELSE "absent")]
  /\ report = {[job |-> j, by |-> 0] : j \in Interrupted}
  /\ pc = [w \in Workers |-> "down"]
  /\ claim = [w \in Workers |-> NoClaim]
  /\ outcome = [w \in Workers |-> "none"]
  /\ found = [w \in Workers |-> FALSE]
  /\ beats = {}
  /\ faults = 0

\* Requests are committed in any order: created_at is the time a transaction
\* starts.
ExportTranscript(j) ==
  /\ job[j].status = "absent"
  /\ job' = [job EXCEPT ![j] = NewRow("queued")]
  /\ UNCHANGED <<report, pc, claim, outcome, found, beats, faults>>

\* Some execution that can still renew or finish holds the lease of j.
Held(j) == \E w \in Workers : pc[w] \in Executing /\ JobOf(w) = j /\ OwnsJob(w)

LeaseExpires(j) ==
  /\ job[j].lease_until = "live"
  /\ job' = [job EXCEPT ![j].lease_until = "expired"]
  /\ UNCHANGED <<report, pc, claim, outcome, found, beats>>

\* The lease of a dead or departed execution expires in time.
LeaseRunsOut(j) == LeaseExpires(j) /\ ~Held(j) /\ UNCHANGED faults

\* Nothing in the code keeps a slow execution within its lease: the heartbeat
\* starts late, is paused, fails, or is configured longer than the lease.
LeaseOverrun(j) == LeaseExpires(j) /\ Held(j) /\ Fault

RetryFallsDue(j) ==
  /\ job[j].retry_at = "future"
  /\ job' = [job EXCEPT ![j].retry_at = "due"]
  /\ UNCHANGED <<report, pc, claim, outcome, found, beats, faults>>

----------------------------------------------------------------------------
(* Worker start-up and claiming                                             *)

Start(w) ==
  /\ pc[w] = "down"
  /\ pc' = [pc EXCEPT ![w] = "starting"]
  /\ UNCHANGED <<job, report, claim, outcome, found, beats, faults>>

\* reconcile_once: one bulk repair; a database error is logged and ignored.
ReconcileOnce(w) ==
  /\ pc[w] = "starting"
  /\ pc' = [pc EXCEPT ![w] = "idle"]
  /\ \/ job' = [j \in Jobs |-> IF HasReport(j) THEN Finalized(job[j]) ELSE job[j]]
     \/ UNCHANGED job
  /\ UNCHANGED <<report, claim, outcome, found, beats, faults>>

\* Mutants: failed jobs are tried again; retry delays are never looked at.
ReadyOrFailed(j) == job[j].status \in {"queued", "failed"}

ReadyWithoutDelay(j) == job[j].status = "queued" /\ job[j].retry_at = "none"

Ready(j) == job[j].status = "queued" /\ job[j].retry_at \in {"none", "due"}

\* Mutants: leases are ignored; lease_until IS NULL is forgotten.
AbandonedAnyLease(j) == job[j].status = "processing"

AbandonedExpiredOnly(j) ==
  job[j].status = "processing" /\ job[j].lease_until = "expired"

Abandoned(j) ==
  job[j].status = "processing" /\ job[j].lease_until \in {"none", "expired"}

Candidate(j) == Ready(j) \/ Abandoned(j)

\* ORDER BY queued first, retry_at nulls first, created_at, job_id.  Which of
\* two past retry times is earlier is not modelled: either may come first.
Before(i, j) ==
  \/ Ready(i) /\ Abandoned(j)
  \/ /\ Ready(i) <=> Ready(j)
     /\ \/ job[i].retry_at = "none" /\ job[j].retry_at = "due"
        \/ job[i].retry_at = "none" /\ job[j].retry_at = "none" /\ i < j

\* FOR UPDATE SKIP LOCKED passes over a row that a transaction in flight has
\* locked: another worker's claim, completion, repair or failure, or a renewal.
MayBeLocked(w, j) ==
  \/ \E v \in Workers \ {w} :
       \/ pc[v] \in {"starting", "idle"}
       \/ pc[v] \in Executing /\ JobOf(v) = j
  \/ \E b \in beats : b.job = j

Claimable(w, j) ==
  /\ Candidate(j)
  /\ \A i \in Jobs : Candidate(i) /\ Before(i, j) => MayBeLocked(w, i)

ClaimedRow(w, row) ==
  [row EXCEPT !.status        = "processing",
              !.worker_token  = <<w, row.job_version + 1>>,
              !.job_version   = row.job_version + 1,
              !.attempt_count = row.attempt_count + 1,
              !.lease_until   = "live",
              !.retry_at      = "none",
              !.last_error    = "none"]

ClaimNextJob(w, j) ==
  /\ pc[w] = "idle"
  /\ Claimable(w, j)
  /\ job' = [job EXCEPT ![j] = ClaimedRow(w, @)]
  /\ pc' = [pc EXCEPT ![w] = "claimed"]
  /\ claim' = [claim EXCEPT ![w] = [job |-> j, version |-> job[j].job_version + 1]]
  /\ UNCHANGED <<report, outcome, found, beats, faults>>

\* The claim commits but its reply is lost: _claim_with_retry claims again.
ClaimUnacknowledged(w, j) ==
  /\ pc[w] = "idle"
  /\ Claimable(w, j)
  /\ job' = [job EXCEPT ![j] = ClaimedRow(w, @)]
  /\ Fault
  /\ UNCHANGED <<report, pc, claim, outcome, found, beats>>

----------------------------------------------------------------------------
(* process_claimed_report, one step per transaction                         *)

\* db.get(Job): the row is read before the report is looked up, and the
\* status and ownership tests use this older copy.
ReadJob(w) ==
  /\ pc[w] = "claimed"
  /\ Goto(w, IF job[JobOf(w)].status = "processing" /\ OwnsJob(w)
             THEN "owner" ELSE "outsider")
  /\ UNCHANGED <<job, report, outcome, beats, faults>>

\* The first reconcile, then the two early returns, then the heartbeat starts.
StartHeartbeat(w) ==
  /\ Goto(w, "leased")
  /\ beats' = beats \cup {[worker |-> w, job |-> JobOf(w),
                           version |-> claim[w].version, step |-> "waiting"]}
  /\ UNCHANGED <<job, outcome>>

\* Mutant: an owner starts without looking for a report.
CheckOwnerOnly(w) ==
  /\ \/ pc[w] = "outsider" /\ Finish(w) /\ UNCHANGED <<job, beats>>
     \/ pc[w] = "owner" /\ StartHeartbeat(w)
  /\ UNCHANGED <<report, faults>>

CheckReport(w) ==
  /\ \/ /\ pc[w] \in {"owner", "outsider"}
        /\ HasReport(JobOf(w))
        /\ AdoptExisting(w)
        /\ UNCHANGED beats
     \/ /\ pc[w] = "outsider"
        /\ ~HasReport(JobOf(w))
        /\ Finish(w)
        /\ UNCHANGED <<job, beats>>
     \/ /\ pc[w] = "owner"
        /\ ~HasReport(JobOf(w))
        /\ StartHeartbeat(w)
  /\ UNCHANGED <<report, faults>>

\* The second reconcile, under the heartbeat.
CheckLeased(w) ==
  /\ pc[w] = "leased"
  /\ \/ HasReport(JobOf(w)) /\ AdoptExisting(w) /\ StopHeartbeat(w)
     \/ /\ ~HasReport(JobOf(w))
        /\ JobOf(w) \in Unsupported
        /\ Raise(w, "recording", "permanent")
        /\ StopHeartbeat(w)
        /\ UNCHANGED job
     \/ /\ ~HasReport(JobOf(w))
        /\ JobOf(w) \notin Unsupported
        /\ Goto(w, "generating")
        /\ UNCHANGED <<job, outcome, beats>>
  /\ UNCHANGED <<report, faults>>

\* The student may have been deleted since the export was accepted.
Generate(w) ==
  /\ pc[w] = "generating"
  /\ Goto(w, "generated")
  /\ \E o \in {"built", "missing"} : outcome' = [outcome EXCEPT ![w] = o]
  /\ UNCHANGED <<job, report, beats, faults>>

\* report_found decides whether the result is still wanted.
LeaveHeartbeat(w) ==
  /\ pc[w] = "generated"
  /\ StopHeartbeat(w)
  /\ \/ /\ ~found[w]
        /\ Goto(w, "rechecking")
        /\ UNCHANGED <<job, outcome>>
     \/ /\ found[w]
        /\ IF HasReport(JobOf(w))
             THEN AdoptExisting(w)
             ELSE Goto(w, "lease_lost") /\ UNCHANGED <<job, outcome>>
  /\ UNCHANGED <<report, faults>>

\* The reconcile after the heartbeat has stopped.
Recheck(w) ==
  /\ pc[w] = "rechecking"
  /\ \/ HasReport(JobOf(w)) /\ AdoptExisting(w)
     \/ /\ ~HasReport(JobOf(w))
        /\ IF outcome[w] = "missing"
             THEN Raise(w, "recording", "permanent")
             ELSE Goto(w, "persisting") /\ UNCHANGED outcome
        /\ UNCHANGED job
  /\ UNCHANGED <<report, beats, faults>>

\* Mutant: the constraint is missing.
NoConstraint(j) == TRUE

\* UNIQUE(report.job_id)
UniqueAllows(j) == ~HasReport(j)

InsertAndComplete(w) ==
  /\ UniqueAllows(JobOf(w))
  /\ report' = report \cup {[job |-> JobOf(w), by |-> claim[w].version]}
  /\ job' = [job EXCEPT ![JobOf(w)] = Finalized(@)]

\* _persist_or_adopt_report: no ownership test, the report row arbitrates.
Persist(w) ==
  /\ pc[w] = "persisting"
  /\ \/ InsertAndComplete(w) /\ Finish(w)
     \/ /\ ~UniqueAllows(JobOf(w))
        /\ Goto(w, "adopting")
        /\ UNCHANGED <<job, report, outcome>>
  /\ UNCHANGED <<beats, faults>>

\* The commit is applied but its reply is lost.
PersistUnacknowledged(w) ==
  /\ pc[w] = "persisting"
  /\ InsertAndComplete(w)
  /\ Raise(w, "failing", "transient")
  /\ UNCHANGED <<beats, faults>>

\* After the IntegrityError; without a winner the error is raised again.
Adopt(w) ==
  /\ pc[w] = "adopting"
  /\ IF HasReport(JobOf(w))
       THEN AdoptExisting(w)
       ELSE Raise(w, "failing", "transient") /\ UNCHANGED job
  /\ UNCHANGED <<report, beats, faults>>

\* Any other exception in the try block: rolled back, handled as transient.
ExecutionError(w) ==
  /\ pc[w] \in InTry
  /\ Raise(w, "failing", "transient")
  /\ StopHeartbeat(w)
  /\ UNCHANGED <<job, report, faults>>

----------------------------------------------------------------------------
(* The exception handlers and _record_failure                               *)

\* "except LeaseLostError" and "except Exception" first look for a report.
HandleError(w) ==
  /\ pc[w] \in {"failing", "lease_lost"}
  /\ \/ HasReport(JobOf(w)) /\ AdoptExisting(w)
     \/ /\ ~HasReport(JobOf(w))
        /\ IF pc[w] = "lease_lost"
             THEN Finish(w)
             ELSE Goto(w, "recording") /\ UNCHANGED outcome
        /\ UNCHANGED job
  /\ UNCHANGED <<report, beats, faults>>

\* Mutant: one attempt too many.
AttemptsExceeded(j) == job[j].attempt_count > MaxAttempts

AttemptsExhausted(j) == job[j].attempt_count >= MaxAttempts

\* _record_failure decides from a copy of the row ...
ReadForFailure(w) ==
  /\ pc[w] = "recording"
  /\ IF job[JobOf(w)].status = "processing" /\ OwnsJob(w)
       THEN /\ Goto(w, IF outcome[w] = "permanent" \/ AttemptsExhausted(JobOf(w))
                       THEN "closing" ELSE "requeueing")
            /\ UNCHANGED outcome
       ELSE Finish(w)
  /\ UNCHANGED <<job, report, beats, faults>>

\* Mutants: no fence at all; a fence on the status only.
Unfenced(w) == TRUE

FenceOnStatus(w) == job[JobOf(w)].status = "processing"

\* ... and writes only if the row still belongs to this claim.
FailureFence(w) == job[JobOf(w)].status = "processing" /\ OwnsJob(w)

FailureValues(w, row) ==
  [row EXCEPT !.status       = IF pc[w] = "closing" THEN "failed" ELSE "queued",
              !.worker_token = NoToken,
              !.lease_until  = "none",
              !.retry_at     = IF pc[w] = "closing" THEN "none" ELSE "future",
              !.last_error   = outcome[w]]

WriteFailure(w) ==
  /\ pc[w] \in {"closing", "requeueing"}
  /\ job' = IF FailureFence(w)
              THEN [job EXCEPT ![JobOf(w)] = FailureValues(w, @)]
              ELSE job
  /\ Finish(w)
  /\ UNCHANGED <<report, beats, faults>>

\* A database error inside a handler reaches main(), which logs it: the row
\* stays "processing" until its lease expires.
HandlerError(w) ==
  /\ pc[w] \in InHandler
  /\ Fault
  /\ Finish(w)
  /\ UNCHANGED <<job, report, beats>>

\* The process dies, and its heartbeat threads (daemons) with it.
Crash(w) ==
  /\ pc[w] # "down"
  /\ Fault
  /\ pc' = [pc EXCEPT ![w] = "down"]
  /\ claim' = [claim EXCEPT ![w] = NoClaim]
  /\ outcome' = [outcome EXCEPT ![w] = "none"]
  /\ found' = [found EXCEPT ![w] = FALSE]
  /\ beats' = {b \in beats : b.worker # w}
  /\ UNCHANGED <<job, report>>

----------------------------------------------------------------------------
(* The heartbeat thread                                                     *)

\* The execution that started the thread is still inside its with block.
Live(b) ==
  /\ pc[b.worker] \in WithHeartbeat
  /\ claim[b.worker] = [job |-> b.job, version |-> b.version]

\* The next round of the loop: stop_event is tested before anything else.
NextRound(b) ==
  beats' = (beats \ {b}) \cup
           (IF Live(b) THEN {[b EXCEPT !.step = "waiting"]} ELSE {})

BeatWakes(b) ==
  /\ b.step = "waiting"
  /\ beats' = (beats \ {b}) \cup {[b EXCEPT !.step = "checking"]}
  /\ UNCHANGED <<job, report, pc, claim, outcome, found, faults>>

BeatChecks(b) ==
  /\ b.step = "checking"
  /\ \/ /\ HasReport(b.job)
        /\ job' = [job EXCEPT ![b.job] = Finalized(@)]
        /\ found' = IF Live(b) THEN [found EXCEPT ![b.worker] = TRUE] ELSE found
        /\ beats' = beats \ {b}
     \/ /\ ~HasReport(b.job)
        /\ beats' = (beats \ {b}) \cup {[b EXCEPT !.step = "renewing"]}
        /\ UNCHANGED <<job, found>>
  /\ UNCHANGED <<report, pc, claim, outcome, faults>>

\* Mutant: any thread renews the lease of a job being processed.
RenewOnStatus(b) == job[b.job].status = "processing"

RenewFence(b) ==
  /\ job[b.job].status = "processing"
  /\ job[b.job].worker_token = <<b.worker, b.version>>
  /\ job[b.job].job_version = b.version

\* Mutant: a lost lease raises report_found.
BeatRenewsOrFlags(b) ==
  /\ b.step = "renewing"
  /\ IF RenewFence(b)
       THEN /\ job' = [job EXCEPT ![b.job].lease_until = "live"]
            /\ NextRound(b)
            /\ UNCHANGED found
       ELSE /\ found' = IF Live(b) THEN [found EXCEPT ![b.worker] = TRUE] ELSE found
            /\ beats' = beats \ {b}
            /\ UNCHANGED job
  /\ UNCHANGED <<report, pc, claim, outcome, faults>>

BeatRenews(b) ==
  /\ b.step = "renewing"
  /\ \/ /\ RenewFence(b)
        /\ job' = [job EXCEPT ![b.job].lease_until = "live"]
        /\ NextRound(b)
     \/ /\ ~RenewFence(b)
        /\ beats' = beats \ {b}
        /\ UNCHANGED job
  /\ UNCHANGED <<report, pc, claim, outcome, found, faults>>

\* A SQLAlchemyError is logged and the loop goes on; anything else, a failing
\* rollback included, ends the thread.
BeatFails(b) ==
  /\ b.step \in {"checking", "renewing"}
  /\ \/ NextRound(b)
     \/ beats' = beats \ {b}
  /\ UNCHANGED <<job, report, pc, claim, outcome, found, faults>>

----------------------------------------------------------------------------

JobStep(j) ==
  \/ ExportTranscript(j) \/ LeaseRunsOut(j) \/ LeaseOverrun(j) \/ RetryFallsDue(j)

\* What a running worker does next when nothing goes wrong.
WorkerStep(w) ==
  \/ ReconcileOnce(w)
  \/ \E j \in Jobs : ClaimNextJob(w, j)
  \/ ReadJob(w) \/ CheckReport(w) \/ CheckLeased(w) \/ Generate(w)
  \/ LeaveHeartbeat(w) \/ Recheck(w) \/ Persist(w) \/ Adopt(w)
  \/ HandleError(w) \/ ReadForFailure(w) \/ WriteFailure(w)

WorkerFault(w) ==
  \/ \E j \in Jobs : ClaimUnacknowledged(w, j)
  \/ PersistUnacknowledged(w) \/ ExecutionError(w) \/ HandlerError(w) \/ Crash(w)

BeatStep(b) == BeatWakes(b) \/ BeatChecks(b) \/ BeatRenews(b) \/ BeatFails(b)

Next ==
  \/ \E j \in Jobs : JobStep(j)
  \/ \E w \in Workers : Start(w) \/ WorkerStep(w) \/ WorkerFault(w)
  \/ \E b \in beats : BeatStep(b)

Spec == Init /\ [][Next]_vars

\* The worker loop never ends and its container restarts (restart: always),
\* and time passes.  Nothing is assumed of heartbeats, users or faults.
Fairness ==
  /\ \A w \in Workers : WF_vars(Start(w)) /\ WF_vars(WorkerStep(w))
  /\ \A j \in Jobs : WF_vars(LeaseRunsOut(j)) /\ WF_vars(RetryFallsDue(j))

FairSpec == Spec /\ Fairness

----------------------------------------------------------------------------
(* Properties                                                               *)

\* Whatever transaction touched a row last, the columns agree: a lease belongs
\* to a token of the current version, a retry time to a queued row, an error
\* to a failed or requeued one.  The claim query and every fence rely on it.
Consistent(j) ==
  LET row == job[j] IN
    /\ row.lease_until # "none" <=> row.worker_token # NoToken
    /\ row.worker_token # NoToken =>
         /\ row.status = "processing"
         /\ row.worker_token[2] = row.job_version
    /\ row.status = "processing" => row.worker_token # NoToken \/ HasReport(j)
    /\ row.retry_at # "none" => row.status = "queued"
    /\ row.last_error # "none" <=> row.status = "failed" \/ row.retry_at # "none"

RowsAreConsistent == \A j \in Jobs : Consistent(j)

\* The report row arbitrates completion: a completed job has its report, and a
\* job with a report is completed unless a legacy row still awaits repair --
\* in spite of takeovers, late executions and failures recorded meanwhile.
ReportFinalizesJob ==
  \A j \in Jobs :
    /\ job[j].status = "completed" => HasReport(j)
    /\ HasReport(j) /\ j \notin Interrupted => job[j].status = "completed"

\* Overlapping executions of one job never leave two reports.
OneReportPerJob == \A r, s \in report : r.job = s.job => r = s

\* A job fails for a transient error only when its attempts are used up, and is
\* requeued only when they are not: the verdict is taken from a copy of the row
\* and written later, and the fence must make the copy current.
RetryBudget ==
  \A j \in Jobs : LET row == job[j] IN
    /\ row.status = "failed" /\ row.last_error = "transient"
         => row.attempt_count >= MaxAttempts
    /\ row.retry_at # "none" => row.attempt_count < MaxAttempts

\* A heartbeat reports only what is there: the LeaseLostError that follows a
\* report_found without a report is never raised.
HeartbeatTellsTheTruth ==
  \A w \in Workers : found[w] => HasReport(JobOf(w))

\* As long as nothing has gone wrong, leases keep the executions of a job
\* apart: no two workers are ever executing the same job.
LeasesExclude ==
  faults = 0 =>
    \A v, w \in Workers :
      pc[v] \in Executing /\ pc[w] \in Executing /\ JobOf(v) = JobOf(w) => v = w

\* "existing report -> adopted, never regenerated" (README): an execution that
\* takes over a job which already has its report never gets to generate.
NeverRegenerated ==
  \A w \in Workers :
    pc[w] \in WithHeartbeat \cup {"rechecking", "persisting", "adopting"}
      => JobOf(w) \notin Interrupted

\* A processing row is failed or requeued only by the execution that holds its
\* current claim: a stale worker never disturbs the job of its successor.
FencedFailure ==
  [][\A j \in Jobs :
       job[j].status = "processing" /\ job'[j].status \in {"failed", "queued"} =>
         \E w \in Workers :
           /\ pc[w] \in {"closing", "requeueing"}
           /\ claim[w] = [job |-> j, version |-> job[j].job_version]
           /\ pc'[w] = "idle"]_vars

\* An expired lease comes back to life only through a new claim or through the
\* heartbeat of the very claim it was given to: a thread left behind by an
\* earlier execution cannot keep the job of a dead worker out of reach.
DeadLeaseStaysDead ==
  [][\A j \in Jobs :
       job[j].lease_until = "expired" /\ job'[j].lease_until = "live" =>
         \/ job'[j].job_version > job[j].job_version
         \/ \E b \in beats : b.job = j /\ b.version = job[j].job_version]_vars

\* What GET /reports/jobs/{job_id} answers: the report decides, then the row.
ReportedStatus(j) ==
  IF HasReport(j) THEN "completed"
  ELSE CASE job[j].status = "absent" -> "unknown"
         [] job[j].status \in {"queued", "processing"} -> "pending"
         [] OTHER -> job[j].status

Service == INSTANCE ReportService WITH
  status <- [j \in Jobs |-> ReportedStatus(j)],
  result <- [j \in Jobs |-> {r.by : r \in {s \in report : s.job = j}}]

\* What users observe by polling is the abstract service: a delivered report
\* is final, and a job that was given up is never pending again.
ImplementsService == Service!Spec

\* Every accepted request is settled, whatever crashes, retries and takeovers
\* happen on the way.
EveryJobSettles ==
  \A j \in Jobs :
    job[j].status # "absent" ~> job[j].status \in {"completed", "failed"}

\* "no stuck processing rows, ever" (README): a persisted report finalizes its
\* job in the end, also when the repair at start-up failed.
ReportedJobsAreRepaired ==
  \A j \in Jobs : HasReport(j) ~> job[j].status = "completed"

\* "job_max_attempts bounds retries" (README).
AttemptsBounded == \A j \in Jobs : job[j].attempt_count <= MaxAttempts

=============================================================================
