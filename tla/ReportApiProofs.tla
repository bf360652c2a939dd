-------------------------- MODULE ReportApiProofs --------------------------
(* Theorems about ReportApi: what polling clients are told, for any jobs,   *)
(* workers, attempt bound and fault bound.                                  *)
EXTENDS ReportApi, ReportQueueProofs

\* A document that a client was given is the one in the table.
Told(j, n) == \E r \in report : r.job = j /\ r.by = n

\* The report of a reported job.
LEMMA ReportOf ==
  ASSUME TypeOK, NEW j \in Jobs, HasReport(j)
  PROVE  LET r == CHOOSE r \in report : r.job = j
         IN r \in report /\ r.job = j /\ r.by \in Nat
<1>1. \A r \in report : r.by \in Nat
  BY DEF TypeOK, Report
<1> QED
  BY <1>1 DEF HasReport

\* A settled row stays settled.
LEMMA SettledStaysSettled ==
  ASSUME TypeOK, TableStep, NEW j \in Jobs, job[j].status \in {"failed", "completed"}
  PROVE  job'[j].status \in {"failed", "completed"}
<1>1. job[j] \in Row
  BY DEF TypeOK
<1>2. CASE RowFinalized(j)
  BY <1>1, <1>2, FinalizedColumns DEF RowFinalized
<1>3. CASE RowExpired(j) \/ RowFellDue(j)
  BY <1>1, <1>3, ClockColumns DEF RowExpired, RowFellDue
<1>4. ~RowExported(j) /\ \A w \in Workers : ~RowClaimed(w, j) /\ ~RowFailed(w, j)
  BY DEF RowExported, RowClaimed, Candidate, Ready, Abandoned,
         RowFailed, FailureWritten, FailureFence
<1>5. ASSUME NEW b \in beats, RowRenewed(b, j)
      PROVE  job'[j].status \in {"failed", "completed"}
  BY <1>1, <1>5, ClockColumns DEF RowRenewed
<1> QED
  BY <1>2, <1>3, <1>4, <1>5, RowStep

LEMMA ToldStaysTold ==
  ASSUME TableStep, NEW j, NEW n, Told(j, n)
  PROVE  Told(j, n)'
  BY ReportsGrow DEF Told

----------------------------------------------------------------------------
(* The inductive invariant of the composition.                              *)

Settled(status) == status \in {"failed", "completed"}

\* What a poll has read, and what its client was told, is still true: a status
\* that is final when it is read does not change back, a document that was
\* delivered is in the table, and a client that was told "failed" polls a row
\* that is settled.
ClientInv(j) ==
  /\ polled[j] = "completed" => HasReport(j)
  /\ Settled(polled[j]) => Settled(job[j].status)
  /\ answer[j].status = "completed" <=> answer[j].result # None
  /\ answer[j].result # None => Told(j, answer[j].result)
  /\ answer[j].status = "failed" =>
       Settled(job[j].status) /\ (polled[j] = NoPoll \/ Settled(polled[j]))

ApiInv == Inv /\ ApiTypeOK /\ \A j \in Jobs : ClientInv(j)

LEMMA ApiInitInv == ApiInit => ApiInv
<1> SUFFICES ASSUME ApiInit
             PROVE  Inv /\ ApiTypeOK /\ \A j \in Jobs : ClientInv(j)
  BY DEF ApiInv
<1>1. Inv
  BY InitInv DEF ApiInit, Inv
<1> QED
  BY <1>1 DEF ApiInit, ApiTypeOK, Inv, ClientInv, Settled, Answer, Pending, NoPoll

\* The queue moves, the clients do not.
LEMMA QueueStepKeepsClients ==
  ASSUME ApiInv, [Next]_vars, UNCHANGED clientVars
  PROVE  ApiInv'
<1>1. TypeOK /\ TableStep
  BY EveryStepIsTableStep DEF ApiInv, Inv
<1>2. Inv'
  BY TypeStep, EveryStepIsTableStep, TableInvStep, LocalInvStep DEF Inv, ApiInv
<1>3. ASSUME NEW j \in Jobs
      PROVE  ClientInv(j)'
  <2>1. ClientInv(j) /\ polled'[j] = polled[j] /\ answer'[j] = answer[j]
    BY DEF ApiInv, clientVars
  <2>2. HasReport(j) => HasReport(j)'
    BY <1>1, ReportsStay
  <2>3. Settled(job[j].status) => Settled(job'[j].status)
    BY <1>1, SettledStaysSettled DEF Settled
  <2>4. \A n : Told(j, n) => Told(j, n)'
    BY <1>1, ToldStaysTold
  <2> QED
    BY <2>1, <2>2, <2>3, <2>4 DEF ClientInv, Told
<1>4. ApiTypeOK'
  BY <1>2 DEF ApiInv, ApiTypeOK, Inv, clientVars
<1> QED
  BY <1>2, <1>3, <1>4 DEF ApiInv

\* A client moves, the queue and the other clients do not.
LEMMA ClientStepKeepsQueue ==
  ASSUME ApiInv, UNCHANGED vars, ApiTypeOK', NEW i \in Jobs, ClientInv(i)',
         \A j \in Jobs \ {i} : polled'[j] = polled[j] /\ answer'[j] = answer[j]
  PROVE  ApiInv'
<1>1. Inv'
  BY DEF ApiInv, Inv, vars, TypeOK, TableInv, OneReportPerJob, ReportFinalizesJob,
         RowsAreConsistent, Consistent, RetryBudget, InterruptedKeepReport, LocalInv,
         HasReport, JobOf, OwnsJob, MyToken
<1>2. \A j \in Jobs \ {i} : ClientInv(j)'
  BY DEF ApiInv, ClientInv, vars, HasReport, Told
<1> QED
  BY <1>1, <1>2 DEF ApiInv

LEMMA PollStep ==
  ASSUME ApiInv, NEW j \in Jobs, PollJob(j) \/ PollReport(j) \/ PollFails(j)
  PROVE  /\ ApiInv'
         /\ answer[j].status = "completed" => answer'[j] = answer[j]
         /\ answer[j].status = "failed" => answer'[j].status # "pending"
         /\ \A i \in Jobs \ {j} : answer'[i] = answer[i]
<1>1. /\ TypeOK /\ ApiTypeOK /\ ClientInv(j) /\ ReportFinalizesJob /\ OneReportPerJob
      /\ InterruptedKeepReport
  BY DEF ApiInv, Inv, TableInv
<1>2. /\ UNCHANGED vars
      /\ \A i \in Jobs \ {j} : polled'[i] = polled[i] /\ answer'[i] = answer[i]
  BY <1>1 DEF PollJob, PollReport, PollFails, ApiTypeOK
<1>3. job[j] \in Row /\ answer[j] \in Answer
  BY <1>1 DEF TypeOK, ApiTypeOK
<1>4. (HasReport(j)' <=> HasReport(j)) /\ \A n : Told(j, n)' <=> Told(j, n)
  BY <1>2 DEF HasReport, Told, vars
<1>5. TypeOK'
  BY <1>1, <1>2 DEF TypeOK, vars
<1>6. CASE PollJob(j)
  <2>1. polled'[j] = job[j].status /\ answer' = answer
    BY <1>1, <1>6 DEF PollJob, ApiTypeOK
  <2>2. job[j].status = "completed" => HasReport(j)
    BY <1>1 DEF ReportFinalizesJob
  <2>3. ClientInv(j)'
    BY <1>1, <1>2, <1>4, <2>1, <2>2 DEF ClientInv, Settled, vars
  <2>4. ApiTypeOK'
    BY <1>1, <1>3, <1>5, <1>6 DEF PollJob, ApiTypeOK, Row
  <2> QED
    BY <1>2, <1>3, <2>1, <2>3, <2>4, ClientStepKeepsQueue DEF Answer
<1>7. CASE PollFails(j)
  <2>1. polled'[j] = NoPoll /\ answer' = answer
    BY <1>1, <1>7 DEF PollFails, ApiTypeOK
  <2>2. ClientInv(j)'
    BY <1>1, <1>2, <1>4, <2>1 DEF ClientInv, Settled, NoPoll, vars
  <2>3. ApiTypeOK'
    BY <1>1, <1>5, <1>7 DEF PollFails, ApiTypeOK
  <2> QED
    BY <1>2, <2>1, <2>2, <2>3, <1>3, ClientStepKeepsQueue DEF Answer
<1>8. CASE PollReport(j)
  <2>1. polled[j] # NoPoll /\ polled'[j] = NoPoll /\ answer'[j] = AnswerFor(j)
    BY <1>1, <1>8 DEF PollReport, ApiTypeOK
  <2>2. CASE HasReport(j)
    <3>1. PICK n \in Nat : Told(j, n) /\ AnswerFor(j) = [status |-> "completed", result |-> n]
      BY <1>1, <2>2, ReportOf DEF AnswerFor, Told
    <3>2. \A m : Told(j, m) => m = n
      BY <1>1, <3>1 DEF Told, OneReportPerJob
    <3>3. n # None
      BY ApiAssumption
    <3>4. ClientInv(j)'
      BY <1>1, <1>4, <2>1, <3>1, <3>3 DEF ClientInv, Settled, NoPoll
    <3>5. ApiTypeOK'
      BY <1>1, <1>5, <1>8, <3>1 DEF PollReport, ApiTypeOK, Answer
    <3>6. answer[j].status = "completed" => answer'[j] = answer[j]
      BY <1>1, <1>3, <2>1, <3>1, <3>2 DEF ClientInv, Answer
    <3> QED
      BY <1>2, <2>1, <3>1, <3>4, <3>5, <3>6, ClientStepKeepsQueue
  <2>3. CASE ~HasReport(j)
    <3>1. AnswerFor(j) = [status |-> AsTold(polled[j]), result |-> None]
      BY <2>3 DEF AnswerFor
    <3>2. polled[j] \in {"queued", "processing", "failed"}
      BY <1>1, <2>1, <2>3 DEF ApiTypeOK, ClientInv
    <3>3. answer[j].status # "completed"
      BY <1>1, <2>3 DEF ClientInv, Told, HasReport
    <3>4. answer[j].status = "failed" => polled[j] = "failed"
      BY <1>1, <2>1, <3>2 DEF ClientInv, Settled
    <3>5. ClientInv(j)'
      BY <1>1, <1>2, <1>4, <2>1, <3>1, <3>2 DEF ClientInv, Settled, NoPoll, AsTold, vars
    <3>6. ApiTypeOK'
      BY <1>1, <1>5, <1>8, <3>1, <3>2 DEF PollReport, ApiTypeOK, Answer, AsTold
    <3> QED
      BY <1>2, <2>1, <3>1, <3>3, <3>4, <3>5, <3>6, ClientStepKeepsQueue DEF AsTold
  <2> QED
    BY <2>2, <2>3
<1> QED
  BY <1>6, <1>7, <1>8

LEMMA ApiStepInv == ApiInv /\ [ApiNext]_apiVars => ApiInv'
<1> SUFFICES ASSUME ApiInv, [ApiNext]_apiVars
             PROVE  ApiInv'
  OBVIOUS
<1>1. CASE UNCHANGED apiVars
  BY <1>1, QueueStepKeepsClients DEF apiVars
<1>2. CASE Next /\ UNCHANGED clientVars
  BY <1>2, QueueStepKeepsClients
<1>3. ASSUME NEW j \in Jobs, PollJob(j) \/ PollReport(j) \/ PollFails(j)
      PROVE  ApiInv'
  BY <1>3, PollStep
<1> QED
  BY <1>1, <1>2, <1>3 DEF ApiNext

----------------------------------------------------------------------------
(* The theorems                                                             *)

\* Polling does not disturb the queue: all that is proved of ReportQueue holds
\* of the composition.
THEOREM PollingOnlyReads == ApiSpec => Spec
<1>1. ApiInit => Init
  BY DEF ApiInit
<1>2. [ApiNext]_apiVars => [Next]_vars
  BY DEF ApiNext, apiVars, PollJob, PollReport, PollFails
<1> QED
  BY <1>1, <1>2, PTL DEF ApiSpec, Spec

\* The inductive invariant: no client has been told more than the tables say.
THEOREM ApiInvCorrect == ApiSpec => []ApiInv
  BY ApiInitInv, ApiStepInv, PTL DEF ApiSpec

\* The variables of the queue and of the clients keep their types.
THEOREM ApiTypeCorrect == ApiSpec => []ApiTypeOK
<1>1. ApiInv => ApiTypeOK
  BY DEF ApiInv
<1> QED
  BY <1>1, ApiInvCorrect, PTL

\* An answer is completed exactly when it carries the document, although its
\* two parts are read at different times.
THEOREM EveryAnswerIsWhole == ApiSpec => []AnswersAreWhole
<1>1. ApiInv => AnswersAreWhole
  BY DEF ApiInv, ClientInv, AnswersAreWhole
<1> QED
  BY <1>1, ApiInvCorrect, PTL

\* A client never sees its job go back, nor another document.
THEOREM NoAnswerGoesBack == ApiSpec => AnswersNeverGoBack
<1>1. ASSUME ApiInv, [ApiNext]_apiVars, NEW j \in Jobs
      PROVE  /\ answer[j].status = "completed" => answer'[j] = answer[j]
             /\ answer[j].status = "failed" => answer'[j].status # "pending"
  <2>1. CASE UNCHANGED answer
    BY <2>1
  <2>2. ASSUME NEW i \in Jobs, PollJob(i) \/ PollReport(i) \/ PollFails(i)
        PROVE  /\ answer[j].status = "completed" => answer'[j] = answer[j]
               /\ answer[j].status = "failed" => answer'[j].status # "pending"
    BY <1>1, <2>2, PollStep
  <2> QED
    BY <1>1, <2>1, <2>2 DEF ApiNext, apiVars, clientVars
<1>2. ApiInv /\ [ApiNext]_apiVars =>
        [\A j \in Jobs :
           /\ answer[j].status = "completed" => answer'[j] = answer[j]
           /\ answer[j].status = "failed" => answer'[j].status # "pending"]_apiVars
  BY <1>1
<1> QED
  BY <1>2, ApiInvCorrect, PTL DEF ApiSpec, AnswersNeverGoBack

=============================================================================
