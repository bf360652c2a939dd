------------------------------ MODULE ReportApi ------------------------------
(* Clients that poll GET /reports/jobs/{job_id} (app/routers/reports.py)    *)
(* while the workers of ReportQueue run: one client per job, the one that   *)
(* requested it.  get_job_status is two queries, each of which sees what    *)
(* has been committed when it runs.                                         *)
EXTENDS ReportQueue

ASSUME ApiAssumption == None \notin Nat

VARIABLES
  polled,   \* the status a poll under way has read from the job row
  answer    \* what the client was last told about its job

clientVars == <<polled, answer>>

apiVars == <<vars, clientVars>>

NoPoll == "none"

\* Of an answer, only its status and the document it carries are kept.
Answer == [status : {"pending", "completed", "failed"}, result : Nat \cup {None}]

ApiTypeOK ==
  /\ TypeOK
  /\ polled \in [Jobs -> {NoPoll, "queued", "processing", "completed", "failed"}]
  /\ answer \in [Jobs -> Answer]

Pending == [status |-> "pending", result |-> None]

\* The answer to the request itself (202) says that the job is queued.
ApiInit ==
  /\ Init
  /\ polled = [j \in Jobs |-> NoPoll]
  /\ answer = [j \in Jobs |-> Pending]

\* db.get(Job, job_id): 404 for a job that does not exist.
PollJob(j) ==
  /\ polled[j] = NoPoll
  /\ job[j].status # "absent"
  /\ polled' = [polled EXCEPT ![j] = job[j].status]
  /\ UNCHANGED <<vars, answer>>

\* A client takes "queued" and "processing" alike: the job is still pending.
AsTold(status) == IF status \in {"queued", "processing"} THEN "pending" ELSE status

\* Mutant: the status is the one of the row, whatever the second query finds.
AnswerFromRow(j) ==
  [status |-> AsTold(polled[j]),
   result |-> IF HasReport(j) THEN (CHOOSE r \in report : r.job = j).by ELSE None]

\* The second query: a report decides, else the row as it was read.
AnswerFor(j) ==
  IF HasReport(j)
    THEN [status |-> "completed", result |-> (CHOOSE r \in report : r.job = j).by]
    ELSE [status |-> AsTold(polled[j]), result |-> None]

PollReport(j) ==
  /\ polled[j] # NoPoll
  /\ answer' = [answer EXCEPT ![j] = AnswerFor(j)]
  /\ polled' = [polled EXCEPT ![j] = NoPoll]
  /\ UNCHANGED vars

\* A database error or a lost connection: the client has to ask again.
PollFails(j) ==
  /\ polled[j] # NoPoll
  /\ polled' = [polled EXCEPT ![j] = NoPoll]
  /\ UNCHANGED <<vars, answer>>

ApiNext ==
  \/ Next /\ UNCHANGED clientVars
  \/ \E j \in Jobs : PollJob(j) \/ PollReport(j) \/ PollFails(j)

ApiSpec == ApiInit /\ [][ApiNext]_apiVars

----------------------------------------------------------------------------
(* Properties                                                               *)

\* An answer says "completed" exactly when it carries the document, although
\* the status and the document come from two queries and a report may be
\* persisted, or a row repaired, between them.
AnswersAreWhole ==
  \A j \in Jobs : answer[j].status = "completed" <=> answer[j].result # None

\* A client that polls never sees its job go back: what was delivered is
\* delivered again, the same document, and what was given up is not pending
\* again -- though it may still be delivered by an execution that was late.
AnswersNeverGoBack ==
  [][\A j \in Jobs :
       /\ answer[j].status = "completed" => answer'[j] = answer[j]
       /\ answer[j].status = "failed" => answer'[j].status # "pending"]_apiVars

=============================================================================
