--------------------------- MODULE ReportService ---------------------------
(* What the report queue promises the users of the API, with no worker,    *)
(* lease or retry in sight.  A requested report is pending until it is     *)
(* either delivered or given up; a delivered report is final: it is one    *)
(* document and it never changes.  Giving up is not final: an execution    *)
(* that outlives its lease may still deliver a report that was given up.   *)

CONSTANT Jobs

VARIABLES
  status,   \* [Jobs -> {"unknown", "pending", "completed", "failed"}]
  result    \* [Jobs -> set of documents delivered for the job]

vars == <<status, result>>

Unrequested(j) == status[j] = "unknown" /\ result[j] = {}

Awaited(j) == status[j] = "pending" /\ result[j] = {}

Delivered(j) == status[j] = "completed" /\ \E r \in result[j] : result[j] = {r}

Init == \A j \in Jobs : Unrequested(j) \/ Awaited(j) \/ Delivered(j)

\* POST /reports/export: the request is accepted (202) and can be polled.
Request(j) ==
  /\ status[j] = "unknown"
  /\ status' = [status EXCEPT ![j] = "pending"]
  /\ UNCHANGED result

\* Exactly one document is delivered, and only to a job that had none.
Deliver(j) ==
  /\ status[j] \in {"pending", "failed"}
  /\ result[j] = {}
  /\ status' = [status EXCEPT ![j] = "completed"]
  /\ \E r \in result'[j] : result' = [result EXCEPT ![j] = {r}]

\* The queue gives the job up: the student is gone, or retries are used up.
GiveUp(j) ==
  /\ status[j] = "pending"
  /\ status' = [status EXCEPT ![j] = "failed"]
  /\ UNCHANGED result

Next == \E j \in Jobs : Request(j) \/ Deliver(j) \/ GiveUp(j)

Spec == Init /\ [][Next]_vars

=============================================================================
