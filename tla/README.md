# Verification project: university management backend

TLA+ models of the backend in `src/`: a FastAPI application over PostgreSQL,
with a job queue in the database that renders transcripts, a worker process
with heartbeat threads, and a Redis read cache. The models say what the system
does when requests, workers, threads and failures interleave; TLC checks them on
small instances, and TLAPS proves every safety property they check for any
number of workers, requests, rows and faults; only liveness is left to TLC.

Paths such as `crud/student.py` are relative to `src/app/`.

## 1. Inventory

| Component | State | Operations | Hard behaviour | What makes it correct |
|---|---|---|---|---|
| Report job queue (`workers/tasks.py`, `workers/runner.py`, `models/job.py`, `models/report.py`) | `job` and `report` rows; the claim, the locals and the heartbeat thread of each worker | export, claim, reconcile, execute, persist or adopt, record failure, renew, start-up repair | several workers, threads that outlive their execution, expired leases, lost commit replies, crashes between any two transactions | one report per job, the report decides the job, failures are fenced, every job is settled |
| Report API (`routers/reports.py`) | none of its own | export, status, synchronous transcript | the status is two queries, polled while workers commit | an answer says completed exactly when it carries the document; no answer goes back from completed, or from failed to pending |
| Transcript service (`services/reports.py`) | none | `generate_student_transcript`, `calculate_gpa` | the student may vanish; thresholds and rounding | missing student is a permanent failure; the average moves with the grades |
| Settings (`config.py`) | constants | - | lease, heartbeat and retry times are independent settings | - |
| Student records (`crud/student.py`, `models/student.py`) | `student` rows with `version_id`; Redis entries `student:{id}` | create, read (cached for admins), update, delete, link to a user; unlinking by `delete_user` | concurrent sessions, stale cache entries, Redis down, commit followed by failed refresh | no blind overwrite, links exclusive, cache converges |
| Accounts (`crud/user.py`, `security/`, `cli.py`) | `users` rows with role, e-mail, password hash, `token_version`; issued tokens | register, create, create-admin, login, authenticate, change own data, administer, delete | stale copies in concurrent sessions, `FOR UPDATE`, spellings of an address | an admin remains, tokens die with the credentials they were issued under, no two accounts share an e-mail |
| Enrollment (`crud/enrollment.py`) | `enrollment` rows with grade and flags | create with pre-checks, update, delete | check-then-insert races, updates of stale copies | unique and CHECK constraints decide |
| Catalogue (`crud/college.py`, `department`, `course`, `courseoffering`, `courseschedule`, `teacher`) | a tree of tables with foreign keys | create, update, delete | deletes racing inserts, nullified foreign keys | no orphans |
| Migrations (`alembic/versions/`) | the schema | twelve revisions that change it | constraints dropped and made again, columns renamed; the tests build the schema from the models, not from the revisions | the schema at head is the one the models declare |
| Rate limiter, notifications, health, wiring, request schemas | - | - | - | no state of their own |

Interactions: the API inserts `job` rows and workers claim them (shared tables,
no messages). A worker and its heartbeat thread share the `report_found` and
`stop_event` events and the `job` row. The student module and the accounts
module share the `users` table: deleting a user clears `student.user_id`. Redis
is only read and written by `read_student` and cleared by the student writers.
A transcript reads the enrollments. Every race between requests that check first
and write later is decided by constraints, which the migrations must have built.

## 2. Modules

| Module | Models |
|---|---|
| `ReportService` | what users of the report API are promised, with no worker in sight |
| `ReportQueue` | the queue, its workers and heartbeats; implements `ReportService` |
| `MCReportQueue` | symmetry for the runs |
| `ReportApi`, `MCReportApi` | `ReportQueue` with clients that poll for their jobs |
| `StudentService` | what clients of student records are promised: no sessions, version checks or cache |
| `StudentRecord`, `MCStudentRecord` | student rows, optimistic lock, cache, links; implements `StudentService` |
| `AccountService` | what clients are promised about accounts and sessions: no versions, copies or locks |
| `Accounts`, `MCAccounts` | accounts, e-mails, tokens, the last-admin rule; implements `AccountService` |
| `Catalogue`, `MCCatalogue` | the academic tables, their constraints, and the operations on them |
| `Grades`, `Transcript` | `calculate_gpa` as a function; the averages of the students of `Catalogue` |
| `Schema`, `CatalogueSchema` | the schema as declared and as migrated; `Catalogue`'s constraints read off it |
| `ReportQueueProofs`, `ReportApiProofs`, `StudentRecordProofs`, `AccountsProofs`, `CatalogueProofs`, `GradesProofs`, `TranscriptProofs` | theorems about the module of that name and their proofs |
| `SchemaProofs` | theorems about `Schema` and `CatalogueSchema` |

`MCCatalogue` extends `CatalogueSchema`, which extends `Transcript` and `Schema`;
`Transcript` extends `Catalogue` and `Grades`; `ReportApi` extends `ReportQueue`.

### ReportQueue

Every committed transaction is one step. What a worker has read and keeps
between transactions is in `pc` (where it is), `claim` (its `ClaimedJob`),
`outcome` (the generated result, or the error being handled) and `found` (the
`report_found` event). `beats` holds the running heartbeat threads, which may
survive the execution that started them when they are inside a transaction as
`join(timeout=1.0)` gives up.

| Action | Code |
|---|---|
| `ExportTranscript` | `export_transcript_async` |
| `LeaseRunsOut`, `LeaseOverrun`, `RetryFallsDue` | the clock, as the comparisons with `now` in `claim_next_job` see it |
| `ReconcileOnce` | `reconcile_once`, `reconcile_reported_jobs` |
| `ClaimNextJob`, `ClaimUnacknowledged` | `claim_next_job`; the same with a lost reply and `_claim_with_retry` |
| `ReadJob`, `CheckReport`, `CheckLeased`, `Generate`, `LeaveHeartbeat`, `Recheck` | `process_claimed_report` up to the result |
| `Persist`, `PersistUnacknowledged`, `Adopt` | `_persist_or_adopt_report` |
| `ExecutionError`, `HandleError`, `ReadForFailure`, `WriteFailure`, `HandlerError` | the exception handlers and `_record_failure` |
| `BeatWakes`, `BeatChecks`, `BeatRenews`, `BeatFails` | `job_heartbeat.heartbeat_loop`, `_renew_lease` |
| `Crash`, `Start` | the process dies; its container restarts it |

Abstractions. Time: a lease is `none`, `live` or `expired`, a retry time `none`,
`future` or `due`; any lease may expire under its holder, since nothing in the
code ties generation time or the heartbeat interval to the lease. The random
`worker_token` is the pair of the worker and the version its claim produced. The
document is the version of the claim that generated it. `SKIP LOCKED` is modelled
by what may be locked: a better candidate is passed over only if another worker
or heartbeat may have a transaction open on it. A claim is one step, so that the
row locks of PostgreSQL work is taken for granted here; `LeasesExclude` is about what
the code does with leases, versions and the time between its transactions.

### ReportApi

`get_job_status` is `PollJob` (the job row) and `PollReport` (the report row), with
any steps of the workers between them; `PollFails` is a request that dies in
between. The client of a job remembers its last answer, which begins with the 202
that the export returned. Refusals (404, somebody else's job) are left out.

### StudentRecord

A request is a record with its form, its step and the copy of the row its session
loaded. One step is one query, one commit or one Redis call. `version_id_col`
appears as `Current`: the `UPDATE` or `DELETE` matches the loaded version or the
request is refused. `shown` remembers every answer a client has received, since
the `version_id` of a form comes from one of them, however old. `Abort` is a
database failure or a dying process in the middle of a request. Rows are never
created twice: ids come from a sequence (`issued`).

`StudentService` has the same rows and users, but an edit, a deletion or a link is one
step; if the form carries a version, it is the step on that very row.
`ImplementsService` maps a request that writes to a call that is open until it is
answered and that is marked once it is done. An edit that changes nothing (the ORM sends
no statement, and so compares no version) is done at the moment its session loads the
row, any other one at its commit: this is `HadEffect`.

### Accounts

A changing request is authenticated first (`Accept`); its session keeps the copy
loaded then, which is the target itself when an account changes itself.
`EnsureAdminRemains` is the unlocked look at the copy's role and, if needed, the
locked count of the admins; the locks are held until the request commits.
Addresses are model values with a `Lower` spelling: every function of `crud/user.py`
puts them into lower case, `create-admin` does not, and `login_user` looks for the lower-case
spelling. `Free` is the unique constraint; the looks at the table before an
`INSERT` or `UPDATE` are put in one step with it, since it decides the question
again. User names are left out: they are unique too, and only `create-admin` looks one up,
before an insert that the constraint decides.
`Updated` writes only the columns that differ from the copy, and computes
`token_version` from the copy, as the ORM does. A token notes the password and the
role it was issued under, so that the properties can say which tokens should be
dead.

`AccountService` knows no tokens, only sessions: one is opened under the password and
role of the moment, and ends when either is set or the account goes. `ImplementsService`
maps the tokens that would be accepted now to the open sessions, and the rows to what a
client knows of them. A token that is stale when it is issued opens no session, so a
login that loses the race with a change of password is a step nobody sees.

Nothing keeps two requests from changing one account at once, and the code does not
keep its rules then: the last-admin check and the new `token_version` are computed
from a copy that no lock protects. The properties of `Accounts` therefore name the step
of the code that breaks a rule, and say that nothing else does.
`CheckedRemovalsLeaveAnAdmin`: the last admin goes only by a request that loaded the
account before it was promoted. `TokensDieUnlessOvertaken`: a token becomes `Unsound`
(accepted, now or at a later version, with credentials it was not issued under) only
by a request that is `Overtaken`, which writes a version the account already had.
`RevokedStayRevoked`: a refused token is accepted again only by such a request, or by
the change after one, which reaches the version the token carries. The history variable
`contested` holds the accounts that were the target of two requests at once, and of these
`AccountService` promises less: nothing about the last admin, the columns of the form may
arrive in part, and sessions may outlive the change. What it promises of every other
account does not depend on them.

### Catalogue

The tables are functions from ids to rows; the foreign keys, the nullable one, the
unique constraints and the time order are data (`ParentsOf`, `Nullable`,
`UniqueOf`, `PassesCheck`), so that `Insert`, `Read`/`Write` and `Load`/`Remove`
are written once and every operation of `crud/` is one of them on its table. The
exceptions are the operations that look before they write: `ReadSchedule` checks
the times an update would leave, `CheckEnrollment` is the four queries of
`create_enrollment`. A commit applies its statements to the rows as they are by
then, and `Accepted` decides; of an update these are the columns that differ from
the row as read, and a delete first sets the foreign key of the children it has
loaded to NULL (no relationship has `passive_deletes` or a cascade), which a NOT
NULL column refuses and `course.department_id` accepts.

Abstractions. The names and codes that are unique in one scope are the column
`key`, as are the semester, year and section of an offering and the day of a
schedule. Columns on which nothing is decided (rooms, schedule types, timestamps)
are left out. An enrollment has its grade and its two flags, with their CHECKs in
`PassesCheck`. Students are here for their foreign keys; their cache and links are
in `StudentRecord`. Ids come from sequences and are never reused. `Initial`, `New`
and `Changes` are the database at the start and the bodies of the requests.

### Grades and Transcript

Grade points are in tenths and averages in hundredths. The mean is rounded as
`round(x, 2)` does on a float: where two hundredths are equally near, which one
comes out depends on the binary representation, so `Rounded` is the set of both.
`Transcript` reads the grades of each student off the enrollments;
`GpaFollowsGrades` is an action property over the updates of `Catalogue`.

### Schema and CatalogueSchema

A schema is a set of facts: a column exists, is NOT NULL, is unique with others,
refers to a table, is checked. `Declared` are the facts of `models/`; each migration
is what its `upgrade` drops and adds, and `AtHead` folds the twelve that change
anything. `SchemaAtHead` says that the two are equal, and that the keys, nullable
columns and CHECKs that `Catalogue` takes for granted are the ones at head. Column
types, server defaults, plain indexes, the statements that move data, and the
downgrades are left out.

## 3. Runs

Constants are the bounds: `MaxFaults` (crashes, lost replies, overrun leases,
failing Redis calls, aborted requests), `MaxWrites` / `MaxChanges` (write
requests and committed changes), `MaxTokens` (tokens issued before the last logins begin), and the sets of workers, jobs, requests and users.

| Run | Bounds | Shows |
|---|---|---|
| `queue_takeover` | 2 workers, 1 job and its polling client, 2 attempts, 2 faults | row consistency, one report, retry budget, fencing, lease exclusion, whole answers that never go back, refinement of `ReportService` |
| `queue_recovery` | 2 workers, a legacy row, an unsupported row, a transcript; 1 attempt, 1 fault | repair and adoption, permanent failures, claim order |
| `queue_liveness` | 2 workers, a legacy row and a transcript, 1 fault | every job settles, every reported job is repaired |
| `queue_attempts` | 2 workers, 1 job, 1 attempt, 1 fault | **violation**: attempts exceed `job_max_attempts` |
| `student_edit` | 1 student, 3 requests, 2 writes, 1 fault | optimistic lock through a stale cache, convergence |
| `student_link` | 2 students, 2 users, 2 requests, 3 writes, 1 fault | soundness and stability of links, meaning of versions, invalidation, refinement of `StudentService` |
| `student_repopulated` | 1 student, 2 requests, 1 write, no fault | **violation**: the old row returns to the cache |
| `catalogue` | 2 requests, 2 committed changes, a small catalogue and the request bodies of `MCCatalogue` | no dangling reference, one enrollment, ordered schedules, flags of an enrollment turned together, no reverted columns, averages that follow the grades, the schema at head |
| `catalogue_orphan` | 1 request, 1 change | **violation**: a deleted department leaves its courses without one |
| `accounts` | 1 admin, 1 newcomer, 2 addresses, one of them in two spellings, 2 requests, 3 changes, 2 tokens | only a stale copy loses the last admin, only an overtaken request lets a token outlive its credentials or come back, e-mails distinct, refinement of `AccountService` |
| `accounts_last_admin` | 1 admin, 1 newcomer, 2 requests, 3 changes, 3 tokens | **violation**: no admin is left |
| `accounts_tokens` | 1 admin, 3 requests, 2 changes, 3 tokens | **violation**: a token survives a password change |

Why the bounds are enough to be interesting. Two workers and one job give every
overlap of two executions; with two faults the same execution can overrun its
lease and a successor can fail as well. The attempts in `queue_recovery` are one,
so that the last attempt is the first; in `queue_takeover` they are two, so that
both verdicts occur. Three requests on one student give a reader and two writers
at once. In `student_link` two students and two users are needed for the two ways
a link can be taken. In `accounts` both requests may be for the same account, which
is enough to lose an increment, to take a version back and to delete an admin that was
promoted meanwhile: without the exceptions they name, each of the three action
properties is violated within its bounds. The third way back, a version that went
back and arrives at a token by a later change, needs a fourth change; it is covered by
the proof only.
The catalogue's races are between two requests that each commit once, and its
rows are chosen so that every operation can succeed within two commits. More changes
would only add to the catalogue the requests start from. The student's grade moves
between two thresholds of the scale, alone, beside an enrollment without a grade, and
beside one with a lower grade. A third address beside
`e1` and its capitals `E1` lets a change of e-mail succeed while another is taken.
The proofs below show that no safety property depends on the bounds.

`CHECK_DEADLOCK FALSE` is set in the queue runs, where workers poll without changing
anything once all jobs are settled, and in the accounts runs: with all ids, changes and
tokens used up, or the one account left having its address in capitals so that nobody
can log in, no request comes any more.

Symmetry is used in safety runs only. The properties name no particular worker,
request, user or value.

### Fairness

`ReportQueue!FairSpec` assumes that a worker that is down is started again
(`restart: always` in `docker-compose.yml`), that a running worker takes its next
step (`main` is an endless loop that catches every exception), and that time
passes: a lease nobody can renew expires and a retry time falls due. Nothing is
assumed of heartbeats, of users or of faults. `StudentRecord!FairSpec` assumes only
that Redis expires entries (`ex=60`).

### Disagreements found

* `job_max_attempts` bounds the failures a worker records, not the attempts: an
  abandoned lease is reclaimed without looking at it (`queue_attempts`).
* The order commit, then invalidate does not keep a concurrent reader from putting
  the old row back (`student_repopulated`). The entry lives for up to 60 s;
  `NoBlindOverwrite` shows that edits based on it are refused if they carry the
  `version_id`.
* `delete_department` promises to refuse while courses depend on the department, but
  sets their `department_id` to NULL and succeeds (`catalogue_orphan`); so it also
  does for a course that was moved to another department after it was loaded.
* The last-admin check trusts the role of an unlocked copy (`accounts_last_admin`).
* `token_version` is incremented from an unlocked copy (`accounts_tokens`).
  The run `accounts` shows that these two are the only ways in which the rules are
  broken.

Observations that contradict no text and so have no run of their own:

* `create-admin` stores the address as it is written; an admin created with capitals
  in it can never log in, because login looks for the lower-case spelling.
* Revisions `403a366388eb` and `1f13b6c5ebd7` add NOT NULL columns without a default,
  and so cannot be applied to tables that hold rows.
* Some downgrades call `drop_constraint(None, ...)`.
* `delete_user` changes a student's row without dropping its cache entry; the entry
  stays until it expires. `UpdatesDropOldEntries` names this as one of the four reasons
  for which an old entry may be there; the others are a call to Redis or the database
  that failed, a reader that queried before the write and stored after it, and a link
  whose user was deleted before the refresh that follows the commit.

## 4. Proofs

### The queue

`ReportQueueProofs` proves for every `Workers`, `Jobs`, `Interrupted`,
`Unsupported`, `MaxAttempts` and `MaxFaults` that satisfy `QueueAssumption`:

| Theorem | Result |
|---|---|
| `TypeCorrect` | `[]TypeOK` |
| `InvCorrect` | `[]Inv`, the inductive invariant |
| `OneReport`, `ReportDecides` | `[]OneReportPerJob`, `[]ReportFinalizesJob` |
| `ColumnsAgree` | `[]RowsAreConsistent` |
| `VerdictsAreCurrent` | `[]RetryBudget` |
| `HeartbeatIsTruthful`, `ReportsAreAdopted` | `[]HeartbeatTellsTheTruth`, `[]NeverRegenerated` |
| `FailuresAreFenced`, `DeadLeasesStayDead` | the two action properties |
| `LeasesAreExclusive` | `[]LeasesExclude` |
| `QueueImplementsService` | `Spec => Service!Spec` |

The argument. None of the invariants is inductive alone: whether a verdict is
current when it is written depends on the fence, which depends on versions never
being reused. `Inv` is `TypeOK`, `TableInv` (the columns of every row agree, one
report per job, the retry budget) and `LocalInv(w)` for every worker (its claim is
not newer than the row, its verdict is still true of the row if it still owns it,
`found` means there is a report, an execution that has passed the first check is
not working on a legacy row). The lemma `EveryStepIsTableStep` reduces every action
to what it does to the two tables, `TableInvStep` shows that each such change keeps
`TableInv`, and `LocalInvStep` treats the worker that moves and, through
`OthersKeepLocalInv`, all the others at once. `LeasesAreExclusive` adds `SecureInv`:
as long as there has been no fault, whoever executes owns its row and the lease is
live. The refinement needs only `TableStep` and `Inv`.

### The answers

`ReportApiProofs` adds `ApiTypeCorrect`, `EveryAnswerIsWhole` and `NoAnswerGoesBack`,
from the same assumption and `ApiAssumption`. They rest on the queue's invariant, which
holds next to the clients because a step of theirs leaves the queue alone, on reports
being only added, and on an answer never knowing more than the tables: a completed
answer has its report in the table, a failed one belongs to a row that is failed, or
has been completed since.

### Student records

`StudentRecordProofs` proves, from `StudentAssumption`:

| Theorem | Result |
|---|---|
| `RecordsTypeCorrect` | `[]TypeOK` |
| `VersionsIdentifyRows` | `[]VersionIdentifiesRow` |
| `LinksStaySound` | `[]LinksAreSound` |
| `NoOneOverwritesBlindly`, `LinksLast` | `NoBlindOverwrite`, `LinkedStaysLinked` |
| `OldEntriesGo` | `UpdatesDropOldEntries` |
| `RecordsImplementService` | `Spec => ImplementsService` |

`VersionIdentifiesRow` is not inductive: the cache is filled from, and forms and
refreshes answer with, the copies of running sessions. `SeenInv` says the same of
everything anyone holds (`Seen`: answers, cache entry and copies), `FreshInv` that an
id not yet issued has no row and nobody holds anything of it, and `FitInv` what a
request has established by the time it commits (its `version_id` was compared, the
student was free, the user is the one linked). `StepMoves` reduces every action to
what it does to one request, `StepWrites` to what it does to the tables, `StepShows`
and `StepCaches` to what becomes visible; the four `Step...` lemmas after them no
longer mention actions. `CurrentIsCopy` is the point of the optimistic lock: a commit
that the version lets through finds the row its session loaded. It carries the refinement as well: the
commit of a request is the abstract edit, deletion or link because the copy it was
computed from is the row, and the guards of the abstract step are what `FitInv` keeps.
`OldEntriesGo` adds that whoever may still store an old row is a request that is running.

### Accounts

`AccountsProofs` proves, from `AccountsAssumption` and `RequestAssumption` (no account
and no request is the value that stands for none) and for any number of requests
on any account:

| Theorem | Result |
|---|---|
| `AccountsTypeCorrect`, `NoTwoAccountsPerEmail` | `[]TypeOK`, `[]EmailsDistinct` |
| `AccountsInvCorrect` | `[]Inv`, the inductive invariant |
| `CheckedRemovalsAreSafe` | `CheckedRemovalsLeaveAnAdmin` |
| `TokensDie`, `RevokedForEver` | `TokensDieUnlessOvertaken`, `RevokedStayRevoked` |
| `AccountsImplementService` | `Spec => ImplementsService` |

The invariant: a request that is about to take an admin away has another admin
locked (`LockInv`), also while others write its target; an account that is not contested
has one request at most (`ContestedInv`), whose copy is the row (`CopyInv`); and of such an
account a version handed out in a token or held by a login belongs to one password and
one role (`Dated`). The two theorems on tokens hold of contested accounts too: a step that
invalidates tokens and is not overtaken writes a version above the one in the table, and
no other step touches version, password or role. For the refinement the columns an
update writes, which are those that differ from the copy, are one of the `Outcomes` of
its form, and exactly the form on an account that is not contested; the sessions that
end or appear in a step are those of the account it changes.

### Catalogue

`CatalogueProofs` proves, from `CatalogueAssumption` and for every `Initial` whose rows
satisfy the constraints (`Consistent`), that they do for ever (`TablesStayConsistent`,
the inductive invariant), and from it `CatalogueTypeCorrect`, `ReferencesStayWhole`,
`EnrolledOnlyOnce` and `SchedulesAlwaysRunForward`; and `OnlyAskedIsWritten` for
`OnlyAskedColumnsChange` and `FlagsAreTurnedTogether` for `FlagsTurnTogether`. The 24 operations reduce to one
insert, update or delete (`RowStep`). The interesting case is the delete: the rows that
refer to the deleted one must all have been loaded, and have been set to NULL. For the flags of an enrollment
the invariant is joined by `SeenOK`: what an update has loaded is a row of its table.
Before and after a step the CHECK keeps one of the flags down, so both turn if the
other is up afterwards, and only an update that differs from its copy in both does that.

### Grades and transcripts

`GradesProofs` proves of `calculate_gpa`, for lists of any length, that there is always
an average, between 0.00 and 4.00 (`GpaOnScale`), and that grades that are nowhere lower
give no lower one (`GpaMonotone`), in the half way cases too. The sum is a fold over a
set, which is a recursive function on the subsets. No induction rule can be used on it here,
so its facts are proved from the least number of a non-empty set (`LeastNumber`): of the
subsets for which the claim would fail a smallest one is taken (`SmallestSubset`), and one
element removed. That the recursive definition has a solution at all is proved the same
way. `TranscriptProofs` concludes `GpaFollowsGrades` (`AveragesFollowGrades`), since
`TablesStayConsistent` says that the grades are numbers.

### The schema

`SchemaProofs` unfolds the recursion over the twelve migrations (`SchemaAfterIs`) and
proves that they leave what the models declare (`MigrationsMatchModels`): whatever a
migration adds is declared or dropped later (`AllIsDeclared`), and every part that is
declared is added by a migration after which nothing takes it away (`Added`, `Stays`).
The lemmas after it compare the keys of each table with `ParentsOf`, `UniqueOf` and
`Nullable`, which gives `SchemaStaysAsDeclared`. There is nothing to bound here, and TLC
computes the same; the proof says which migration each constraint comes from.

### Only model-checked

Liveness: `EveryJobSettles`, `ReportedJobsAreRepaired` and `CacheConverges` speak of
fairness, which is out of the prover's reach.

## 5. Not modelled

Field validation, pagination and pure reads (they change nothing); the numeric
lease and retry times (a lease may expire at any moment in the model); rate limiting
(slowapi); notifications (a log line); health and wiring; the downgrades of the
migrations and what the upgrades do to rows; user names. `PROJECT.json` lists each
with its reason.

## 6. Plan

1. `LeaseTiming`: a numeric clock, and the condition on heartbeat, transaction time
   and lease under which no lease is overrun.
2. The migrations on tables with rows, and the downgrades.
3. User names beside e-mails in `Accounts`, and forms with several fields.
