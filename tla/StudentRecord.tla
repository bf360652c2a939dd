--------------------------- MODULE StudentRecord ---------------------------
(* Student records under concurrent requests: app/crud/student.py, the      *)
(* table of app/models/student.py with its version_id_col, the Redis cache  *)
(* in front of GET /students/{id}, and delete_user of app/crud/user.py as   *)
(* far as it changes students.                                              *)
(*                                                                          *)
(* A request runs one step per query, commit or Redis call; between them it *)
(* keeps the copy of the row its session loaded.  The columns name,         *)
(* department_id, age and email are one value.                              *)
EXTENDS Integers

CONSTANTS
  Students,   \* student ids
  Users,      \* user ids
  Values,     \* contents of the editable columns
  Requests,   \* requests the API serves at the same time
  Kinds,      \* the kinds of request that are sent
  MaxWrites,  \* bound on the write requests
  MaxFaults,  \* bound on failing Redis calls and aborted requests
  None        \* SQL NULL, no row, no cache entry, no request

Row == [version_id : Nat, user_id : Users \cup {None}, data : Values]

MaybeRow == Row \cup {None}

Request == [kind    : Kinds,
            student : Students \cup {None},
            user    : Users \cup {None},
            data    : Values \cup {None},
            expects : MaybeRow,   \* the answer whose version_id the form carries
            step    : {"looking", "querying", "filling", "reading", "checking",
                       "committing", "refreshing", "invalidating"},
            copy    : MaybeRow]   \* the row as this session has loaded it

ASSUME StudentAssumption ==
  /\ None \notin Students \cup Users
  /\ None \notin Row
  /\ None \notin Request
  /\ Kinds \subseteq {"read", "update", "delete", "link", "delete_user"}
  /\ MaxWrites \in Nat
  /\ MaxFaults \in Nat

VARIABLES
  student,  \* the student table
  issued,   \* ids handed out by the sequence, deleted students included
  users,    \* the users table
  cache,    \* Redis: the entry under student:{id}
  shown,    \* the answers clients have received about a student
  request,  \* the requests being served
  writes,   \* write requests so far
  faults    \* faults so far

vars == <<student, issued, users, cache, shown, request, writes, faults>>

db == <<student, issued, users>>

----------------------------------------------------------------------------
(* Types, and what a request may do                                         *)

TypeOK ==
  /\ student \in [Students -> MaybeRow]
  /\ issued \subseteq Students
  /\ users \subseteq Users
  /\ cache \in [Students -> MaybeRow]
  /\ shown \in [Students -> SUBSET Row]
  /\ request \in [Requests -> Request \cup {None}]
  /\ \A r \in Requests :
       /\ request[r] # None
       /\ request[r].step \in {"filling", "checking", "refreshing", "invalidating"}
       => request[r].copy # None
  /\ writes \in 0..MaxWrites
  /\ faults \in 0..MaxFaults

At(r, kinds, step) ==
  /\ request[r] # None
  /\ request[r].kind \in kinds
  /\ request[r].step = step

Target(r) == request[r].student

Continue(r, step, copy) ==
  /\ request' = [request EXCEPT ![r].step = step, ![r].copy = copy]
  /\ UNCHANGED shown

\* An error response, or one that does not show the student.
Respond(r) ==
  /\ request' = [request EXCEPT ![r] = None]
  /\ UNCHANGED shown

\* The response carries the student, its version_id included.
Answer(r, row) ==
  /\ request' = [request EXCEPT ![r] = None]
  /\ shown' = [shown EXCEPT ![Target(r)] = @ \cup {row}]

Fault == faults < MaxFaults /\ faults' = faults + 1

Init ==
  /\ student = [s \in Students |-> None]
  /\ issued = {}
  /\ users = Users
  /\ cache = [s \in Students |-> None]
  /\ shown = [s \in Students |-> {}]
  /\ request = [r \in Requests |-> None]
  /\ writes = 0
  /\ faults = 0

----------------------------------------------------------------------------
(* Requests arrive                                                          *)

Accept(r, q) ==
  /\ request[r] = None
  /\ q.kind \in Kinds
  /\ request' = [request EXCEPT ![r] = q]
  /\ UNCHANGED <<db, cache, shown, faults>>

Form(kind, s, u, d, e) ==
  [kind |-> kind, student |-> s, user |-> u, data |-> d, expects |-> e,
   step |-> IF kind = "read" THEN "looking" ELSE "reading", copy |-> None]

SendRead(r, s) ==
  /\ Accept(r, Form("read", s, None, None, None))
  /\ UNCHANGED writes

\* The form may carry the version_id of any answer about s, however old.
SendWrite(r) ==
  /\ writes < MaxWrites
  /\ writes' = writes + 1
  /\ \/ \E s \in issued, d \in Values : \E e \in shown[s] \cup {None} :
          Accept(r, Form("update", s, None, d, e))
     \/ \E s \in issued : Accept(r, Form("delete", s, None, None, None))
     \/ \E s \in issued, u \in Users : Accept(r, Form("link", s, u, None, None))
     \/ \E u \in users : Accept(r, Form("delete_user", None, u, None, None))

\* create_student: a fresh id; version_id starts at 1.
CreateStudent(s, d) ==
  /\ s \notin issued
  /\ issued' = issued \cup {s}
  /\ LET row == [version_id |-> 1, user_id |-> None, data |-> d] IN
       /\ student' = [student EXCEPT ![s] = row]
       /\ shown' = [shown EXCEPT ![s] = {row}]
  /\ UNCHANGED <<users, cache, request, writes, faults>>

----------------------------------------------------------------------------
(* read_student for an admin: cache, query, fill                            *)

\* A hit is the answer; a failing Redis call is a miss.
ReadCached(r) ==
  /\ At(r, {"read"}, "looking")
  /\ \/ cache[Target(r)] # None /\ Answer(r, cache[Target(r)]) /\ UNCHANGED faults
     \/ cache[Target(r)] = None /\ Continue(r, "querying", None) /\ UNCHANGED faults
     \/ cache[Target(r)] # None /\ Continue(r, "querying", None) /\ Fault
  /\ UNCHANGED <<db, cache, writes>>

\* Mutant: the row is used without looking whether there is one.
QueryUnchecked(r) ==
  /\ At(r, {"read"}, "querying")
  /\ Continue(r, "filling", student[Target(r)])
  /\ UNCHANGED <<db, cache, writes, faults>>

QueryStudent(r) ==
  /\ At(r, {"read"}, "querying")
  /\ IF student[Target(r)] = None
       THEN Respond(r)
       ELSE Continue(r, "filling", student[Target(r)])
  /\ UNCHANGED <<db, cache, writes, faults>>

\* The copy is stored whatever has happened to the row since the query.
WriteCached(r) ==
  /\ At(r, {"read"}, "filling")
  /\ Answer(r, request[r].copy)
  /\ \/ cache' = [cache EXCEPT ![Target(r)] = request[r].copy] /\ UNCHANGED faults
     \/ Fault /\ UNCHANGED cache
  /\ UNCHANGED <<db, writes>>

----------------------------------------------------------------------------
(* Reading the row to be changed, and the checks                            *)

\* Mutant: version_id of the form is not compared.
IgnoreVersion(row, e) == TRUE

VersionMatches(row, e) == e # None => row.version_id = e.version_id

ReadForUpdate(r) ==
  /\ At(r, {"update"}, "reading")
  /\ LET row == student[Target(r)] IN
       IF row # None /\ VersionMatches(row, request[r].expects)
         THEN Continue(r, "committing", row)
         ELSE Respond(r)
  /\ UNCHANGED <<db, cache, writes, faults>>

ReadForDelete(r) ==
  /\ At(r, {"delete"}, "reading")
  /\ IF student[Target(r)] # None
       THEN Continue(r, "committing", student[Target(r)])
       ELSE Respond(r)
  /\ UNCHANGED <<db, cache, writes, faults>>

ReadForLink(r) ==
  /\ At(r, {"link"}, "reading")
  /\ IF student[Target(r)] # None
       THEN Continue(r, "checking", student[Target(r)])
       ELSE Respond(r)
  /\ UNCHANGED <<db, cache, writes, faults>>

LinkedTo(u) == {s \in Students : student[s] # None /\ student[s].user_id = u}

\* The user, the loaded copy of the student and user.student.
CheckLink(r) ==
  /\ At(r, {"link"}, "checking")
  /\ LET u == request[r].user IN
       IF u \in users /\ request[r].copy.user_id = None /\ LinkedTo(u) = {}
         THEN Continue(r, "committing", request[r].copy)
         ELSE Respond(r)
  /\ UNCHANGED <<db, cache, writes, faults>>

\* delete_user: the flush loads user.student in order to clear its user_id.
ReadForUserDelete(r) ==
  /\ At(r, {"delete_user"}, "reading")
  /\ LET u == request[r].user IN
       \/ u \notin users /\ Respond(r)
       \/ /\ u \in users
          /\ LinkedTo(u) = {}
          /\ Continue(r, "committing", None)
       \/ /\ u \in users
          /\ \E s \in LinkedTo(u) :
               request' = [request EXCEPT ![r].student = s, ![r].step = "committing",
                                          ![r].copy = student[s]]
          /\ UNCHANGED shown
  /\ UNCHANGED <<db, cache, writes, faults>>

----------------------------------------------------------------------------
(* Commits                                                                  *)

\* Mutant: UPDATE and DELETE without the version_id condition.
ExistsStill(r) == student[Target(r)] # None

\* version_id_col: UPDATE and DELETE ... WHERE id = :id AND version_id = :loaded
\* must match a row, otherwise StaleDataError.
Current(r) ==
  /\ student[Target(r)] # None
  /\ student[Target(r)].version_id = request[r].copy.version_id

\* Mutant: the version is left as it was.
SameVersion(row, copy, column, value) == [row EXCEPT ![column] = value]

\* UPDATE student SET column = value, version_id = loaded + 1
NewVersion(row, copy, column, value) ==
  [row EXCEPT ![column] = value, !.version_id = copy.version_id + 1]

\* Only the columns that have changed are written.
Changed(r, column, value) ==
  student' = [student EXCEPT ![Target(r)] =
                NewVersion(@, request[r].copy, column, value)]

\* A form that changes nothing emits no UPDATE, and commits.
CommitUpdate(r) ==
  /\ At(r, {"update"}, "committing")
  /\ \/ /\ request[r].copy.data = request[r].data
        /\ UNCHANGED student
     \/ /\ request[r].copy.data # request[r].data
        /\ Current(r)
        /\ Changed(r, "data", request[r].data)
  /\ Continue(r, "refreshing", request[r].copy)
  /\ UNCHANGED <<issued, users, cache, writes, faults>>

CommitDelete(r) ==
  /\ At(r, {"delete"}, "committing")
  /\ Current(r)
  /\ student' = [student EXCEPT ![Target(r)] = None]
  /\ Continue(r, "invalidating", request[r].copy)
  /\ UNCHANGED <<issued, users, cache, writes, faults>>

\* Mutant: unique=True is missing.
AnyLink(u) == TRUE

\* UNIQUE(student.user_id)
Unlinked(u) == LinkedTo(u) = {}

\* The foreign key to users and UNIQUE(user_id) have the last word.
CommitLink(r) ==
  /\ At(r, {"link"}, "committing")
  /\ Current(r)
  /\ request[r].user \in users
  /\ Unlinked(request[r].user)
  /\ Changed(r, "user_id", request[r].user)
  /\ Continue(r, "refreshing", request[r].copy)
  /\ UNCHANGED <<issued, users, cache, writes, faults>>

\* One transaction clears user_id and deletes the user; the foreign key
\* refuses it if another student has been linked since.  No cache entry is
\* invalidated.
CommitUserDelete(r) ==
  /\ At(r, {"delete_user"}, "committing")
  /\ \/ /\ Target(r) = None
        /\ LinkedTo(request[r].user) = {}
        /\ UNCHANGED student
     \/ /\ Target(r) # None
        /\ Current(r)
        /\ LinkedTo(request[r].user) \subseteq {Target(r)}
        /\ Changed(r, "user_id", None)
  /\ users' = users \ {request[r].user}
  /\ Respond(r)
  /\ UNCHANGED <<issued, cache, writes, faults>>

\* StaleDataError, IntegrityError or DataError: 409, 422 or 500 and no change.
CommitRefused(r) ==
  /\ At(r, Kinds, "committing")
  /\ Respond(r)
  /\ UNCHANGED <<db, cache, writes, faults>>

----------------------------------------------------------------------------
(* After the commit                                                         *)

\* db.refresh raises when a row has been deleted since: 500, and the cache
\* entry stays.
RefreshCopy(r) ==
  /\ At(r, {"update", "link"}, "refreshing")
  /\ IF /\ student[Target(r)] # None
        /\ request[r].kind = "link" => request[r].user \in users
       THEN Continue(r, "invalidating", student[Target(r)])
       ELSE Respond(r)
  /\ UNCHANGED <<db, cache, writes, faults>>

\* Mutant: the entry is left to its TTL.
Kept(s) == UNCHANGED cache

Dropped(s) == cache' = [cache EXCEPT ![s] = None]

\* _invalidate_student_cache is best effort.
InvalidateCached(r) ==
  /\ At(r, {"update", "link", "delete"}, "invalidating")
  /\ \/ Dropped(Target(r)) /\ UNCHANGED faults
     \/ Fault /\ UNCHANGED cache
  /\ IF request[r].kind = "delete" THEN Respond(r) ELSE Answer(r, request[r].copy)
  /\ UNCHANGED <<db, writes>>

\* The database or the API process fails in the middle of a request.
Abort(r) ==
  /\ request[r] # None
  /\ Fault
  /\ Respond(r)
  /\ UNCHANGED <<db, cache, writes>>

\* Mutant: entries are set without ex=60.
NeverExpires(s) == FALSE /\ UNCHANGED vars

\* ex=60
CacheExpires(s) ==
  /\ cache[s] # None
  /\ cache' = [cache EXCEPT ![s] = None]
  /\ UNCHANGED <<db, shown, request, writes, faults>>

----------------------------------------------------------------------------

Serve(r) ==
  \/ ReadCached(r) \/ QueryStudent(r) \/ WriteCached(r)
  \/ ReadForUpdate(r) \/ ReadForDelete(r) \/ ReadForLink(r) \/ CheckLink(r)
  \/ ReadForUserDelete(r)
  \/ CommitUpdate(r) \/ CommitDelete(r) \/ CommitLink(r) \/ CommitUserDelete(r)
  \/ CommitRefused(r)
  \/ RefreshCopy(r) \/ InvalidateCached(r)

Next ==
  \/ \E s \in Students, d \in Values : CreateStudent(s, d)
  \/ \E r \in Requests, s \in issued : SendRead(r, s)
  \/ \E r \in Requests : SendWrite(r) \/ Serve(r) \/ Abort(r)
  \/ \E s \in Students : CacheExpires(s)

Spec == Init /\ [][Next]_vars

\* Time passes; nothing is assumed of clients, or of requests once accepted.
FairSpec == Spec /\ \A s \in Students : WF_vars(CacheExpires(s))

----------------------------------------------------------------------------
(* Properties                                                               *)

\* What the optimistic lock rests on: whatever a client was shown, and
\* whatever Redis holds, is the row as it once was, and its version_id tells
\* whether it still is.  Every write must bump it, that of delete_user too.
VersionIdentifiesRow ==
  \A s \in Students : student[s] # None =>
    \A e \in shown[s] \cup ({cache[s]} \ {None}) :
      /\ e.version_id <= student[s].version_id
      /\ e.version_id = student[s].version_id => e = student[s]

\* "concurrent updates are detected and rejected ... instead of silently
\* overwriting each other" (README): a write changes the very row its session
\* has loaded and, when the form carries a version_id, the very row the client
\* was shown, even if that answer came from a stale cache entry.
NoBlindOverwrite ==
  [][\A r \in Requests :
       LET q == request[r] IN
         /\ q # None
         /\ request'[r] # q
         /\ student' # student
         => /\ student[q.student] = q.copy
            /\ q.expects # None => student[q.student] = q.expects]_vars

\* A link is to a user that exists, and no user has two students: otherwise
\* GET /users/me/student, which expects at most one row, fails for good.
LinksAreSound ==
  \A s \in Students :
    student[s] # None /\ student[s].user_id # None =>
      /\ student[s].user_id \in users
      /\ LinkedTo(student[s].user_id) = {s}

\* A linked student stays with its user for as long as both exist: of two
\* concurrent links one is refused, although both found the student free.
LinkedStaysLinked ==
  [][\A s \in Students :
       LET before == student[s]
           after  == student'[s]
       IN  /\ before # None
           /\ after # None
           /\ before.user_id # None
           /\ after.user_id # before.user_id
           => after.user_id = None /\ before.user_id \notin users']_vars

StaleAtRest(s) ==
  /\ student[s] # None
  /\ cache[s] \notin {None, student[s]}
  /\ \A r \in Requests : request[r] # None /\ Target(r) = s =>
       request[r].step \notin {"refreshing", "invalidating"}

\* An entry does not outlive the write that made it stale: when the write is
\* answered, the entry is gone.  Four things leave an old entry behind, and
\* nothing else does: Redis or the process fails, a late reader puts the old
\* row back, delete_user clears the link in the row, or the refresh of a link
\* does not find the user any more.
UpdatesDropOldEntries ==
  [][\A s \in Students :
       ~StaleAtRest(s) /\ StaleAtRest(s)' =>
         \/ faults' > faults
         \/ \E r \in Requests :
              /\ At(r, {"read"}, "filling") /\ Target(r) = s
              /\ request'[r] = None
         \/ student[s].user_id \in users \ users'
         \/ \E r \in Requests :
              /\ At(r, {"link"}, "refreshing") /\ Target(r) = s
              /\ request[r].user \notin users
              /\ request'[r] = None]_vars

\* The cache is disposable (README): once a record is no longer written, the
\* entry that a late reader or a failed invalidation has left behind goes away
\* for good.
CacheConverges ==
  <>[][FALSE]_student =>
    <>[](\A s \in Students : cache[s] # None => cache[s] = student[s])

\* "so a concurrent reader cannot repopulate the cache with the old row"
\* (update_student): with no request in progress, a cached row is current.
NotRepopulated ==
  \A s \in Students :
    /\ cache[s] # None
    /\ \A r \in Requests : request[r] = None
    => cache[s] = student[s]

----------------------------------------------------------------------------
(* The service that the requests amount to                                  *)

\* A form that changes nothing has had its effect when its session has read
\* the row, whatever becomes of the row before the commit.
HadEffect(q) ==
  \/ q.step \in {"refreshing", "invalidating"}
  \/ q.kind = "update" /\ q.step = "committing" /\ q.copy.data = q.data

\* The student that the session of delete_user has found is not in its form.
CallOf(q) ==
  IF q = None THEN [kind |-> "none"]
  ELSE [kind |-> q.kind,
        student |-> IF q.kind = "delete_user" THEN None ELSE q.student,
        user |-> q.user, data |-> q.data, expects |-> q.expects,
        done |-> HadEffect(q)]

Service == INSTANCE StudentService WITH call <- [r \in Requests |-> CallOf(request[r])]

\* Every write request behaves as if it ran alone at one moment, although its
\* session reads first and commits later and what it read may come from a
\* stale form: sessions, versions and constraints make up a StudentService.
ImplementsService == Service!Spec

=============================================================================
