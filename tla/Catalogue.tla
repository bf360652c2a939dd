------------------------------ MODULE Catalogue ------------------------------
(***************************************************************************)
(* The academic tables: colleges, departments, courses, teachers,          *)
(* students, course offerings, course schedules and enrollments, and the   *)
(* create, update and delete operations of app/crud on them.               *)
(*                                                                         *)
(* A request reads first and commits later, in a READ COMMITTED            *)
(* transaction, so what it read may be stale when its statements run; the  *)
(* database applies the statements to the current rows and enforces its    *)
(* constraints there.  The statements of one commit are one step: they     *)
(* hold row locks until the commit, and a constraint error undoes them.    *)
(* A request refused before it wrote anything changes nothing, so only     *)
(* requests that have read something have a refusal of their own.          *)
(* The row of a student is the subject of module StudentRecord; here it is *)
(* the row that departments own and enrollments refer to.                  *)
(***************************************************************************)
EXTENDS Naturals, FiniteSets

CONSTANTS
  Requests,     \* handlers running at the same time
  Keys,         \* names, codes, e-mails, days: what uniqueness compares
  Times,        \* clock times of schedules
  Null,
  Initial,      \* the rows at the start: table -> (id -> row)
  New,          \* bodies of POST requests: table -> set of rows
  Changes,      \* bodies of PUT requests: table -> set of partial rows
  MaxWrites     \* bound on committed transactions

ASSUME CatalogueAssumption ==
  /\ Times \subseteq Nat
  /\ Null \notin Nat \cup Keys
  /\ MaxWrites \in Nat

VARIABLES
  rows,         \* table -> (id -> row), the ids being those that exist
  serial,       \* table -> last id its sequence has handed out
  request,      \* what each running handler has read and is about to write
  writes        \* committed transactions so far

vars == <<rows, serial, request, writes>>

\* The foreign keys of each table, named for the table they point to.
ParentsOf ==
  [college    |-> {},
   department |-> {"college"},
   course     |-> {"department"},
   teacher    |-> {"department"},
   student    |-> {"department"},
   offering   |-> {"course", "teacher"},
   schedule   |-> {"offering"},
   enrollment |-> {"student", "offering"}]

Tables == DOMAIN ParentsOf

\* The one foreign key that may be NULL.
Nullable == {<<"course", "department">>}

\* The columns of each unique constraint and unique index.
UniqueOf ==
  [college    |-> {{"key"}},
   department |-> {{"college", "key"}},
   course     |-> {{"department", "key"}},
   teacher    |-> {},
   student    |-> {{"key"}},
   offering   |-> {{"course", "teacher", "key"}},
   schedule   |-> {{"offering", "key", "start", "end"}},
   enrollment |-> {{"student", "offering"}, {"key"}}]

ColumnsOf(t) ==
  ParentsOf[t] \cup {"key"}
    \cup (IF t = "schedule" THEN {"start", "end"} ELSE {})
    \cup (IF t = "student" THEN {"version"} ELSE {})
    \cup (IF t = "enrollment" THEN {"grade", "active", "withdrawn"} ELSE {})

\* What a column may hold.
Domain(t, c) ==
  CASE c = "key" -> Keys
    [] c \in {"start", "end"} -> Times
    [] c = "version" -> Nat \ {0}
    [] c = "grade" -> Nat \cup {Null}
    [] c \in {"active", "withdrawn"} -> BOOLEAN
    [] OTHER -> (Nat \ {0}) \cup (IF <<t, c>> \in Nullable THEN {Null} ELSE {})

IsRow(t, row) ==
  DOMAIN row = ColumnsOf(t) /\ \A c \in ColumnsOf(t) : row[c] \in Domain(t, c)

Ids(t) == DOMAIN rows[t]

----------------------------------------------------------------------------
(* What the database enforces on a row                                      *)

ParentsExist(t, row) ==
  \A p \in ParentsOf[t] : row[p] # Null => row[p] \in Ids(p)

\* A NULL never equals anything, so it takes its row out of the constraint.
Clash(columns, a, b) == \A c \in columns : a[c] = b[c] /\ a[c] # Null

\* Mutant: no unique constraint on the student and offering of an enrollment.
UniqueCode(t, id, row) ==
  \A other \in Ids(t) \ {id}, columns \in UniqueOf[t] \ {{"student", "offering"}} :
    ~Clash(columns, row, rows[t][other])

Unique(t, id, row) ==
  \A other \in Ids(t) \ {id}, columns \in UniqueOf[t] : ~Clash(columns, row, rows[t][other])

\* Mutant: the schedules have no CHECK constraint.
UncheckedSchedule(t, row) ==
  t = "enrollment" => ~(row.active /\ row.withdrawn)

PassesCheck(t, row) ==
  /\ t = "schedule" => row.end > row.start
  /\ t = "enrollment" => /\ row.grade # Null => row.grade \in 0..100
                         /\ ~(row.active /\ row.withdrawn)

Accepted(t, id, row) ==
  IsRow(t, row) /\ ParentsExist(t, row) /\ Unique(t, id, row) /\ PassesCheck(t, row)

\* The rows that point to a row, as pairs of a table and an id.
Children(p, id) ==
  {c \in UNION {{t} \X Ids(t) : t \in {u \in Tables : p \in ParentsOf[u]}} :
     rows[c[1]][c[2]][p] = id}

----------------------------------------------------------------------------
(* The steps of the operations                                              *)

Idle == [op |-> "idle"]

Init ==
  /\ rows = Initial
  /\ serial = [t \in Tables |-> Cardinality(DOMAIN Initial[t])]
  /\ request = [r \in Requests |-> Idle]
  /\ writes = 0

Begin(r, what) ==
  /\ request[r] = Idle
  /\ request' = [request EXCEPT ![r] = what]
  /\ UNCHANGED <<rows, serial, writes>>

Answer(r) == request' = [request EXCEPT ![r] = Idle]

Commits(newRows) ==
  /\ writes < MaxWrites
  /\ writes' = writes + 1
  /\ rows' = newRows

\* IntegrityError and StaleDataError: the session rolls back.
Refuse(r) == Answer(r) /\ UNCHANGED <<rows, serial, writes>>

\* INSERT with the next id of the sequence.
Insert(t, row) ==
  LET id == serial[t] + 1 IN
  /\ Accepted(t, id, row)
  /\ Commits([rows EXCEPT ![t] = [i \in Ids(t) \cup {id} |-> IF i = id THEN row ELSE @[i]]])
  /\ serial' = [serial EXCEPT ![t] = id]

\* An operation that only inserts: the refusals change nothing.
Create(t) == \E row \in New[t] : Insert(t, row) /\ UNCHANGED request

\* An update reads the row (404 when there is none) and assigns the fields the
\* body gives; the columns whose value differs from the one read are written.
Read(r, t) ==
  \E id \in Ids(t), change \in Changes[t] :
    Begin(r, [op |-> "update", table |-> t, id |-> id, seen |-> rows[t][id],
              set |-> change])

Dirty(q) == {c \in DOMAIN q.set : q.set[c] # q.seen[c]}

\* Only the row of a student carries a version, checked by UPDATE and DELETE.
VersionFence(q) ==
  q.table = "student" => rows.student[q.id].version = q.seen.version

\* Mutant: the statement writes every column of the row as read.
WholeRow(q) ==
  [c \in ColumnsOf(q.table) |->
     CASE c \in Dirty(q) -> q.set[c]
       [] c = "version"  -> q.seen[c] + 1
       [] OTHER          -> q.seen[c]]

\* UPDATE sets the dirty columns of the current row, whatever its others are.
Merged(q) ==
  [c \in ColumnsOf(q.table) |->
     CASE c \in Dirty(q) -> q.set[c]
       [] c = "version"  -> rows[q.table][q.id][c] + 1
       [] OTHER          -> rows[q.table][q.id][c]]

CanUpdate(q) ==
  /\ q.id \in Ids(q.table)
  /\ VersionFence(q)
  /\ Accepted(q.table, q.id, Merged(q))

Write(r, t) ==
  LET q == request[r] IN
  /\ q.op = "update" /\ q.table = t
  /\ \/ Dirty(q) = {} /\ Refuse(r)
     \/ Dirty(q) # {} /\ ~CanUpdate(q) /\ Refuse(r)
     \/ /\ Dirty(q) # {} /\ CanUpdate(q)
        /\ Commits([rows EXCEPT ![t][q.id] = Merged(q)])
        /\ Answer(r)
        /\ UNCHANGED serial

Update(r, t) == Read(r, t) \/ Write(r, t)

\* A delete reads the row, and the flush of its commit loads the rows of the
\* relationships that point to it.
Load(r, t) ==
  \E id \in Ids(t) :
    Begin(r, [op |-> "delete", table |-> t, id |-> id, seen |-> rows[t][id],
              children |-> Children(t, id)])

\* The rows once the flush has set the foreign key of the loaded children to
\* NULL, wherever those rows point by now, and deleted the row itself.
Detached(q) ==
  [t \in Tables |->
     [i \in Ids(t) \ {j \in {q.id} : t = q.table} |->
        IF <<t, i>> \in q.children THEN [rows[t][i] EXCEPT ![q.table] = Null]
        ELSE rows[t][i]]]

\* Mutant: only the rows that were loaded are looked at.
CanDeleteLoaded(q) ==
  /\ \A c \in q.children : <<c[1], q.table>> \in Nullable /\ c[2] \in Ids(c[1])
  /\ q.id \in Ids(q.table) => VersionFence(q)

\* Mutant: every foreign key may be set to NULL.
CanOrphan(q) ==
  /\ \A c \in q.children : c[2] \in Ids(c[1])
  /\ q.id \in Ids(q.table) => VersionFence(q)
  /\ Children(q.table, q.id) \subseteq q.children

\* NOT NULL, a loaded row that is gone, the version of a student and the
\* foreign keys of rows that were not loaded all refuse the delete.
CanDelete(q) ==
  /\ \A c \in q.children : <<c[1], q.table>> \in Nullable /\ c[2] \in Ids(c[1])
  /\ q.id \in Ids(q.table) => VersionFence(q)
  /\ Children(q.table, q.id) \subseteq q.children

Remove(r, t) ==
  LET q == request[r] IN
  /\ q.op = "delete" /\ q.table = t
  /\ \/ ~CanDelete(q) /\ Refuse(r)
     \/ CanDelete(q) /\ Commits(Detached(q)) /\ Answer(r) /\ UNCHANGED serial

Delete(r, t) == Load(r, t) \/ Remove(r, t)

----------------------------------------------------------------------------
(* The operations                                                           *)

CreateCollege    == Create("college")
UpdateCollege(r) == Update(r, "college")
DeleteCollege(r) == Delete(r, "college")

CreateDepartment    == Create("department")
UpdateDepartment(r) == Update(r, "department")
DeleteDepartment(r) == Delete(r, "department")

CreateCourse    == Create("course")
UpdateCourse(r) == Update(r, "course")
DeleteCourse(r) == Delete(r, "course")

CreateTeacher    == Create("teacher")
UpdateTeacher(r) == Update(r, "teacher")
DeleteTeacher(r) == Delete(r, "teacher")

CreateStudent    == Create("student")
UpdateStudent(r) == Update(r, "student")
DeleteStudent(r) == Delete(r, "student")

CreateOffering    == Create("offering")
UpdateOffering(r) == Update(r, "offering")
DeleteOffering(r) == Delete(r, "offering")

InOrder(start, end) == start < end

\* The body is checked in Python before anything is sent to the database.
CreateSchedule ==
  \E row \in New.schedule :
    InOrder(row.start, row.end) /\ Insert("schedule", row) /\ UNCHANGED request

\* So are the times an update would leave, with those it does not give taken
\* from the row as read; the write is then free to meet another row.
ReadSchedule(r) ==
  \E id \in Ids("schedule"), change \in Changes.schedule :
    LET seen == rows.schedule[id]
        Left(c) == IF c \in DOMAIN change THEN change[c] ELSE seen[c]
    IN /\ InOrder(Left("start"), Left("end"))
       /\ Begin(r, [op |-> "update", table |-> "schedule", id |-> id, seen |-> seen,
                    set |-> change])

UpdateSchedule(r) == ReadSchedule(r) \/ Write(r, "schedule")
DeleteSchedule(r) == Delete(r, "schedule")

\* The four SELECTs before the INSERT.  The INSERT decides each of their
\* questions again, so that they are put in one step loses nothing.
CheckEnrollment(r) ==
  \E row \in New.enrollment :
    /\ row.student \in Ids("student")
    /\ row.offering \in Ids("offering")
    /\ \A e \in Ids("enrollment") :
         /\ ~Clash({"student", "offering"}, row, rows.enrollment[e])
         /\ row.key # rows.enrollment[e].key
    /\ Begin(r, [op |-> "create", table |-> "enrollment", row |-> row])

InsertEnrollment(r) ==
  LET q == request[r] IN
  /\ q.op = "create"
  /\ Answer(r)
  /\ \/ Insert("enrollment", q.row)
     \/ /\ ~Accepted("enrollment", serial.enrollment + 1, q.row)
        /\ UNCHANGED <<rows, serial, writes>>

CreateEnrollment(r) == CheckEnrollment(r) \/ InsertEnrollment(r)
UpdateEnrollment(r) == Update(r, "enrollment")
DeleteEnrollment(r) == Delete(r, "enrollment")

\* The database fails, or the handler dies, before the commit.
Abort(r) == request[r] # Idle /\ Refuse(r)

Next ==
  \/ CreateCollege \/ CreateDepartment \/ CreateCourse \/ CreateTeacher
  \/ CreateStudent \/ CreateOffering \/ CreateSchedule
  \/ \E r \in Requests :
       \/ UpdateCollege(r)    \/ DeleteCollege(r)
       \/ UpdateDepartment(r) \/ DeleteDepartment(r)
       \/ UpdateCourse(r)     \/ DeleteCourse(r)
       \/ UpdateTeacher(r)    \/ DeleteTeacher(r)
       \/ UpdateStudent(r)    \/ DeleteStudent(r)
       \/ UpdateOffering(r)   \/ DeleteOffering(r)
       \/ UpdateSchedule(r)   \/ DeleteSchedule(r)
       \/ CreateEnrollment(r) \/ UpdateEnrollment(r) \/ DeleteEnrollment(r)
       \/ Abort(r)

Spec == Init /\ [][Next]_vars

----------------------------------------------------------------------------
(* Properties                                                               *)

\* Every row has its table's columns, NULL only where the schema allows it,
\* and no id is beyond its sequence; a request belongs to one table.
TypeOK ==
  /\ DOMAIN rows = Tables /\ DOMAIN request = Requests
  /\ serial \in [Tables -> Nat] /\ writes \in 0..MaxWrites
  /\ \A t \in Tables :
       /\ Ids(t) \subseteq 1..serial[t]
       /\ \A id \in Ids(t) : IsRow(t, rows[t][id])
  /\ \A r \in Requests :
       /\ request[r].op \in {"idle", "create", "update", "delete"}
       /\ request[r].op # "idle" => request[r].table \in Tables

\* A delete never leaves a row that points to nothing, however it races with
\* the requests that create children or move them to the row being deleted.
NoDanglingReference ==
  \A t \in Tables : \A id \in Ids(t) : ParentsExist(t, rows[t][id])

\* Two requests that both passed the pre-checks of create_enrollment do not
\* both enroll a student in an offering, nor both use an enrollment code.
EnrolledOnce ==
  \A a, b \in Ids("enrollment") :
    LET x == rows.enrollment[a]
        y == rows.enrollment[b]
    IN a # b => x.key # y.key /\ <<x.student, x.offering>> # <<y.student, y.offering>>

\* An update leaves alone what its body does not mention, whatever it read: it
\* never brings back a column that another request has changed since.  A row
\* changes otherwise only by losing a deleted department.
OnlyAskedColumnsChange ==
  [][\A t \in {u \in Tables : rows'[u] # rows[u]} : \A id \in Ids(t) \cap DOMAIN rows'[t] :
       LET changed == {c \in ColumnsOf(t) : rows'[t][id][c] # rows[t][id][c]} IN
       changed # {} =>
         \E r \in Requests :
           \/ /\ request[r].op = "update"
              /\ request[r].table = t
              /\ request[r].id = id
              /\ changed \subseteq DOMAIN request[r].set \cup {"version"}
           \/ /\ request[r].op = "delete"
              /\ changed = {request[r].table}
              /\ <<t, request[r].table>> \in Nullable]_vars

\* A schedule ends after it starts, also when two updates that each saw an
\* ordered row move its start and its end.
SchedulesRunForward ==
  \A id \in Ids("schedule") : InOrder(rows.schedule[id].start, rows.schedule[id].end)

\* Whoever activates a withdrawn enrollment, or withdraws an active one, has
\* loaded it as it is and turns both flags: if two updates load it while it is
\* neither, and one activates and the other withdraws it, the later one fails.
FlagsTurnTogether ==
  [][\A id \in Ids("enrollment") \cap DOMAIN rows'.enrollment :
       LET before == rows.enrollment[id]
           after  == rows'.enrollment[id]
       IN (before.withdrawn /\ after.active) \/ (before.active /\ after.withdrawn) =>
            \E r \in Requests :
              /\ request[r].op = "update"
              /\ request[r].table = "enrollment"
              /\ request[r].id = id
              /\ \A c \in {"active", "withdrawn"} :
                   /\ c \in DOMAIN request[r].set /\ request[r].set[c] = after[c]
                   /\ request[r].seen[c] = before[c]]_vars

\* A course that belongs to a department is never left without one: no update
\* can clear the column, and "Cannot delete department due to dependent records
\* (teachers, students, courses)" is what the delete answers.
CoursesKeepDepartment ==
  [][\A id \in Ids("course") \cap DOMAIN rows'.course :
       rows.course[id].department # Null => rows'.course[id].department # Null]_vars
=============================================================================
