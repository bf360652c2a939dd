--------------------------- MODULE CatalogueProofs ---------------------------
(* Theorems about Catalogue: from consistent tables, whatever they hold,     *)
(* every reachable state is consistent, for any requests and bodies.         *)
EXTENDS Catalogue, TLAPS

\* Every row satisfies what the database enforces.
Consistent ==
  TypeOK /\ \A t \in Tables : \A id \in Ids(t) : Accepted(t, id, rows[t][id])

LEMMA TablesAre ==
  Tables = {"college", "department", "course", "teacher", "student", "offering",
            "schedule", "enrollment"}
BY DEF Tables, ParentsOf

----------------------------------------------------------------------------
(* What a step does to the rows and to the requests                         *)

\* A request starts, ends, or none does.
RequestStep ==
  \/ UNCHANGED request
  \/ \E r \in Requests : \E what :
       /\ request' = [request EXCEPT ![r] = what]
       /\ what.op \in {"idle", "create", "update", "delete"}
       /\ what.op # "idle" => what.table \in Tables
       /\ what.op = "update" => what.seen \in {rows[what.table][id] : id \in Ids(what.table)}

InsertStep == \E t \in Tables : \E row : Insert(t, row)

UpdateStep ==
  \E r \in Requests :
    LET q == request[r] IN
      /\ q.op = "update" /\ q.table \in Tables /\ CanUpdate(q)
      /\ Commits([rows EXCEPT ![q.table][q.id] = Merged(q)])
      /\ UNCHANGED serial

DeleteStep ==
  \E r \in Requests :
    LET q == request[r] IN
      /\ q.op = "delete" /\ q.table \in Tables /\ CanDelete(q)
      /\ Commits(Detached(q))
      /\ UNCHANGED serial

RowStep ==
  \/ InsertStep
  \/ UpdateStep
  \/ DeleteStep
  \/ UNCHANGED <<rows, serial, writes>>

LEMMA AnswerIsRequestStep ==
  ASSUME NEW r \in Requests, Answer(r)
  PROVE  RequestStep
<1>1. Idle.op = "idle"
  BY DEF Idle
<1>2. request' = [request EXCEPT ![r] = Idle]
  BY DEF Answer
<1> QED
  BY <1>1, <1>2, Zenon DEF RequestStep

LEMMA BeginIsStep ==
  ASSUME NEW r \in Requests, NEW what, Begin(r, what),
         what.op \in {"create", "update", "delete"}, what.table \in Tables,
         what.op = "update" => what.seen \in {rows[what.table][id] : id \in Ids(what.table)}
  PROVE  RequestStep /\ RowStep
BY DEF Begin, RequestStep, RowStep

LEMMA RefuseIsStep ==
  ASSUME NEW r \in Requests, Refuse(r)
  PROVE  RequestStep /\ RowStep
BY AnswerIsRequestStep DEF Refuse, RowStep

LEMMA CreateIsStep ==
  ASSUME NEW t \in Tables, Create(t)
  PROVE  RequestStep /\ RowStep
BY DEF Create, RequestStep, RowStep, InsertStep

LEMMA WriteIsStep ==
  ASSUME NEW r \in Requests, NEW t \in Tables, Write(r, t)
  PROVE  RequestStep /\ RowStep
<1>1. CASE Refuse(r)
  BY <1>1, RefuseIsStep
<1>2. CASE /\ CanUpdate(request[r])
           /\ Commits([rows EXCEPT ![t][request[r].id] = Merged(request[r])])
           /\ Answer(r)
           /\ UNCHANGED serial
  BY <1>2, AnswerIsRequestStep DEF Write, RowStep, UpdateStep
<1> QED
  BY <1>1, <1>2 DEF Write

LEMMA UpdateIsStep ==
  ASSUME NEW r \in Requests, NEW t \in Tables, Update(r, t)
  PROVE  RequestStep /\ RowStep
<1>1. CASE Read(r, t)
  <2>1. PICK what : /\ Begin(r, what) /\ what.op = "update" /\ what.table = t
                    /\ what.seen \in {rows[t][id] : id \in Ids(t)}
    BY <1>1 DEF Read
  <2> QED
    BY <2>1, BeginIsStep
<1> QED
  BY <1>1, WriteIsStep DEF Update

LEMMA DeleteIsStep ==
  ASSUME NEW r \in Requests, NEW t \in Tables, Delete(r, t)
  PROVE  RequestStep /\ RowStep
<1>1. CASE Load(r, t)
  <2>1. PICK what : Begin(r, what) /\ what.op = "delete" /\ what.table = t
    BY <1>1 DEF Load
  <2> QED
    BY <2>1, BeginIsStep
<1>2. CASE Refuse(r)
  BY <1>2, RefuseIsStep
<1>3. CASE Remove(r, t) /\ ~Refuse(r)
  BY <1>3, AnswerIsRequestStep DEF Remove, RowStep, DeleteStep
<1> QED
  BY <1>1, <1>2, <1>3 DEF Delete

LEMMA ScheduleIsStep ==
  ASSUME NEW r \in Requests, UpdateSchedule(r)
  PROVE  RequestStep /\ RowStep
<1>1. CASE ReadSchedule(r)
  <2>1. PICK what : /\ Begin(r, what) /\ what.op = "update" /\ what.table = "schedule"
                    /\ what.seen \in {rows["schedule"][id] : id \in Ids("schedule")}
    BY <1>1 DEF ReadSchedule
  <2> QED
    BY <2>1, BeginIsStep, TablesAre
<1> QED
  BY <1>1, WriteIsStep, TablesAre DEF UpdateSchedule

LEMMA EnrollmentIsStep ==
  ASSUME NEW r \in Requests, CreateEnrollment(r)
  PROVE  RequestStep /\ RowStep
<1>1. CASE CheckEnrollment(r)
  <2>1. PICK what : Begin(r, what) /\ what.op = "create" /\ what.table = "enrollment"
    BY <1>1 DEF CheckEnrollment
  <2> QED
    BY <2>1, BeginIsStep, TablesAre
<1>2. CASE InsertEnrollment(r)
  BY <1>2, AnswerIsRequestStep, TablesAre DEF InsertEnrollment, RowStep, InsertStep
<1> QED
  BY <1>1, <1>2 DEF CreateEnrollment

LEMMA EveryStep ==
  ASSUME Next
  PROVE  RequestStep /\ RowStep
<1>1. ASSUME CreateCollege \/ CreateDepartment \/ CreateCourse \/ CreateTeacher
               \/ CreateStudent \/ CreateOffering
      PROVE  RequestStep /\ RowStep
  BY <1>1, CreateIsStep, TablesAre
     DEF CreateCollege, CreateDepartment, CreateCourse, CreateTeacher, CreateStudent,
         CreateOffering
<1>2. ASSUME CreateSchedule
      PROVE  RequestStep /\ RowStep
  BY <1>2, TablesAre DEF CreateSchedule, RequestStep, RowStep, InsertStep
<1>3. ASSUME NEW r \in Requests,
             \/ UpdateCollege(r) \/ UpdateDepartment(r) \/ UpdateCourse(r) \/ UpdateTeacher(r)
             \/ UpdateStudent(r) \/ UpdateOffering(r) \/ UpdateEnrollment(r)
      PROVE  RequestStep /\ RowStep
  BY <1>3, UpdateIsStep, TablesAre
     DEF UpdateCollege, UpdateDepartment, UpdateCourse, UpdateTeacher, UpdateStudent,
         UpdateOffering, UpdateEnrollment
<1>4. ASSUME NEW r \in Requests,
             \/ DeleteCollege(r) \/ DeleteDepartment(r) \/ DeleteCourse(r) \/ DeleteTeacher(r)
             \/ DeleteStudent(r) \/ DeleteOffering(r) \/ DeleteSchedule(r)
             \/ DeleteEnrollment(r)
      PROVE  RequestStep /\ RowStep
  BY <1>4, DeleteIsStep, TablesAre
     DEF DeleteCollege, DeleteDepartment, DeleteCourse, DeleteTeacher, DeleteStudent,
         DeleteOffering, DeleteSchedule, DeleteEnrollment
<1>5. ASSUME NEW r \in Requests, Abort(r)
      PROVE  RequestStep /\ RowStep
  BY <1>5, RefuseIsStep DEF Abort
<1> QED
  BY <1>1, <1>2, <1>3, <1>4, <1>5, ScheduleIsStep, EnrollmentIsStep DEF Next


----------------------------------------------------------------------------
(* Requests keep their shape                                                *)

RequestsOK ==
  /\ DOMAIN request = Requests
  /\ \A r \in Requests :
       /\ request[r].op \in {"idle", "create", "update", "delete"}
       /\ request[r].op # "idle" => request[r].table \in Tables

LEMMA RequestsStayOK ==
  ASSUME RequestsOK, RequestStep
  PROVE  RequestsOK'
BY DEF RequestsOK, RequestStep

\* The rest of the type invariant and the constraints.
RowsOK ==
  /\ DOMAIN rows = Tables
  /\ serial \in [Tables -> Nat] /\ writes \in 0..MaxWrites
  /\ \A t \in Tables :
       /\ Ids(t) \subseteq 1..serial[t]
       /\ \A id \in Ids(t) : Accepted(t, id, rows[t][id])

LEMMA ConsistentParts == Consistent <=> RowsOK /\ RequestsOK
<1>1. \A t, id, row : Accepted(t, id, row) => IsRow(t, row)
  BY DEF Accepted
<1> QED
  BY <1>1 DEF Consistent, TypeOK, RowsOK, RequestsOK

LEMMA CommitCounts ==
  ASSUME RowsOK, NEW newRows, Commits(newRows)
  PROVE  writes' \in 0..MaxWrites /\ rows' = newRows
BY CatalogueAssumption DEF RowsOK, Commits

\* Two rows clash both ways.
LEMMA ClashSymmetric ==
  ASSUME NEW columns, NEW a, NEW b, Clash(columns, a, b)
  PROVE  Clash(columns, b, a)
BY DEF Clash

----------------------------------------------------------------------------
(* The three kinds of commit                                                *)

LEMMA InsertKeepsRows ==
  ASSUME RowsOK, NEW t \in Tables, NEW row, Insert(t, row)
  PROVE  RowsOK'
<1>0. PICK new : new = serial[t] + 1
  OBVIOUS
<1>1. /\ Accepted(t, new, row)
      /\ rows' = [rows EXCEPT ![t] =
                    [i \in Ids(t) \cup {new} |-> IF i = new THEN row ELSE rows[t][i]]]
      /\ writes' \in 0..MaxWrites
      /\ serial' = [serial EXCEPT ![t] = new]
  BY <1>0, CommitCounts DEF Insert, Commits
<1>2. /\ new \in Nat /\ new \notin Ids(t) /\ serial[t] \in Nat
      /\ \A u \in Tables : serial[u] \in Nat /\ Ids(u) \subseteq 1..serial[u]
  BY <1>0 DEF RowsOK
<1>3. serial' \in [Tables -> Nat]
  BY <1>1, <1>2 DEF RowsOK
<1>4. /\ DOMAIN rows' = Tables
      /\ \A u \in Tables \ {t} : rows'[u] = rows[u]
      /\ Ids(t)' = Ids(t) \cup {new}
      /\ rows'[t][new] = row
      /\ \A i \in Ids(t) : rows'[t][i] = rows[t][i]
  BY <1>1, <1>2 DEF RowsOK, Ids
<1>5. \A u \in Tables : Ids(u) \subseteq Ids(u)'
  BY <1>4 DEF Ids
<1>6. \A u \in Tables : Ids(u)' \subseteq 1..serial'[u]
  <2>1. serial'[t] = serial[t] + 1 /\ \A u \in Tables \ {t} : serial'[u] = serial[u]
    BY <1>0, <1>1 DEF RowsOK
  <2>2. \A u \in Tables \ {t} : Ids(u)' \subseteq 1..serial'[u]
    BY <1>2, <1>4, <2>1 DEF Ids
  <2>3. Ids(t)' \subseteq 1..serial'[t]
    BY <1>0, <1>2, <1>4, <2>1
  <2> QED
    BY <2>2, <2>3
<1>7. \A u \in Tables : \A r : ParentsExist(u, r) => ParentsExist(u, r)'
  <2>1. \A u \in Tables : ParentsOf[u] \subseteq Tables
    BY TablesAre DEF ParentsOf
  <2> QED
    BY <1>5, <2>1 DEF ParentsExist
<1>8. ASSUME NEW u \in Tables, NEW i \in Ids(u)'
      PROVE  Accepted(u, i, rows[u][i])'
  <2>1. CASE u = t /\ i = new
    <3>1. Unique(t, new, row)'
      BY <1>1, <1>2, <1>4 DEF Accepted, Unique
    <3> QED
      BY <1>1, <1>4, <1>7, <2>1, <3>1 DEF Accepted
  <2>2. CASE ~(u = t /\ i = new)
    <3>1. i \in Ids(u) /\ rows'[u][i] = rows[u][i]
      BY <1>4, <1>8, <2>2 DEF Ids
    <3>2. Accepted(u, i, rows[u][i])
      BY <3>1 DEF RowsOK
    <3>3. ASSUME NEW other \in Ids(u)' \ {i}, NEW columns \in UniqueOf[u]
          PROVE  ~Clash(columns, rows[u][i], rows'[u][other])
      <4>1. CASE other \in Ids(u) /\ rows'[u][other] = rows[u][other]
        BY <3>2, <3>3, <4>1 DEF Accepted, Unique
      <4>2. CASE u = t /\ other = new
        <5>1. ~Clash(columns, row, rows[u][i])
          BY <1>1, <1>2, <3>1, <3>3, <4>2 DEF Accepted, Unique
        <5> QED
          BY <1>4, <4>2, <5>1, ClashSymmetric
      <4> QED
        BY <1>4, <3>3, <4>1, <4>2 DEF Ids
    <3>4. Unique(u, i, rows[u][i])'
      BY <3>1, <3>3 DEF Unique
    <3> QED
      BY <1>7, <3>1, <3>2, <3>4 DEF Accepted
  <2> QED
    BY <2>1, <2>2
<1> QED
  BY <1>1, <1>3, <1>4, <1>6, <1>8 DEF RowsOK


LEMMA UpdateKeepsRows ==
  ASSUME RowsOK, UpdateStep
  PROVE  RowsOK'
<1>1. PICK r \in Requests :
        LET q == request[r] IN
          /\ q.op = "update" /\ q.table \in Tables /\ CanUpdate(q)
          /\ Commits([rows EXCEPT ![q.table][q.id] = Merged(q)])
          /\ UNCHANGED serial
  BY DEF UpdateStep
<1>2. PICK t, id, row : t = request[r].table /\ id = request[r].id /\ row = Merged(request[r])
  OBVIOUS
<1>3. /\ t \in Tables /\ id \in Ids(t) /\ Accepted(t, id, row)
      /\ rows' = [rows EXCEPT ![t][id] = row] /\ serial' = serial
      /\ writes' \in 0..MaxWrites
  BY <1>1, <1>2, CommitCounts DEF CanUpdate
<1>4. /\ DOMAIN rows' = Tables
      /\ \A u \in Tables : Ids(u)' = Ids(u)
      /\ rows'[t][id] = row
      /\ \A u \in Tables : \A i \in Ids(u) : u # t \/ i # id => rows'[u][i] = rows[u][i]
  BY <1>3 DEF RowsOK, Ids
<1>5. \A u \in Tables : \A x : ParentsExist(u, x) <=> ParentsExist(u, x)'
  <2>1. \A u \in Tables : ParentsOf[u] \subseteq Tables
    BY TablesAre DEF ParentsOf
  <2> QED
    BY <1>4, <2>1 DEF ParentsExist
<1>6. ASSUME NEW u \in Tables, NEW i \in Ids(u)
      PROVE  Accepted(u, i, rows[u][i])'
  <2>1. CASE u = t /\ i = id
    <3>1. Unique(t, id, row)'
      BY <1>3, <1>4 DEF Accepted, Unique
    <3> QED
      BY <1>3, <1>4, <1>5, <2>1, <3>1 DEF Accepted
  <2>2. CASE ~(u = t /\ i = id)
    <3>1. rows'[u][i] = rows[u][i] /\ Accepted(u, i, rows[u][i])
      BY <1>4, <1>6, <2>2 DEF RowsOK
    <3>2. ASSUME NEW other \in Ids(u) \ {i}, NEW columns \in UniqueOf[u]
          PROVE  ~Clash(columns, rows[u][i], rows'[u][other])
      <4>1. CASE rows'[u][other] = rows[u][other]
        BY <3>1, <3>2, <4>1 DEF Accepted, Unique
      <4>2. CASE u = t /\ other = id
        <5>1. ~Clash(columns, row, rows[u][i])
          BY <1>3, <1>6, <2>2, <3>2, <4>2 DEF Accepted, Unique
        <5> QED
          BY <1>4, <4>2, <5>1, ClashSymmetric
      <4> QED
        BY <1>4, <3>2, <4>1, <4>2
    <3>3. Unique(u, i, rows[u][i])'
      BY <1>4, <3>1, <3>2 DEF Unique
    <3> QED
      BY <1>5, <3>1, <3>3 DEF Accepted
  <2> QED
    BY <2>1, <2>2
<1> QED
  BY <1>3, <1>4, <1>6 DEF RowsOK

\* A row that loses its parent: only courses can, and they stay acceptable.
LEMMA DetachedRow ==
  ASSUME NEW t \in Tables, NEW p, <<t, p>> \in Nullable, NEW row, IsRow(t, row)
  PROVE  /\ IsRow(t, [row EXCEPT ![p] = Null])
         /\ PassesCheck(t, [row EXCEPT ![p] = Null])
         /\ \A c \in ParentsOf[t] : [row EXCEPT ![p] = Null][c] = Null
         /\ \A columns \in UniqueOf[t] : p \in columns /\ [row EXCEPT ![p] = Null][p] = Null
<1>1. t = "course" /\ p = "department"
  BY DEF Nullable
<1>2. ParentsOf["course"] = {"department"}
  BY DEF ParentsOf
<1>3. UniqueOf["course"] = {{"department", "key"}}
  BY DEF UniqueOf
<1>4. ColumnsOf("course") = {"department", "key"}
  BY <1>2 DEF ColumnsOf
<1>5. /\ DOMAIN [row EXCEPT ![p] = Null] = {"department", "key"}
      /\ [row EXCEPT ![p] = Null]["department"] = Null
      /\ [row EXCEPT ![p] = Null]["key"] = row["key"]
  BY <1>1, <1>4 DEF IsRow
<1>6. Null \in Domain("course", "department")
  BY <1>1 DEF Domain
<1>7. IsRow(t, [row EXCEPT ![p] = Null])
  BY <1>1, <1>4, <1>5, <1>6 DEF IsRow
<1>8. PassesCheck(t, [row EXCEPT ![p] = Null])
  BY <1>1 DEF PassesCheck
<1> QED
  BY <1>1, <1>2, <1>3, <1>5, <1>7, <1>8

LEMMA DeleteKeepsRows ==
  ASSUME RowsOK, DeleteStep
  PROVE  RowsOK'
<1>1. PICK r \in Requests :
        LET q == request[r] IN
          /\ q.op = "delete" /\ q.table \in Tables /\ CanDelete(q)
          /\ Commits(Detached(q))
          /\ UNCHANGED serial
  BY DEF DeleteStep
<1>2. PICK p, id, children :
        p = request[r].table /\ id = request[r].id /\ children = request[r].children
  OBVIOUS
<1>3. /\ p \in Tables
      /\ \A c \in children : <<c[1], p>> \in Nullable
      /\ Children(p, id) \subseteq children
  BY <1>1, <1>2 DEF CanDelete
<1>4. /\ writes' \in 0..MaxWrites /\ serial' = serial
      /\ rows' = [t \in Tables |->
                    [i \in Ids(t) \ {j \in {id} : t = p} |->
                       IF <<t, i>> \in children THEN [rows[t][i] EXCEPT ![p] = Null]
                       ELSE rows[t][i]]]
  BY <1>1, <1>2, CommitCounts DEF Detached
<1>5. /\ DOMAIN rows' = Tables
      /\ \A t \in Tables : Ids(t)' = Ids(t) \ {j \in {id} : t = p}
      /\ \A t \in Tables : \A i \in Ids(t)' : i \in Ids(t) /\
           rows'[t][i] = IF <<t, i>> \in children THEN [rows[t][i] EXCEPT ![p] = Null]
                         ELSE rows[t][i]
  BY <1>4 DEF Ids
<1>6. \A t \in Tables : \A i \in Ids(t) : <<t, i>> \in children => <<t, p>> \in Nullable
  BY <1>3
<1>7. ASSUME NEW t \in Tables, NEW i \in Ids(t)'
      PROVE  Accepted(t, i, rows[t][i])'
  <2>1. i \in Ids(t) /\ Accepted(t, i, rows[t][i])
    BY <1>5, <1>7 DEF RowsOK
  <2>2. CASE <<t, i>> \in children
    <3>1. <<t, p>> \in Nullable /\ IsRow(t, rows[t][i])
      BY <1>6, <2>1, <2>2 DEF Accepted
    <3>2. rows'[t][i] = [rows[t][i] EXCEPT ![p] = Null]
      BY <1>5, <1>7, <2>2
    <3>3. /\ IsRow(t, rows'[t][i]) /\ PassesCheck(t, rows'[t][i])
          /\ \A c \in ParentsOf[t] : rows'[t][i][c] = Null
          /\ \A columns \in UniqueOf[t] : p \in columns /\ rows'[t][i][p] = Null
      BY <3>1, <3>2, DetachedRow
    <3>4. ParentsExist(t, rows[t][i])'
      BY <3>3 DEF ParentsExist
    <3>5. Unique(t, i, rows[t][i])'
      BY <3>3 DEF Unique, Clash
    <3> QED
      BY <3>3, <3>4, <3>5 DEF Accepted
  <2>3. CASE <<t, i>> \notin children
    <3>1. rows'[t][i] = rows[t][i]
      BY <1>5, <1>7, <2>3
    <3>2. p \in ParentsOf[t] => rows[t][i][p] # id
      <4>1. <<t, i>> \notin Children(p, id)
        BY <1>3, <2>3
      <4> QED
        BY <2>1, <4>1 DEF Children
    <3>3. ParentsExist(t, rows[t][i])'
      <4>1. ParentsOf[t] \subseteq Tables
        BY TablesAre DEF ParentsOf
      <4>2. \A c \in ParentsOf[t] : rows[t][i][c] # Null => rows[t][i][c] \in Ids(c)
        BY <2>1 DEF Accepted, ParentsExist
      <4> QED
        BY <1>5, <3>1, <3>2, <4>1, <4>2 DEF ParentsExist
    <3>4. ASSUME NEW other \in Ids(t)' \ {i}, NEW columns \in UniqueOf[t]
          PROVE  ~Clash(columns, rows'[t][i], rows'[t][other])
      <4>1. other \in Ids(t)
        BY <1>5, <3>4
      <4>2. CASE <<t, other>> \notin children
        BY <1>5, <2>1, <3>1, <3>4, <4>1, <4>2 DEF Accepted, Unique
      <4>3. CASE <<t, other>> \in children
        <5>1. <<t, p>> \in Nullable /\ IsRow(t, rows[t][other])
          BY <1>6, <4>1, <4>3 DEF RowsOK, Accepted
        <5>2. rows'[t][other] = [rows[t][other] EXCEPT ![p] = Null]
          BY <1>5, <3>4, <4>3
        <5>3. p \in columns /\ rows'[t][other][p] = Null
          BY <5>1, <5>2, DetachedRow, <3>4
        <5> QED
          BY <5>3 DEF Clash
      <4> QED
        BY <4>2, <4>3
    <3>5. Unique(t, i, rows[t][i])'
      BY <3>4 DEF Unique
    <3> QED
      BY <2>1, <3>1, <3>3, <3>5 DEF Accepted
  <2> QED
    BY <2>2, <2>3
<1>8. \A t \in Tables : Ids(t)' \subseteq 1..serial'[t]
  BY <1>4, <1>5 DEF RowsOK
<1>9. serial' \in [Tables -> Nat]
  BY <1>4 DEF RowsOK
<1> QED
  BY <1>4, <1>5, <1>7, <1>8, <1>9 DEF RowsOK


----------------------------------------------------------------------------
(* The theorems                                                             *)

LEMMA ConsistentStep == Consistent /\ [Next]_vars => Consistent'
<1> SUFFICES ASSUME RowsOK, RequestsOK, [Next]_vars PROVE RowsOK' /\ RequestsOK'
  BY ConsistentParts, PTL
<1>1. CASE UNCHANGED vars
  BY <1>1 DEF vars, RowsOK, RequestsOK, Ids, Accepted, ParentsExist, Unique
<1>2. CASE Next
  <2>1. RequestsOK'
    BY <1>2, EveryStep, RequestsStayOK
  <2>2. ASSUME UNCHANGED <<rows, serial, writes>>
        PROVE  RowsOK'
    BY <2>2 DEF RowsOK, Ids, Accepted, ParentsExist, Unique
  <2>3. RowsOK'
    BY <1>2, <2>2, EveryStep, InsertKeepsRows, UpdateKeepsRows, DeleteKeepsRows
       DEF RowStep, InsertStep
  <2> QED
    BY <2>1, <2>3
<1> QED
  BY <1>1, <1>2

\* Tables that are consistent at the start stay consistent.
THEOREM TablesStayConsistent == Spec /\ Consistent => []Consistent
BY ConsistentStep, PTL DEF Spec

\* Whatever the operations write, the rows keep their columns and domains.
THEOREM CatalogueTypeCorrect == Spec /\ Consistent => []TypeOK
<1>1. Consistent => TypeOK
  BY DEF Consistent
<1> QED
  BY <1>1, TablesStayConsistent, PTL

\* No delete, insert or move, in whatever order, leaves a row that points to
\* nothing.
THEOREM ReferencesStayWhole == Spec /\ Consistent => []NoDanglingReference
<1>1. Consistent => NoDanglingReference
  BY DEF Consistent, Accepted, NoDanglingReference
<1> QED
  BY <1>1, TablesStayConsistent, PTL

\* A student is enrolled once in an offering, and a code is used once.
THEOREM EnrolledOnlyOnce == Spec /\ Consistent => []EnrolledOnce
<1>1. ASSUME Consistent, NEW a \in Ids("enrollment"), NEW b \in Ids("enrollment"), a # b
      PROVE  LET x == rows.enrollment[a]
                 y == rows.enrollment[b]
             IN x.key # y.key /\ <<x.student, x.offering>> # <<y.student, y.offering>>
  <2> DEFINE x == rows["enrollment"][a]
             y == rows["enrollment"][b]
  <2>1. Accepted("enrollment", a, x) /\ Accepted("enrollment", b, y)
    BY <1>1, TablesAre DEF Consistent
  <2>2. UniqueOf["enrollment"] = {{"student", "offering"}, {"key"}}
    BY DEF UniqueOf
  <2>3. ~Clash({"student", "offering"}, x, y) /\ ~Clash({"key"}, x, y)
    BY <1>1, <2>1, <2>2 DEF Accepted, Unique
  <2>4. {"student", "offering", "key"} \subseteq ColumnsOf("enrollment")
    BY DEF ColumnsOf, ParentsOf
  <2>5. /\ x["key"] \in Domain("enrollment", "key")
        /\ x["student"] \in Domain("enrollment", "student")
        /\ x["offering"] \in Domain("enrollment", "offering")
    BY <2>1, <2>4 DEF Accepted, IsRow
  <2>6. x["key"] # Null /\ x["student"] # Null /\ x["offering"] # Null
    BY <2>5, CatalogueAssumption DEF Domain, Nullable
  <2>7. x["key"] # y["key"]
    BY <2>3, <2>6 DEF Clash
  <2>8. x["student"] # y["student"] \/ x["offering"] # y["offering"]
    BY <2>3, <2>6 DEF Clash
  <2> QED
    BY <2>7, <2>8
<1>2. Consistent => EnrolledOnce
  BY <1>1 DEF EnrolledOnce
<1> QED
  BY <1>2, TablesStayConsistent, PTL

\* A schedule ends after it starts, whoever moved its two ends.
THEOREM SchedulesAlwaysRunForward == Spec /\ Consistent => []SchedulesRunForward
<1>1. ASSUME Consistent, NEW id \in Ids("schedule")
      PROVE  InOrder(rows.schedule[id].start, rows.schedule[id].end)
  <2> DEFINE row == rows["schedule"][id]
  <2>1. Accepted("schedule", id, row)
    BY <1>1, TablesAre DEF Consistent
  <2>2. {"start", "end"} \subseteq ColumnsOf("schedule")
    BY DEF ColumnsOf
  <2>3. row["start"] \in Domain("schedule", "start") /\ row["end"] \in Domain("schedule", "end")
    BY <2>1, <2>2 DEF Accepted, IsRow
  <2>4. row["start"] \in Nat /\ row["end"] \in Nat
    BY <2>3, CatalogueAssumption DEF Domain
  <2>5. row["end"] > row["start"]
    BY <2>1 DEF Accepted, PassesCheck
  <2> QED
    BY <2>4, <2>5 DEF InOrder
<1>2. Consistent => SchedulesRunForward
  BY <1>1 DEF SchedulesRunForward
<1> QED
  BY <1>2, TablesStayConsistent, PTL

----------------------------------------------------------------------------
(* Nothing is written back                                                  *)

\* The columns of a row that a step changes.
Changed(t, id) == {c \in ColumnsOf(t) : rows'[t][id][c] # rows[t][id][c]}

\* A request that explains them.
Explained(t, id) ==
  \E r \in Requests :
    \/ /\ request[r].op = "update"
       /\ request[r].table = t
       /\ request[r].id = id
       /\ Changed(t, id) \subseteq DOMAIN request[r].set \cup {"version"}
    \/ /\ request[r].op = "delete"
       /\ Changed(t, id) = {request[r].table}
       /\ <<t, request[r].table>> \in Nullable

LEMMA ChangesAreAsked ==
  ASSUME RowsOK, RowStep, NEW t \in Tables, NEW id \in Ids(t) \cap DOMAIN rows'[t],
         Changed(t, id) # {}
  PROVE  Explained(t, id)
<1>1. ASSUME NEW u \in Tables, NEW row, Insert(u, row)
      PROVE  Changed(t, id) = {}
  <2>1. rows' = [rows EXCEPT ![u] =
                   [i \in Ids(u) \cup {serial[u] + 1} |->
                      IF i = serial[u] + 1 THEN row ELSE rows[u][i]]]
    BY <1>1 DEF Insert, Commits
  <2>2. Ids(u) \subseteq 1..serial[u] /\ serial[u] \in Nat
    BY DEF RowsOK
  <2>3. serial[u] + 1 \notin Ids(u)
    BY <2>2
  <2>4. rows'[t][id] = rows[t][id]
    BY <2>1, <2>3 DEF RowsOK, Ids
  <2> QED
    BY <2>4 DEF Changed
<1>2. CASE UpdateStep
  <2>1. PICK r \in Requests :
          LET q == request[r] IN
            /\ q.op = "update" /\ q.table \in Tables /\ CanUpdate(q)
            /\ rows' = [rows EXCEPT ![q.table][q.id] = Merged(q)]
    BY <1>2 DEF UpdateStep, Commits
  <2>2. t = request[r].table /\ id = request[r].id
    BY <2>1 DEF Changed, RowsOK, Ids, CanUpdate
  <2>3. rows'[t][id] = Merged(request[r])
    BY <2>1, <2>2 DEF RowsOK, Ids
  <2>4. \A c \in ColumnsOf(t) : c \notin Dirty(request[r]) /\ c # "version" =>
          rows'[t][id][c] = rows[t][id][c]
    BY <2>2, <2>3 DEF Merged
  <2>5. Changed(t, id) \subseteq DOMAIN request[r].set \cup {"version"}
    BY <2>4 DEF Changed, Dirty
  <2> QED
    BY <2>1, <2>2, <2>5 DEF Explained
<1>3. CASE DeleteStep
  <2>1. PICK r \in Requests :
          LET q == request[r] IN
            /\ q.op = "delete" /\ q.table \in Tables /\ CanDelete(q)
            /\ rows' = Detached(q)
    BY <1>3 DEF DeleteStep, Commits
  <2> DEFINE p == request[r].table
  <2>2. rows'[t][id] = IF <<t, id>> \in request[r].children
                         THEN [rows[t][id] EXCEPT ![p] = Null] ELSE rows[t][id]
    BY <2>1 DEF Detached, Ids
  <2>3. <<t, id>> \in request[r].children
    BY <2>2 DEF Changed
  <2>4. <<t, p>> \in Nullable
    BY <2>1, <2>3 DEF CanDelete
  <2>5. \A c \in ColumnsOf(t) : c # p => rows'[t][id][c] = rows[t][id][c]
    BY <2>2, <2>3
  <2>6. Changed(t, id) = {p}
    BY <2>5 DEF Changed
  <2> QED
    BY <2>1, <2>4, <2>6 DEF Explained
<1>4. CASE UNCHANGED <<rows, serial, writes>>
  BY <1>4 DEF Changed
<1> QED
  BY <1>1, <1>2, <1>3, <1>4 DEF RowStep, InsertStep

\* An update changes the columns of its body in the row of its path, and a
\* delete the one it takes from the children of the deleted row.
THEOREM OnlyAskedIsWritten == Spec /\ Consistent => OnlyAskedColumnsChange
<1>1. ASSUME RowsOK, [Next]_vars, NEW t \in {u \in Tables : rows'[u] # rows[u]},
             NEW id \in Ids(t) \cap DOMAIN rows'[t], Changed(t, id) # {}
      PROVE  Explained(t, id)
  <2>1. CASE Next
    BY <1>1, <2>1, EveryStep, ChangesAreAsked
  <2>2. CASE UNCHANGED vars
    BY <1>1, <2>2 DEF vars
  <2> QED
    BY <1>1, <2>1, <2>2
<1>2. Consistent /\ [Next]_vars =>
        [\A t \in {u \in Tables : rows'[u] # rows[u]} : \A id \in Ids(t) \cap DOMAIN rows'[t] :
           LET changed == {c \in ColumnsOf(t) : rows'[t][id][c] # rows[t][id][c]} IN
           changed # {} =>
             \E r \in Requests :
               \/ /\ request[r].op = "update"
                  /\ request[r].table = t
                  /\ request[r].id = id
                  /\ changed \subseteq DOMAIN request[r].set \cup {"version"}
               \/ /\ request[r].op = "delete"
                  /\ changed = {request[r].table}
                  /\ <<t, request[r].table>> \in Nullable]_vars
  BY <1>1, ConsistentParts DEF Changed, Explained
<1> QED
  BY <1>2, TablesStayConsistent, PTL DEF Spec, OnlyAskedColumnsChange

----------------------------------------------------------------------------
(* The flags of an enrollment                                               *)

\* What an update has loaded is, or was, a row of its table.
SeenOK ==
  \A r \in Requests : request[r].op = "update" => IsRow(request[r].table, request[r].seen)

LEMMA SeenStaysOK ==
  ASSUME RowsOK, RequestsOK, SeenOK, RequestStep
  PROVE  SeenOK'
<1>1. CASE UNCHANGED request
  BY <1>1 DEF SeenOK, IsRow
<1>2. ASSUME NEW r \in Requests, NEW what, request' = [request EXCEPT ![r] = what],
             what.op # "idle" => what.table \in Tables,
             what.op = "update" => what.seen \in {rows[what.table][id] : id \in Ids(what.table)}
      PROVE  SeenOK'
  <2>1. what.op = "update" => IsRow(what.table, what.seen)
    BY <1>2 DEF RowsOK, Accepted
  <2>2. \A q \in Requests : request'[q] = IF q = r THEN what ELSE request[q]
    BY <1>2 DEF RequestsOK
  <2> QED
    BY <2>1, <2>2 DEF SeenOK, IsRow
<1> QED
  BY <1>1, <1>2 DEF RequestStep

LEMMA SeenStep == Consistent /\ SeenOK /\ [Next]_vars => SeenOK'
<1> SUFFICES ASSUME RowsOK, RequestsOK, SeenOK, [Next]_vars PROVE SeenOK'
  BY ConsistentParts
<1>1. CASE UNCHANGED vars
  BY <1>1 DEF vars, SeenOK, IsRow
<1>2. CASE Next
  BY <1>2, EveryStep, SeenStaysOK
<1> QED
  BY <1>1, <1>2

\* The flags of a row that the constraints hold of.
LEMMA FlagsOf ==
  ASSUME NEW row, IsRow("enrollment", row)
  PROVE  row.active \in BOOLEAN /\ row.withdrawn \in BOOLEAN
<1>1. {"active", "withdrawn"} \subseteq ColumnsOf("enrollment")
  BY DEF ColumnsOf
<1>2. Domain("enrollment", "active") = BOOLEAN /\ Domain("enrollment", "withdrawn") = BOOLEAN
  BY DEF Domain
<1> QED
  BY <1>1, <1>2 DEF IsRow

LEMMA EnrollmentRow ==
  ASSUME RowsOK, NEW id \in Ids("enrollment")
  PROVE  /\ rows.enrollment[id].active \in BOOLEAN /\ rows.enrollment[id].withdrawn \in BOOLEAN
         /\ ~(rows.enrollment[id].active /\ rows.enrollment[id].withdrawn)
<1>1. Accepted("enrollment", id, rows["enrollment"][id])
  BY TablesAre DEF RowsOK
<1> QED
  BY <1>1, FlagsOf DEF Accepted, PassesCheck

\* A request that turns both flags of an enrollment from what they are.
TurnsFlags(id, before, after) ==
  \E r \in Requests :
    /\ request[r].op = "update"
    /\ request[r].table = "enrollment"
    /\ request[r].id = id
    /\ \A c \in {"active", "withdrawn"} :
         /\ c \in DOMAIN request[r].set /\ request[r].set[c] = after[c]
         /\ request[r].seen[c] = before[c]

LEMMA FlagsAreTurned ==
  ASSUME RowsOK, RowsOK', SeenOK, RowStep, NEW id \in Ids("enrollment"),
         id \in DOMAIN rows'.enrollment,
         NEW before, NEW after, before = rows.enrollment[id], after = rows'.enrollment[id],
         (before.withdrawn /\ after.active) \/ (before.active /\ after.withdrawn)
  PROVE  TurnsFlags(id, before, after)
<1>1. /\ before.active \in BOOLEAN /\ before.withdrawn \in BOOLEAN
      /\ ~(before.active /\ before.withdrawn)
  BY EnrollmentRow
<1>2. /\ after.active \in BOOLEAN /\ after.withdrawn \in BOOLEAN
      /\ ~(after.active /\ after.withdrawn)
  <2>1. Accepted("enrollment", id, rows["enrollment"][id])'
    BY TablesAre DEF RowsOK, Ids
  <2> QED
    BY <2>1, FlagsOf DEF Accepted, PassesCheck, IsRow
<1>3. before.active # after.active /\ before.withdrawn # after.withdrawn
  BY <1>1, <1>2
<1>4. {"active", "withdrawn"} \subseteq Changed("enrollment", id)
  BY <1>3 DEF Changed, ColumnsOf
<1>5. PICK r \in Requests :
        LET q == request[r] IN
          /\ q.op = "update" /\ q.table \in Tables /\ CanUpdate(q)
          /\ rows' = [rows EXCEPT ![q.table][q.id] = Merged(q)]
  <2>1. CASE UpdateStep
    BY <2>1 DEF UpdateStep, Commits
  <2>2. ASSUME NEW u \in Tables, NEW row, Insert(u, row)
        PROVE  FALSE
    <3>1. after = before
      <4>1. rows' = [rows EXCEPT ![u] =
                       [i \in Ids(u) \cup {serial[u] + 1} |->
                          IF i = serial[u] + 1 THEN row ELSE rows[u][i]]]
        BY <2>2 DEF Insert, Commits
      <4>2. Ids(u) \subseteq 1..serial[u] /\ serial[u] \in Nat
        BY DEF RowsOK
      <4>3. serial[u] + 1 \notin Ids(u)
        BY <4>2
      <4> QED
        BY <4>1, <4>3, TablesAre DEF RowsOK, Ids
    <3> QED
      BY <3>1, <1>3
  <2>3. CASE DeleteStep
    <3>1. PICK r \in Requests : request[r].table \in Tables /\ rows' = Detached(request[r])
      BY <2>3 DEF DeleteStep, Commits
    <3>2. request[r].table \notin {"active", "withdrawn"}
      BY <3>1, TablesAre
    <3>3. id \in DOMAIN Detached(request[r])["enrollment"]
      BY <3>1
    <3>4. id \in Ids("enrollment") \ {j \in {request[r].id} : "enrollment" = request[r].table}
      BY <3>3, TablesAre DEF Detached
    <3>5. rows'["enrollment"][id] =
            IF <<"enrollment", id>> \in request[r].children
              THEN [rows["enrollment"][id] EXCEPT ![request[r].table] = Null]
              ELSE rows["enrollment"][id]
      BY <3>1, <3>4, TablesAre DEF Detached
    <3>6. "active" \in DOMAIN before
      BY TablesAre DEF RowsOK, Accepted, IsRow, ColumnsOf
    <3>7. after.active = before.active
      BY <3>2, <3>5, <3>6
    <3> QED
      BY <3>7, <1>3
  <2>4. CASE UNCHANGED <<rows, serial, writes>>
    BY <2>4, <1>3
  <2> QED
    BY <2>1, <2>2, <2>3, <2>4 DEF RowStep, InsertStep
<1>6. request[r].table = "enrollment" /\ request[r].id = id
  BY <1>3, <1>5 DEF RowsOK, Ids, CanUpdate
<1>7. after = Merged(request[r])
  BY <1>5, <1>6, TablesAre DEF RowsOK, Ids
<1>8. ASSUME NEW c \in {"active", "withdrawn"}
      PROVE  c \in Dirty(request[r]) /\ request[r].set[c] = after[c]
  <2>1. c \in ColumnsOf("enrollment") /\ c # "version"
    BY DEF ColumnsOf
  <2>2. after[c] # before[c]
    BY <1>3
  <2> QED
    BY <1>6, <1>7, <2>1, <2>2 DEF Merged
<1>9. request[r].seen.active \in BOOLEAN /\ request[r].seen.withdrawn \in BOOLEAN
  BY <1>5, <1>6, FlagsOf DEF SeenOK
<1>10. \A c \in {"active", "withdrawn"} :
         /\ c \in DOMAIN request[r].set /\ request[r].set[c] = after[c]
         /\ request[r].seen[c] = before[c]
  BY <1>1, <1>2, <1>3, <1>8, <1>9 DEF Dirty
<1> QED
  BY <1>5, <1>6, <1>10 DEF TurnsFlags

\* An enrollment passes from withdrawn to active, or back, only by a request
\* that loaded it as it is and turns both flags.
THEOREM FlagsAreTurnedTogether == Spec /\ Consistent => FlagsTurnTogether
<1>1. Init => SeenOK
  BY DEF Init, SeenOK, Idle
<1>2. ASSUME RowsOK, RowsOK', SeenOK, [Next]_vars, NEW id \in Ids("enrollment"),
             id \in DOMAIN rows'.enrollment,
             NEW before, NEW after, before = rows.enrollment[id], after = rows'.enrollment[id],
             (before.withdrawn /\ after.active) \/ (before.active /\ after.withdrawn)
      PROVE  TurnsFlags(id, before, after)
  <2>1. CASE Next
    BY <1>2, <2>1, EveryStep, FlagsAreTurned
  <2>2. CASE UNCHANGED vars
    BY <1>2, <2>2, EnrollmentRow DEF vars
  <2> QED
    BY <1>2, <2>1, <2>2
<1>3. Consistent /\ Consistent' /\ SeenOK /\ [Next]_vars =>
        [\A id \in Ids("enrollment") \cap DOMAIN rows'.enrollment :
           LET before == rows.enrollment[id]
               after  == rows'.enrollment[id]
           IN (before.withdrawn /\ after.active) \/ (before.active /\ after.withdrawn) =>
                \E r \in Requests :
                  /\ request[r].op = "update"
                  /\ request[r].table = "enrollment"
                  /\ request[r].id = id
                  /\ \A c \in {"active", "withdrawn"} :
                       /\ c \in DOMAIN request[r].set /\ request[r].set[c] = after[c]
                       /\ request[r].seen[c] = before[c]]_vars
  <2>1. Consistent /\ Consistent' => RowsOK /\ RowsOK'
    BY ConsistentParts, PTL
  <2>2. ASSUME RowsOK, RowsOK', SeenOK, [Next]_vars,
               NEW id \in Ids("enrollment") \cap DOMAIN rows'.enrollment,
               \/ rows.enrollment[id].withdrawn /\ rows'.enrollment[id].active
               \/ rows.enrollment[id].active /\ rows'.enrollment[id].withdrawn
        PROVE  TurnsFlags(id, rows.enrollment[id], rows'.enrollment[id])
    BY <1>2, <2>2
  <2> QED
    BY <2>1, <2>2 DEF TurnsFlags
<1> QED
  BY <1>1, <1>3, SeenStep, TablesStayConsistent, PTL DEF Spec, FlagsTurnTogether

=============================================================================
