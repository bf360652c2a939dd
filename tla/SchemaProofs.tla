---------------------------- MODULE SchemaProofs ----------------------------
(* The chain of migrations, whatever the rows: what it leaves in the         *)
(* database is what the models declare and what Catalogue takes for granted. *)
EXTENDS CatalogueSchema, CatalogueProofs, GradesProofs

----------------------------------------------------------------------------
(* The recursion over the migrations                                        *)

LEMMA TwelveMigrations == Len(Migrations) = 12
BY DEF Migrations

LEMMA MigrationsAre ==
  /\ Migrations[1] = AddTeacherStudentAndCourseSchedule
  /\ Migrations[2] = SyncModelsWithDatabase
  /\ Migrations[3] = AddUserTable
  /\ Migrations[4] = FixEnrollmentCodeColumn
  /\ Migrations[5] = AddUserIdToStudent
  /\ Migrations[6] = MakeStudentAgeNullable
  /\ Migrations[7] = AddVersionIdToStudent
  /\ Migrations[8] = CreateJobAndReportTables
  /\ Migrations[9] = AddJobWorkerToken
  /\ Migrations[10] = RedesignReportJobQueue
  /\ Migrations[11] = AddTokenVersionToUser
  /\ Migrations[12] = AddDbCheckConstraints
BY DEF Migrations

Step(f, n) == IF n = 0 THEN {} ELSE Upgraded(f[n - 1], Migrations[n])

LEMMA SchemaAfterIs ==
  \A n \in 0..12 : SchemaAfter[n] = Step(SchemaAfter, n)
<1> DEFINE Fits(n, f) == f = [i \in 0..n |-> Step(f, i)]
           Bad == {n \in Nat : ~\E f : Fits(n, f)}
<1>1. Bad = {}
  <2> SUFFICES ASSUME Bad # {} PROVE FALSE
    OBVIOUS
  <2>1. PICK n \in Bad : \A m \in Bad : n <= m
    <3>1. Bad \subseteq Nat
      OBVIOUS
    <3> HIDE DEF Bad
    <3> QED
      BY <3>1, LeastNumber
  <2>2. CASE n = 0
    <3> DEFINE f == [i \in 0..0 |-> {}]
    <3>1. Fits(0, f)
      BY DEF Step
    <3> QED
      BY <2>1, <2>2, <3>1
  <2>3. CASE n # 0
    <3>1. n - 1 \in Nat /\ n - 1 \notin Bad
      <4>1. n \in Nat
        OBVIOUS
      <4> HIDE DEF Bad
      <4> QED
        BY <2>1, <2>3, <4>1
    <3>2. PICK old : Fits(n - 1, old)
      BY <3>1
    <3> DEFINE f == [i \in 0..n |-> Step(old, i)]
    <3>3. ASSUME NEW i \in 0..(n - 1) PROVE f[i] = old[i]
      BY <3>1, <3>2, <3>3
    <3>4. ASSUME NEW i \in 0..n PROVE Step(old, i) = Step(f, i)
      <4> HIDE DEF f
      <4>1. i # 0 => i - 1 \in 0..(n - 1)
        BY <3>1
      <4> QED
        BY <3>3, <4>1 DEF Step
    <3>5. Fits(n, f)
      BY <3>4
    <3> QED
      BY <2>1, <3>5
  <2> QED
    BY <2>2, <2>3
<1>2. PICK f : Fits(12, f)
  BY <1>1
<1>3. SchemaAfter = CHOOSE g : g = [i \in 0..12 |-> Step(g, i)]
  BY TwelveMigrations DEF SchemaAfter, Step
<1>4. SchemaAfter = [i \in 0..12 |-> Step(SchemaAfter, i)]
  BY <1>2, <1>3
<1> QED
  BY <1>4

LEMMA AtHeadIs == AtHead = SchemaAfter[12]
BY TwelveMigrations DEF AtHead

----------------------------------------------------------------------------
(* What stays and what goes                                                 *)

Drops ==
  {UniqueKey("enrollment", {"enrollment_code"}),
   UniqueKey("enrollment", {"student_id", "course_offering_id"}),
   Required("course", "department_id"), Required("student", "age")}

DroppedColumns ==
  {<<"course_schedule", "day_of_week">>, <<"enrollment", "enrollment_code">>,
   <<"enrollment", "cenrollment_code">>}

\* No migration takes the fact away.
Safe(f) == f \notin Drops /\ \A c \in f[3] : <<f[2], c>> \notin DroppedColumns

LEMMA DropsAre ==
  ASSUME NEW n \in 1..12
  PROVE  Migrations[n].drop \subseteq Drops /\ Migrations[n].dropped \subseteq DroppedColumns
<1>1. \/ n = 1 \/ n = 2 \/ n = 3 \/ n = 4 \/ n = 5 \/ n = 6 \/ n = 7 \/ n = 8 \/ n = 9
      \/ n = 10 \/ n = 11 \/ n = 12
  OBVIOUS
<1>2. CASE n \notin {3, 4, 6}
  BY <1>1, <1>2, MigrationsAre
     DEF AddTeacherStudentAndCourseSchedule, SyncModelsWithDatabase, AddUserIdToStudent,
         AddVersionIdToStudent, CreateJobAndReportTables, AddJobWorkerToken,
         RedesignReportJobQueue, AddTokenVersionToUser, AddDbCheckConstraints, DroppedColumns
<1>3. CASE n = 3
  BY <1>3, MigrationsAre DEF AddUserTable, Drops, DroppedColumns
<1>4. CASE n = 4
  BY <1>4, MigrationsAre DEF FixEnrollmentCodeColumn, Drops, DroppedColumns
<1>5. CASE n = 6
  BY <1>5, MigrationsAre DEF MakeStudentAgeNullable, Drops
<1> QED
  BY <1>2, <1>3, <1>4, <1>5

LEMMA LaterDrops ==
  ASSUME NEW n \in 5..12
  PROVE  Migrations[n].drop \subseteq {Required("student", "age")} /\ Migrations[n].dropped = {}
<1>1. \/ n = 5 \/ n = 6 \/ n = 7 \/ n = 8 \/ n = 9 \/ n = 10 \/ n = 11 \/ n = 12
  OBVIOUS
<1>2. CASE n # 6
  BY <1>1, <1>2, MigrationsAre
     DEF AddUserIdToStudent, AddVersionIdToStudent, CreateJobAndReportTables,
         AddJobWorkerToken, RedesignReportJobQueue, AddTokenVersionToUser,
         AddDbCheckConstraints
<1>3. CASE n = 6
  BY <1>3, MigrationsAre DEF MakeStudentAgeNullable
<1> QED
  BY <1>2, <1>3

LEMMA AddedIsThere ==
  ASSUME NEW n \in 1..12, NEW f \in Migrations[n].add
  PROVE  f \in SchemaAfter[n]
BY SchemaAfterIs DEF Step, Upgraded

LEMMA OneMore ==
  ASSUME NEW n \in 1..12, NEW f \in SchemaAfter[n - 1],
         Safe(f) \/ (n >= 5 /\ f # Required("student", "age"))
  PROVE  f \in SchemaAfter[n]
<1>1. SchemaAfter[n] = Upgraded(SchemaAfter[n - 1], Migrations[n])
  BY SchemaAfterIs DEF Step
<1>2. f \notin Migrations[n].drop /\ \A c \in f[3] : <<f[2], c>> \notin Migrations[n].dropped
  <2>1. CASE Safe(f)
    BY <2>1, DropsAre DEF Safe
  <2>2. CASE n >= 5 /\ f # Required("student", "age")
    <3>1. n \in 5..12
      BY <2>2
    <3> QED
      BY <2>2, <3>1, LaterDrops
  <2> QED
    BY <2>1, <2>2
<1> QED
  BY <1>1, <1>2 DEF Upgraded

LEMMA Stays ==
  ASSUME NEW n \in 0..12, NEW f \in SchemaAfter[n],
         Safe(f) \/ (n >= 4 /\ f # Required("student", "age"))
  PROVE  f \in AtHead
<1>1. ASSUME NEW m \in 1..12, m > n, f \in SchemaAfter[m - 1] PROVE f \in SchemaAfter[m]
  <2>1. Safe(f) \/ (m >= 5 /\ f # Required("student", "age"))
    BY <1>1
  <2> QED
    BY <1>1, <2>1, OneMore
<1>2. /\ n < 1 => f \in SchemaAfter[1]
      /\ n < 2 => f \in SchemaAfter[2]
      /\ n < 3 => f \in SchemaAfter[3]
      /\ n < 4 => f \in SchemaAfter[4]
      /\ n < 5 => f \in SchemaAfter[5]
      /\ n < 6 => f \in SchemaAfter[6]
  <2>1. n < 1 => f \in SchemaAfter[1]
    BY <1>1
  <2>2. n < 2 => f \in SchemaAfter[2]
    BY <1>1, <2>1
  <2>3. n < 3 => f \in SchemaAfter[3]
    BY <1>1, <2>2
  <2>4. n < 4 => f \in SchemaAfter[4]
    BY <1>1, <2>3
  <2>5. n < 5 => f \in SchemaAfter[5]
    BY <1>1, <2>4
  <2>6. n < 6 => f \in SchemaAfter[6]
    BY <1>1, <2>5
  <2> QED
    BY <2>1, <2>2, <2>3, <2>4, <2>5, <2>6
<1>3. n < 12 => f \in SchemaAfter[12]
  <2>1. n < 7 => f \in SchemaAfter[7]
    BY <1>1, <1>2
  <2>2. n < 8 => f \in SchemaAfter[8]
    BY <1>1, <2>1
  <2>3. n < 9 => f \in SchemaAfter[9]
    BY <1>1, <2>2
  <2>4. n < 10 => f \in SchemaAfter[10]
    BY <1>1, <2>3
  <2>5. n < 11 => f \in SchemaAfter[11]
    BY <1>1, <2>4
  <2> QED
    BY <1>1, <2>5
<1> QED
  BY <1>3, AtHeadIs

----------------------------------------------------------------------------
(* What the migrations add is declared, or dropped again by the fourth      *)

LEMMA ColumnsAre ==
  ASSUME NEW t, NEW R, NEW O
  PROVE  /\ \A c \in R \cup O : Column(t, c) \in Columns(t, R, O)
         /\ \A c \in R : Required(t, c) \in Columns(t, R, O)
         /\ \A f \in Columns(t, R, O) :
              \/ \E c \in R \cup O : f = Column(t, c)
              \/ \E c \in R : f = Required(t, c)
BY DEF Columns

LEMMA FewerColumns ==
  ASSUME NEW t, NEW R, NEW O, NEW S, NEW P, R \subseteq S, O \subseteq S \cup P
  PROVE  Columns(t, R, O) \subseteq Columns(t, S, P)
BY DEF Columns

LEMMA DeclaredParts ==
  \A part \in {College, Department, Course, Teacher, Student, CourseOffering,
               CourseSchedule, Enrollment, User, Job, Report} : part \subseteq Declared
BY DEF Declared

DayOfWeek ==
  {Column("course_schedule", "day_of_week"), Required("course_schedule", "day_of_week")}

WrongCode ==
  {Column("enrollment", "cenrollment_code"), Required("enrollment", "cenrollment_code")}

CourseDepartment == {Required("course", "department_id")}

LEMMA FirstAdds ==
  Migrations[1].add \subseteq Declared \cup DayOfWeek \cup CourseDepartment
<1>1. Columns("student", {"name", "department_id", "created_at"}, {}) \subseteq Student
  BY FewerColumns DEF Student
<1>2. Columns("course_schedule", {"course_offering_id", "day_of_week", "start_time",
                                  "end_time", "room"}, {})
        \subseteq CourseSchedule \cup DayOfWeek
  BY DEF Columns, CourseSchedule, ScheduleKey, DayOfWeek
<1>3. /\ ForeignKey("student", "department_id", "department") \in Student
      /\ ForeignKey("course_schedule", "course_offering_id", "course_offering")
           \in CourseSchedule
  BY DEF Student, CourseSchedule
<1> QED
  BY <1>1, <1>2, <1>3, DeclaredParts, MigrationsAre
     DEF AddTeacherStudentAndCourseSchedule, CourseDepartment

LEMMA SecondAdds == Migrations[2].add \subseteq Declared
<1>1. Columns("course_offering", {"created_at"}, {}) \subseteq CourseOffering
  BY FewerColumns DEF CourseOffering
<1>2. Columns("course_schedule", {"day", "schedule_type", "created_at"}, {})
        \subseteq CourseSchedule
  BY FewerColumns DEF CourseSchedule, ScheduleKey
<1>3. UniqueKey("course_schedule", ScheduleKey) \in CourseSchedule
  BY DEF CourseSchedule
<1> QED
  BY <1>1, <1>2, <1>3, DeclaredParts, MigrationsAre DEF SyncModelsWithDatabase

LEMMA ThirdAdds == Migrations[3].add \subseteq Declared \cup WrongCode
<1>1. Columns("enrollment", {"cenrollment_code"}, {}) \subseteq WrongCode
  BY DEF Columns, WrongCode
<1>2. Columns("student", {"email"}, {"age"}) \subseteq Student
  BY FewerColumns DEF Student
<1>3. /\ UniqueKey("student", {"email"}) \in Student
      /\ UniqueKey("enrollment", {"student_id", "course_offering_id"}) \in Enrollment
  BY DEF Student, Enrollment
<1> QED
  BY <1>1, <1>2, <1>3, DeclaredParts, MigrationsAre DEF AddUserTable

LEMMA LaterAdds ==
  ASSUME NEW n \in 4..12
  PROVE  Migrations[n].add \subseteq Declared
<1>1. \/ n = 4 \/ n = 5 \/ n = 6 \/ n = 7 \/ n = 8 \/ n = 9 \/ n = 10 \/ n = 11 \/ n = 12
  OBVIOUS
<1>2. CASE n = 4
  <2>1. Columns("enrollment", {"enrollment_code"}, {}) \subseteq Enrollment
    BY FewerColumns DEF Enrollment
  <2> QED
    BY <1>2, <2>1, DeclaredParts, MigrationsAre DEF FixEnrollmentCodeColumn
<1>3. CASE n = 5
  <2>1. /\ UniqueKey("enrollment", {"enrollment_code"}) \in Enrollment
        /\ UniqueKey("student", {"user_id"}) \in Student
        /\ ForeignKey("student", "user_id", "users") \in Student
    BY DEF Enrollment, Student
  <2>2. Column("student", "user_id") \in Student
    BY DEF Student, Columns
  <2> QED
    BY <1>3, <2>1, <2>2, DeclaredParts, MigrationsAre DEF AddUserIdToStudent
<1>4. CASE n = 6
  BY <1>4, MigrationsAre DEF MakeStudentAgeNullable
<1>5. CASE n = 7
  <2>1. Columns("student", {"version_id"}, {}) \subseteq Student
    BY FewerColumns DEF Student
  <2> QED
    BY <1>5, <2>1, DeclaredParts, MigrationsAre DEF AddVersionIdToStudent
<1>6. CASE n = 8
  <2>1. Columns("job", {"job_version", "status", "owner_id", "report_type", "target_id"},
                {"lease_until"}) \subseteq Job
    BY FewerColumns DEF Job
  <2> QED
    BY <1>6, <2>1, DeclaredParts, MigrationsAre DEF CreateJobAndReportTables
<1>7. CASE n = 9
  <2>1. Columns("job", {}, {"worker_token"}) \subseteq Job
    BY FewerColumns DEF Job
  <2> QED
    BY <1>7, <2>1, DeclaredParts, MigrationsAre DEF AddJobWorkerToken
<1>8. CASE n = 10
  <2>1. Columns("job", {"attempt_count", "created_at", "updated_at"},
                {"retry_at", "last_error"}) \subseteq Job
    BY FewerColumns DEF Job
  <2> QED
    BY <1>8, <2>1, DeclaredParts, MigrationsAre DEF RedesignReportJobQueue
<1>9. CASE n = 11
  <2>1. Columns("users", {"token_version"}, {}) \subseteq User
    BY FewerColumns DEF User
  <2> QED
    BY <1>9, <2>1, DeclaredParts, MigrationsAre DEF AddTokenVersionToUser
<1>10. CASE n = 12
  <2>1. GradeRange \in Enrollment /\ ActiveXorWithdrawn \in Enrollment
        /\ TimeOrder \in CourseSchedule
    BY DEF Enrollment, CourseSchedule
  <2> QED
    BY <1>10, <2>1, DeclaredParts, MigrationsAre DEF AddDbCheckConstraints
<1> QED
  BY <1>1, <1>2, <1>3, <1>4, <1>5, <1>6, <1>7, <1>8, <1>9, <1>10

\* The second migration drops the old column of the schedules, the fourth the
\* misspelt one of the enrollments and the NOT NULL of the courses.
LEMMA AllIsDeclared == AtHead \subseteq Declared
<1>1. ASSUME NEW n \in 1..12
      PROVE  /\ SchemaAfter[n] \subseteq SchemaAfter[n - 1] \cup Migrations[n].add
             /\ \A f \in SchemaAfter[n] \ Migrations[n].add :
                  f \notin Migrations[n].drop
                    /\ \A c \in f[3] : <<f[2], c>> \notin Migrations[n].dropped
  BY SchemaAfterIs DEF Step, Upgraded
<1>2. SchemaAfter[1] \subseteq Declared \cup DayOfWeek \cup CourseDepartment
  <2>1. SchemaAfter[0] = {}
    BY SchemaAfterIs DEF Step
  <2> QED
    BY <1>1, <2>1, FirstAdds
<1>3. SchemaAfter[2] \subseteq Declared \cup CourseDepartment
  <2>1. \A f \in DayOfWeek : "day_of_week" \in f[3] /\ f[2] = "course_schedule"
    <3>1. ASSUME NEW f \in DayOfWeek PROVE f[3] = {"day_of_week"} /\ f[2] = "course_schedule"
      <4>1. CASE f = Column("course_schedule", "day_of_week")
        BY <4>1 DEF Column
      <4>2. CASE f = Required("course_schedule", "day_of_week")
        BY <4>2 DEF Required
      <4> QED
        BY <4>1, <4>2 DEF DayOfWeek
    <3> QED
      BY <3>1
  <2>2. <<"course_schedule", "day_of_week">> \in Migrations[2].dropped
    BY MigrationsAre DEF SyncModelsWithDatabase
  <2>3. \A f \in SchemaAfter[2] \ Migrations[2].add :
          f \in SchemaAfter[1] /\ \A c \in f[3] : <<f[2], c>> \notin Migrations[2].dropped
    BY <1>1
  <2> QED
    BY <1>2, <2>1, <2>2, <2>3, SecondAdds
<1>4. SchemaAfter[3] \subseteq Declared \cup CourseDepartment \cup WrongCode
  <2>1. SchemaAfter[3] \subseteq SchemaAfter[2] \cup Migrations[3].add
    BY <1>1
  <2> QED
    BY <1>3, <2>1, ThirdAdds
<1>5. SchemaAfter[4] \subseteq Declared
  <2>1. \A f \in WrongCode : "cenrollment_code" \in f[3] /\ f[2] = "enrollment"
    <3>1. ASSUME NEW f \in WrongCode PROVE f[3] = {"cenrollment_code"} /\ f[2] = "enrollment"
      <4>1. CASE f = Column("enrollment", "cenrollment_code")
        BY <4>1 DEF Column
      <4>2. CASE f = Required("enrollment", "cenrollment_code")
        BY <4>2 DEF Required
      <4> QED
        BY <4>1, <4>2 DEF WrongCode
    <3> QED
      BY <3>1
  <2>2. /\ <<"enrollment", "cenrollment_code">> \in Migrations[4].dropped
        /\ CourseDepartment \subseteq Migrations[4].drop
    BY MigrationsAre DEF FixEnrollmentCodeColumn, CourseDepartment
  <2>3. \A f \in SchemaAfter[4] \ Migrations[4].add :
          /\ f \in SchemaAfter[3] /\ f \notin Migrations[4].drop
          /\ \A c \in f[3] : <<f[2], c>> \notin Migrations[4].dropped
    BY <1>1
  <2>4. Migrations[4].add \subseteq Declared
    BY LaterAdds
  <2> QED
    BY <1>4, <2>1, <2>2, <2>3, <2>4
<1>6. ASSUME NEW n \in 5..12, SchemaAfter[n - 1] \subseteq Declared
      PROVE  SchemaAfter[n] \subseteq Declared
  <2>1. n \in 1..12 /\ n \in 4..12
    OBVIOUS
  <2> QED
    BY <1>1, <1>6, <2>1, LaterAdds
<1>7. SchemaAfter[5] \subseteq Declared
  BY <1>5, <1>6
<1>8. SchemaAfter[6] \subseteq Declared
  BY <1>6, <1>7
<1>9. SchemaAfter[7] \subseteq Declared
  BY <1>6, <1>8
<1>10. SchemaAfter[8] \subseteq Declared
  BY <1>6, <1>9
<1>11. SchemaAfter[9] \subseteq Declared
  BY <1>6, <1>10
<1>12. SchemaAfter[10] \subseteq Declared
  BY <1>6, <1>11
<1>13. SchemaAfter[11] \subseteq Declared
  BY <1>6, <1>12
<1> QED
  BY <1>6, <1>13, AtHeadIs

----------------------------------------------------------------------------
(* What is declared is added, and stays                                     *)

LEMMA Added ==
  ASSUME NEW n \in 1..12, NEW f \in Migrations[n].add,
         Safe(f) \/ (n >= 4 /\ f # Required("student", "age"))
  PROVE  f \in AtHead
BY AddedIsThere, Stays

LEMMA SafeColumns ==
  ASSUME NEW t, NEW R, NEW O,
         \A c \in R \cup O : <<t, c>> \notin DroppedColumns,
         t = "course" => "department_id" \notin R,
         t = "student" => "age" \notin R
  PROVE  \A f \in Columns(t, R, O) : Safe(f)
<1>1. ASSUME NEW c \in R \cup O PROVE Safe(Column(t, c))
  BY <1>1 DEF Safe, Column, Drops, UniqueKey, Required
<1>2. ASSUME NEW c \in R PROVE Safe(Required(t, c))
  <2>1. Required(t, c) \notin Drops
    BY <1>2 DEF Drops, UniqueKey, Required
  <2>2. Required(t, c)[2] = t /\ Required(t, c)[3] = {c}
    BY DEF Required
  <2> QED
    BY <1>2, <2>1, <2>2 DEF Safe
<1> QED
  BY <1>1, <1>2, ColumnsAre

LEMMA SafeKey ==
  ASSUME NEW t, NEW cs, t # "enrollment", \A c \in cs : <<t, c>> \notin DroppedColumns
  PROVE  Safe(UniqueKey(t, cs))
BY DEF Safe, UniqueKey, Drops, Required

LEMMA SafeForeignKey ==
  ASSUME NEW t, NEW c, NEW p, <<t, c>> \notin DroppedColumns
  PROVE  Safe(ForeignKey(t, c, p))
BY DEF Safe, ForeignKey, UniqueKey, Drops, Required

LEMMA SafeCheck ==
  ASSUME NEW t, NEW cs, NEW n, \A c \in cs : <<t, c>> \notin DroppedColumns
  PROVE  Safe(Check(t, cs, n))
BY DEF Safe, Check, UniqueKey, Drops, Required

LEMMA CollegeStands == College \subseteq AtHead
<1>1. \A f \in College : Safe(f)
  BY SafeColumns, SafeKey DEF College, DroppedColumns
<1>2. College \subseteq Migrations[1].add
  BY MigrationsAre DEF AddTeacherStudentAndCourseSchedule
<1> QED
  BY <1>1, <1>2, Added

LEMMA DepartmentStands == Department \subseteq AtHead
<1>1. \A f \in Department : Safe(f)
  BY SafeColumns, SafeKey, SafeForeignKey DEF Department, DroppedColumns
<1>2. Department \subseteq Migrations[1].add
  BY MigrationsAre DEF AddTeacherStudentAndCourseSchedule
<1> QED
  BY <1>1, <1>2, Added

LEMMA CourseStands == Course \subseteq AtHead
<1>1. \A f \in Course : Safe(f)
  BY SafeColumns, SafeKey, SafeForeignKey DEF Course, DroppedColumns
<1>2. Course \subseteq Migrations[1].add
  BY MigrationsAre DEF AddTeacherStudentAndCourseSchedule
<1> QED
  BY <1>1, <1>2, Added

LEMMA TeacherStands == Teacher \subseteq AtHead
<1>1. \A f \in Teacher : Safe(f)
  BY SafeColumns, SafeForeignKey DEF Teacher, DroppedColumns
<1>2. Teacher \subseteq Migrations[1].add
  BY MigrationsAre DEF AddTeacherStudentAndCourseSchedule
<1> QED
  BY <1>1, <1>2, Added

LEMMA StudentStands == Student \subseteq AtHead
<1> DEFINE first == Columns("student", {"name", "department_id", "created_at"}, {})
           third == Columns("student", {"email"}, {"age"})
           version == Columns("student", {"version_id"}, {})
<1>1. \A f \in Student : Safe(f)
  BY SafeColumns, SafeKey, SafeForeignKey DEF Student, DroppedColumns
<1>2. Columns("student", {"name", "email", "created_at", "department_id", "version_id"},
                        {"age", "user_id"})
        \subseteq first \cup third \cup version \cup {Column("student", "user_id")}
  BY DEF Columns
<1>3. /\ first \subseteq Migrations[1].add
      /\ third \subseteq Migrations[3].add
      /\ version \subseteq Migrations[7].add
      /\ Column("student", "user_id") \in Migrations[5].add
  BY MigrationsAre
     DEF AddTeacherStudentAndCourseSchedule, AddUserTable, AddVersionIdToStudent,
         AddUserIdToStudent
<1>4. /\ ForeignKey("student", "department_id", "department") \in Migrations[1].add
      /\ UniqueKey("student", {"email"}) \in Migrations[3].add
      /\ ForeignKey("student", "user_id", "users") \in Migrations[5].add
      /\ UniqueKey("student", {"user_id"}) \in Migrations[5].add
  BY MigrationsAre
     DEF AddTeacherStudentAndCourseSchedule, AddUserTable, AddUserIdToStudent
<1> HIDE DEF first, third, version
<1>5. \A f \in Student : f \in Migrations[1].add \cup Migrations[3].add
                                \cup Migrations[5].add \cup Migrations[7].add
  BY <1>2, <1>3, <1>4 DEF Student
<1> QED
  BY <1>1, <1>5, Added

LEMMA OfferingStands == CourseOffering \subseteq AtHead
<1>1. \A f \in CourseOffering : Safe(f)
  BY SafeColumns, SafeKey, SafeForeignKey DEF CourseOffering, OfferingKey, DroppedColumns
<1>2. CourseOffering \subseteq Migrations[1].add \cup Migrations[2].add
  BY MigrationsAre DEF AddTeacherStudentAndCourseSchedule, SyncModelsWithDatabase
<1> QED
  BY <1>1, <1>2, Added

LEMMA ScheduleStands == CourseSchedule \subseteq AtHead
<1> DEFINE first == Columns("course_schedule", {"course_offering_id", "day_of_week",
                                                "start_time", "end_time", "room"}, {})
           second == Columns("course_schedule", {"day", "schedule_type", "created_at"}, {})
<1>1. \A f \in CourseSchedule : Safe(f)
  BY SafeColumns, SafeKey, SafeForeignKey, SafeCheck
     DEF CourseSchedule, ScheduleKey, TimeOrder, DroppedColumns
<1>2. Columns("course_schedule", ScheduleKey \cup {"schedule_type", "room", "created_at"}, {})
        \subseteq first \cup second
  BY DEF Columns, ScheduleKey
<1>3. first \subseteq Migrations[1].add /\ second \subseteq Migrations[2].add
  BY MigrationsAre DEF AddTeacherStudentAndCourseSchedule, SyncModelsWithDatabase
<1>4. /\ ForeignKey("course_schedule", "course_offering_id", "course_offering")
           \in Migrations[1].add
      /\ UniqueKey("course_schedule", ScheduleKey) \in Migrations[2].add
      /\ TimeOrder \in Migrations[12].add
  BY MigrationsAre
     DEF AddTeacherStudentAndCourseSchedule, SyncModelsWithDatabase, AddDbCheckConstraints
<1> HIDE DEF first, second
<1>5. \A f \in CourseSchedule :
        f \in Migrations[1].add \cup Migrations[2].add \cup Migrations[12].add
  BY <1>2, <1>3, <1>4 DEF CourseSchedule
<1> QED
  BY <1>1, <1>5, Added

\* The code of an enrollment is dropped and added again, and so is what makes
\* it unique.
LEMMA EnrollmentStands == Enrollment \subseteq AtHead
<1> DEFINE rest == Columns("enrollment", {"student_id", "course_offering_id", "created_at"}
                                           \cup Flags, {"grade"})
           code == Columns("enrollment", {"enrollment_code"}, {})
<1>1. Columns("enrollment", {"student_id", "course_offering_id", "enrollment_code",
                             "created_at"} \cup Flags, {"grade"}) \subseteq rest \cup code
  BY DEF Columns
<1>2. rest \subseteq Enrollment \ {GradeRange, ActiveXorWithdrawn}
  <2>1. rest \subseteq Enrollment
    BY FewerColumns DEF Enrollment
  <2>2. \A f \in rest : f[1] # "check"
    <3>1. \A c : Column("enrollment", c)[1] # "check" /\ Required("enrollment", c)[1] # "check"
      BY DEF Column, Required
    <3> QED
      BY <3>1, ColumnsAre
  <2>3. GradeRange[1] = "check" /\ ActiveXorWithdrawn[1] = "check"
    BY DEF GradeRange, ActiveXorWithdrawn, Check
  <2> QED
    BY <2>1, <2>2, <2>3
<1>3. rest \subseteq Migrations[2].add
  BY <1>2, MigrationsAre DEF SyncModelsWithDatabase
<1>4. \A f \in rest : Safe(f)
  BY SafeColumns DEF Flags, DroppedColumns
<1>5. rest \subseteq AtHead
  <2> HIDE DEF rest
  <2> QED
    BY <1>3, <1>4, Added
<1>6. code \subseteq AtHead
  <2>1. code \subseteq Migrations[4].add
    BY MigrationsAre DEF FixEnrollmentCodeColumn
  <2>2. \A f \in code : f # Required("student", "age")
    <3>1. \A f \in code : f[2] = "enrollment"
      <4>1. \A c : Column("enrollment", c)[2] = "enrollment"
                    /\ Required("enrollment", c)[2] = "enrollment"
        BY DEF Column, Required
      <4> QED
        BY <4>1, ColumnsAre
    <3>2. Required("student", "age")[2] = "student"
      BY DEF Required
    <3> QED
      BY <3>1, <3>2
  <2> HIDE DEF code
  <2> QED
    BY <2>1, <2>2, Added
<1>7. /\ ForeignKey("enrollment", "student_id", "student") \in AtHead
      /\ ForeignKey("enrollment", "course_offering_id", "course_offering") \in AtHead
  <2>1. /\ ForeignKey("enrollment", "student_id", "student") \in Migrations[2].add
        /\ ForeignKey("enrollment", "course_offering_id", "course_offering")
             \in Migrations[2].add
    <3>1. \A c, p : ForeignKey("enrollment", c, p) \notin {GradeRange, ActiveXorWithdrawn}
      BY DEF ForeignKey, GradeRange, ActiveXorWithdrawn, Check
    <3>2. /\ ForeignKey("enrollment", "student_id", "student") \in Enrollment
          /\ ForeignKey("enrollment", "course_offering_id", "course_offering") \in Enrollment
      BY DEF Enrollment
    <3> QED
      BY <3>1, <3>2, MigrationsAre DEF SyncModelsWithDatabase
  <2> QED
    BY <2>1, Added, SafeForeignKey DEF DroppedColumns
<1>8. UniqueKey("enrollment", {"student_id", "course_offering_id"}) \in AtHead
  <2> DEFINE f == UniqueKey("enrollment", {"student_id", "course_offering_id"})
  <2>1. f \in SchemaAfter[3]
    BY MigrationsAre, AddedIsThere DEF AddUserTable
  <2>2. f \in SchemaAfter[4]
    <3>1. SchemaAfter[4] = Upgraded(SchemaAfter[3], Migrations[4])
      BY SchemaAfterIs DEF Step
    <3>2. f \notin Migrations[4].drop
      <4>1. f # Required("course", "department_id")
        BY DEF UniqueKey, Required
      <4> HIDE DEF f
      <4> QED
        BY <4>1, MigrationsAre DEF FixEnrollmentCodeColumn
    <3>3. f[3] = {"student_id", "course_offering_id"}
      BY DEF UniqueKey
    <3>4. \A c \in f[3] : <<f[2], c>> \notin Migrations[4].dropped
      BY <3>3, MigrationsAre DEF FixEnrollmentCodeColumn
    <3> QED
      BY <2>1, <3>1, <3>2, <3>4 DEF Upgraded
  <2>3. f # Required("student", "age")
    BY DEF UniqueKey, Required
  <2> QED
    BY <2>2, <2>3, Stays
<1>9. UniqueKey("enrollment", {"enrollment_code"}) \in AtHead
  <2>1. UniqueKey("enrollment", {"enrollment_code"}) \in Migrations[5].add
    BY MigrationsAre DEF AddUserIdToStudent
  <2>2. UniqueKey("enrollment", {"enrollment_code"}) # Required("student", "age")
    BY DEF UniqueKey, Required
  <2> QED
    BY <2>1, <2>2, Added
<1>10. GradeRange \in AtHead /\ ActiveXorWithdrawn \in AtHead
  <2>1. GradeRange \in Migrations[12].add /\ ActiveXorWithdrawn \in Migrations[12].add
    BY MigrationsAre DEF AddDbCheckConstraints
  <2> QED
    BY <2>1, Added, SafeCheck DEF GradeRange, ActiveXorWithdrawn, Flags, DroppedColumns
<1> HIDE DEF rest, code
<1> QED
  BY <1>1, <1>5, <1>6, <1>7, <1>8, <1>9, <1>10 DEF Enrollment

LEMMA UserStands == User \subseteq AtHead
<1>1. \A f \in User : Safe(f)
  BY SafeColumns, SafeKey DEF User, DroppedColumns
<1>2. User \subseteq Migrations[3].add \cup Migrations[11].add
  BY MigrationsAre DEF AddUserTable, AddTokenVersionToUser
<1> QED
  BY <1>1, <1>2, Added

LEMMA JobStands == Job \subseteq AtHead
<1> DEFINE first == Columns("job", {"job_version", "status", "owner_id", "report_type",
                                    "target_id"}, {"lease_until"})
           token == Columns("job", {}, {"worker_token"})
           more == Columns("job", {"attempt_count", "created_at", "updated_at"},
                                  {"retry_at", "last_error"})
<1>1. \A f \in Job : Safe(f)
  BY SafeColumns DEF Job, DroppedColumns
<1>2. Job \subseteq first \cup token \cup more
  BY DEF Job, Columns
<1>3. /\ first \subseteq Migrations[8].add /\ token \subseteq Migrations[9].add
      /\ more \subseteq Migrations[10].add
  BY MigrationsAre DEF CreateJobAndReportTables, AddJobWorkerToken, RedesignReportJobQueue
<1> HIDE DEF first, token, more
<1>4. \A f \in Job : f \in Migrations[8].add \cup Migrations[9].add \cup Migrations[10].add
  BY <1>2, <1>3
<1> QED
  BY <1>1, <1>4, Added

LEMMA ReportStands == Report \subseteq AtHead
<1>1. \A f \in Report : Safe(f)
  BY SafeColumns, SafeKey, SafeForeignKey DEF Report, DroppedColumns
<1>2. Report \subseteq Migrations[8].add
  BY MigrationsAre DEF CreateJobAndReportTables
<1> QED
  BY <1>1, <1>2, Added

\* What the models declare is what the migrations leave, no more and no less.
THEOREM MigrationsMatchModels == AtHead = Declared
<1>1. Declared \subseteq AtHead
  BY CollegeStands, DepartmentStands, CourseStands, TeacherStands, StudentStands,
     OfferingStands, ScheduleStands, EnrollmentStands, UserStands, JobStands, ReportStands
     DEF Declared
<1> QED
  BY <1>1, AllIsDeclared

----------------------------------------------------------------------------
(* What Catalogue enforces                                                  *)

KindOf(f) == f[1]

TableOf(f) == f[2]

ColumnsIn(f) == f[3]

ParentOf(f) == f[4]

LEMMA Kinds ==
  /\ \A t, c : KindOf(Column(t, c)) = "column"
  /\ \A t, c : KindOf(Required(t, c)) = "not null"
  /\ \A t, cs : KindOf(UniqueKey(t, cs)) = "unique"
  /\ \A t, c, p : KindOf(ForeignKey(t, c, p)) = "foreign key"
  /\ \A t, cs, n : KindOf(Check(t, cs, n)) = "check"
BY DEF KindOf, Column, Required, UniqueKey, ForeignKey, Check

LEMMA TablesOfFacts ==
  /\ \A t, c : TableOf(Column(t, c)) = t
  /\ \A t, c : TableOf(Required(t, c)) = t
  /\ \A t, cs : TableOf(UniqueKey(t, cs)) = t
  /\ \A t, c, p : TableOf(ForeignKey(t, c, p)) = t
  /\ \A t, cs, n : TableOf(Check(t, cs, n)) = t
BY DEF TableOf, Column, Required, UniqueKey, ForeignKey, Check

LEMMA ColumnsOfFacts ==
  /\ \A t, c : ColumnsIn(Required(t, c)) = {c}
  /\ \A t, cs : ColumnsIn(UniqueKey(t, cs)) = cs
  /\ \A t, c, p : ColumnsIn(ForeignKey(t, c, p)) = {c}
BY DEF ColumnsIn, Required, UniqueKey, ForeignKey

LEMMA ParentsOfFacts == \A t, c, p : ParentOf(ForeignKey(t, c, p)) = p
BY DEF ParentOf, ForeignKey

LEMMA ColumnKinds ==
  \A t, R, O : \A f \in Columns(t, R, O) : KindOf(f) = "column" \/ KindOf(f) = "not null"
<1>1. ASSUME NEW t, NEW R, NEW O, NEW f \in Columns(t, R, O)
      PROVE  KindOf(f) = "column" \/ KindOf(f) = "not null"
  <2>1. (\E c \in R \cup O : f = Column(t, c)) \/ (\E c \in R : f = Required(t, c))
    BY ColumnsAre
  <2> QED
    BY <2>1, Kinds
<1> QED
  BY <1>1

LEMMA ColumnTables ==
  \A t, R, O : \A f \in Columns(t, R, O) : TableOf(f) = t
<1>1. ASSUME NEW t, NEW R, NEW O, NEW f \in Columns(t, R, O)
      PROVE  TableOf(f) = t
  <2>1. (\E c \in R \cup O : f = Column(t, c)) \/ (\E c \in R : f = Required(t, c))
    BY ColumnsAre
  <2> QED
    BY <2>1, TablesOfFacts
<1> QED
  BY <1>1

\* Every fact is about the table of its part.
LEMMA PartsAreOfTables ==
  /\ \A f \in College : TableOf(f) = "college"
  /\ \A f \in Department : TableOf(f) = "department"
  /\ \A f \in Course : TableOf(f) = "course"
  /\ \A f \in Teacher : TableOf(f) = "teacher"
  /\ \A f \in Student : TableOf(f) = "student"
  /\ \A f \in CourseOffering : TableOf(f) = "course_offering"
  /\ \A f \in CourseSchedule : TableOf(f) = "course_schedule"
  /\ \A f \in Enrollment : TableOf(f) = "enrollment"
  /\ \A f \in User : TableOf(f) = "users"
  /\ \A f \in Job : TableOf(f) = "job"
  /\ \A f \in Report : TableOf(f) = "report"
<1>1. \A f \in College : TableOf(f) = "college"
  BY ColumnTables, TablesOfFacts DEF College
<1>2. \A f \in Department : TableOf(f) = "department"
  BY ColumnTables, TablesOfFacts DEF Department
<1>3. \A f \in Course : TableOf(f) = "course"
  BY ColumnTables, TablesOfFacts DEF Course
<1>4. \A f \in Teacher : TableOf(f) = "teacher"
  BY ColumnTables, TablesOfFacts DEF Teacher
<1>5. \A f \in Student : TableOf(f) = "student"
  BY ColumnTables, TablesOfFacts DEF Student
<1>6. \A f \in CourseOffering : TableOf(f) = "course_offering"
  BY ColumnTables, TablesOfFacts DEF CourseOffering
<1>7. \A f \in CourseSchedule : TableOf(f) = "course_schedule"
  BY ColumnTables, TablesOfFacts DEF CourseSchedule, TimeOrder
<1>8. \A f \in Enrollment : TableOf(f) = "enrollment"
  BY ColumnTables, TablesOfFacts DEF Enrollment, GradeRange, ActiveXorWithdrawn
<1>9. \A f \in User : TableOf(f) = "users"
  BY ColumnTables, TablesOfFacts DEF User
<1>10. \A f \in Job : TableOf(f) = "job"
  BY ColumnTables DEF Job
<1>11. \A f \in Report : TableOf(f) = "report"
  BY ColumnTables, TablesOfFacts DEF Report
<1> QED
  BY <1>1, <1>2, <1>3, <1>4, <1>5, <1>6, <1>7, <1>8, <1>9, <1>10, <1>11

LEMMA FactsOfTable ==
  /\ \A f \in AtHead : TableOf(f) = "college" => f \in College
  /\ \A f \in AtHead : TableOf(f) = "department" => f \in Department
  /\ \A f \in AtHead : TableOf(f) = "course" => f \in Course
  /\ \A f \in AtHead : TableOf(f) = "teacher" => f \in Teacher
  /\ \A f \in AtHead : TableOf(f) = "student" => f \in Student
  /\ \A f \in AtHead : TableOf(f) = "course_offering" => f \in CourseOffering
  /\ \A f \in AtHead : TableOf(f) = "course_schedule" => f \in CourseSchedule
  /\ \A f \in AtHead : TableOf(f) = "enrollment" => f \in Enrollment
<1>1. \A f \in AtHead :
        f \in College \/ f \in Department \/ f \in Course \/ f \in Teacher \/ f \in Student
          \/ f \in CourseOffering \/ f \in CourseSchedule \/ f \in Enrollment \/ f \in User
          \/ f \in Job \/ f \in Report
  BY MigrationsMatchModels DEF Declared
<1> QED
  BY <1>1, PartsAreOfTables

\* The checks are those that Catalogue has.
LEMMA ChecksAre ==
  {TimeOrder, GradeRange, ActiveXorWithdrawn} = {f \in AtHead : f[1] = "check"}
<1>1. \A f \in AtHead : KindOf(f) = "check" => f \in {TimeOrder, GradeRange, ActiveXorWithdrawn}
  <2>1. \A f \in College : KindOf(f) # "check"
    BY ColumnKinds, Kinds DEF College
  <2>2. \A f \in Department : KindOf(f) # "check"
    BY ColumnKinds, Kinds DEF Department
  <2>3. \A f \in Course : KindOf(f) # "check"
    BY ColumnKinds, Kinds DEF Course
  <2>4. \A f \in Teacher : KindOf(f) # "check"
    BY ColumnKinds, Kinds DEF Teacher
  <2>5. \A f \in Student : KindOf(f) # "check"
    BY ColumnKinds, Kinds DEF Student
  <2>6. \A f \in CourseOffering : KindOf(f) # "check"
    BY ColumnKinds, Kinds DEF CourseOffering
  <2>7. \A f \in User : KindOf(f) # "check"
    BY ColumnKinds, Kinds DEF User
  <2>8. \A f \in Job : KindOf(f) # "check"
    BY ColumnKinds, Kinds DEF Job
  <2>9. \A f \in Report : KindOf(f) # "check"
    BY ColumnKinds, Kinds DEF Report
  <2>10. \A f \in CourseSchedule : KindOf(f) = "check" => f = TimeOrder
    BY ColumnKinds, Kinds DEF CourseSchedule
  <2>11. \A f \in Enrollment : KindOf(f) = "check" => f = GradeRange \/ f = ActiveXorWithdrawn
    BY ColumnKinds, Kinds DEF Enrollment
  <2> QED
    BY <2>1, <2>2, <2>3, <2>4, <2>5, <2>6, <2>7, <2>8, <2>9, <2>10, <2>11,
       MigrationsMatchModels DEF Declared
<1>2. TimeOrder \in AtHead /\ GradeRange \in AtHead /\ ActiveXorWithdrawn \in AtHead
  BY ScheduleStands, EnrollmentStands DEF CourseSchedule, Enrollment
<1>3. /\ KindOf(TimeOrder) = "check" /\ KindOf(GradeRange) = "check"
      /\ KindOf(ActiveXorWithdrawn) = "check"
  BY Kinds DEF TimeOrder, GradeRange, ActiveXorWithdrawn
<1>4. {f \in AtHead : f[1] = "check"} = {f \in AtHead : KindOf(f) = "check"}
  BY DEF KindOf
<1> QED
  BY <1>1, <1>2, <1>3, <1>4

LEMMA FactsAre ==
  ASSUME NEW kind, NEW t
  PROVE  Facts(kind, t) = {f \in AtHead : KindOf(f) = kind /\ TableOf(f) = SqlTable[t]
                                            /\ ColumnsIn(f) # {"user_id"}}
BY DEF Facts, KindOf, TableOf, ColumnsIn

\* What has to be known of a table for it to be protected: its foreign keys K
\* and its unique constraints U, as the migrations leave them.
LEMMA ProtectedWhen ==
  ASSUME NEW t \in Tables, NEW K, NEW U,
         Facts("foreign key", t) = K, Facts("unique", t) = U,
         {SqlTable[p] : p \in ParentsOf[t]} = {ParentOf(f) : f \in K},
         UniqueOf[t] = {{AbstractColumn(c) : c \in ColumnsIn(f)} : f \in U},
         \A f \in K : \A c \in ColumnsIn(f) :
           <<t, AbstractColumn(c)>> \in Nullable <=> Required(SqlTable[t], c) \notin AtHead
  PROVE  t \in Protected
BY DEF Protected, ParentOf, ColumnsIn

LEMMA AbstractColumns ==
  /\ AbstractColumn("college_id") = "college"
  /\ AbstractColumn("department_id") = "department"
  /\ AbstractColumn("course_id") = "course"
  /\ AbstractColumn("teacher_id") = "teacher"
  /\ AbstractColumn("student_id") = "student"
  /\ AbstractColumn("course_offering_id") = "offering"
  /\ AbstractColumn("start_time") = "start"
  /\ AbstractColumn("end_time") = "end"
  /\ \A c \in {"name", "code", "email", "semester", "academic_year", "section", "day",
               "enrollment_code"} : AbstractColumn(c) = "key"
BY DEF AbstractColumn

LEMMA SqlTables ==
  /\ SqlTable["college"] = "college" /\ SqlTable["department"] = "department"
  /\ SqlTable["course"] = "course" /\ SqlTable["teacher"] = "teacher"
  /\ SqlTable["student"] = "student" /\ SqlTable["offering"] = "course_offering"
  /\ SqlTable["schedule"] = "course_schedule" /\ SqlTable["enrollment"] = "enrollment"
BY DEF SqlTable

LEMMA TableNames ==
  Tables = {"college", "department", "course", "teacher", "student", "offering", "schedule",
            "enrollment"}
BY DEF Tables, ParentsOf

LEMMA RequiredColumn == \A t, R, O : \A c \in R : Required(t, c) \in Columns(t, R, O)
BY DEF Columns

----------------------------------------------------------------------------
(* Table by table: the keys at head are those of the model, and they refer  *)
(* to the parents and bind the columns that Catalogue says.                 *)

LEMMA CollegeIsProtected == "college" \in Protected
<1> DEFINE K == {}
           U == {UniqueKey("college", {"code"})}
<1>1. Facts("foreign key", "college") = K
  <2>1. \A f \in College : KindOf(f) = "foreign key" => f \in K
    BY ColumnKinds, Kinds DEF College
  <2>6. \A f \in AtHead : TableOf(f) = "college" => f \in College
    BY FactsOfTable
  <2>7. SqlTable["college"] = "college"
    BY SqlTables
  <2>8. Facts("foreign key", "college") =
          {f \in AtHead : KindOf(f) = "foreign key" /\ TableOf(f) = "college"
                           /\ ColumnsIn(f) # {"user_id"}}
    BY <2>7, FactsAre
  <2> QED
    BY <2>1, <2>6, <2>8
<1>2. Facts("unique", "college") = U
  <2>1. \A f \in College : KindOf(f) = "unique" => f \in U
    BY ColumnKinds, Kinds DEF College
  <2>2. \A f \in U : f \in AtHead
    BY CollegeStands DEF College
  <2>3. \A f \in U : KindOf(f) = "unique"
    BY Kinds
  <2>4. \A f \in U : TableOf(f) = "college"
    BY TablesOfFacts
  <2>5. \A f \in U : ColumnsIn(f) # {"user_id"}
    <3>1. ColumnsIn(UniqueKey("college", {"code"})) # {"user_id"}
      BY ColumnsOfFacts
    <3> QED
      BY <3>1
  <2>6. \A f \in AtHead : TableOf(f) = "college" => f \in College
    BY FactsOfTable
  <2>7. SqlTable["college"] = "college"
    BY SqlTables
  <2>8. Facts("unique", "college") =
          {f \in AtHead : KindOf(f) = "unique" /\ TableOf(f) = "college"
                           /\ ColumnsIn(f) # {"user_id"}}
    BY <2>7, FactsAre
  <2> HIDE DEF U
  <2> QED
    BY <2>1, <2>2, <2>3, <2>4, <2>5, <2>6, <2>8
<1>3. {SqlTable[p] : p \in ParentsOf["college"]} = {ParentOf(f) : f \in K}
  <2>1. ParentsOf["college"] = {}
    BY DEF ParentsOf
  <2>2. {ParentOf(f) : f \in K} = {}
    BY ParentsOfFacts
  <2> HIDE DEF K
  <2> QED
    BY <2>1, <2>2, SqlTables
<1>4. UniqueOf["college"] = {{AbstractColumn(c) : c \in ColumnsIn(f)} : f \in U}
  <2>1. UniqueOf["college"] = {{"key"}}
    BY DEF UniqueOf
  <2>2. {AbstractColumn(c) : c \in {"code"}} = {"key"}
    BY AbstractColumns
  <2>3. {AbstractColumn(c) : c \in ColumnsIn(UniqueKey("college", {"code"}))} = {"key"}
    BY <2>2, ColumnsOfFacts
  <2> QED
    BY <2>1, <2>3
<1>5. \A f \in K : \A c \in ColumnsIn(f) :
        <<"college", AbstractColumn(c)>> \in Nullable
          <=> Required("college", c) \notin AtHead
  OBVIOUS
<1> HIDE DEF K, U
<1> QED
  BY <1>1, <1>2, <1>3, <1>4, <1>5, ProtectedWhen, TableNames, SqlTables

LEMMA DepartmentIsProtected == "department" \in Protected
<1> DEFINE K == {ForeignKey("department", "college_id", "college")}
           U == {UniqueKey("department", {"college_id", "name"}),
                 UniqueKey("department", {"college_id", "code"})}
<1>1. Facts("foreign key", "department") = K
  <2>1. \A f \in Department : KindOf(f) = "foreign key" => f \in K
    BY ColumnKinds, Kinds DEF Department
  <2>2. \A f \in K : f \in AtHead
    BY DepartmentStands DEF Department
  <2>3. \A f \in K : KindOf(f) = "foreign key"
    BY Kinds
  <2>4. \A f \in K : TableOf(f) = "department"
    BY TablesOfFacts
  <2>5. \A f \in K : ColumnsIn(f) # {"user_id"}
    <3>1. ColumnsIn(ForeignKey("department", "college_id", "college")) # {"user_id"}
      BY ColumnsOfFacts
    <3> QED
      BY <3>1
  <2>6. \A f \in AtHead : TableOf(f) = "department" => f \in Department
    BY FactsOfTable
  <2>7. SqlTable["department"] = "department"
    BY SqlTables
  <2>8. Facts("foreign key", "department") =
          {f \in AtHead : KindOf(f) = "foreign key" /\ TableOf(f) = "department"
                           /\ ColumnsIn(f) # {"user_id"}}
    BY <2>7, FactsAre
  <2> HIDE DEF K
  <2> QED
    BY <2>1, <2>2, <2>3, <2>4, <2>5, <2>6, <2>8
<1>2. Facts("unique", "department") = U
  <2>1. \A f \in Department : KindOf(f) = "unique" => f \in U
    BY ColumnKinds, Kinds DEF Department
  <2>2. \A f \in U : f \in AtHead
    BY DepartmentStands DEF Department
  <2>3. \A f \in U : KindOf(f) = "unique"
    BY Kinds
  <2>4. \A f \in U : TableOf(f) = "department"
    BY TablesOfFacts
  <2>5. \A f \in U : ColumnsIn(f) # {"user_id"}
    <3>1. ColumnsIn(UniqueKey("department", {"college_id", "name"})) # {"user_id"}
      BY ColumnsOfFacts
    <3>2. ColumnsIn(UniqueKey("department", {"college_id", "code"})) # {"user_id"}
      BY ColumnsOfFacts
    <3> QED
      BY <3>1, <3>2
  <2>6. \A f \in AtHead : TableOf(f) = "department" => f \in Department
    BY FactsOfTable
  <2>7. SqlTable["department"] = "department"
    BY SqlTables
  <2>8. Facts("unique", "department") =
          {f \in AtHead : KindOf(f) = "unique" /\ TableOf(f) = "department"
                           /\ ColumnsIn(f) # {"user_id"}}
    BY <2>7, FactsAre
  <2> HIDE DEF U
  <2> QED
    BY <2>1, <2>2, <2>3, <2>4, <2>5, <2>6, <2>8
<1>3. {SqlTable[p] : p \in ParentsOf["department"]} = {ParentOf(f) : f \in K}
  <2>1. ParentsOf["department"] = {"college"}
    BY DEF ParentsOf
  <2>2. {ParentOf(f) : f \in K} = {"college"}
    BY ParentsOfFacts
  <2> HIDE DEF K
  <2> QED
    BY <2>1, <2>2, SqlTables
<1>4. UniqueOf["department"] = {{AbstractColumn(c) : c \in ColumnsIn(f)} : f \in U}
  <2>1. UniqueOf["department"] = {{"college", "key"}}
    BY DEF UniqueOf
  <2>2. {AbstractColumn(c) : c \in {"college_id", "name"}} = {"college", "key"}
    BY AbstractColumns
  <2>3. {AbstractColumn(c) : c \in ColumnsIn(UniqueKey("department", {"college_id", "name"}))}
          = {"college", "key"}
    BY <2>2, ColumnsOfFacts
  <2>4. {AbstractColumn(c) : c \in {"college_id", "code"}} = {"college", "key"}
    BY AbstractColumns
  <2>5. {AbstractColumn(c) : c \in ColumnsIn(UniqueKey("department", {"college_id", "code"}))}
          = {"college", "key"}
    BY <2>4, ColumnsOfFacts
  <2> QED
    BY <2>1, <2>3, <2>5
<1>5. \A f \in K : \A c \in ColumnsIn(f) :
        <<"department", AbstractColumn(c)>> \in Nullable
          <=> Required("department", c) \notin AtHead
  <2>1. Required("department", "college_id") \in AtHead
    BY DepartmentStands, RequiredColumn DEF Department
  <2>2. \A x : <<"department", x>> \notin Nullable
    BY DEF Nullable
  <2> QED
    BY <2>1, <2>2, ColumnsOfFacts
<1> HIDE DEF K, U
<1> QED
  BY <1>1, <1>2, <1>3, <1>4, <1>5, ProtectedWhen, TableNames, SqlTables

LEMMA CourseIsProtected == "course" \in Protected
<1> DEFINE K == {ForeignKey("course", "department_id", "department")}
           U == {UniqueKey("course", {"department_id", "name"}),
                 UniqueKey("course", {"department_id", "code"})}
<1>1. Facts("foreign key", "course") = K
  <2>1. \A f \in Course : KindOf(f) = "foreign key" => f \in K
    BY ColumnKinds, Kinds DEF Course
  <2>2. \A f \in K : f \in AtHead
    BY CourseStands DEF Course
  <2>3. \A f \in K : KindOf(f) = "foreign key"
    BY Kinds
  <2>4. \A f \in K : TableOf(f) = "course"
    BY TablesOfFacts
  <2>5. \A f \in K : ColumnsIn(f) # {"user_id"}
    <3>1. ColumnsIn(ForeignKey("course", "department_id", "department")) # {"user_id"}
      BY ColumnsOfFacts
    <3> QED
      BY <3>1
  <2>6. \A f \in AtHead : TableOf(f) = "course" => f \in Course
    BY FactsOfTable
  <2>7. SqlTable["course"] = "course"
    BY SqlTables
  <2>8. Facts("foreign key", "course") =
          {f \in AtHead : KindOf(f) = "foreign key" /\ TableOf(f) = "course"
                           /\ ColumnsIn(f) # {"user_id"}}
    BY <2>7, FactsAre
  <2> HIDE DEF K
  <2> QED
    BY <2>1, <2>2, <2>3, <2>4, <2>5, <2>6, <2>8
<1>2. Facts("unique", "course") = U
  <2>1. \A f \in Course : KindOf(f) = "unique" => f \in U
    BY ColumnKinds, Kinds DEF Course
  <2>2. \A f \in U : f \in AtHead
    BY CourseStands DEF Course
  <2>3. \A f \in U : KindOf(f) = "unique"
    BY Kinds
  <2>4. \A f \in U : TableOf(f) = "course"
    BY TablesOfFacts
  <2>5. \A f \in U : ColumnsIn(f) # {"user_id"}
    <3>1. ColumnsIn(UniqueKey("course", {"department_id", "name"})) # {"user_id"}
      BY ColumnsOfFacts
    <3>2. ColumnsIn(UniqueKey("course", {"department_id", "code"})) # {"user_id"}
      BY ColumnsOfFacts
    <3> QED
      BY <3>1, <3>2
  <2>6. \A f \in AtHead : TableOf(f) = "course" => f \in Course
    BY FactsOfTable
  <2>7. SqlTable["course"] = "course"
    BY SqlTables
  <2>8. Facts("unique", "course") =
          {f \in AtHead : KindOf(f) = "unique" /\ TableOf(f) = "course"
                           /\ ColumnsIn(f) # {"user_id"}}
    BY <2>7, FactsAre
  <2> HIDE DEF U
  <2> QED
    BY <2>1, <2>2, <2>3, <2>4, <2>5, <2>6, <2>8
<1>3. {SqlTable[p] : p \in ParentsOf["course"]} = {ParentOf(f) : f \in K}
  <2>1. ParentsOf["course"] = {"department"}
    BY DEF ParentsOf
  <2>2. {ParentOf(f) : f \in K} = {"department"}
    BY ParentsOfFacts
  <2> HIDE DEF K
  <2> QED
    BY <2>1, <2>2, SqlTables
<1>4. UniqueOf["course"] = {{AbstractColumn(c) : c \in ColumnsIn(f)} : f \in U}
  <2>1. UniqueOf["course"] = {{"department", "key"}}
    BY DEF UniqueOf
  <2>2. {AbstractColumn(c) : c \in {"department_id", "name"}} = {"department", "key"}
    BY AbstractColumns
  <2>3. {AbstractColumn(c) : c \in ColumnsIn(UniqueKey("course", {"department_id", "name"}))}
          = {"department", "key"}
    BY <2>2, ColumnsOfFacts
  <2>4. {AbstractColumn(c) : c \in {"department_id", "code"}} = {"department", "key"}
    BY AbstractColumns
  <2>5. {AbstractColumn(c) : c \in ColumnsIn(UniqueKey("course", {"department_id", "code"}))}
          = {"department", "key"}
    BY <2>4, ColumnsOfFacts
  <2> QED
    BY <2>1, <2>3, <2>5
<1>5. \A f \in K : \A c \in ColumnsIn(f) :
        <<"course", AbstractColumn(c)>> \in Nullable
          <=> Required("course", c) \notin AtHead
  <2>1. Required("course", "department_id") \notin Course
    <3>1. KindOf(Required("course", "department_id")) = "not null"
      BY Kinds
    <3>2. \A c \in {"name", "code", "created_at"} :
            Required("course", c) # Required("course", "department_id")
      BY DEF Required
    <3>3. \A c : Column("course", c) # Required("course", "department_id")
      BY <3>1, Kinds
    <3>4. Required("course", "department_id")
            \notin Columns("course", {"name", "code", "created_at"}, {"department_id"})
      BY <3>2, <3>3 DEF Columns
    <3> QED
      BY <3>1, <3>4, Kinds DEF Course
  <2>2. Required("course", "department_id") \notin AtHead
    BY <2>1, FactsOfTable, TablesOfFacts
  <2> QED
    BY <2>2, ColumnsOfFacts, AbstractColumns DEF Nullable
<1> HIDE DEF K, U
<1> QED
  BY <1>1, <1>2, <1>3, <1>4, <1>5, ProtectedWhen, TableNames, SqlTables

LEMMA TeacherIsProtected == "teacher" \in Protected
<1> DEFINE K == {ForeignKey("teacher", "department_id", "department")}
           U == {}
<1>1. Facts("foreign key", "teacher") = K
  <2>1. \A f \in Teacher : KindOf(f) = "foreign key" => f \in K
    BY ColumnKinds, Kinds DEF Teacher
  <2>2. \A f \in K : f \in AtHead
    BY TeacherStands DEF Teacher
  <2>3. \A f \in K : KindOf(f) = "foreign key"
    BY Kinds
  <2>4. \A f \in K : TableOf(f) = "teacher"
    BY TablesOfFacts
  <2>5. \A f \in K : ColumnsIn(f) # {"user_id"}
    <3>1. ColumnsIn(ForeignKey("teacher", "department_id", "department")) # {"user_id"}
      BY ColumnsOfFacts
    <3> QED
      BY <3>1
  <2>6. \A f \in AtHead : TableOf(f) = "teacher" => f \in Teacher
    BY FactsOfTable
  <2>7. SqlTable["teacher"] = "teacher"
    BY SqlTables
  <2>8. Facts("foreign key", "teacher") =
          {f \in AtHead : KindOf(f) = "foreign key" /\ TableOf(f) = "teacher"
                           /\ ColumnsIn(f) # {"user_id"}}
    BY <2>7, FactsAre
  <2> HIDE DEF K
  <2> QED
    BY <2>1, <2>2, <2>3, <2>4, <2>5, <2>6, <2>8
<1>2. Facts("unique", "teacher") = U
  <2>1. \A f \in Teacher : KindOf(f) = "unique" => f \in U
    BY ColumnKinds, Kinds DEF Teacher
  <2>6. \A f \in AtHead : TableOf(f) = "teacher" => f \in Teacher
    BY FactsOfTable
  <2>7. SqlTable["teacher"] = "teacher"
    BY SqlTables
  <2>8. Facts("unique", "teacher") =
          {f \in AtHead : KindOf(f) = "unique" /\ TableOf(f) = "teacher"
                           /\ ColumnsIn(f) # {"user_id"}}
    BY <2>7, FactsAre
  <2> QED
    BY <2>1, <2>6, <2>8
<1>3. {SqlTable[p] : p \in ParentsOf["teacher"]} = {ParentOf(f) : f \in K}
  <2>1. ParentsOf["teacher"] = {"department"}
    BY DEF ParentsOf
  <2>2. {ParentOf(f) : f \in K} = {"department"}
    BY ParentsOfFacts
  <2> HIDE DEF K
  <2> QED
    BY <2>1, <2>2, SqlTables
<1>4. UniqueOf["teacher"] = {{AbstractColumn(c) : c \in ColumnsIn(f)} : f \in U}
  <2>1. UniqueOf["teacher"] = {}
    BY DEF UniqueOf
  <2> QED
    BY <2>1
<1>5. \A f \in K : \A c \in ColumnsIn(f) :
        <<"teacher", AbstractColumn(c)>> \in Nullable
          <=> Required("teacher", c) \notin AtHead
  <2>1. Required("teacher", "department_id") \in AtHead
    BY TeacherStands, RequiredColumn DEF Teacher
  <2>2. \A x : <<"teacher", x>> \notin Nullable
    BY DEF Nullable
  <2> QED
    BY <2>1, <2>2, ColumnsOfFacts
<1> HIDE DEF K, U
<1> QED
  BY <1>1, <1>2, <1>3, <1>4, <1>5, ProtectedWhen, TableNames, SqlTables

LEMMA StudentIsProtected == "student" \in Protected
<1> DEFINE K == {ForeignKey("student", "department_id", "department")}
           U == {UniqueKey("student", {"email"})}
<1>1. Facts("foreign key", "student") = K
  <2>1. \A f \in Student : KindOf(f) = "foreign key" /\ ColumnsIn(f) # {"user_id"} => f \in K
    <3>1. \A f \in Student :
            KindOf(f) = "foreign key" => f \in K \/ f = ForeignKey("student", "user_id", "users")
      BY ColumnKinds, Kinds DEF Student
    <3>2. ColumnsIn(ForeignKey("student", "user_id", "users")) = {"user_id"}
      BY ColumnsOfFacts
    <3> HIDE DEF K
    <3> QED
      BY <3>1, <3>2
  <2>2. \A f \in K : f \in AtHead
    BY StudentStands DEF Student
  <2>3. \A f \in K : KindOf(f) = "foreign key"
    BY Kinds
  <2>4. \A f \in K : TableOf(f) = "student"
    BY TablesOfFacts
  <2>5. \A f \in K : ColumnsIn(f) # {"user_id"}
    <3>1. ColumnsIn(ForeignKey("student", "department_id", "department")) # {"user_id"}
      BY ColumnsOfFacts
    <3> QED
      BY <3>1
  <2>6. \A f \in AtHead : TableOf(f) = "student" => f \in Student
    BY FactsOfTable
  <2>7. SqlTable["student"] = "student"
    BY SqlTables
  <2>8. Facts("foreign key", "student") =
          {f \in AtHead : KindOf(f) = "foreign key" /\ TableOf(f) = "student"
                           /\ ColumnsIn(f) # {"user_id"}}
    BY <2>7, FactsAre
  <2> HIDE DEF K
  <2> QED
    BY <2>1, <2>2, <2>3, <2>4, <2>5, <2>6, <2>8
<1>2. Facts("unique", "student") = U
  <2>1. \A f \in Student : KindOf(f) = "unique" /\ ColumnsIn(f) # {"user_id"} => f \in U
    <3>1. \A f \in Student :
            KindOf(f) = "unique" => f \in U \/ f = UniqueKey("student", {"user_id"})
      BY ColumnKinds, Kinds DEF Student
    <3>2. ColumnsIn(UniqueKey("student", {"user_id"})) = {"user_id"}
      BY ColumnsOfFacts
    <3> HIDE DEF U
    <3> QED
      BY <3>1, <3>2
  <2>2. \A f \in U : f \in AtHead
    BY StudentStands DEF Student
  <2>3. \A f \in U : KindOf(f) = "unique"
    BY Kinds
  <2>4. \A f \in U : TableOf(f) = "student"
    BY TablesOfFacts
  <2>5. \A f \in U : ColumnsIn(f) # {"user_id"}
    <3>1. ColumnsIn(UniqueKey("student", {"email"})) # {"user_id"}
      BY ColumnsOfFacts
    <3> QED
      BY <3>1
  <2>6. \A f \in AtHead : TableOf(f) = "student" => f \in Student
    BY FactsOfTable
  <2>7. SqlTable["student"] = "student"
    BY SqlTables
  <2>8. Facts("unique", "student") =
          {f \in AtHead : KindOf(f) = "unique" /\ TableOf(f) = "student"
                           /\ ColumnsIn(f) # {"user_id"}}
    BY <2>7, FactsAre
  <2> HIDE DEF U
  <2> QED
    BY <2>1, <2>2, <2>3, <2>4, <2>5, <2>6, <2>8
<1>3. {SqlTable[p] : p \in ParentsOf["student"]} = {ParentOf(f) : f \in K}
  <2>1. ParentsOf["student"] = {"department"}
    BY DEF ParentsOf
  <2>2. {ParentOf(f) : f \in K} = {"department"}
    BY ParentsOfFacts
  <2> HIDE DEF K
  <2> QED
    BY <2>1, <2>2, SqlTables
<1>4. UniqueOf["student"] = {{AbstractColumn(c) : c \in ColumnsIn(f)} : f \in U}
  <2>1. UniqueOf["student"] = {{"key"}}
    BY DEF UniqueOf
  <2>2. {AbstractColumn(c) : c \in {"email"}} = {"key"}
    BY AbstractColumns
  <2>3. {AbstractColumn(c) : c \in ColumnsIn(UniqueKey("student", {"email"}))} = {"key"}
    BY <2>2, ColumnsOfFacts
  <2> QED
    BY <2>1, <2>3
<1>5. \A f \in K : \A c \in ColumnsIn(f) :
        <<"student", AbstractColumn(c)>> \in Nullable
          <=> Required("student", c) \notin AtHead
  <2>1. Required("student", "department_id") \in AtHead
    BY StudentStands, RequiredColumn DEF Student
  <2>2. \A x : <<"student", x>> \notin Nullable
    BY DEF Nullable
  <2> QED
    BY <2>1, <2>2, ColumnsOfFacts
<1> HIDE DEF K, U
<1> QED
  BY <1>1, <1>2, <1>3, <1>4, <1>5, ProtectedWhen, TableNames, SqlTables

LEMMA OfferingIsProtected == "offering" \in Protected
<1> DEFINE K == {ForeignKey("course_offering", "course_id", "course"),
                 ForeignKey("course_offering", "teacher_id", "teacher")}
           U == {UniqueKey("course_offering", OfferingKey)}
<1>1. Facts("foreign key", "offering") = K
  <2>1. \A f \in CourseOffering : KindOf(f) = "foreign key" => f \in K
    BY ColumnKinds, Kinds DEF CourseOffering
  <2>2. \A f \in K : f \in AtHead
    BY OfferingStands DEF CourseOffering
  <2>3. \A f \in K : KindOf(f) = "foreign key"
    BY Kinds
  <2>4. \A f \in K : TableOf(f) = "course_offering"
    BY TablesOfFacts
  <2>5. \A f \in K : ColumnsIn(f) # {"user_id"}
    <3>1. ColumnsIn(ForeignKey("course_offering", "course_id", "course")) # {"user_id"}
      BY ColumnsOfFacts
    <3>2. ColumnsIn(ForeignKey("course_offering", "teacher_id", "teacher")) # {"user_id"}
      BY ColumnsOfFacts
    <3> QED
      BY <3>1, <3>2
  <2>6. \A f \in AtHead : TableOf(f) = "course_offering" => f \in CourseOffering
    BY FactsOfTable
  <2>7. SqlTable["offering"] = "course_offering"
    BY SqlTables
  <2>8. Facts("foreign key", "offering") =
          {f \in AtHead : KindOf(f) = "foreign key" /\ TableOf(f) = "course_offering"
                           /\ ColumnsIn(f) # {"user_id"}}
    BY <2>7, FactsAre
  <2> HIDE DEF K
  <2> QED
    BY <2>1, <2>2, <2>3, <2>4, <2>5, <2>6, <2>8
<1>2. Facts("unique", "offering") = U
  <2>1. \A f \in CourseOffering : KindOf(f) = "unique" => f \in U
    BY ColumnKinds, Kinds DEF CourseOffering
  <2>2. \A f \in U : f \in AtHead
    BY OfferingStands DEF CourseOffering
  <2>3. \A f \in U : KindOf(f) = "unique"
    BY Kinds
  <2>4. \A f \in U : TableOf(f) = "course_offering"
    BY TablesOfFacts
  <2>5. \A f \in U : ColumnsIn(f) # {"user_id"}
    <3>1. ColumnsIn(UniqueKey("course_offering", OfferingKey)) # {"user_id"}
      BY ColumnsOfFacts DEF OfferingKey
    <3> QED
      BY <3>1
  <2>6. \A f \in AtHead : TableOf(f) = "course_offering" => f \in CourseOffering
    BY FactsOfTable
  <2>7. SqlTable["offering"] = "course_offering"
    BY SqlTables
  <2>8. Facts("unique", "offering") =
          {f \in AtHead : KindOf(f) = "unique" /\ TableOf(f) = "course_offering"
                           /\ ColumnsIn(f) # {"user_id"}}
    BY <2>7, FactsAre
  <2> HIDE DEF U
  <2> QED
    BY <2>1, <2>2, <2>3, <2>4, <2>5, <2>6, <2>8
<1>3. {SqlTable[p] : p \in ParentsOf["offering"]} = {ParentOf(f) : f \in K}
  <2>1. ParentsOf["offering"] = {"course", "teacher"}
    BY DEF ParentsOf
  <2>2. {ParentOf(f) : f \in K} = {"course", "teacher"}
    BY ParentsOfFacts
  <2> HIDE DEF K
  <2> QED
    BY <2>1, <2>2, SqlTables
<1>4. UniqueOf["offering"] = {{AbstractColumn(c) : c \in ColumnsIn(f)} : f \in U}
  <2>1. UniqueOf["offering"] = {{"course", "teacher", "key"}}
    BY DEF UniqueOf
  <2>2. {AbstractColumn(c) : c \in OfferingKey} = {"course", "teacher", "key"}
    BY AbstractColumns DEF OfferingKey
  <2>3. {AbstractColumn(c) : c \in ColumnsIn(UniqueKey("course_offering", OfferingKey))}
          = {"course", "teacher", "key"}
    BY <2>2, ColumnsOfFacts
  <2> QED
    BY <2>1, <2>3
<1>5. \A f \in K : \A c \in ColumnsIn(f) :
        <<"offering", AbstractColumn(c)>> \in Nullable
          <=> Required("course_offering", c) \notin AtHead
  <2>1. /\ Required("course_offering", "course_id") \in AtHead
        /\ Required("course_offering", "teacher_id") \in AtHead
    BY OfferingStands, RequiredColumn DEF CourseOffering, OfferingKey
  <2>2. \A x : <<"offering", x>> \notin Nullable
    BY DEF Nullable
  <2> QED
    BY <2>1, <2>2, ColumnsOfFacts
<1> HIDE DEF K, U
<1> QED
  BY <1>1, <1>2, <1>3, <1>4, <1>5, ProtectedWhen, TableNames, SqlTables

LEMMA ScheduleIsProtected == "schedule" \in Protected
<1> DEFINE K == {ForeignKey("course_schedule", "course_offering_id", "course_offering")}
           U == {UniqueKey("course_schedule", ScheduleKey)}
<1>1. Facts("foreign key", "schedule") = K
  <2>1. \A f \in CourseSchedule : KindOf(f) = "foreign key" => f \in K
    BY ColumnKinds, Kinds DEF CourseSchedule, TimeOrder
  <2>2. \A f \in K : f \in AtHead
    BY ScheduleStands DEF CourseSchedule
  <2>3. \A f \in K : KindOf(f) = "foreign key"
    BY Kinds
  <2>4. \A f \in K : TableOf(f) = "course_schedule"
    BY TablesOfFacts
  <2>5. \A f \in K : ColumnsIn(f) # {"user_id"}
    <3>1. ColumnsIn(ForeignKey("course_schedule", "course_offering_id", "course_offering"))
            # {"user_id"}
      BY ColumnsOfFacts
    <3> QED
      BY <3>1
  <2>6. \A f \in AtHead : TableOf(f) = "course_schedule" => f \in CourseSchedule
    BY FactsOfTable
  <2>7. SqlTable["schedule"] = "course_schedule"
    BY SqlTables
  <2>8. Facts("foreign key", "schedule") =
          {f \in AtHead : KindOf(f) = "foreign key" /\ TableOf(f) = "course_schedule"
                           /\ ColumnsIn(f) # {"user_id"}}
    BY <2>7, FactsAre
  <2> HIDE DEF K
  <2> QED
    BY <2>1, <2>2, <2>3, <2>4, <2>5, <2>6, <2>8
<1>2. Facts("unique", "schedule") = U
  <2>1. \A f \in CourseSchedule : KindOf(f) = "unique" => f \in U
    BY ColumnKinds, Kinds DEF CourseSchedule, TimeOrder
  <2>2. \A f \in U : f \in AtHead
    BY ScheduleStands DEF CourseSchedule
  <2>3. \A f \in U : KindOf(f) = "unique"
    BY Kinds
  <2>4. \A f \in U : TableOf(f) = "course_schedule"
    BY TablesOfFacts
  <2>5. \A f \in U : ColumnsIn(f) # {"user_id"}
    <3>1. ColumnsIn(UniqueKey("course_schedule", ScheduleKey)) # {"user_id"}
      BY ColumnsOfFacts DEF ScheduleKey
    <3> QED
      BY <3>1
  <2>6. \A f \in AtHead : TableOf(f) = "course_schedule" => f \in CourseSchedule
    BY FactsOfTable
  <2>7. SqlTable["schedule"] = "course_schedule"
    BY SqlTables
  <2>8. Facts("unique", "schedule") =
          {f \in AtHead : KindOf(f) = "unique" /\ TableOf(f) = "course_schedule"
                           /\ ColumnsIn(f) # {"user_id"}}
    BY <2>7, FactsAre
  <2> HIDE DEF U
  <2> QED
    BY <2>1, <2>2, <2>3, <2>4, <2>5, <2>6, <2>8
<1>3. {SqlTable[p] : p \in ParentsOf["schedule"]} = {ParentOf(f) : f \in K}
  <2>1. ParentsOf["schedule"] = {"offering"}
    BY DEF ParentsOf
  <2>2. {ParentOf(f) : f \in K} = {"course_offering"}
    BY ParentsOfFacts
  <2> HIDE DEF K
  <2> QED
    BY <2>1, <2>2, SqlTables
<1>4. UniqueOf["schedule"] = {{AbstractColumn(c) : c \in ColumnsIn(f)} : f \in U}
  <2>1. UniqueOf["schedule"] = {{"offering", "key", "start", "end"}}
    BY DEF UniqueOf
  <2>2. {AbstractColumn(c) : c \in ScheduleKey} = {"offering", "key", "start", "end"}
    BY AbstractColumns DEF ScheduleKey
  <2>3. {AbstractColumn(c) : c \in ColumnsIn(UniqueKey("course_schedule", ScheduleKey))}
          = {"offering", "key", "start", "end"}
    BY <2>2, ColumnsOfFacts
  <2> QED
    BY <2>1, <2>3
<1>5. \A f \in K : \A c \in ColumnsIn(f) :
        <<"schedule", AbstractColumn(c)>> \in Nullable
          <=> Required("course_schedule", c) \notin AtHead
  <2>1. Required("course_schedule", "course_offering_id") \in AtHead
    BY ScheduleStands, RequiredColumn DEF CourseSchedule, ScheduleKey
  <2>2. \A x : <<"schedule", x>> \notin Nullable
    BY DEF Nullable
  <2> QED
    BY <2>1, <2>2, ColumnsOfFacts
<1> HIDE DEF K, U
<1> QED
  BY <1>1, <1>2, <1>3, <1>4, <1>5, ProtectedWhen, TableNames, SqlTables

LEMMA EnrollmentIsProtected == "enrollment" \in Protected
<1> DEFINE K == {ForeignKey("enrollment", "student_id", "student"),
                 ForeignKey("enrollment", "course_offering_id", "course_offering")}
           U == {UniqueKey("enrollment", {"student_id", "course_offering_id"}),
                 UniqueKey("enrollment", {"enrollment_code"})}
<1>1. Facts("foreign key", "enrollment") = K
  <2>1. \A f \in Enrollment : KindOf(f) = "foreign key" => f \in K
    BY ColumnKinds, Kinds DEF Enrollment, GradeRange, ActiveXorWithdrawn
  <2>2. \A f \in K : f \in AtHead
    BY EnrollmentStands DEF Enrollment
  <2>3. \A f \in K : KindOf(f) = "foreign key"
    BY Kinds
  <2>4. \A f \in K : TableOf(f) = "enrollment"
    BY TablesOfFacts
  <2>5. \A f \in K : ColumnsIn(f) # {"user_id"}
    <3>1. ColumnsIn(ForeignKey("enrollment", "student_id", "student")) # {"user_id"}
      BY ColumnsOfFacts
    <3>2. ColumnsIn(ForeignKey("enrollment", "course_offering_id", "course_offering"))
            # {"user_id"}
      BY ColumnsOfFacts
    <3> QED
      BY <3>1, <3>2
  <2>6. \A f \in AtHead : TableOf(f) = "enrollment" => f \in Enrollment
    BY FactsOfTable
  <2>7. SqlTable["enrollment"] = "enrollment"
    BY SqlTables
  <2>8. Facts("foreign key", "enrollment") =
          {f \in AtHead : KindOf(f) = "foreign key" /\ TableOf(f) = "enrollment"
                           /\ ColumnsIn(f) # {"user_id"}}
    BY <2>7, FactsAre
  <2> HIDE DEF K
  <2> QED
    BY <2>1, <2>2, <2>3, <2>4, <2>5, <2>6, <2>8
<1>2. Facts("unique", "enrollment") = U
  <2>1. \A f \in Enrollment : KindOf(f) = "unique" => f \in U
    BY ColumnKinds, Kinds DEF Enrollment, GradeRange, ActiveXorWithdrawn
  <2>2. \A f \in U : f \in AtHead
    BY EnrollmentStands DEF Enrollment
  <2>3. \A f \in U : KindOf(f) = "unique"
    BY Kinds
  <2>4. \A f \in U : TableOf(f) = "enrollment"
    BY TablesOfFacts
  <2>5. \A f \in U : ColumnsIn(f) # {"user_id"}
    <3>1. ColumnsIn(UniqueKey("enrollment", {"student_id", "course_offering_id"})) # {"user_id"}
      BY ColumnsOfFacts
    <3>2. ColumnsIn(UniqueKey("enrollment", {"enrollment_code"})) # {"user_id"}
      BY ColumnsOfFacts
    <3> QED
      BY <3>1, <3>2
  <2>6. \A f \in AtHead : TableOf(f) = "enrollment" => f \in Enrollment
    BY FactsOfTable
  <2>7. SqlTable["enrollment"] = "enrollment"
    BY SqlTables
  <2>8. Facts("unique", "enrollment") =
          {f \in AtHead : KindOf(f) = "unique" /\ TableOf(f) = "enrollment"
                           /\ ColumnsIn(f) # {"user_id"}}
    BY <2>7, FactsAre
  <2> HIDE DEF U
  <2> QED
    BY <2>1, <2>2, <2>3, <2>4, <2>5, <2>6, <2>8
<1>3. {SqlTable[p] : p \in ParentsOf["enrollment"]} = {ParentOf(f) : f \in K}
  <2>1. ParentsOf["enrollment"] = {"student", "offering"}
    BY DEF ParentsOf
  <2>2. {ParentOf(f) : f \in K} = {"student", "course_offering"}
    BY ParentsOfFacts
  <2> HIDE DEF K
  <2> QED
    BY <2>1, <2>2, SqlTables
<1>4. UniqueOf["enrollment"] = {{AbstractColumn(c) : c \in ColumnsIn(f)} : f \in U}
  <2>1. UniqueOf["enrollment"] = {{"student", "offering"}, {"key"}}
    BY DEF UniqueOf
  <2>2. {AbstractColumn(c) : c \in {"student_id", "course_offering_id"}}
          = {"student", "offering"}
    BY AbstractColumns
  <2>3. {AbstractColumn(c) :
           c \in ColumnsIn(UniqueKey("enrollment", {"student_id", "course_offering_id"}))}
          = {"student", "offering"}
    BY <2>2, ColumnsOfFacts
  <2>4. {AbstractColumn(c) : c \in {"enrollment_code"}} = {"key"}
    BY AbstractColumns
  <2>5. {AbstractColumn(c) : c \in ColumnsIn(UniqueKey("enrollment", {"enrollment_code"}))}
          = {"key"}
    BY <2>4, ColumnsOfFacts
  <2> QED
    BY <2>1, <2>3, <2>5
<1>5. \A f \in K : \A c \in ColumnsIn(f) :
        <<"enrollment", AbstractColumn(c)>> \in Nullable
          <=> Required("enrollment", c) \notin AtHead
  <2>1. /\ Required("enrollment", "student_id") \in AtHead
        /\ Required("enrollment", "course_offering_id") \in AtHead
    BY EnrollmentStands, RequiredColumn DEF Enrollment
  <2>2. \A x : <<"enrollment", x>> \notin Nullable
    BY DEF Nullable
  <2> QED
    BY <2>1, <2>2, ColumnsOfFacts
<1> HIDE DEF K, U
<1> QED
  BY <1>1, <1>2, <1>3, <1>4, <1>5, ProtectedWhen, TableNames, SqlTables

----------------------------------------------------------------------------

LEMMA AllTablesAreProtected == Tables \subseteq Protected
BY TableNames, CollegeIsProtected, DepartmentIsProtected, CourseIsProtected,
   TeacherIsProtected, StudentIsProtected, OfferingIsProtected, ScheduleIsProtected,
   EnrollmentIsProtected

LEMMA TheModelsAreDeclared == AsDeclared
BY MigrationsMatchModels, ChecksAre DEF AsDeclared

\* No constraint that Catalogue relies on is lost on the way through the twelve
\* migrations: the keys, the unique constraints, the columns that may be NULL
\* and the checks are those of the models, and those Catalogue enforces.
THEOREM SchemaStaysAsDeclared == Spec /\ Consistent => []SchemaAtHead
<1>1. TypeOK => SchemaAtHead
  BY AllTablesAreProtected, TheModelsAreDeclared DEF SchemaAtHead, TypeOK
<1> QED
  BY <1>1, CatalogueTypeCorrect, PTL

=============================================================================
