------------------------------- MODULE Schema -------------------------------
(* The database schema, twice: as the models of app/models declare it, and  *)
(* as the chain of migrations in alembic/versions builds it (entrypoint.sh  *)
(* runs "alembic upgrade head" before the API starts).                      *)
(*                                                                          *)
(* A schema is a set of facts about tables and columns.  Column types,      *)
(* server defaults and indexes that are not unique are left out: no         *)
(* property depends on them.  Every table has its primary key.              *)
EXTENDS Naturals, Sequences

Column(t, c)        == <<"column", t, {c}, "">>
Required(t, c)      == <<"not null", t, {c}, "">>
UniqueKey(t, cs)    == <<"unique", t, cs, "">>
ForeignKey(t, c, p) == <<"foreign key", t, {c}, p>>
Check(t, cs, name)  == <<"check", t, cs, name>>

Columns(t, required, optional) ==
  {Column(t, c) : c \in required \cup optional} \cup {Required(t, c) : c \in required}

----------------------------------------------------------------------------
(* The models                                                               *)

College ==
  Columns("college", {"name", "code", "created_at"}, {})
    \cup {UniqueKey("college", {"code"})}

Department ==
  Columns("department", {"name", "code", "created_at", "college_id"}, {})
    \cup {ForeignKey("department", "college_id", "college"),
          UniqueKey("department", {"college_id", "name"}),
          UniqueKey("department", {"college_id", "code"})}

Course ==
  Columns("course", {"name", "code", "created_at"}, {"department_id"})
    \cup {ForeignKey("course", "department_id", "department"),
          UniqueKey("course", {"department_id", "name"}),
          UniqueKey("course", {"department_id", "code"})}

Teacher ==
  Columns("teacher", {"name", "created_at", "department_id"}, {})
    \cup {ForeignKey("teacher", "department_id", "department")}

Student ==
  Columns("student", {"name", "email", "created_at", "department_id", "version_id"},
                     {"age", "user_id"})
    \cup {ForeignKey("student", "department_id", "department"),
          ForeignKey("student", "user_id", "users"),
          UniqueKey("student", {"email"}), UniqueKey("student", {"user_id"})}

OfferingKey == {"course_id", "teacher_id", "semester", "academic_year", "section"}

CourseOffering ==
  Columns("course_offering", OfferingKey \cup {"created_at"}, {})
    \cup {ForeignKey("course_offering", "course_id", "course"),
          ForeignKey("course_offering", "teacher_id", "teacher"),
          UniqueKey("course_offering", OfferingKey)}

ScheduleKey == {"course_offering_id", "day", "start_time", "end_time"}

TimeOrder == Check("course_schedule", {"start_time", "end_time"}, "time_order")

CourseSchedule ==
  Columns("course_schedule", ScheduleKey \cup {"schedule_type", "room", "created_at"}, {})
    \cup {ForeignKey("course_schedule", "course_offering_id", "course_offering"),
          UniqueKey("course_schedule", ScheduleKey), TimeOrder}

Flags == {"is_active", "is_withdrawn"}

GradeRange == Check("enrollment", {"grade"}, "grade_range")

ActiveXorWithdrawn == Check("enrollment", Flags, "active_xor_withdrawn")

Enrollment ==
  Columns("enrollment", {"student_id", "course_offering_id", "enrollment_code",
                         "created_at"} \cup Flags, {"grade"})
    \cup {ForeignKey("enrollment", "student_id", "student"),
          ForeignKey("enrollment", "course_offering_id", "course_offering"),
          UniqueKey("enrollment", {"student_id", "course_offering_id"}),
          UniqueKey("enrollment", {"enrollment_code"}), GradeRange, ActiveXorWithdrawn}

User ==
  Columns("users", {"username", "email", "role", "created_at", "password_hash",
                    "token_version"}, {})
    \cup {UniqueKey("users", {"username"}), UniqueKey("users", {"email"})}

Job ==
  Columns("job", {"job_version", "status", "owner_id", "report_type", "target_id",
                  "attempt_count", "created_at", "updated_at"},
                 {"worker_token", "lease_until", "retry_at", "last_error"})

Report ==
  Columns("report", {"job_id"}, {"result"})
    \cup {ForeignKey("report", "job_id", "job"), UniqueKey("report", {"job_id"})}

Declared ==
  UNION {College, Department, Course, Teacher, Student, CourseOffering, CourseSchedule,
         Enrollment, User, Job, Report}

----------------------------------------------------------------------------
(* The migrations.  Dropping a column drops every fact about it.            *)

AddTeacherStudentAndCourseSchedule ==
  [drop    |-> {},
   dropped |-> {},
   add     |-> UNION {
     College, Department, Teacher,
     Course \cup {Required("course", "department_id")},
     Columns("student", {"name", "department_id", "created_at"}, {}),
     {ForeignKey("student", "department_id", "department")},
     CourseOffering \ Columns("course_offering", {"created_at"}, {}),
     Columns("course_schedule", {"course_offering_id", "day_of_week", "start_time",
                                 "end_time", "room"}, {}),
     {ForeignKey("course_schedule", "course_offering_id", "course_offering")}}]

SyncModelsWithDatabase ==
  [drop    |-> {},
   dropped |-> {<<"course_schedule", "day_of_week">>},
   add     |-> UNION {
     Enrollment \ {GradeRange, ActiveXorWithdrawn},
     Columns("course_offering", {"created_at"}, {}),
     Columns("course_schedule", {"day", "schedule_type", "created_at"}, {}),
     {UniqueKey("course_schedule", ScheduleKey)}}]

\* Mutant: one constraint of the enrollments is dropped and not made again.
AddUserTableOnly ==
  [drop    |-> {UniqueKey("enrollment", {"enrollment_code"}),
                UniqueKey("enrollment", {"student_id", "course_offering_id"})},
   dropped |-> {<<"enrollment", "enrollment_code">>},
   add     |-> UNION {
     User \ Columns("users", {"token_version"}, {}),
     Columns("enrollment", {"cenrollment_code"}, {}),
     Columns("student", {"email"}, {"age"}), {UniqueKey("student", {"email"})}}]

\* The code column is replaced by one of another name, filled with new codes;
\* the constraint on student and offering is made again under another name.
AddUserTable ==
  [drop    |-> {UniqueKey("enrollment", {"enrollment_code"}),
                UniqueKey("enrollment", {"student_id", "course_offering_id"})},
   dropped |-> {<<"enrollment", "enrollment_code">>},
   add     |-> UNION {
     User \ Columns("users", {"token_version"}, {}),
     Columns("enrollment", {"cenrollment_code"}, {}),
     {UniqueKey("enrollment", {"student_id", "course_offering_id"})},
     Columns("student", {"email"}, {"age"}), {UniqueKey("student", {"email"})}}]

FixEnrollmentCodeColumn ==
  [drop    |-> {Required("course", "department_id")},
   dropped |-> {<<"enrollment", "cenrollment_code">>},
   add     |-> Columns("enrollment", {"enrollment_code"}, {})]

AddUserIdToStudent ==
  [drop    |-> {},
   dropped |-> {},
   add     |-> {UniqueKey("enrollment", {"enrollment_code"}),
                Column("student", "user_id"), UniqueKey("student", {"user_id"}),
                ForeignKey("student", "user_id", "users")}]

MakeStudentAgeNullable ==
  [drop |-> {Required("student", "age")}, dropped |-> {}, add |-> {}]

AddVersionIdToStudent ==
  [drop |-> {}, dropped |-> {}, add |-> Columns("student", {"version_id"}, {})]

CreateJobAndReportTables ==
  [drop    |-> {},
   dropped |-> {},
   add     |-> Columns("job", {"job_version", "status", "owner_id", "report_type",
                               "target_id"}, {"lease_until"})
                 \cup Report]

AddJobWorkerToken ==
  [drop |-> {}, dropped |-> {}, add |-> Columns("job", {}, {"worker_token"})]

RedesignReportJobQueue ==
  [drop    |-> {},
   dropped |-> {},
   add     |-> Columns("job", {"attempt_count", "created_at", "updated_at"},
                              {"retry_at", "last_error"})]

AddTokenVersionToUser ==
  [drop |-> {}, dropped |-> {}, add |-> Columns("users", {"token_version"}, {})]

AddDbCheckConstraints ==
  [drop |-> {}, dropped |-> {}, add |-> {GradeRange, ActiveXorWithdrawn, TimeOrder}]

\* In the order of their down_revision; the two empty revisions at the start
\* and the index of the last one add nothing.
Migrations ==
  <<AddTeacherStudentAndCourseSchedule, SyncModelsWithDatabase, AddUserTable,
    FixEnrollmentCodeColumn, AddUserIdToStudent, MakeStudentAgeNullable,
    AddVersionIdToStudent, CreateJobAndReportTables, AddJobWorkerToken,
    RedesignReportJobQueue, AddTokenVersionToUser, AddDbCheckConstraints>>

Upgraded(schema, m) ==
  m.add \cup
  {f \in schema \ m.drop : \A c \in f[3] : <<f[2], c>> \notin m.dropped}

SchemaAfter[n \in 0..Len(Migrations)] ==
  IF n = 0 THEN {} ELSE Upgraded(SchemaAfter[n - 1], Migrations[n])

AtHead == SchemaAfter[Len(Migrations)]

=============================================================================
