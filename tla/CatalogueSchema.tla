-------------------------- MODULE CatalogueSchema --------------------------
(* The constraints that Catalogue takes for granted are those the           *)
(* migrations leave in the database.                                        *)
EXTENDS Transcript, Schema

SqlTable ==
  [college    |-> "college",    department |-> "department",
   course     |-> "course",     teacher    |-> "teacher",
   student    |-> "student",    offering   |-> "course_offering",
   schedule   |-> "course_schedule", enrollment |-> "enrollment"]

\* The column of Catalogue that stands for a column of the database.
AbstractColumn(c) ==
  CASE c = "college_id"         -> "college"
    [] c = "department_id"      -> "department"
    [] c = "course_id"          -> "course"
    [] c = "teacher_id"         -> "teacher"
    [] c = "student_id"         -> "student"
    [] c = "course_offering_id" -> "offering"
    [] c = "start_time"         -> "start"
    [] c = "end_time"           -> "end"
    [] OTHER                    -> "key"

\* The facts of one kind about a table, of those Catalogue models: which user
\* a student is linked to is the subject of StudentRecord.
Facts(kind, t) == {f \in AtHead : f[1] = kind /\ f[2] = SqlTable[t] /\ f[3] # {"user_id"}}

\* The tables whose keys and columns the migrations leave as Catalogue has them.
Protected ==
  {t \in Tables :
     /\ {SqlTable[p] : p \in ParentsOf[t]} = {f[4] : f \in Facts("foreign key", t)}
     /\ UniqueOf[t] = {{AbstractColumn(c) : c \in f[3]} : f \in Facts("unique", t)}
     /\ \A f \in Facts("foreign key", t) : \A c \in f[3] :
          <<t, AbstractColumn(c)>> \in Nullable <=> Required(SqlTable[t], c) \notin AtHead}

AsDeclared ==
  /\ AtHead = Declared
  /\ {TimeOrder, GradeRange, ActiveXorWithdrawn} = {f \in AtHead : f[1] = "check"}

\* What the models declare, what the migrations build and what Catalogue
\* enforces agree: no constraint that the requests rely on under a race was
\* lost on the way through twelve migrations that drop and make some again.
SchemaAtHead == DOMAIN rows \subseteq Protected /\ AsDeclared

=============================================================================
