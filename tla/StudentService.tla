--------------------------- MODULE StudentService ---------------------------
(* What the API promises about students, with no cache, session or version  *)
(* check in sight: a request that changes a student takes effect at one     *)
(* moment between its arrival and its answer, at most once, on the row as   *)
(* it is at that moment; if its form was made from a row a client has been  *)
(* shown, that is the row it changes.  A request may also be answered       *)
(* without having had an effect, or after it with an error.                 *)
EXTENDS Naturals

CONSTANTS Students, Users, Requests, None

VARIABLES
  student,  \* the students: rows of version_id, user_id and data, or None
  issued,   \* the ids that have been given to students
  users,    \* the users there are
  call      \* what each request asks for, and whether that is done

vars == <<student, issued, users, call>>

tables == <<student, issued, users>>

\* No request.
Idle == [kind |-> "none"]

Init ==
  /\ student = [s \in Students |-> None]
  /\ issued = {}
  /\ users = Users
  /\ call = [r \in Requests |-> Idle]

\* A new student has an id no student has had, and no user.
Create(s) ==
  /\ s \notin issued
  /\ issued' = issued \cup {s}
  /\ \E row \in {student'[s]} :
       /\ row.version_id = 1
       /\ row.user_id = None
       /\ student' = [student EXCEPT ![s] = row]
  /\ UNCHANGED <<users, call>>

Arrive(r) ==
  /\ call[r] = Idle
  /\ \E q \in {call'[r]} :
       /\ q.kind # "none"
       /\ ~q.done
       /\ call' = [call EXCEPT ![r] = q]
  /\ UNCHANGED tables

\* A request of this kind takes effect now; its answer comes later.
Perform(r, kind) ==
  /\ call[r].kind = kind
  /\ ~call[r].done
  /\ call' = [call EXCEPT ![r].done = TRUE]
  /\ UNCHANGED issued

Exists(s) == student[s] # None

Replace(s, row) == student' = [student EXCEPT ![s] = row]

\* The form replaces the data of the very row its author was shown.
Edit(r) ==
  LET q == call[r]
      row == student[q.student]
  IN /\ Perform(r, "update")
     /\ Exists(q.student)
     /\ q.expects # None => row = q.expects
     /\ \/ row.data = q.data /\ UNCHANGED student
        \/ /\ row.data # q.data
           /\ Replace(q.student, [row EXCEPT !.data = q.data, !.version_id = @ + 1])
     /\ UNCHANGED users

Delete(r) ==
  /\ Perform(r, "delete")
  /\ Exists(call[r].student)
  /\ Replace(call[r].student, None)
  /\ UNCHANGED users

StudentsOf(u) == {s \in Students : Exists(s) /\ student[s].user_id = u}

\* A free student and a user who has none become each other's.
Link(r) ==
  LET q == call[r]
      row == student[q.student]
  IN /\ Perform(r, "link")
     /\ Exists(q.student)
     /\ row.user_id = None
     /\ q.user \in users
     /\ StudentsOf(q.user) = {}
     /\ Replace(q.student, [row EXCEPT !.user_id = q.user, !.version_id = @ + 1])
     /\ UNCHANGED users

\* The user goes, and in the same moment the student is free.
RemoveUser(r) ==
  LET u == call[r].user IN
    /\ call[r].kind = "delete_user"
    /\ users' = users \ {u}
    /\ student' = [s \in Students |->
         IF s \in StudentsOf(u)
           THEN [student[s] EXCEPT !.user_id = None, !.version_id = @ + 1]
           ELSE student[s]]
    /\ call' = [call EXCEPT ![r] = Idle]
    /\ UNCHANGED issued

Reply(r) ==
  /\ call[r] # Idle
  /\ call' = [call EXCEPT ![r] = Idle]
  /\ UNCHANGED tables

Next ==
  \/ \E s \in Students : Create(s)
  \/ \E r \in Requests :
       Arrive(r) \/ Edit(r) \/ Delete(r) \/ Link(r) \/ RemoveUser(r) \/ Reply(r)

Spec == Init /\ [][Next]_vars

=============================================================================
