------------------------- MODULE StudentRecordProofs -------------------------
(* Theorems about StudentRecord for any students, users, requests, writes    *)
(* and faults.                                                              *)
EXTENDS StudentRecord, TLAPS

----------------------------------------------------------------------------
(* The inductive invariant                                                  *)

\* The rows of s that somebody holds: a client, Redis, or a session.
Seen(s) ==
  {e \in Row : \/ e \in shown[s]
               \/ e = cache[s]
               \/ \E r \in Requests : request[r] # None /\ Target(r) = s /\ request[r].copy = e}

\* An id is used once.
FreshInv == \A s \in Students \ issued : student[s] = None /\ Seen(s) = {}

Identifies(e, row) == e.version_id <= row.version_id /\ (e.version_id = row.version_id => e = row)

SeenInv == \A s \in Students : student[s] # None => \A e \in Seen(s) : Identifies(e, student[s])

\* What a request has established by the time it commits.
Fit(q) ==
  /\ q.student # None => q.student \in issued
  /\ q.kind # "delete_user" => q.student # None
  /\ q.kind = "delete_user" /\ q.step = "reading" => q.student = None
  /\ q.kind = "update" => q.data \in Values
  /\ q.kind \in {"link", "delete_user"} => q.user \in Users
  /\ q.copy # None => q.student # None
  /\ q.expects # None => q.kind = "update" /\ q.expects \in shown[q.student]
  /\ q.step = "committing" =>
       /\ q.student # None => q.copy # None
       /\ q.expects # None => q.copy.version_id = q.expects.version_id
       /\ q.kind = "link" => q.copy.user_id = None
       /\ q.kind = "delete_user" /\ q.student # None => q.copy.user_id = q.user

FitInv == \A r \in Requests : request[r] # None => Fit(request[r])

Inv == TypeOK /\ FreshInv /\ SeenInv /\ FitInv /\ LinksAreSound

----------------------------------------------------------------------------
(* What a step does to the requests                                         *)

Ready(q) ==
  q.step \in {"filling", "checking", "refreshing", "invalidating"} => q.copy # None

\* The copy is the one it had or the row as it is.
Loaded(r, x) ==
  \/ x.copy = None
  \/ x.copy = student[x.student]
  \/ request[r] # None /\ x.student = Target(r) /\ x.copy = request[r].copy

\* One request at most moves, to a state that fits.
Moved ==
  \/ UNCHANGED request
  \/ \E r \in Requests : request' = [request EXCEPT ![r] = None]
  \/ \E r \in Requests, x \in Request :
       Ready(x) /\ Fit(x) /\ Loaded(r, x) /\ request' = [request EXCEPT ![r] = x]

LEMMA RespondMoves ==
  ASSUME NEW r \in Requests, Respond(r)
  PROVE  Moved
BY DEF Respond, Moved

LEMMA AnswerMoves ==
  ASSUME NEW r \in Requests, NEW row, Answer(r, row)
  PROVE  Moved
BY DEF Answer, Moved

LEMMA ContinueMoves ==
  ASSUME TypeOK, FitInv, NEW r \in Requests, request[r] # None,
         NEW step \in {"querying", "filling", "checking", "committing", "refreshing",
                       "invalidating"},
         NEW copy \in MaybeRow, Continue(r, step, copy),
         copy \in {None, request[r].copy, student[Target(r)]},
         step \notin {"querying", "committing"} => copy # None,
         copy # None => Target(r) # None,
         step = "committing" =>
           /\ Target(r) # None => copy # None
           /\ request[r].expects # None => copy.version_id = request[r].expects.version_id
           /\ request[r].kind = "link" => copy.user_id = None
           /\ request[r].kind = "delete_user" => copy = None /\ Target(r) = None
  PROVE  Moved
<1> DEFINE q == request[r]
           x == [q EXCEPT !.step = step, !.copy = copy]
<1>1. q \in Request /\ Fit(q)
  BY DEF TypeOK, FitInv
<1>2. x \in Request
  BY <1>1 DEF Request
<1>3. /\ x.step = step /\ x.copy = copy /\ x.kind = q.kind /\ x.student = q.student
      /\ x.expects = q.expects /\ x.user = q.user /\ x.data = q.data
  BY <1>1 DEF Request
<1>4. Fit(x) /\ Ready(x) /\ Loaded(r, x)
  BY <1>1, <1>3 DEF Fit, Ready, Target, Loaded
<1>5. request' = [request EXCEPT ![r] = x]
  BY DEF Continue, TypeOK
<1> QED
  BY <1>2, <1>4, <1>5 DEF Moved

LEMMA ContinueKeeps ==
  ASSUME TypeOK, NEW r \in Requests, request[r] # None,
         NEW step \in {"querying", "filling", "checking", "committing", "refreshing",
                       "invalidating"},
         NEW copy \in MaybeRow, Continue(r, step, copy)
  PROVE  /\ request'[r] # None /\ request'[r].student = Target(r) /\ request'[r].step = step
         /\ \A q \in Requests \ {r} : request'[q] = request[q]
<1>1. request[r] \in Request
  BY DEF TypeOK
<1>2. [request[r] EXCEPT !.step = step, !.copy = copy] \in Request
  BY <1>1 DEF Request
<1>3. /\ request'[r] = [request[r] EXCEPT !.step = step, !.copy = copy]
      /\ \A q \in Requests \ {r} : request'[q] = request[q]
  BY DEF Continue, TypeOK
<1> QED
  BY <1>1, <1>2, <1>3, StudentAssumption DEF Request, Target

LEMMA SendMoves ==
  ASSUME TypeOK, NEW r \in Requests, NEW kind \in Kinds, NEW s \in Students \cup {None},
         NEW u \in Users \cup {None}, NEW d \in Values \cup {None}, NEW e \in MaybeRow,
         s # None => s \in issued, (kind = "delete_user") <=> (s = None), kind = "update" => d \in Values,
         kind \in {"link", "delete_user"} => u \in Users,
         e # None => kind = "update" /\ e \in shown[s],
         Accept(r, Form(kind, s, u, d, e))
  PROVE  Moved
<1> DEFINE x == Form(kind, s, u, d, e)
<1>1. x \in Request
  BY DEF Form, Request, MaybeRow
<1>2. Fit(x) /\ Ready(x) /\ Loaded(r, x)
  BY DEF Form, Fit, Ready, Loaded
<1> QED
  BY <1>1, <1>2 DEF Accept, Moved

LEMMA StepMoves ==
  ASSUME TypeOK, FitInv, FreshInv, Next
  PROVE  Moved
<1> USE DEF At, Target
<1>0. /\ \A r \in Requests : request[r] # None => request[r] \in Request /\ Fit(request[r])
      /\ \A s \in Students : student[s] \in MaybeRow /\ cache[s] \in MaybeRow
      /\ \A s \in Students : student[s] # None => s \in issued
      /\ issued \subseteq Students
  BY DEF TypeOK, FitInv, FreshInv
<1>1. ASSUME NEW s \in Students, NEW d \in Values, CreateStudent(s, d) PROVE Moved
  BY <1>1 DEF CreateStudent, Moved
<1>2. ASSUME NEW r \in Requests, NEW s \in issued, SendRead(r, s) PROVE Moved
  <2>1. Accept(r, Form("read", s, None, None, None)) /\ "read" \in Kinds
    BY <1>2 DEF SendRead, Accept, Form
  <2> QED
    BY <1>0, <2>1, SendMoves, StudentAssumption DEF MaybeRow
<1>3. ASSUME NEW r \in Requests, SendWrite(r) PROVE Moved
  <2>1. ASSUME NEW s \in issued, NEW d \in Values, NEW e \in shown[s] \cup {None},
               Accept(r, Form("update", s, None, d, e))
        PROVE  Moved
    <3>1. "update" \in Kinds /\ e \in MaybeRow
      BY <1>0, <2>1 DEF Accept, Form, TypeOK, MaybeRow
    <3> QED
      BY <1>0, <2>1, <3>1, SendMoves, StudentAssumption
  <2>2. ASSUME NEW s \in issued, Accept(r, Form("delete", s, None, None, None))
        PROVE  Moved
    <3>1. "delete" \in Kinds
      BY <2>2 DEF Accept, Form
    <3> QED
      BY <1>0, <2>2, <3>1, SendMoves, StudentAssumption DEF MaybeRow
  <2>3. ASSUME NEW s \in issued, NEW u \in Users, Accept(r, Form("link", s, u, None, None))
        PROVE  Moved
    <3>1. "link" \in Kinds
      BY <2>3 DEF Accept, Form
    <3> QED
      BY <1>0, <2>3, <3>1, SendMoves, StudentAssumption DEF MaybeRow
  <2>4. ASSUME NEW u \in users, Accept(r, Form("delete_user", None, u, None, None))
        PROVE  Moved
    <3>1. "delete_user" \in Kinds /\ u \in Users
      BY <2>4 DEF Accept, Form, TypeOK
    <3> QED
      BY <2>4, <3>1, SendMoves DEF MaybeRow
  <2> QED
    BY <1>3, <2>1, <2>2, <2>3, <2>4 DEF SendWrite
<1>4. ASSUME NEW r \in Requests, ReadCached(r) PROVE Moved
  BY <1>0, <1>4, AnswerMoves, ContinueMoves DEF ReadCached, MaybeRow, Fit
<1>5. ASSUME NEW r \in Requests, QueryStudent(r) PROVE Moved
  <2>1. Target(r) \in Students /\ student[Target(r)] \in MaybeRow
    BY <1>0, <1>5 DEF QueryStudent, Fit
  <2> QED
    BY <1>0, <1>5, <2>1, RespondMoves, ContinueMoves, StudentAssumption DEF QueryStudent
<1>6. ASSUME NEW r \in Requests, WriteCached(r) PROVE Moved
  BY <1>6, AnswerMoves DEF WriteCached
<1>7. ASSUME NEW r \in Requests, ReadForUpdate(r) PROVE Moved
  <2>1. Target(r) \in Students /\ student[Target(r)] \in MaybeRow
    BY <1>0, <1>7 DEF ReadForUpdate, Fit
  <2> QED
    BY <1>0, <1>7, <2>1, RespondMoves, ContinueMoves, StudentAssumption
    DEF ReadForUpdate, VersionMatches
<1>8. ASSUME NEW r \in Requests, ReadForDelete(r) PROVE Moved
  <2>1. Target(r) \in Students /\ student[Target(r)] \in MaybeRow /\ request[r].expects = None
    BY <1>0, <1>8 DEF ReadForDelete, Fit
  <2> QED
    BY <1>0, <1>8, <2>1, RespondMoves, ContinueMoves, StudentAssumption DEF ReadForDelete
<1>9. ASSUME NEW r \in Requests, ReadForLink(r) PROVE Moved
  <2>1. Target(r) \in Students /\ student[Target(r)] \in MaybeRow
    BY <1>0, <1>9 DEF ReadForLink, Fit
  <2> QED
    BY <1>0, <1>9, <2>1, RespondMoves, ContinueMoves, StudentAssumption DEF ReadForLink
<1>10. ASSUME NEW r \in Requests, CheckLink(r) PROVE Moved
  <2>1. /\ Target(r) \in Students /\ request[r].copy \in MaybeRow
        /\ request[r].copy # None /\ request[r].expects = None
    BY <1>0, <1>10 DEF CheckLink, Fit, TypeOK, Request
  <2> QED
    BY <1>0, <1>10, <2>1, RespondMoves, ContinueMoves, StudentAssumption DEF CheckLink
<1>11. ASSUME NEW r \in Requests, ReadForUserDelete(r) PROVE Moved
  <2> DEFINE q == request[r]
  <2>1. q # None /\ q \in Request /\ Fit(q) /\ q.kind = "delete_user" /\ q.expects = None
    BY <1>0, <1>11 DEF ReadForUserDelete, Fit
  <2>2. CASE Respond(r)
    BY <2>2, RespondMoves
  <2>3. CASE q.user \in users /\ LinkedTo(q.user) = {} /\ Continue(r, "committing", None)
    <3>1. Target(r) = None
      BY <1>11, <2>1 DEF ReadForUserDelete, Fit
    <3> QED
      BY <2>1, <2>3, <3>1, <1>0, ContinueMoves DEF MaybeRow
  <2>4. CASE \E s \in LinkedTo(q.user) :
               request' = [request EXCEPT ![r].student = s, ![r].step = "committing",
                                          ![r].copy = student[s]]
    <3>1. PICK s \in LinkedTo(q.user) :
               request' = [request EXCEPT ![r].student = s, ![r].step = "committing",
                                          ![r].copy = student[s]]
      BY <2>4
    <3> DEFINE x == [q EXCEPT !.student = s, !.step = "committing", !.copy = student[s]]
    <3>2. s \in Students /\ student[s] # None /\ student[s].user_id = q.user
      BY DEF LinkedTo
    <3>3. x \in Request
      BY <2>1, <3>2, <1>0 DEF Request
    <3>4. /\ x.step = "committing" /\ x.copy = student[s] /\ x.kind = q.kind
          /\ x.student = s /\ x.expects = q.expects /\ x.user = q.user
      BY <2>1 DEF Request
    <3>5. Fit(x) /\ Ready(x) /\ Loaded(r, x)
      BY <1>0, <2>1, <3>2, <3>4, StudentAssumption DEF Fit, Ready, Loaded
    <3>6. request' = [request EXCEPT ![r] = x]
      BY <3>1 DEF TypeOK
    <3> QED
      BY <3>3, <3>5, <3>6 DEF Moved
  <2> QED
    BY <1>11, <2>2, <2>3, <2>4 DEF ReadForUserDelete
<1>12. ASSUME NEW r \in Requests, CommitUpdate(r) \/ CommitDelete(r) \/ CommitLink(r)
       PROVE  Moved
  <2>1. /\ request[r] # None /\ Target(r) \in Students /\ request[r].copy \in MaybeRow
        /\ request[r].copy # None
    BY <1>0, <1>12, StudentAssumption DEF CommitUpdate, CommitDelete, CommitLink, Fit, Request
  <2> QED
    BY <1>0, <1>12, <2>1, ContinueMoves, StudentAssumption
    DEF CommitUpdate, CommitDelete, CommitLink
<1>13. ASSUME NEW r \in Requests, RefreshCopy(r) PROVE Moved
  <2>1. Target(r) \in Students /\ student[Target(r)] \in MaybeRow
    BY <1>0, <1>13 DEF RefreshCopy, Fit
  <2> QED
    BY <1>0, <1>13, <2>1, RespondMoves, ContinueMoves, StudentAssumption DEF RefreshCopy
<1>14. ASSUME NEW r \in Requests, InvalidateCached(r) PROVE Moved
  BY <1>14, RespondMoves, AnswerMoves DEF InvalidateCached
<1>15. ASSUME NEW r \in Requests, CommitUserDelete(r) \/ CommitRefused(r) \/ Abort(r)
       PROVE  Moved
  BY <1>15, RespondMoves DEF CommitUserDelete, CommitRefused, Abort
<1>16. ASSUME NEW s \in Students, CacheExpires(s) PROVE Moved
  BY <1>16 DEF CacheExpires, Moved
<1> HIDE DEF At, Target
<1> QED
  BY <1>1, <1>2, <1>3, <1>4, <1>5, <1>6, <1>7, <1>8, <1>9, <1>10, <1>11, <1>12, <1>13,
     <1>14, <1>15, <1>16 DEF Next, Serve

----------------------------------------------------------------------------
(* What a step does to the tables, the cache and the answers                *)

\* The session of a committing request holds the row as it is.
LEMMA CurrentIsCopy ==
  ASSUME Inv, NEW r \in Requests, request[r] # None, Target(r) # None,
         request[r].step = "committing", Current(r)
  PROVE  /\ request[r] \in Request /\ Fit(request[r])
         /\ Target(r) \in Students /\ Target(r) \in issued
         /\ student[Target(r)] \in Row
         /\ student[Target(r)] = request[r].copy
         /\ request[r].expects # None => student[Target(r)] = request[r].expects
<1> DEFINE q == request[r]
           s == Target(r)
<1>1. q \in Request /\ Fit(q)
  BY DEF Inv, TypeOK, FitInv
<1>2. s \in Students /\ s \in issued /\ q.copy \in Row /\ s = q.student
  BY <1>1 DEF Fit, Target, Request, MaybeRow
<1>3. student[s] \in Row
  BY <1>2 DEF Inv, TypeOK, MaybeRow, Current
<1>4. q.copy \in Seen(s)
  BY <1>2 DEF Seen
<1>5. student[s] = q.copy
  BY <1>2, <1>3, <1>4, StudentAssumption DEF Inv, SeenInv, Identifies, Current
<1>6. q.expects # None => q.expects \in Seen(s)
  BY <1>1, <1>2 DEF Fit, Seen, Inv, TypeOK
<1>7. q.expects # None => student[s] = q.expects
  BY <1>1, <1>2, <1>3, <1>5, <1>6, StudentAssumption DEF Inv, SeenInv, Identifies, Fit
<1> QED
  BY <1>1, <1>2, <1>3, <1>5, <1>7

Created(s) ==
  /\ s \notin issued
  /\ issued' = issued \cup {s}
  /\ users' = users
  /\ \E d \in Values :
       LET row == [version_id |-> 1, user_id |-> None, data |-> d] IN
         /\ student' = [student EXCEPT ![s] = row]
         /\ shown' = [shown EXCEPT ![s] = {row}]
  /\ UNCHANGED <<request, cache>>

Deleted(s) ==
  /\ student[s] # None
  /\ student' = [student EXCEPT ![s] = None]
  /\ UNCHANGED <<issued, users>>

Written(s, x) ==
  /\ student[s] \in Row
  /\ x \in Row
  /\ x.version_id = student[s].version_id + 1
  /\ student' = [student EXCEPT ![s] = x]
  /\ UNCHANGED issued

\* The writes, and what may happen to the link.
DbStep ==
  \/ UNCHANGED db
  \/ \E s \in Students : Created(s)
  \/ \E s \in Students : Deleted(s)
  \/ \E s \in Students : \E x \in Row :
       /\ Written(s, x)
       /\ \/ x.user_id = student[s].user_id /\ UNCHANGED users
          \/ /\ student[s].user_id = None
             /\ x.user_id \in users /\ LinkedTo(x.user_id) = {}
             /\ UNCHANGED users
          \/ /\ x.user_id = None
             /\ LinkedTo(student[s].user_id) \subseteq {s}
             /\ users' = users \ {student[s].user_id}
  \/ \E u \in Users : LinkedTo(u) = {} /\ users' = users \ {u} /\ UNCHANGED <<student, issued>>

LEMMA NewVersionIsRow ==
  ASSUME NEW row \in Row, NEW copy \in Row, row.version_id = copy.version_id
  PROVE  /\ \A d \in Values : LET x == NewVersion(row, copy, "data", d) IN
              /\ x \in Row /\ x.version_id = row.version_id + 1
              /\ x.user_id = row.user_id
         /\ \A u \in Users \cup {None} : LET x == NewVersion(row, copy, "user_id", u) IN
              x \in Row /\ x.version_id = row.version_id + 1 /\ x.user_id = u
<1>1. row.version_id + 1 \in Nat /\ copy.version_id + 1 = row.version_id + 1
  BY DEF Row
<1>2. ASSUME NEW d \in Values
      PROVE  LET x == NewVersion(row, copy, "data", d) IN
               x \in Row /\ x.version_id = row.version_id + 1 /\ x.user_id = row.user_id
  <2>1. [row EXCEPT !["data"] = d, !.version_id = copy.version_id + 1] \in Row
    BY <1>1 DEF Row
  <2> QED
    BY <1>1, <2>1 DEF NewVersion, Row
<1>3. ASSUME NEW u \in Users \cup {None}
      PROVE  LET x == NewVersion(row, copy, "user_id", u) IN
               x \in Row /\ x.version_id = row.version_id + 1 /\ x.user_id = u
  <2>1. [row EXCEPT !["user_id"] = u, !.version_id = copy.version_id + 1] \in Row
    BY <1>1 DEF Row
  <2> QED
    BY <1>1, <2>1 DEF NewVersion, Row
<1> QED
  BY <1>2, <1>3

LEMMA ChangedWrites ==
  ASSUME TypeOK, NEW r \in Requests, Target(r) \in Students, NEW column, NEW value,
         Changed(r, column, value)
  PROVE  student' = [student EXCEPT ![Target(r)] =
                       NewVersion(student[Target(r)], request[r].copy, column, value)]
BY DEF Changed, TypeOK

LEMMA StepWrites ==
  ASSUME Inv, Next
  PROVE  DbStep
<1> USE DEF db
<1>1. ASSUME NEW s \in Students, NEW d \in Values, CreateStudent(s, d) PROVE DbStep
  <2>1. Created(s)
    BY <1>1 DEF CreateStudent, Created
  <2> QED
    BY <2>1 DEF DbStep
<1>2. ASSUME NEW r \in Requests, CommitUpdate(r) PROVE DbStep
  <2> DEFINE s == Target(r)
             x == NewVersion(student[s], request[r].copy, "data", request[r].data)
  <2>0. CASE UNCHANGED student
    BY <1>2, <2>0 DEF CommitUpdate, DbStep
  <2>1. CASE Current(r) /\ Changed(r, "data", request[r].data) /\ request[r].copy.data # request[r].data
    <3>1. /\ s \in Students /\ student[s] \in Row /\ student[s] = request[r].copy
          /\ request[r] \in Request
      BY <1>2, <2>1, CurrentIsCopy DEF CommitUpdate, At, Inv, FitInv, Fit, Target
    <3>2. request[r].data \in Values
      BY <1>2, CurrentIsCopy, <2>1 DEF CommitUpdate, At, Inv, FitInv, Fit, Target
    <3>3. x \in Row /\ x.version_id = student[s].version_id + 1 /\ x.user_id = student[s].user_id
      BY <3>1, <3>2, NewVersionIsRow
    <3>4. student' = [student EXCEPT ![s] = x]
      BY <2>1, <3>1, ChangedWrites DEF Inv
    <3> HIDE DEF s, x
    <3> QED
      BY <1>2, <3>1, <3>3, <3>4 DEF CommitUpdate, Written, DbStep
  <2> QED
    BY <1>2, <2>0, <2>1 DEF CommitUpdate
<1>3. ASSUME NEW r \in Requests, CommitDelete(r) PROVE DbStep
  <2>1. Target(r) \in Students /\ student[Target(r)] \in Row
    BY <1>3, CurrentIsCopy DEF CommitDelete, At, Inv, FitInv, Fit, Target
  <2>2. Deleted(Target(r))
    BY <1>3, <2>1, StudentAssumption DEF CommitDelete, Deleted
  <2> QED
    BY <2>1, <2>2 DEF DbStep
<1>4. ASSUME NEW r \in Requests, CommitLink(r) PROVE DbStep
  <2> DEFINE s == Target(r)
             x == NewVersion(student[s], request[r].copy, "user_id", request[r].user)
  <2>1. /\ s \in Students /\ student[s] \in Row /\ student[s] = request[r].copy
        /\ student[s].user_id = None
    BY <1>4, CurrentIsCopy DEF CommitLink, At, Inv, FitInv, Fit, Target
  <2>2. request[r].user \in Users /\ request[r].user \in users
    BY <1>4 DEF CommitLink, Inv, TypeOK
  <2>3. x \in Row /\ x.version_id = student[s].version_id + 1 /\ x.user_id = request[r].user
    BY <2>1, <2>2, NewVersionIsRow
  <2>4. student' = [student EXCEPT ![s] = x]
    BY <1>4, <2>1, ChangedWrites DEF Inv, CommitLink
  <2>5. LinkedTo(x.user_id) = {}
    BY <1>4, <2>3 DEF CommitLink, Unlinked
  <2> HIDE DEF s, x
  <2> QED
    BY <1>4, <2>1, <2>2, <2>3, <2>4, <2>5 DEF CommitLink, Written, DbStep
<1>5. ASSUME NEW r \in Requests, CommitUserDelete(r) PROVE DbStep
  <2>0. request[r].user \in Users \cup {None} /\ users' = users \ {request[r].user}
    BY <1>5 DEF CommitUserDelete, At, Inv, TypeOK, Request
  <2>1. CASE Target(r) = None /\ LinkedTo(request[r].user) = {} /\ UNCHANGED student
    <3>1. CASE request[r].user \in Users
      BY <1>5, <2>0, <2>1, <3>1 DEF CommitUserDelete, DbStep
    <3>2. CASE request[r].user = None
      <4>1. UNCHANGED users
        BY <2>0, <3>2, StudentAssumption DEF Inv, TypeOK
      <4> QED
        BY <1>5, <2>1, <4>1 DEF CommitUserDelete, DbStep
    <3> QED
      BY <2>0, <3>1, <3>2
  <2>2. CASE /\ Target(r) # None /\ Current(r)
             /\ LinkedTo(request[r].user) \subseteq {Target(r)}
             /\ Changed(r, "user_id", None)
    <3> DEFINE s == Target(r)
               x == NewVersion(student[s], request[r].copy, "user_id", None)
    <3>1. /\ s \in Students /\ student[s] \in Row /\ student[s] = request[r].copy
          /\ student[s].user_id = request[r].user
      BY <1>5, <2>2, CurrentIsCopy DEF CommitUserDelete, At, Fit, Target
    <3>2. x \in Row /\ x.version_id = student[s].version_id + 1 /\ x.user_id = None
      BY <3>1, NewVersionIsRow
    <3>3. student' = [student EXCEPT ![s] = x]
      BY <2>2, <3>1, ChangedWrites DEF Inv
    <3>4. LinkedTo(student[s].user_id) \subseteq {s} /\ users' = users \ {student[s].user_id}
      BY <2>0, <2>2, <3>1
    <3> HIDE DEF s, x
    <3> QED
      BY <1>5, <3>1, <3>2, <3>3, <3>4 DEF CommitUserDelete, Written, DbStep
  <2> QED
    BY <1>5, <2>1, <2>2 DEF CommitUserDelete
<1>6. ASSUME UNCHANGED db PROVE DbStep
  BY <1>6 DEF DbStep
<1>7. \/ \E s \in Students, d \in Values : CreateStudent(s, d)
      \/ \E r \in Requests :
           CommitUpdate(r) \/ CommitDelete(r) \/ CommitLink(r) \/ CommitUserDelete(r)
      \/ UNCHANGED db
  BY DEF Next, Serve, SendRead, SendWrite, Accept, ReadCached, QueryStudent, WriteCached,
     ReadForUpdate, ReadForDelete, ReadForLink, CheckLink, ReadForUserDelete, CommitRefused,
     RefreshCopy, InvalidateCached, Abort, CacheExpires
<1> QED
  BY <1>1, <1>2, <1>3, <1>4, <1>5, <1>6, <1>7

LEMMA AnswerTeaches ==
  ASSUME TypeOK, NEW r \in Requests, NEW row \in Row, Answer(r, row), row \in Seen(Target(r)),
         Target(r) \in Students
  PROVE  /\ shown' \in [Students -> SUBSET Row]
         /\ \A s \in Students :
              /\ shown'[s] \subseteq shown[s] \cup Seen(s)
              /\ shown[s] \subseteq shown'[s]
BY DEF Answer, TypeOK

LEMMA StepShows ==
  ASSUME Inv, Next
  PROVE  /\ shown' \in [Students -> SUBSET Row]
         /\ \A s \in Students :
              /\ shown'[s] \subseteq shown[s] \cup Seen(s) \cup {student'[s]}
              /\ s \in issued => shown[s] \subseteq shown'[s]
<1> DEFINE Goal ==
      /\ shown' \in [Students -> SUBSET Row]
      /\ \A s \in Students :
           /\ shown'[s] \subseteq shown[s] \cup Seen(s) \cup {student'[s]}
           /\ s \in issued => shown[s] \subseteq shown'[s]
<1> USE DEF At
<1>1. ASSUME NEW s \in Students, NEW d \in Values, CreateStudent(s, d) PROVE Goal
  <2>1. [version_id |-> 1, user_id |-> None, data |-> d] \in Row
    BY DEF Row
  <2> QED
    BY <1>1, <2>1 DEF CreateStudent, Inv, TypeOK
<1>2. ASSUME UNCHANGED shown PROVE Goal
  BY <1>2 DEF Inv, TypeOK
<1>3. ASSUME NEW r \in Requests, NEW row \in Row, Answer(r, row), row \in Seen(Target(r)),
             Target(r) \in Students
      PROVE  Goal
  BY <1>3, AnswerTeaches DEF Inv
<1>4. ASSUME NEW r \in Requests, ReadCached(r) PROVE Goal
  <2>1. Target(r) \in Students
    BY <1>4 DEF ReadCached, Inv, TypeOK, FitInv, Fit, Target, Request
  <2>2. cache[Target(r)] # None => cache[Target(r)] \in Row /\ cache[Target(r)] \in Seen(Target(r))
    BY <2>1 DEF Inv, TypeOK, MaybeRow, Seen
  <2> QED
    BY <1>2, <1>3, <1>4, <2>1, <2>2 DEF ReadCached, Continue
<1>5. ASSUME NEW r \in Requests, WriteCached(r) \/ InvalidateCached(r) PROVE Goal
  <2>1. /\ Target(r) \in Students /\ request[r].copy \in Row
        /\ request[r].copy \in Seen(Target(r))
    BY <1>5 DEF WriteCached, InvalidateCached, Inv, TypeOK, FitInv, Fit, Target, Request, Seen,
       MaybeRow
  <2> QED
    BY <1>2, <1>3, <1>5, <2>1 DEF WriteCached, InvalidateCached, Respond
<1>6. \/ \E s \in Students, d \in Values : CreateStudent(s, d)
      \/ \E r \in Requests : ReadCached(r) \/ WriteCached(r) \/ InvalidateCached(r)
      \/ UNCHANGED shown
  BY DEF Next, Serve, SendRead, SendWrite, Accept, QueryStudent, Respond, Continue,
     ReadForUpdate, ReadForDelete, ReadForLink, CheckLink, ReadForUserDelete, CommitRefused,
     RefreshCopy, Abort, CacheExpires, CommitUpdate, CommitDelete, CommitLink, CommitUserDelete
<1> QED
  BY <1>1, <1>2, <1>4, <1>5, <1>6

LEMMA StepCaches ==
  ASSUME Inv, Next
  PROVE  /\ cache' \in [Students -> MaybeRow]
         /\ \A s \in Students : cache'[s] \in Seen(s) \cup {cache[s], None}
<1> DEFINE Goal ==
      /\ cache' \in [Students -> MaybeRow]
      /\ \A s \in Students : cache'[s] \in Seen(s) \cup {cache[s], None}
<1>1. ASSUME UNCHANGED cache PROVE Goal
  BY <1>1 DEF Inv, TypeOK
<1>2. ASSUME NEW r \in Requests, WriteCached(r) PROVE Goal
  <2>1. /\ Target(r) \in Students /\ request[r].copy \in Row
        /\ request[r].copy \in Seen(Target(r))
    BY <1>2 DEF At, WriteCached, Inv, TypeOK, FitInv, Fit, Target, Request, Seen, MaybeRow
  <2> QED
    BY <1>1, <1>2, <2>1 DEF WriteCached, Inv, TypeOK, MaybeRow
<1>3. ASSUME NEW s \in Students, cache' = [cache EXCEPT ![s] = None] PROVE Goal
  BY <1>3 DEF Inv, TypeOK, MaybeRow
<1>4. ASSUME NEW r \in Requests, InvalidateCached(r) PROVE Goal
  <2>1. Target(r) \in Students
    BY <1>4 DEF At, InvalidateCached, Inv, TypeOK, FitInv, Fit, Target, Request
  <2> QED
    BY <1>1, <1>3, <1>4, <2>1 DEF InvalidateCached, Dropped
<1>5. \/ \E r \in Requests : WriteCached(r) \/ InvalidateCached(r)
      \/ \E s \in Students : cache' = [cache EXCEPT ![s] = None]
      \/ UNCHANGED cache
  BY DEF Next, Serve, CreateStudent, SendRead, SendWrite, Accept, ReadCached, QueryStudent,
     ReadForUpdate, ReadForDelete, ReadForLink, CheckLink, ReadForUserDelete, CommitRefused,
     RefreshCopy, Abort, CacheExpires, CommitUpdate, CommitDelete, CommitLink, CommitUserDelete
<1> QED
  BY <1>1, <1>2, <1>3, <1>4, <1>5

LEMMA StepCounts ==
  ASSUME Inv, Next
  PROVE  writes' \in 0..MaxWrites /\ faults' \in 0..MaxFaults
<1>1. writes' = writes \/ (writes < MaxWrites /\ writes' = writes + 1)
  BY DEF Next, Serve, CreateStudent, SendRead, SendWrite, ReadCached, QueryStudent,
     WriteCached, ReadForUpdate, ReadForDelete, ReadForLink, CheckLink, ReadForUserDelete,
     CommitRefused, RefreshCopy, InvalidateCached, Abort, CacheExpires, CommitUpdate,
     CommitDelete, CommitLink, CommitUserDelete
<1>2. faults' = faults \/ (faults < MaxFaults /\ faults' = faults + 1)
  BY DEF Fault, Next, Serve, CreateStudent, SendRead, SendWrite, Accept, ReadCached,
     QueryStudent, WriteCached, ReadForUpdate, ReadForDelete, ReadForLink, CheckLink,
     ReadForUserDelete, CommitRefused, RefreshCopy, InvalidateCached, Abort, CacheExpires,
     CommitUpdate, CommitDelete, CommitLink, CommitUserDelete
<1> QED
  BY <1>1, <1>2, StudentAssumption DEF Inv, TypeOK

----------------------------------------------------------------------------
(* The invariant is inductive                                               *)

LEMMA StepTypes ==
  ASSUME Inv, Next
  PROVE  TypeOK'
<1>1. student' \in [Students -> MaybeRow] /\ issued' \subseteq Students /\ users' \subseteq Users
  <2>1. DbStep
    BY StepWrites
  <2>2. \A d \in Values : [version_id |-> 1, user_id |-> None, data |-> d] \in Row
    BY DEF Row
  <2> QED
    BY <2>1, <2>2 DEF DbStep, Created, Deleted, Written, Inv, TypeOK, MaybeRow, db
<1>2. /\ request' \in [Requests -> Request \cup {None}]
      /\ \A r \in Requests : request'[r] # None => Ready(request'[r])
  <2>1. Moved
    BY StepMoves DEF Inv
  <2> QED
    BY <2>1 DEF Moved, Inv, TypeOK, Ready
<1> QED
  BY <1>1, <1>2, StepShows, StepCaches, StepCounts DEF TypeOK, Ready

LEMMA StepFits ==
  ASSUME Inv, Next
  PROVE  FitInv'
<1>1. issued \subseteq issued'
  BY StepWrites DEF DbStep, Created, Deleted, Written, db
<1>2. ASSUME NEW q, q \in Request, Fit(q) PROVE Fit(q)'
  <2>1. q.expects # None => q.expects \in shown'[q.student]
    BY <1>2, StepShows DEF Fit, Request
  <2> QED
    BY <1>1, <1>2, <2>1 DEF Fit
<1>3. Moved
  BY StepMoves DEF Inv
<1>4. \A r \in Requests : request'[r] # None => request'[r] \in Request /\ Fit(request'[r])
  BY <1>3 DEF Moved, Inv, TypeOK, FitInv
<1> QED
  BY <1>2, <1>4 DEF FitInv, Fit

LEMMA StepLearns ==
  ASSUME Inv, Next, NEW s \in Students
  PROVE  Seen(s)' \subseteq Seen(s) \cup {student[s], student'[s]}
<1>1. Moved
  BY StepMoves DEF Inv
<1>2. ASSUME NEW r \in Requests, request'[r] # None, request'[r].student = s
      PROVE  request'[r].copy \in Seen(s) \cup {None, student[s]}
  <2>1. \/ request'[r] = request[r]
        \/ request'[r] \in Request /\ Loaded(r, request'[r])
    BY <1>1, <1>2 DEF Moved, Inv, TypeOK
  <2>2. request[r] # None => request[r].copy \in Row \cup {None}
    BY DEF Inv, TypeOK, Request, MaybeRow
  <2> QED
    BY <1>2, <2>1, <2>2 DEF Loaded, Seen, Target
<1>3. shown[s] \subseteq Seen(s) /\ cache[s] \in Seen(s) \cup {None}
  BY DEF Seen, Inv, TypeOK, MaybeRow
<1>4. /\ shown'[s] \subseteq Seen(s) \cup {student'[s]}
      /\ cache'[s] \in Seen(s) \cup {None}
  BY <1>3, StepShows, StepCaches
<1> QED
  BY <1>2, <1>4, StudentAssumption DEF Seen, Target

LEMMA StepIdentifies ==
  ASSUME Inv, Next
  PROVE  FreshInv' /\ SeenInv'
<1>1. DbStep
  BY StepWrites
<1>2. ASSUME NEW s \in Students, s \notin issued'
      PROVE  student'[s] = None /\ Seen(s)' = {}
  <2>1. s \notin issued /\ student'[s] = student[s]
    BY <1>1, <1>2, StudentAssumption
    DEF DbStep, Created, Deleted, Written, db, Inv, TypeOK, FreshInv
  <2>2. student[s] = None /\ Seen(s) = {}
    BY <2>1 DEF Inv, FreshInv
  <2>3. Seen(s)' \subseteq Row
    BY DEF Seen
  <2> QED
    BY <2>1, <2>2, <2>3, StepLearns, StudentAssumption
<1>3. ASSUME NEW s \in Students, student'[s] # None, NEW e \in Seen(s)'
      PROVE  Identifies(e, student'[s])
  <2>1. e \in Row /\ e \in Seen(s) \cup {student[s], student'[s]}
    BY StepLearns DEF Seen
  <2>2. student[s] \in MaybeRow /\ student'[s] \in Row
    BY <1>3, StepTypes DEF Inv, TypeOK, MaybeRow
  <2>3. CASE e = student'[s]
    BY <2>2, <2>3 DEF Identifies, Row
  <2>4. CASE e # student'[s]
    <3>1. student[s] # None
      <4>1. SUFFICES ASSUME student[s] = None PROVE FALSE
        OBVIOUS
      <4>2. s \notin issued
        BY <1>1, <1>3, <4>1, StudentAssumption
        DEF DbStep, Created, Deleted, Written, db, Inv, TypeOK, FreshInv
      <4> QED
        BY <2>1, <2>4, <4>1, <4>2, StudentAssumption DEF Inv, FreshInv
    <3>2. Identifies(e, student[s])
      BY <2>1, <2>2, <2>4, <3>1 DEF Inv, SeenInv, Identifies, MaybeRow, Row
    <3>3. \/ student'[s] = student[s]
          \/ student'[s].version_id = student[s].version_id + 1
      BY <1>1, <1>3, <3>1
      DEF DbStep, Created, Deleted, Written, db, Inv, TypeOK, FreshInv
    <3> QED
      BY <2>1, <2>2, <3>1, <3>2, <3>3 DEF Identifies, MaybeRow, Row
  <2> QED
    BY <2>3, <2>4
<1> QED
  BY <1>2, <1>3 DEF FreshInv, SeenInv, Identifies

LEMMA StepLinks ==
  ASSUME Inv, Next
  PROVE  LinksAreSound'
<1>1. DbStep
  BY StepWrites
<1>2. ASSUME UNCHANGED db PROVE LinksAreSound'
  BY <1>2 DEF db, Inv, LinksAreSound, LinkedTo
<1>3. ASSUME NEW s \in Students, Created(s) PROVE LinksAreSound'
  BY <1>3 DEF Created, Inv, TypeOK, LinksAreSound, LinkedTo
<1>4. ASSUME NEW s \in Students, Deleted(s) PROVE LinksAreSound'
  BY <1>4 DEF Deleted, Inv, TypeOK, LinksAreSound, LinkedTo
<1>5. ASSUME NEW s \in Students, NEW x \in Row, Written(s, x), x.user_id = student[s].user_id,
             UNCHANGED users
      PROVE  LinksAreSound'
  BY <1>5, StudentAssumption DEF Written, Inv, TypeOK, LinksAreSound, LinkedTo
<1>6. ASSUME NEW s \in Students, NEW x \in Row, Written(s, x), student[s].user_id = None,
             x.user_id \in users, LinkedTo(x.user_id) = {}, UNCHANGED users
      PROVE  LinksAreSound'
  BY <1>6, StudentAssumption DEF Written, Inv, TypeOK, LinksAreSound, LinkedTo
<1>7. ASSUME NEW s \in Students, NEW x \in Row, Written(s, x), x.user_id = None,
             LinkedTo(student[s].user_id) \subseteq {s},
             users' = users \ {student[s].user_id}
      PROVE  LinksAreSound'
  BY <1>7, StudentAssumption DEF Written, Inv, TypeOK, LinksAreSound, LinkedTo
<1>8. ASSUME NEW u \in Users, LinkedTo(u) = {}, users' = users \ {u}, UNCHANGED student
      PROVE  LinksAreSound'
  BY <1>8 DEF Inv, LinksAreSound, LinkedTo
<1> QED
  BY <1>1, <1>2, <1>3, <1>4, <1>5, <1>6, <1>7, <1>8 DEF DbStep

LEMMA InvStep == Inv /\ [Next]_vars => Inv'
<1>1. ASSUME Inv, Next PROVE Inv'
  BY <1>1, StepTypes, StepFits, StepIdentifies, StepLinks DEF Inv
<1>2. ASSUME Inv, UNCHANGED vars PROVE Inv'
  BY <1>2 DEF vars, db, Inv, TypeOK, FreshInv, SeenInv, FitInv, Fit, LinksAreSound, LinkedTo,
     Seen, Target, Identifies
<1> QED
  BY <1>1, <1>2

LEMMA InvInit == Init => Inv
BY StudentAssumption DEF Init, Inv, TypeOK, FreshInv, SeenInv, FitInv, LinksAreSound, Seen,
   MaybeRow, Request

\* Every reachable state satisfies the inductive invariant.
THEOREM RecordsInvCorrect == Spec => []Inv
BY InvInit, InvStep, PTL DEF Spec

----------------------------------------------------------------------------
(* The properties                                                           *)

\* Every reachable state has the declared types.
THEOREM RecordsTypeCorrect == Spec => []TypeOK
<1>1. Inv => TypeOK
  BY DEF Inv
<1> QED
  BY <1>1, RecordsInvCorrect, PTL

\* Whatever a client was shown or Redis holds is the row as it was at its
\* version_id, so the version_id tells whether the row has changed since.
THEOREM VersionsIdentifyRows == Spec => []VersionIdentifiesRow
<1>1. Inv => VersionIdentifiesRow
  <2>1. ASSUME Inv, NEW s \in Students, NEW e \in shown[s] \cup ({cache[s]} \ {None})
        PROVE  e \in Seen(s)
    BY <2>1 DEF Inv, TypeOK, MaybeRow, Seen
  <2> QED
    BY <2>1 DEF Inv, SeenInv, Identifies, VersionIdentifiesRow
<1> QED
  BY <1>1, RecordsInvCorrect, PTL

\* Links are to users that exist, one student each.
THEOREM LinksStaySound == Spec => []LinksAreSound
<1>1. Inv => LinksAreSound
  BY DEF Inv
<1> QED
  BY <1>1, RecordsInvCorrect, PTL

\* A request that moves as the table changes is one that commits to it.
LEMMA WritersCommit ==
  ASSUME Inv, Next, NEW r \in Requests, request[r] # None, request'[r] # request[r],
         student' # student
  PROVE  request[r].step = "committing" /\ Target(r) # None /\ Current(r)
<1> DEFINE Commit(q) ==
      CommitUpdate(q) \/ CommitDelete(q) \/ CommitLink(q) \/ CommitUserDelete(q)
<1>1. \/ \E s \in Students, d \in Values : CreateStudent(s, d)
      \/ \E q \in Requests : Commit(q)
  BY DEF Next, Serve, SendRead, SendWrite, Accept, ReadCached, QueryStudent, WriteCached,
     ReadForUpdate, ReadForDelete, ReadForLink, CheckLink, ReadForUserDelete, CommitRefused,
     RefreshCopy, InvalidateCached, Abort, CacheExpires, db
<1>2. PICK q \in Requests : Commit(q)
  BY <1>1 DEF CreateStudent
<1>3. q = r
  BY <1>2 DEF CommitUpdate, CommitDelete, CommitLink, CommitUserDelete, Continue, Respond,
     Inv, TypeOK
<1>4. request[r].kind # "delete_user" => Target(r) # None
  BY DEF Inv, FitInv, Fit, Target
<1> QED
  BY <1>2, <1>3, <1>4 DEF CommitUpdate, CommitDelete, CommitLink, CommitUserDelete, At, Changed

\* A write changes the very row its session has loaded and, if the form carries
\* a version_id, the very row its author was shown.
THEOREM NoOneOverwritesBlindly == Spec => NoBlindOverwrite
<1> DEFINE A ==
      \A r \in Requests :
       LET q == request[r] IN
         /\ q # None
         /\ request'[r] # q
         /\ student' # student
         => /\ student[q.student] = q.copy
            /\ q.expects # None => student[q.student] = q.expects
<1>1. Inv /\ [Next]_vars => [A]_vars
  <2> SUFFICES ASSUME Inv, Next PROVE A
    OBVIOUS
  <2> QED
    BY WritersCommit, CurrentIsCopy DEF Target
<1> QED
  BY <1>1, RecordsInvCorrect, PTL DEF Spec, NoBlindOverwrite

\* A linked student is unlinked only by the deletion of its user.
THEOREM LinksLast == Spec => LinkedStaysLinked
<1> DEFINE A ==
      \A s \in Students :
       LET before == student[s]
           after  == student'[s]
       IN  /\ before # None
           /\ after # None
           /\ before.user_id # None
           /\ after.user_id # before.user_id
           => after.user_id = None /\ before.user_id \notin users'
<1>1. Inv /\ [Next]_vars => [A]_vars
  <2> SUFFICES ASSUME Inv, Next, NEW s \in Students, student[s] # None, student'[s] # None,
                      student[s].user_id # None, student'[s].user_id # student[s].user_id
               PROVE  student'[s].user_id = None /\ student[s].user_id \notin users'
    OBVIOUS
  <2>1. student[s] \in Row /\ s \in issued
    BY DEF Inv, TypeOK, MaybeRow, FreshInv
  <2>2. DbStep
    BY StepWrites
  <2> QED
    BY <2>1, <2>2, StudentAssumption
    DEF DbStep, db, Created, Deleted, Written, Inv, TypeOK
<1> QED
  BY <1>1, RecordsInvCorrect, PTL DEF Spec, LinkedStaysLinked

----------------------------------------------------------------------------
(* Old entries                                                              *)

\* A request that has yet to drop the entry of s.
Guards(r, s) ==
  request[r] # None /\ Target(r) = s /\ request[r].step \in {"refreshing", "invalidating"}

LEMMA StaleUnguarded ==
  \A s : StaleAtRest(s) <=>
    /\ student[s] # None
    /\ cache[s] \notin {None, student[s]}
    /\ \A r \in Requests : ~Guards(r, s)
BY DEF StaleAtRest, Guards, Target

\* Nothing happens to s but that its entry may go or a request begin to guard it.
Undisturbed(s) ==
  /\ student'[s] \in {student[s], None}
  /\ cache'[s] \in {cache[s], None}
  /\ \A r \in Requests : Guards(r, s) => Guards(r, s)'

LEMMA UndisturbedStays ==
  ASSUME NEW s, Undisturbed(s), ~StaleAtRest(s)
  PROVE  ~StaleAtRest(s)'
BY StaleUnguarded DEF Undisturbed, StaleAtRest, Guards, Target

\* An entry does not outlive the write that made it stale, unless a call
\* failed, a late reader has put the old row back, or a user was deleted.
THEOREM OldEntriesGo == Spec => UpdatesDropOldEntries
<1> DEFINE Excused(s) ==
      \/ faults' > faults
      \/ \E r \in Requests :
           /\ At(r, {"read"}, "filling") /\ Target(r) = s
           /\ request'[r] = None
      \/ student[s].user_id \in users \ users'
      \/ \E r \in Requests :
           /\ At(r, {"link"}, "refreshing") /\ Target(r) = s
           /\ request[r].user \notin users
           /\ request'[r] = None
    A == \A s \in Students : ~StaleAtRest(s) /\ StaleAtRest(s)' => Excused(s)
<1>1. Inv /\ [Next]_vars => [A]_vars
  <2> SUFFICES ASSUME Inv, Next, NEW s \in Students, ~StaleAtRest(s)
               PROVE  Excused(s) \/ ~StaleAtRest(s)'
    OBVIOUS
  <2> DEFINE Goal == Excused(s) \/ ~StaleAtRest(s)'
  <2>0. /\ \A r \in Requests : request[r] # None => request[r] \in Request /\ Fit(request[r])
        /\ faults \in Nat
    BY StudentAssumption DEF Inv, TypeOK, FitInv
  <2>1. ASSUME Undisturbed(s) PROVE Goal
    BY <2>1, UndisturbedStays
  <2>2. ASSUME Fault PROVE Goal
    BY <2>0, <2>2 DEF Fault
  <2>3. ASSUME NEW r \in Requests, request[r] # None,
               NEW step \in {"querying", "filling", "checking", "committing", "refreshing",
                             "invalidating"},
               NEW copy \in MaybeRow, Continue(r, step, copy),
               UNCHANGED <<student, cache>>,
               request[r].step \in {"refreshing", "invalidating"} =>
                 step \in {"refreshing", "invalidating"}
        PROVE  Goal
    <3>1. \A q \in Requests : Guards(q, s) => Guards(q, s)'
      BY <2>3, ContinueKeeps DEF Guards, Target, Inv
    <3> QED
      BY <2>1, <2>3, <3>1 DEF Undisturbed
  <2>4. ASSUME NEW r \in Requests, Respond(r) \/ (\E row : Answer(r, row)),
               UNCHANGED <<student, cache>>, ~Guards(r, s)
        PROVE  Goal
    <3>1. \A q \in Requests : Guards(q, s) => Guards(q, s)'
      BY <2>4 DEF Respond, Answer, Guards, Target, Inv, TypeOK
    <3> QED
      BY <2>1, <2>4, <3>1 DEF Undisturbed
  <2>5. ASSUME NEW r \in Requests, NEW q, Accept(r, q), UNCHANGED student PROVE Goal
    BY <2>1, <2>5 DEF Accept, Undisturbed, Guards, Target, Inv, TypeOK
  <2>6. ASSUME NEW t \in Students, NEW d \in Values, CreateStudent(t, d) PROVE Goal
    <3>1. t = s => cache[s] = None
      BY <2>6 DEF CreateStudent, Inv, FreshInv, Seen, TypeOK, MaybeRow
    <3>2. CASE t = s
      BY <2>6, <3>1, <3>2 DEF CreateStudent, StaleAtRest
    <3>3. CASE t # s
      BY <2>1, <2>6, <3>3 DEF CreateStudent, Undisturbed, Guards, Target, Inv, TypeOK
    <3> QED
      BY <3>2, <3>3
  <2>7. ASSUME NEW r \in Requests, ReadCached(r) \/ QueryStudent(r) PROVE Goal
    <3>1. /\ request[r] # None /\ request[r].step \in {"looking", "querying"}
          /\ Target(r) \in Students
      BY <2>0, <2>7 DEF ReadCached, QueryStudent, At, Fit, Target, Request
    <3>2. None \in MaybeRow /\ student[Target(r)] \in MaybeRow
      BY <3>1 DEF Inv, TypeOK, MaybeRow
    <3>3. ~Guards(r, s)
      BY <3>1 DEF Guards
    <3> QED
      BY <2>3, <2>4, <2>7, <3>1, <3>2, <3>3 DEF ReadCached, QueryStudent, db
  <2>8. ASSUME NEW r \in Requests, WriteCached(r) PROVE Goal
    <3>1. CASE Target(r) = s
      BY <2>8, <3>1 DEF WriteCached, Answer, Inv, TypeOK
    <3>2. CASE Target(r) # s
      <4>1. ~Guards(r, s)
        BY <3>2 DEF Guards
      <4>2. \A q \in Requests : Guards(q, s) => Guards(q, s)'
        BY <2>8, <4>1 DEF WriteCached, Answer, Guards, Target, Inv, TypeOK
      <4>3. cache'[s] = cache[s] /\ UNCHANGED student
        BY <2>8, <3>2 DEF WriteCached, db, Inv, TypeOK
      <4> QED
        BY <2>1, <4>2, <4>3 DEF Undisturbed
    <3> QED
      BY <3>1, <3>2
  <2>9. ASSUME NEW r \in Requests,
               ReadForUpdate(r) \/ ReadForDelete(r) \/ ReadForLink(r) \/ CheckLink(r)
        PROVE  Goal
    <3>1. /\ request[r] # None /\ request[r].step \in {"reading", "checking"}
          /\ Target(r) \in Students /\ request[r].copy \in MaybeRow
      BY <2>0, <2>9 DEF ReadForUpdate, ReadForDelete, ReadForLink, CheckLink, At, Fit, Target,
         Request
    <3>2. student[Target(r)] \in MaybeRow
      BY <3>1 DEF Inv, TypeOK
    <3>3. ~Guards(r, s)
      BY <3>1 DEF Guards
    <3> QED
      BY <2>3, <2>4, <2>9, <3>1, <3>2, <3>3
      DEF ReadForUpdate, ReadForDelete, ReadForLink, CheckLink, db
  <2>10. ASSUME NEW r \in Requests, ReadForUserDelete(r) PROVE Goal
    <3>1. \A q \in Requests : Guards(q, s) => Guards(q, s)'
      <4>1. ~Guards(r, s)
        BY <2>10 DEF ReadForUserDelete, At, Guards
      <4>2. \A q \in Requests \ {r} : request'[q] = request[q]
        BY <2>10 DEF ReadForUserDelete, Respond, Continue, Inv, TypeOK
      <4> QED
        BY <4>1, <4>2 DEF Guards, Target
    <3> QED
      BY <2>1, <2>10, <3>1 DEF ReadForUserDelete, db, Undisturbed
  <2>19. ASSUME NEW r \in Requests, CommitUserDelete(r) PROVE Goal
    <3>1. \A q \in Requests : Guards(q, s) => Guards(q, s)'
      BY <2>19 DEF CommitUserDelete, At, Respond, Guards, Target, Inv, TypeOK
    <3>2. CASE student'[s] = student[s]
      BY <2>1, <2>19, <3>1, <3>2 DEF CommitUserDelete, Undisturbed
    <3>3. CASE student'[s] # student[s]
      <4>1. /\ Target(r) # None /\ Current(r) /\ Changed(r, "user_id", None)
            /\ users' = users \ {request[r].user}
            /\ request[r] # None /\ request[r].step = "committing"
            /\ request[r].kind = "delete_user"
        BY <2>19, <3>3 DEF CommitUserDelete, At
      <4>2. Target(r) = s
        BY <3>3, <4>1, CurrentIsCopy DEF Changed, Inv, TypeOK
      <4>3. student[s] # None /\ student[s].user_id = request[r].user
        BY <4>1, <4>2, CurrentIsCopy, StudentAssumption DEF Fit, Target
      <4>4. request[r].user \in Users
        BY <2>0, <4>1 DEF Fit
      <4> QED
        BY <4>1, <4>3, <4>4, StudentAssumption DEF Inv, LinksAreSound
    <3> QED
      BY <3>2, <3>3
  <2>11. ASSUME NEW r \in Requests, CommitUpdate(r) \/ CommitLink(r) \/ CommitDelete(r)
         PROVE  Goal
    <3>1. /\ Target(r) \in Students /\ request[r].step = "committing" /\ request[r] # None
          /\ UNCHANGED cache
      BY <2>0, <2>11 DEF CommitUpdate, CommitLink, CommitDelete, At, Fit, Target, Request
    <3>2. \A q \in Requests \ {r} : Guards(q, s) => Guards(q, s)'
      BY <2>11 DEF CommitUpdate, CommitLink, CommitDelete, Continue, Guards, Target, Inv, TypeOK
    <3>3. ~Guards(r, s)
      BY <3>1 DEF Guards
    <3>4. CASE Target(r) # s
      <4>1. student'[s] = student[s]
        BY <2>11, <3>4 DEF CommitUpdate, CommitLink, CommitDelete, Changed, Inv, TypeOK
      <4> QED
        BY <2>1, <3>1, <3>2, <3>3, <4>1 DEF Undisturbed
    <3>5. CASE Target(r) = s
      <4>1. CASE CommitDelete(r)
        BY <2>1, <3>1, <3>2, <3>3, <3>5, <4>1 DEF CommitDelete, Undisturbed, Inv, TypeOK
      <4>2. CASE CommitUpdate(r) \/ CommitLink(r)
        <5>1. request[r].copy \in MaybeRow
          BY <2>0, <3>1 DEF Request
        <5>2. Continue(r, "refreshing", request[r].copy)
          BY <4>2 DEF CommitUpdate, CommitLink
        <5>3. Guards(r, s)'
          BY <3>1, <3>5, <5>1, <5>2, ContinueKeeps DEF Guards, Target, Inv
        <5> QED
          BY <5>3 DEF StaleAtRest, Guards, Target
      <4> QED
        BY <2>11, <4>1, <4>2
    <3> QED
      BY <3>4, <3>5
  <2>12. ASSUME NEW r \in Requests, CommitRefused(r) PROVE Goal
    BY <2>4, <2>12 DEF CommitRefused, At, Guards, db
  <2>13. ASSUME NEW r \in Requests, RefreshCopy(r) PROVE Goal
    <3>0. CASE request[r].kind = "link" /\ request[r].user \notin users /\ Target(r) = s
      BY <2>13, <3>0 DEF RefreshCopy, At, Respond, Inv, TypeOK
    <3>1. CASE /\ request[r].kind = "link" /\ request[r].user \notin users
               /\ Target(r) # s
      BY <2>4, <2>13, <3>1 DEF RefreshCopy, Guards, db
    <3>2. CASE /\ student[Target(r)] # None
               /\ request[r].kind = "link" => request[r].user \in users
      <4>1. request[r] # None /\ student[Target(r)] \in MaybeRow
        BY <2>0, <2>13 DEF RefreshCopy, At, Fit, Target, Request, Inv, TypeOK
      <4> QED
        BY <2>3, <2>13, <3>2, <4>1 DEF RefreshCopy, db
    <3>3. CASE student[Target(r)] = None /\ Target(r) # s
      BY <2>4, <2>13, <3>3 DEF RefreshCopy, Guards, db
    <3>4. CASE student[Target(r)] = None /\ Target(r) = s
      BY <2>13, <3>4 DEF RefreshCopy, db, StaleAtRest
    <3> QED
      BY <3>0, <3>1, <3>2, <3>3, <3>4
  <2>14. ASSUME NEW r \in Requests, InvalidateCached(r) PROVE Goal
    <3>1. CASE Fault
      BY <2>2, <3>1
    <3>2. CASE Dropped(Target(r)) /\ Target(r) = s
      BY <3>2 DEF Dropped, StaleAtRest, Inv, TypeOK
    <3>3. CASE Dropped(Target(r)) /\ Target(r) # s
      <4>1. \A q \in Requests : Guards(q, s) => Guards(q, s)'
        BY <2>14, <3>3 DEF InvalidateCached, Respond, Answer, Guards, Target, Inv, TypeOK
      <4> QED
        BY <2>1, <2>14, <3>3, <4>1 DEF InvalidateCached, Dropped, db, Undisturbed, Inv, TypeOK
    <3> QED
      BY <2>14, <3>1, <3>2, <3>3 DEF InvalidateCached
  <2>15. ASSUME NEW t \in Students, CacheExpires(t) PROVE Goal
    BY <2>1, <2>15 DEF CacheExpires, db, Undisturbed, Guards, Target, Inv, TypeOK
  <2>16. ASSUME NEW r \in Requests, NEW t, SendRead(r, t) PROVE Goal
    BY <2>5, <2>16 DEF SendRead, Accept, db
  <2>17. ASSUME NEW r \in Requests, SendWrite(r) PROVE Goal
    BY <2>5, <2>17 DEF SendWrite, Accept, db
  <2>18. ASSUME NEW r \in Requests, Abort(r) PROVE Goal
    BY <2>2, <2>18 DEF Abort
  <2> QED
    BY <2>6, <2>7, <2>8, <2>9, <2>10, <2>11, <2>12, <2>13, <2>14, <2>15, <2>16, <2>17, <2>18,
       <2>19
    DEF Next, Serve
<1> QED
  BY <1>1, RecordsInvCorrect, PTL DEF Spec, UpdatesDropOldEntries

----------------------------------------------------------------------------
(* The requests make up a StudentService                                    *)

call == [r \in Requests |-> CallOf(request[r])]

\* One request moves: one call moves.
LEMMA CallMoves ==
  ASSUME TypeOK, NEW r \in Requests, NEW x, request' = [request EXCEPT ![r] = x]
  PROVE  call' = [call EXCEPT ![r] = CallOf(x)]
BY DEF TypeOK, call, CallOf, HadEffect

LEMMA CallIs ==
  ASSUME NEW q \in Request
  PROVE  /\ CallOf(q).kind = q.kind /\ q.kind # "none"
         /\ CallOf(q).user = q.user /\ CallOf(q).data = q.data
         /\ CallOf(q).expects = q.expects /\ CallOf(q).done = HadEffect(q)
         /\ q.kind # "delete_user" => CallOf(q).student = q.student
BY StudentAssumption DEF CallOf, Request

LEMMA ReplyServes ==
  ASSUME TypeOK, NEW r \in Requests, request[r] # None,
         request' = [request EXCEPT ![r] = None], UNCHANGED db
  PROVE  Service!Reply(r)
<1>1. call' = [call EXCEPT ![r] = CallOf(None)]
  BY CallMoves
<1>2. CallOf(None) = [kind |-> "none"]
  BY DEF CallOf
<1>3. call[r].kind # "none"
  BY CallIs DEF TypeOK, call
<1>4. call[r] # [kind |-> "none"]
  BY <1>3
<1> QED
  BY <1>1, <1>2, <1>4 DEF Service!Reply, Service!Idle, Service!tables, call, db

\* The form of a request stays as it is from one step of its session to the next.
LEMMA SameCall ==
  ASSUME NEW q \in Request, NEW x \in Request,
         x.kind = q.kind, x.user = q.user, x.data = q.data, x.expects = q.expects,
         x.kind # "delete_user" => x.student = q.student
  PROVE  /\ (HadEffect(x) <=> HadEffect(q)) => CallOf(x) = CallOf(q)
         /\ HadEffect(x) => CallOf(x) = [CallOf(q) EXCEPT !.done = TRUE]
<1>1. q # None /\ x # None
  BY StudentAssumption
<1>2. ASSUME HadEffect(x) <=> HadEffect(q) PROVE CallOf(x) = CallOf(q)
  <2>1. HadEffect(x) = HadEffect(q)
    BY <1>2 DEF HadEffect
  <2> QED
    BY <1>1, <2>1 DEF CallOf
<1>3. ASSUME HadEffect(x) PROVE CallOf(x) = [CallOf(q) EXCEPT !.done = TRUE]
  <2> DEFINE Done(done) ==
        [kind |-> q.kind, student |-> IF q.kind = "delete_user" THEN None ELSE q.student,
         user |-> q.user, data |-> q.data, expects |-> q.expects, done |-> done]
  <2>1. HadEffect(x) = TRUE
    BY <1>3 DEF HadEffect
  <2>2. CallOf(q) = Done(HadEffect(q)) /\ CallOf(x) = Done(TRUE)
    BY <1>1, <2>1 DEF CallOf
  <2> DEFINE Fields(done) ==
        [f \in {"kind", "student", "user", "data", "expects", "done"} |->
           CASE f = "kind"    -> q.kind
             [] f = "student" -> IF q.kind = "delete_user" THEN None ELSE q.student
             [] f = "user"    -> q.user
             [] f = "data"    -> q.data
             [] f = "expects" -> q.expects
             [] f = "done"    -> done]
  <2>3. \A done : Done(done) = Fields(done)
    OBVIOUS
  <2>4. \A done : [Fields(done) EXCEPT !["done"] = TRUE] = Fields(TRUE)
    OBVIOUS
  <2> HIDE DEF Done, Fields
  <2>5. \A done : [Done(done) EXCEPT !.done = TRUE] = Done(TRUE)
    BY <2>3, <2>4
  <2> QED
    BY <2>2, <2>5
<1> QED
  BY <1>2, <1>3

LEMMA ContinueServes ==
  ASSUME TypeOK, NEW r \in Requests, request[r] # None,
         NEW step \in {"querying", "filling", "checking", "committing", "refreshing",
                       "invalidating"},
         NEW copy \in MaybeRow, Continue(r, step, copy),
         NEW done, 
         done <=> \/ step \in {"refreshing", "invalidating"}
                  \/ /\ request[r].kind = "update" /\ step = "committing"
                     /\ copy.data = request[r].data
  PROVE  /\ (HadEffect(request[r]) <=> done) => call' = call
         /\ done => call' = [call EXCEPT ![r].done = TRUE]
<1> DEFINE q == request[r]
           x == [q EXCEPT !.step = step, !.copy = copy]
<1>1. q \in Request /\ x \in Request
  BY DEF TypeOK, Request
<1>2. /\ x.kind = q.kind /\ x.student = q.student /\ x.user = q.user
      /\ x.data = q.data /\ x.expects = q.expects
      /\ x.step = step /\ x.copy = copy
  BY <1>1 DEF Request
<1>3. HadEffect(x) <=> done
  BY <1>2 DEF HadEffect
<1>4. request' = [request EXCEPT ![r] = x]
  BY DEF Continue, TypeOK
<1>5. call' = [call EXCEPT ![r] = CallOf(x)]
  BY <1>4, CallMoves
<1>6. call[r] = CallOf(q) /\ DOMAIN call = Requests /\ call = [p \in Requests |-> call[p]]
  BY DEF call
<1>7. /\ (HadEffect(q) <=> done) => CallOf(x) = CallOf(q)
      /\ done => CallOf(x) = [CallOf(q) EXCEPT !.done = TRUE]
  BY <1>1, <1>2, <1>3, SameCall
<1> HIDE DEF x, q
<1> QED
  BY <1>5, <1>6, <1>7 DEF q

\* A step of a session that nobody notices.
LEMMA QuietStep ==
  ASSUME Inv, NEW r \in Requests, request[r] # None,
         NEW step \in {"querying", "filling", "checking", "committing", "refreshing",
                       "invalidating"},
         NEW copy \in MaybeRow, Continue(r, step, copy), UNCHANGED db,
         HadEffect(request[r]) <=>
           \/ step \in {"refreshing", "invalidating"}
           \/ request[r].kind = "update" /\ step = "committing" /\ copy.data = request[r].data
  PROVE  UNCHANGED Service!vars
<1>1. call' = call
  BY ContinueServes DEF Inv
<1> QED
  BY <1>1 DEF Service!vars, db, call

\* A request that has just arrived.
LEMMA SendServes ==
  ASSUME Inv, NEW r \in Requests, NEW kind \in Kinds, NEW s \in Students \cup {None},
         NEW u \in Users \cup {None}, NEW d \in Values \cup {None}, NEW e \in MaybeRow,
         Accept(r, Form(kind, s, u, d, e))
  PROVE  Service!Arrive(r)
<1> DEFINE x == Form(kind, s, u, d, e)
<1>1. x \in Request
  BY DEF Form, Request, MaybeRow
<1>2. ~HadEffect(x)
  BY DEF Form, HadEffect
<1>3. call' = [call EXCEPT ![r] = CallOf(x)]
  BY CallMoves DEF Accept, Inv
<1>4. call'[r] = CallOf(x) /\ call[r] = [kind |-> "none"]
  BY <1>3 DEF call, Accept, CallOf
<1>5. CallOf(x).kind # "none" /\ ~CallOf(x).done
  BY <1>1, <1>2, CallIs
<1> HIDE DEF x
<1> QED
  BY <1>3, <1>4, <1>5 DEF Service!Arrive, Service!Idle, Service!tables, call, Accept, db

LEMMA SendsServe ==
  ASSUME Inv, NEW r \in Requests, SendWrite(r) \/ (\E s \in issued : SendRead(r, s))
  PROVE  Service!Arrive(r)
<1> USE DEF Accept, Form
<1>0. None \in MaybeRow /\ issued \subseteq Students /\ users \subseteq Users
  BY DEF Inv, TypeOK, MaybeRow
<1>1. CASE \E s \in issued : SendRead(r, s)
  <2>1. PICK s \in issued : Accept(r, Form("read", s, None, None, None))
    BY <1>1 DEF SendRead
  <2>2. "read" \in Kinds
    BY <2>1
  <2> HIDE DEF Accept, Form
  <2> QED
    BY <1>0, <2>1, <2>2, SendServes
<1>2. ASSUME NEW s \in issued, NEW d \in Values, NEW e \in shown[s] \cup {None},
             Accept(r, Form("update", s, None, d, e))
      PROVE  Service!Arrive(r)
  <2>1. "update" \in Kinds /\ e \in MaybeRow
    BY <1>0, <1>2 DEF Inv, TypeOK, MaybeRow
  <2> HIDE DEF Accept, Form
  <2> QED
    BY <1>0, <1>2, <2>1, SendServes
<1>3. ASSUME NEW s \in issued, Accept(r, Form("delete", s, None, None, None))
      PROVE  Service!Arrive(r)
  <2>1. "delete" \in Kinds
    BY <1>3
  <2> HIDE DEF Accept, Form
  <2> QED
    BY <1>0, <1>3, <2>1, SendServes
<1>4. ASSUME NEW s \in issued, NEW u \in Users, Accept(r, Form("link", s, u, None, None))
      PROVE  Service!Arrive(r)
  <2>1. "link" \in Kinds
    BY <1>4
  <2> HIDE DEF Accept, Form
  <2> QED
    BY <1>0, <1>4, <2>1, SendServes
<1>5. ASSUME NEW u \in users, Accept(r, Form("delete_user", None, u, None, None))
      PROVE  Service!Arrive(r)
  <2>1. "delete_user" \in Kinds
    BY <1>5
  <2> HIDE DEF Accept, Form
  <2> QED
    BY <1>0, <1>5, <2>1, SendServes
<1> HIDE DEF Accept, Form
<1> QED
  BY <1>1, <1>2, <1>3, <1>4, <1>5 DEF SendWrite

\* The row that a session reads is the one the client was shown, if the
\* versions match; a form that changes nothing is done with here.
LEMMA ReadForUpdateServes ==
  ASSUME Inv, NEW r \in Requests, ReadForUpdate(r)
  PROVE  Service!Edit(r) \/ Service!Reply(r) \/ UNCHANGED Service!vars
<1> DEFINE q == request[r]
           s == Target(r)
<1>1. q # None /\ q \in Request /\ Fit(q) /\ q.kind = "update" /\ q.step = "reading"
  BY DEF ReadForUpdate, At, Inv, TypeOK, FitInv
<1>2. s \in Students /\ s = q.student /\ student[s] \in MaybeRow
  BY <1>1 DEF Fit, Target, Request, Inv, TypeOK
<1>3. CASE Respond(r)
  BY <1>1, <1>3, ReplyServes DEF ReadForUpdate, Respond, Inv
<1>4. CASE student[s] # None /\ VersionMatches(student[s], q.expects)
           /\ Continue(r, "committing", student[s])
  <2>1. q.expects # None => student[s] = q.expects
    <3>1. SUFFICES ASSUME q.expects # None PROVE student[s] = q.expects
      OBVIOUS
    <3>2. q.expects \in Row /\ q.expects \in Seen(s)
      BY <1>1, <1>2, <3>1 DEF Fit, Seen, Inv, TypeOK
    <3> QED
      BY <1>2, <1>4, <3>1, <3>2 DEF Inv, SeenInv, Identifies, VersionMatches
  <2>2. ~HadEffect(q)
    BY <1>1 DEF HadEffect
  <2>3. CASE student[s].data = q.data
    <3>1. call' = [call EXCEPT ![r].done = TRUE]
      BY <1>1, <1>2, <1>4, <2>3, ContinueServes DEF Inv
    <3>2. /\ call[r].kind = "update" /\ call[r].student = s /\ call[r].data = q.data
          /\ call[r].expects = q.expects /\ ~call[r].done
      BY <1>1, <1>2, <2>2, CallIs DEF call
    <3> QED
      BY <1>4, <2>1, <2>3, <3>1, <3>2
      DEF Service!Edit, Service!Perform, Service!Exists, call, ReadForUpdate, db
  <2>4. CASE student[s].data # q.data
    BY <1>1, <1>2, <1>4, <2>2, <2>4, QuietStep DEF ReadForUpdate
  <2> QED
    BY <2>3, <2>4
<1> QED
  BY <1>3, <1>4 DEF ReadForUpdate

LEMMA CommitUpdateServes ==
  ASSUME Inv, NEW r \in Requests, CommitUpdate(r)
  PROVE  Service!Edit(r) \/ UNCHANGED Service!vars
<1> DEFINE q == request[r]
           s == Target(r)
<1>1. q # None /\ q \in Request /\ Fit(q) /\ q.kind = "update" /\ q.step = "committing"
  BY DEF CommitUpdate, At, Inv, TypeOK, FitInv
<1>2. s \in Students /\ s = q.student /\ q.copy \in MaybeRow
  BY <1>1 DEF Fit, Target, Request
<1>3. Continue(r, "refreshing", q.copy)
  BY DEF CommitUpdate
<1>4. CASE q.copy.data = q.data /\ UNCHANGED student
  <2>1. HadEffect(q)
    BY <1>1, <1>4 DEF HadEffect
  <2> QED
    BY <1>1, <1>2, <1>3, <1>4, <2>1, QuietStep DEF CommitUpdate, db
<1>5. CASE q.copy.data # q.data /\ Current(r) /\ Changed(r, "data", q.data)
  <2>1. /\ student[s] \in Row /\ student[s] = q.copy
        /\ q.expects # None => student[s] = q.expects
    BY <1>1, <1>2, <1>5, CurrentIsCopy, StudentAssumption
  <2>2. call' = [call EXCEPT ![r].done = TRUE]
    BY <1>1, <1>2, <1>3, ContinueServes DEF Inv
  <2>3. ~HadEffect(q)
    BY <1>1, <1>5 DEF HadEffect
  <2>4. /\ call[r].kind = "update" /\ call[r].student = s /\ call[r].data = q.data
        /\ call[r].expects = q.expects /\ ~call[r].done
    BY <1>1, <1>2, <2>3, CallIs DEF call
  <2>5. student' = [student EXCEPT ![s] =
                      [student[s] EXCEPT !.data = q.data, !.version_id = @ + 1]]
    <3>1. student' = [student EXCEPT ![s] = NewVersion(student[s], q.copy, "data", q.data)]
      BY <1>2, <1>5, ChangedWrites DEF Inv
    <3>2. NewVersion(student[s], q.copy, "data", q.data)
            = [student[s] EXCEPT !.data = q.data, !.version_id = @ + 1]
      BY <2>1 DEF NewVersion
    <3> QED
      BY <3>1, <3>2
  <2>6. student[s] # None
    BY <2>1, StudentAssumption
  <2> HIDE DEF s, q
  <2> QED
    BY <1>5, <2>1, <2>2, <2>4, <2>5, <2>6
    DEF Service!Edit, Service!Perform, Service!Exists, Service!Replace, call, CommitUpdate
<1> QED
  BY <1>4, <1>5 DEF CommitUpdate

LEMMA CommitDeleteServes ==
  ASSUME Inv, NEW r \in Requests, CommitDelete(r)
  PROVE  Service!Delete(r)
<1> DEFINE q == request[r]
           s == Target(r)
<1>1. q # None /\ q \in Request /\ Fit(q) /\ q.kind = "delete" /\ q.step = "committing"
  BY DEF CommitDelete, At, Inv, TypeOK, FitInv
<1>2. s \in Students /\ s = q.student /\ q.copy \in MaybeRow
  BY <1>1 DEF Fit, Target, Request
<1>3. call' = [call EXCEPT ![r].done = TRUE]
  BY <1>1, <1>2, ContinueServes DEF CommitDelete, Inv
<1>4. call[r].kind = "delete" /\ call[r].student = s /\ ~call[r].done
  BY <1>1, <1>2, CallIs DEF call, HadEffect
<1>5. student[s] # None /\ student' = [student EXCEPT ![s] = None]
  BY DEF CommitDelete, Current
<1> HIDE DEF s, q
<1> QED
  BY <1>3, <1>4, <1>5
  DEF Service!Delete, Service!Perform, Service!Exists, Service!Replace, call, CommitDelete

LEMMA CommitLinkServes ==
  ASSUME Inv, NEW r \in Requests, CommitLink(r)
  PROVE  Service!Link(r)
<1> DEFINE q == request[r]
           s == Target(r)
<1>1. q # None /\ q \in Request /\ Fit(q) /\ q.kind = "link" /\ q.step = "committing"
  BY DEF CommitLink, At, Inv, TypeOK, FitInv
<1>2. s \in Students /\ s = q.student /\ q.copy \in MaybeRow
  BY <1>1 DEF Fit, Target, Request
<1>3. call' = [call EXCEPT ![r].done = TRUE]
  BY <1>1, <1>2, ContinueServes DEF CommitLink, Inv
<1>4. call[r].kind = "link" /\ call[r].student = s /\ call[r].user = q.user /\ ~call[r].done
  BY <1>1, <1>2, CallIs DEF call, HadEffect
<1>5. student[s] \in Row /\ student[s] = q.copy /\ student[s].user_id = None
  BY <1>1, <1>2, CurrentIsCopy, StudentAssumption DEF CommitLink, Fit
<1>6. student' = [student EXCEPT ![s] =
                    [student[s] EXCEPT !.user_id = q.user, !.version_id = @ + 1]]
  <2>1. student' = [student EXCEPT ![s] = NewVersion(student[s], q.copy, "user_id", q.user)]
    BY <1>2, ChangedWrites DEF Inv, CommitLink
  <2>2. NewVersion(student[s], q.copy, "user_id", q.user)
          = [student[s] EXCEPT !.user_id = q.user, !.version_id = @ + 1]
    BY <1>5 DEF NewVersion
  <2> QED
    BY <2>1, <2>2
<1>7. /\ student[s] # None /\ q.user \in users /\ Service!StudentsOf(q.user) = {}
      /\ UNCHANGED <<issued, users>>
  BY <1>5, StudentAssumption
  DEF CommitLink, Unlinked, LinkedTo, Service!StudentsOf, Service!Exists
<1> HIDE DEF s, q
<1> QED
  BY <1>3, <1>4, <1>5, <1>6, <1>7
  DEF Service!Link, Service!Perform, Service!Exists, Service!Replace, call

\* The students of the user are those whose link the transaction clears.
LEMMA CommitUserDeleteServes ==
  ASSUME Inv, NEW r \in Requests, CommitUserDelete(r)
  PROVE  Service!RemoveUser(r)
<1> DEFINE q == request[r]
           s == Target(r)
           Freed(row) == [row EXCEPT !.user_id = None, !.version_id = @ + 1]
<1>1. q # None /\ q \in Request /\ Fit(q) /\ q.kind = "delete_user" /\ q.step = "committing"
  BY DEF CommitUserDelete, At, Inv, TypeOK, FitInv
<1>2. call' = [call EXCEPT ![r] = [kind |-> "none"]]
  BY CallMoves DEF CommitUserDelete, Respond, Inv, CallOf
<1>3. call[r].kind = "delete_user" /\ call[r].user = q.user
  BY <1>1, CallIs DEF call
<1>4. Service!StudentsOf(q.user) = LinkedTo(q.user)
  BY DEF LinkedTo, Service!StudentsOf, Service!Exists
<1>5. student' = [t \in Students |-> IF t \in LinkedTo(q.user) THEN Freed(student[t])
                                     ELSE student[t]]
  <2>1. CASE s = None /\ LinkedTo(q.user) = {} /\ UNCHANGED student
    BY <2>1 DEF Inv, TypeOK
  <2>2. CASE s # None /\ Current(r) /\ LinkedTo(q.user) \subseteq {s}
             /\ Changed(r, "user_id", None)
    <3>1. /\ s \in Students /\ student[s] \in Row /\ student[s] = q.copy
          /\ student[s].user_id = q.user
      BY <1>1, <2>2, CurrentIsCopy DEF Fit, Target
    <3>2. LinkedTo(q.user) = {s}
      BY <2>2, <3>1, StudentAssumption DEF LinkedTo
    <3>3. student' = [student EXCEPT ![s] = NewVersion(student[s], q.copy, "user_id", None)]
      BY <2>2, <3>1, ChangedWrites DEF Inv
    <3>4. NewVersion(student[s], q.copy, "user_id", None) = Freed(student[s])
      BY <3>1 DEF NewVersion
    <3> HIDE DEF s, q, Freed
    <3> QED
      BY <3>1, <3>2, <3>3, <3>4 DEF Inv, TypeOK
  <2> QED
    BY <2>1, <2>2 DEF CommitUserDelete
<1>6. users' = users \ {q.user} /\ UNCHANGED issued
  BY DEF CommitUserDelete
<1> HIDE DEF s, q
<1> QED
  BY <1>2, <1>3, <1>4, <1>5, <1>6 DEF Service!RemoveUser, Service!Idle, call

LEMMA StepServes ==
  ASSUME Inv, Next
  PROVE  Service!Next \/ UNCHANGED Service!vars
<1> DEFINE Goal == Service!Next \/ UNCHANGED Service!vars
<1>0. /\ \A r \in Requests : request[r] # None => request[r] \in Request /\ Fit(request[r])
      /\ None \in MaybeRow
  BY DEF Inv, TypeOK, FitInv, MaybeRow
<1>1. ASSUME NEW s \in Students, NEW d \in Values, CreateStudent(s, d) PROVE Service!Create(s)
  <2>1. call' = call
    BY <1>1 DEF CreateStudent, call, CallOf, HadEffect
  <2> DEFINE row == [version_id |-> 1, user_id |-> None, data |-> d]
  <2>2. row.version_id = 1 /\ row.user_id = None
    OBVIOUS
  <2>3. /\ student' = [student EXCEPT ![s] = row]
        /\ s \notin issued /\ issued' = issued \cup {s} /\ users' = users
    BY <1>1 DEF CreateStudent
  <2> HIDE DEF row
  <2>4. student'[s] = row
    BY <2>3 DEF Inv, TypeOK
  <2> QED
    BY <2>1, <2>2, <2>3, <2>4 DEF Service!Create, call
<1>2. ASSUME NEW r \in Requests, request[r] # None, UNCHANGED db,
             Respond(r) \/ (\E row : Answer(r, row))
      PROVE  Goal
  BY <1>2, ReplyServes DEF Respond, Answer, Inv, Service!Next
<1>3. ASSUME NEW r \in Requests,
             SendWrite(r) \/ (\E s \in issued : SendRead(r, s))
      PROVE  Goal
  BY <1>3, SendsServe DEF Service!Next
<1>4. ASSUME NEW r \in Requests, ReadCached(r) \/ QueryStudent(r) PROVE Goal
  <2>1. /\ request[r] # None /\ request[r].kind = "read"
        /\ request[r].step \in {"looking", "querying"}
    BY <1>4 DEF ReadCached, QueryStudent, At
  <2>2. student[Target(r)] \in MaybeRow /\ ~HadEffect(request[r])
    BY <1>0, <2>1 DEF Fit, Target, Request, Inv, TypeOK, HadEffect
  <2> QED
    BY <1>0, <1>2, <1>4, <2>1, <2>2, QuietStep DEF ReadCached, QueryStudent
<1>5. ASSUME NEW r \in Requests, ReadForDelete(r) \/ ReadForLink(r) \/ CheckLink(r) PROVE Goal
  <2>1. /\ request[r] # None /\ request[r].kind \in {"delete", "link"}
        /\ request[r].step \in {"reading", "checking"}
    BY <1>5 DEF ReadForDelete, ReadForLink, CheckLink, At
  <2>2. /\ student[Target(r)] \in MaybeRow /\ request[r].copy \in MaybeRow
        /\ ~HadEffect(request[r])
    BY <1>0, <2>1 DEF Fit, Target, Request, Inv, TypeOK, HadEffect
  <2> QED
    BY <1>2, <1>5, <2>1, <2>2, QuietStep DEF ReadForDelete, ReadForLink, CheckLink
<1>6. ASSUME NEW r \in Requests, ReadForUserDelete(r) PROVE Goal
  <2> DEFINE q == request[r]
  <2>1. /\ q # None /\ q \in Request /\ q.kind = "delete_user" /\ q.step = "reading"
        /\ ~HadEffect(q)
    BY <1>0, <1>6 DEF ReadForUserDelete, At, HadEffect
  <2>2. CASE Respond(r)
    BY <1>2, <1>6, <2>1, <2>2 DEF ReadForUserDelete
  <2>3. CASE Continue(r, "committing", None)
    BY <1>0, <1>6, <2>1, <2>3, QuietStep DEF ReadForUserDelete
  <2>4. ASSUME NEW s \in LinkedTo(q.user),
               request' = [request EXCEPT ![r].student = s, ![r].step = "committing",
                                          ![r].copy = student[s]]
        PROVE  Goal
    <3> DEFINE x == [q EXCEPT !.student = s, !.step = "committing", !.copy = student[s]]
    <3>1. s \in Students /\ student[s] \in MaybeRow
      BY DEF LinkedTo, Inv, TypeOK
    <3>2. x \in Request
      BY <2>1, <3>1 DEF Request
    <3>3. /\ x.kind = q.kind /\ x.user = q.user /\ x.data = q.data
          /\ x.expects = q.expects /\ x.step = "committing"
      BY <2>1 DEF Request
    <3>4. CallOf(x) = CallOf(q)
      BY <2>1, <3>2, <3>3, SameCall DEF HadEffect
    <3>5. call' = [call EXCEPT ![r] = CallOf(x)]
      <4>1. request' = [request EXCEPT ![r] = x]
        BY <2>4 DEF Inv, TypeOK
      <4> HIDE DEF x
      <4> QED
        BY <4>1, CallMoves DEF Inv
    <3> HIDE DEF x
    <3>6. call' = call
      BY <3>4, <3>5 DEF call
    <3> QED
      BY <1>6, <3>6 DEF ReadForUserDelete, Service!vars, call, db
  <2> QED
    BY <1>6, <2>2, <2>3, <2>4 DEF ReadForUserDelete
<1>7. ASSUME NEW r \in Requests, RefreshCopy(r) PROVE Goal
  <2>1. /\ request[r] # None /\ request[r].kind \in {"update", "link"}
        /\ request[r].step = "refreshing"
    BY <1>7 DEF RefreshCopy, At
  <2>2. student[Target(r)] \in MaybeRow /\ HadEffect(request[r])
    BY <1>0, <2>1 DEF Fit, Target, Request, Inv, TypeOK, HadEffect
  <2> QED
    BY <1>2, <1>7, <2>1, <2>2, QuietStep DEF RefreshCopy
<1>8. ASSUME NEW r \in Requests,
             WriteCached(r) \/ CommitRefused(r) \/ InvalidateCached(r) \/ Abort(r)
      PROVE  Goal
  BY <1>2, <1>8 DEF WriteCached, CommitRefused, InvalidateCached, Abort, At
<1>9. ASSUME NEW s \in Students, CacheExpires(s) PROVE Goal
  BY <1>9 DEF CacheExpires, db, Service!vars
<1>10. ASSUME NEW r \in Requests, ReadForUpdate(r) PROVE Goal
  BY <1>10, ReadForUpdateServes DEF Service!Next
<1>11. ASSUME NEW r \in Requests,
              CommitUpdate(r) \/ CommitDelete(r) \/ CommitLink(r) \/ CommitUserDelete(r)
       PROVE  Goal
  BY <1>11, CommitUpdateServes, CommitDeleteServes, CommitLinkServes, CommitUserDeleteServes
  DEF Service!Next
<1>12. ASSUME NEW s \in Students, NEW d \in Values, CreateStudent(s, d) PROVE Goal
  BY <1>1, <1>12 DEF Service!Next
<1> QED
  BY <1>3, <1>4, <1>5, <1>6, <1>7, <1>8, <1>9, <1>10, <1>11, <1>12 DEF Next, Serve

\* Every write request takes effect at one moment, on the row its author was
\* shown, and at most once.
THEOREM RecordsImplementService == Spec => ImplementsService
<1>1. Init => Service!Init
  BY DEF Init, Service!Init, Service!Idle, CallOf
<1>2. Inv /\ [Next]_vars => [Service!Next]_Service!vars
  <2>1. UNCHANGED vars => UNCHANGED Service!vars
    BY DEF vars, db, Service!vars
  <2> QED
    BY <2>1, StepServes
<1> QED
  BY <1>1, <1>2, RecordsInvCorrect, PTL DEF Spec, ImplementsService, Service!Spec

=============================================================================
