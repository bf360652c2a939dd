--------------------------- MODULE AccountService ---------------------------
(* What the API promises about accounts, with no versions, copies or locks  *)
(* in sight: clients have sessions, a session is opened under the password  *)
(* and the role the account has at that moment and ends at the moment one   *)
(* of them is changed or the account is deleted; a change asked for in a    *)
(* session takes effect at one moment, at most once, on what its form gives *)
(* and on nothing else; and the last admin stays.                           *)
(*                                                                          *)
(* A client that asks for a change of an account while another change of it *)
(* is unanswered makes the account contested.  What is promised of it is    *)
(* less from then on: a change may leave out parts of its form, the account *)
(* may be the last admin to go, and its sessions may outlive a change, come *)
(* back after one or be opened under old credentials.  E-mails stay unique, *)
(* no other account is touched, and a change of the e-mail ends no session. *)

CONSTANTS Users, Requests, None

VARIABLES
  account,   \* the accounts: role, e-mail and password, or None
  issued,    \* the ids that have been given to accounts
  sessions,  \* the sessions that are open
  call,      \* the changes that have been asked for
  contested  \* accounts that had two changes asked for at the same time

vars == <<account, issued, sessions, call, contested>>

\* No request.
Idle == [kind |-> "none"]

Existing == {u \in Users : account[u] # None}

AdminIds == {u \in Existing : account[u].role = "admin"}

Free(u, email) == \A v \in Existing \ {u} : account[v].email # email

Init ==
  /\ issued = Existing
  /\ AdminIds # {}
  /\ \A u \in Existing : Free(u, account[u].email)
  /\ sessions = {}
  /\ call = [r \in Requests |-> Idle]
  /\ contested = {}

\* A new account has an id no account has had and an e-mail nobody else has.
Register(u) ==
  /\ u \notin issued
  /\ issued' = issued \cup {u}
  /\ \E row \in {account'[u]} :
       /\ Free(u, row.email)
       /\ account' = [account EXCEPT ![u] = row]
  /\ UNCHANGED <<sessions, call, contested>>

LogIn(u) ==
  /\ u \in Existing
  /\ \E s \in sessions' :
       /\ s.user = u
       /\ u \notin contested => s.role = account[u].role /\ s.password = account[u].password
       /\ sessions' = sessions \cup {s}
  /\ UNCHANGED <<account, issued, call, contested>>

\* A change of the account has been asked for and not answered.
Asked(u) == \E r \in Requests : call[r] # Idle /\ call[r].user = u

\* Only who has a session asks for changes: of the own account, or as admin.
Arrive(r) ==
  /\ call[r] = Idle
  /\ \E q \in {call'[r]}, s \in sessions :
       /\ q.kind # "none"
       /\ IF q.kind = "update_user_me" THEN s.user = q.user ELSE s.user \in AdminIds
       /\ call' = [call EXCEPT ![r] = q]
       /\ contested' = contested \cup {u \in {q.user} : Asked(u)}
  /\ UNCHANGED <<account, issued, sessions>>

Answer(r) == call' = [call EXCEPT ![r] = Idle]

\* A change of the account ends its sessions and no others.
EndSessions(u) ==
  /\ {s \in sessions' : s.user # u} = {s \in sessions : s.user # u}
  /\ u \notin contested => \A s \in sessions' : s.user # u

\* The account may lose the role of an admin, or be deleted.
Dispensable(u) == AdminIds \ {u} # {} \/ u \in contested

\* What the form leaves out stays as it is.
Edited(row, q) ==
  [role     |-> IF q.role = None THEN row.role ELSE q.role,
   email    |-> IF q.email = None THEN row.email ELSE q.email,
   password |-> IF q.password = None THEN row.password ELSE q.password]

\* What the account may be after the change.
Outcomes(q) ==
  LET old == account[q.user]
      new == Edited(old, q)
  IN IF q.user \in contested
       THEN [role : {old.role, new.role}, email : {old.email, new.email},
             password : {old.password, new.password}]
       ELSE {new}

Edit(r) ==
  LET q == call[r] IN
    /\ q.kind \in {"update_user_me", "update_user"}
    /\ q.user \in Existing
    /\ \E row \in Outcomes(q) :
         /\ Free(q.user, row.email)
         /\ q.user \in AdminIds => row.role = "admin" \/ Dispensable(q.user)
         /\ account' = [account EXCEPT ![q.user] = row]
    /\ IF q.role = None /\ q.password = None THEN sessions' = sessions
       ELSE EndSessions(q.user)
    /\ Answer(r)
    /\ UNCHANGED <<issued, contested>>

Delete(r) ==
  LET u == call[r].user IN
    /\ call[r].kind = "delete_user"
    /\ u \in Existing
    /\ u \in AdminIds => Dispensable(u)
    /\ account' = [account EXCEPT ![u] = None]
    /\ sessions' = {s \in sessions : s.user # u}
    /\ Answer(r)
    /\ UNCHANGED <<issued, contested>>

\* An answer without effect.
Reply(r) ==
  /\ call[r] # Idle
  /\ Answer(r)
  /\ UNCHANGED <<account, issued, sessions, contested>>

Next ==
  \/ \E u \in Users : Register(u) \/ LogIn(u)
  \/ \E r \in Requests : Arrive(r) \/ Edit(r) \/ Delete(r) \/ Reply(r)

Spec == Init /\ [][Next]_vars

=============================================================================
